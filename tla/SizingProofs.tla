------------------------------ MODULE SizingProofs ----------------------------
(***************************************************************************)
(* The sizes of module Sizing, for every account, price, stop and limit:   *)
(* trimming one position at a time finds the largest allocation, the book  *)
(* an order joins respects the leverage, and what the stops of a cycle can *)
(* cost fits the risk budget.                                              *)
(*                                                                         *)
(* The last two are about sums over a bag of orders, so the sum of a       *)
(* function over a finite set comes first: that it does not depend on the  *)
(* order of the elements, and what it does when an element is added or     *)
(* when one function bounds another.  Each is an induction over the        *)
(* subsets, put as a smallest subset for which it fails.                   *)
(***************************************************************************)
EXTENDS Sizing, FiniteSetTheorems, WellFoundedInduction, TLAPS

-------------------------------------------------------------------------------
(* Sums over finite sets.                                                  *)

Lt == OpToRel(<, Nat)

\* The order of the natural numbers is well-founded.
LEMMA LtWellFounded == IsWellFoundedOn(Lt, Nat)
BY NatLessThanWellFounded DEF Lt

LEMMA LtRelates == \A x, y \in Nat : x < y => <<x, y>> \in Lt
BY DEF Lt, OpToRel

\* A set of numbers that is not empty has a least.
LEMMA LeastNumber ==
  ASSUME NEW N \in SUBSET Nat, N # {}
  PROVE  \E n \in N : \A m \in N : ~(m < n)
<1>1. PICK n \in N : \A m \in N : ~(<<m, n>> \in Lt)
  BY LtWellFounded, WFMin
<1> QED BY <1>1, LtRelates

\* Of the subsets of a finite set that are bad, one is smallest.
LEMMA SmallestSet ==
  ASSUME NEW D, IsFiniteSet(D), NEW B \in SUBSET (SUBSET D), B # {}
  PROVE  \E s \in B : \A t \in B : ~(Cardinality(t) < Cardinality(s))
<1> DEFINE N == {Cardinality(s) : s \in B}
<1>1. \A s \in B : Cardinality(s) \in Nat
  BY FS_Subset, FS_CardinalityType
<1>2. N \in SUBSET Nat /\ N # {}
  BY <1>1
<1>3. PICK n \in N : \A m \in N : ~(m < n)
  <2> HIDE DEF N
  <2> QED BY <1>2, LeastNumber
<1>4. PICK s \in B : n = Cardinality(s)
  OBVIOUS
<1>5. \A t \in B : Cardinality(t) \in N
  OBVIOUS
<1> QED BY <1>3, <1>4, <1>5

\* A set without one of its elements is smaller.
LEMMA Smaller ==
  ASSUME NEW D, IsFiniteSet(D), NEW s \in SUBSET D, NEW x \in s
  PROVE  /\ s \ {x} \in SUBSET D
         /\ Cardinality(s) \in Nat /\ Cardinality(s \ {x}) \in Nat
         /\ Cardinality(s \ {x}) = Cardinality(s) - 1
<1>1. IsFiniteSet(s)
  BY FS_Subset
<1>2. Cardinality(s \ {x}) = Cardinality(s) - 1
  BY <1>1, FS_RemoveElement
<1>3. IsFiniteSet(s \ {x})
  BY <1>1, FS_Subset
<1> QED BY <1>1, <1>2, <1>3, FS_CardinalityType

\* The fold of SumFunction.
Picked(s) == CHOOSE x \in s : TRUE
Part(f, s, g) ==
  IF s = {} THEN 0 ELSE f[Picked(s)] + g[s \ {Picked(s)}]
SumsUp(f, g) == g = [s \in SUBSET DOMAIN f |-> Part(f, s, g)]

Counts(f) == IsFiniteSet(DOMAIN f) /\ \A x \in DOMAIN f : f[x] \in Int

\* SumFunction is its fold.
LEMMA SumIsFold ==
  ASSUME NEW f, NEW g, g = CHOOSE h : SumsUp(f, h)
  PROVE  SumFunction(f) = g[DOMAIN f]
BY DEF SumFunction, SumFunctionOnSet, FoldFunctionOnSet, MapThenFoldSet,
   SumsUp, Part, Picked

\* The fold is defined on the subsets of any size.
LEMMA FoldExists ==
  ASSUME NEW f, Counts(f)
  PROVE  \E g \in [SUBSET DOMAIN f -> Int] : SumsUp(f, g)
<1> DEFINE D == DOMAIN f
           Level(n) == {s \in SUBSET D : Cardinality(s) <= n}
           Good(n) == \E g \in [Level(n) -> Int] :
                        \A s \in Level(n) : g[s] = Part(f, s, g)
           Bad == {n \in Nat : ~Good(n)}
<1>0. IsFiniteSet(D)
  BY DEF Counts
<1>1. ASSUME NEW s \in SUBSET D, s # {}
      PROVE  /\ Picked(s) \in s /\ f[Picked(s)] \in Int
             /\ s \ {Picked(s)} \in SUBSET D
             /\ Cardinality(s) \in Nat
             /\ Cardinality(s \ {Picked(s)}) = Cardinality(s) - 1
  <2>1. Picked(s) \in s
    BY <1>1 DEF Picked
  <2>2. f[Picked(s)] \in Int
    BY <2>1 DEF Counts
  <2> QED BY <1>0, <2>1, <2>2, Smaller
<1>2. Good(0)
  <2>1. ASSUME NEW s \in Level(0) PROVE s = {}
    <3>1. s \in SUBSET D /\ Cardinality(s) <= 0
      OBVIOUS
    <3>2. IsFiniteSet(s)
      BY <1>0, <3>1, FS_Subset
    <3>3. Cardinality(s) = 0
      BY <3>1, <3>2, FS_CardinalityType
    <3> QED BY <3>2, <3>3, FS_EmptySet
  <2>2. PICK z \in Int : z = 0
    OBVIOUS
  <2>3. PICK g : g = [s \in Level(0) |-> z]
    OBVIOUS
  <2>4. g \in [Level(0) -> Int]
    BY <2>3
  <2>5. \A s \in Level(0) : g[s] = Part(f, s, g)
    <3> HIDE DEF Level
    <3> QED BY <2>1, <2>2, <2>3 DEF Part
  <2> QED BY <2>4, <2>5
<1>3. Bad = {}
  <2> SUFFICES ASSUME Bad # {} PROVE FALSE
    OBVIOUS
  <2>1. PICK n \in Bad : \A m \in Bad : ~(m < n)
    <3> Bad \in SUBSET Nat
      OBVIOUS
    <3> HIDE DEF Bad
    <3> QED BY LeastNumber
  <2>2. n \in Nat /\ n # 0 /\ ~Good(n)
    BY <1>2, <2>1
  <2>3. PICK m \in Nat : n = m + 1
    <3>1. n - 1 \in Nat /\ n = (n - 1) + 1
      BY <2>2
    <3> QED BY <3>1
  <2>4. Good(m)
    <3>1. m < n
      BY <2>3
    <3> HIDE DEF Good
    <3> QED BY <2>1, <3>1
  <2>5. PICK g \in [Level(m) -> Int] :
            \A s \in Level(m) : g[s] = Part(f, s, g)
    BY <2>4
  <2>6. ASSUME NEW s \in Level(n), s # {}
        PROVE  s \ {Picked(s)} \in Level(m)
    <3>1. s \in SUBSET D /\ Cardinality(s) <= n
      OBVIOUS
    <3>2. Cardinality(s) - 1 <= m
      <4>1. Cardinality(s) \in Nat
        BY <1>1, <2>6, <3>1
      <4> QED BY <2>3, <3>1, <4>1
    <3> QED BY <1>1, <2>6, <3>1, <3>2
  <2>7. PICK h : h = [s \in Level(n) |-> Part(f, s, g)]
    OBVIOUS
  <2>8. h \in [Level(n) -> Int]
    <3>1. ASSUME NEW s \in Level(n) PROVE Part(f, s, g) \in Int
      <4>1. CASE s = {}
        BY <4>1 DEF Part
      <4>2. CASE s # {}
        <5>1. g[s \ {Picked(s)}] \in Int
          BY <2>6, <4>2
        <5>2. f[Picked(s)] \in Int
          BY <1>1, <4>2
        <5> QED BY <4>2, <5>1, <5>2 DEF Part
      <4> QED BY <4>1, <4>2
    <3> HIDE DEF Level
    <3> QED BY <2>7, <3>1
  <2>9. ASSUME NEW s \in Level(n) PROVE h[s] = Part(f, s, h)
    <3>1. h[s] = Part(f, s, g)
      BY <2>7
    <3>2. CASE s = {}
      BY <3>1, <3>2 DEF Part
    <3>3. CASE s # {}
      <4>1. PICK t : t = s \ {Picked(s)}
        OBVIOUS
      <4>2. t \in Level(m) /\ t \in Level(n)
        <5>1. t \in Level(m)
          BY <2>6, <3>3, <4>1
        <5>2. Cardinality(t) \in Nat
          BY <1>0, <5>1, FS_Subset, FS_CardinalityType
        <5> QED BY <2>3, <5>1, <5>2
      <4>3. h[t] = Part(f, t, g) /\ g[t] = Part(f, t, g)
        <5> HIDE DEF Level
        <5> QED BY <2>5, <2>7, <4>2
      <4> QED BY <3>1, <3>3, <4>1, <4>3 DEF Part
    <3> QED BY <3>2, <3>3
  <2>10. Good(n)
    <3> HIDE DEF Level
    <3> QED BY <2>8, <2>9
  <2> QED BY <2>2, <2>10
<1>4. PICK n \in Nat : n = Cardinality(D)
  BY <1>0, FS_CardinalityType
<1>5. Level(n) = SUBSET D
  <2>1. ASSUME NEW s \in SUBSET D PROVE Cardinality(s) <= n
    BY <1>0, <1>4, FS_Subset
  <2> QED BY <2>1
<1>6. Good(n)
  <2> HIDE DEF Good
  <2> QED BY <1>3
<1>7. PICK g \in [Level(n) -> Int] :
          \A s \in Level(n) : g[s] = Part(f, s, g)
  BY <1>6
<1>8. /\ g \in [SUBSET DOMAIN f -> Int]
      /\ \A s \in SUBSET DOMAIN f : g[s] = Part(f, s, g)
  <2> HIDE DEF Level
  <2> QED BY <1>5, <1>7
<1> QED BY <1>8 DEF SumsUp

\* What the fold is on any subset, whichever element is taken out of it.
Adds(f, g) ==
  /\ g \in [SUBSET DOMAIN f -> Int] /\ g[{}] = 0
  /\ \A s \in SUBSET DOMAIN f : \A x \in s : g[s] = f[x] + g[s \ {x}]

\* A sum does not depend on the order in which it is taken.
LEMMA SumAdds ==
  ASSUME NEW f, Counts(f)
  PROVE  \E g : Adds(f, g) /\ SumFunction(f) = g[DOMAIN f]
<1> DEFINE D == DOMAIN f
<1>1. PICK g : g = CHOOSE h : SumsUp(f, h)
  OBVIOUS
<1>2. SumsUp(f, g) /\ g \in [SUBSET D -> Int]
  <2>1. PICK h \in [SUBSET D -> Int] : SumsUp(f, h)
    BY FoldExists
  <2>2. SumsUp(f, g)
    BY <1>1, <2>1
  <2>3. DOMAIN g = SUBSET D
    BY <2>2 DEF SumsUp
  <2> DEFINE B == {s \in SUBSET D : g[s] \notin Int}
  <2>4. B = {}
    <3> SUFFICES ASSUME B # {} PROVE FALSE
      OBVIOUS
    <3>1. B \in SUBSET (SUBSET D)
      OBVIOUS
    <3>2. PICK s \in B : \A t \in B : ~(Cardinality(t) < Cardinality(s))
      <4> HIDE DEF B
      <4> QED BY <3>1, SmallestSet DEF Counts
    <3>3. s # {}
      BY <2>2 DEF SumsUp, Part
    <3>4. Picked(s) \in s
      BY <3>3 DEF Picked
    <3>5. PICK t : t = s \ {Picked(s)}
      OBVIOUS
    <3>6. /\ t \in SUBSET D /\ Cardinality(s) \in Nat
          /\ Cardinality(t) = Cardinality(s) - 1
      BY <3>4, <3>5, Smaller DEF Counts
    <3>7. t \notin B
      <4>1. Cardinality(t) < Cardinality(s)
        BY <3>6
      <4> QED BY <3>2, <4>1
    <3>8. g[t] \in Int /\ f[Picked(s)] \in Int
      BY <3>4, <3>6, <3>7 DEF Counts
    <3>9. g[s] = f[Picked(s)] + g[t]
      BY <2>2, <3>3, <3>5 DEF SumsUp, Part
    <3> QED BY <3>8, <3>9
  <2>5. \A s \in SUBSET D : g[s] \in Int
    BY <2>4
  <2>6. g = [s \in SUBSET D |-> g[s]]
    BY <2>2 DEF SumsUp
  <2> HIDE DEF B, D
  <2> QED BY <2>2, <2>5, <2>6
<1>3. \A s \in SUBSET D : g[s] = Part(f, s, g)
  BY <1>2 DEF SumsUp
<1>4. g[{}] = 0
  BY <1>3 DEF Part
<1> DEFINE B == {s \in SUBSET D : \E x \in s : g[s] # f[x] + g[s \ {x}]}
<1>5. B = {}
  <2> SUFFICES ASSUME B # {} PROVE FALSE
    OBVIOUS
  <2>1. B \in SUBSET (SUBSET D)
    OBVIOUS
  <2>2. PICK s \in B : \A t \in B : ~(Cardinality(t) < Cardinality(s))
    <3> HIDE DEF B
    <3> QED BY <2>1, SmallestSet DEF Counts
  <2>3. PICK x \in s : g[s] # f[x] + g[s \ {x}]
    OBVIOUS
  <2>4. PICK c : c = Picked(s)
    OBVIOUS
  <2>5. c \in s /\ g[s] = f[c] + g[s \ {c}]
    BY <1>3, <2>3, <2>4 DEF Part, Picked
  <2>6. x # c
    BY <2>3, <2>5
  <2>7. ASSUME NEW y \in s, NEW z \in s, y # z
        PROVE  /\ g[s \ {y}] = f[z] + g[(s \ {y}) \ {z}]
               /\ f[y] \in Int /\ g[(s \ {y}) \ {z}] \in Int
    <3>1. /\ s \ {y} \in SUBSET D /\ Cardinality(s) \in Nat
          /\ Cardinality(s \ {y}) = Cardinality(s) - 1
      BY Smaller DEF Counts
    <3>2. s \ {y} \notin B
      <4>1. Cardinality(s \ {y}) < Cardinality(s)
        BY <3>1
      <4> HIDE DEF B
      <4> QED BY <2>2, <4>1
    <3>3. z \in s \ {y} /\ (s \ {y}) \ {z} \in SUBSET D
      BY <2>7
    <3> QED BY <1>2, <3>1, <3>2, <3>3 DEF Counts
  <2>8. (s \ {c}) \ {x} = (s \ {x}) \ {c}
    OBVIOUS
  <2>9. PICK r \in Int : r = g[(s \ {c}) \ {x}]
    BY <2>5, <2>6, <2>7
  <2>10. g[s \ {c}] = f[x] + r /\ g[s \ {x}] = f[c] + r
    BY <2>5, <2>6, <2>7, <2>8, <2>9
  <2>11. f[x] \in Int /\ f[c] \in Int
    BY <2>5, <2>6, <2>7
  <2> QED BY <2>3, <2>5, <2>10, <2>11
<1>6. \A s \in SUBSET D : \A x \in s : g[s] = f[x] + g[s \ {x}]
  BY <1>5
<1> QED BY <1>1, <1>2, <1>4, <1>6, SumIsFold DEF Adds

\* One element can be taken out of a sum.
LEMMA TakenOut ==
  ASSUME NEW f, Counts(f), NEW x \in DOMAIN f,
         NEW r, r = [y \in DOMAIN f \ {x} |-> f[y]]
  PROVE  /\ Counts(r) /\ SumFunction(f) = f[x] + SumFunction(r)
         /\ SumFunction(f) \in Int /\ SumFunction(r) \in Int
<1> DEFINE D == DOMAIN f \ {x}
<1>1. DOMAIN r = D /\ (\A y \in D : r[y] = f[y]) /\ D \in SUBSET DOMAIN f
  OBVIOUS
<1>2. Counts(r) /\ IsFiniteSet(D)
  BY <1>1, FS_Subset DEF Counts
<1>3. PICK g : Adds(f, g) /\ SumFunction(f) = g[DOMAIN f]
  BY SumAdds
<1>4. PICK h : Adds(r, h) /\ SumFunction(r) = h[D]
  BY <1>1, <1>2, SumAdds
<1> DEFINE B == {s \in SUBSET D : g[s] # h[s]}
<1>5. B = {}
  <2> SUFFICES ASSUME B # {} PROVE FALSE
    OBVIOUS
  <2>1. B \in SUBSET (SUBSET D)
    OBVIOUS
  <2>2. PICK s \in B : \A t \in B : ~(Cardinality(t) < Cardinality(s))
    <3> HIDE DEF B, D
    <3> QED BY <1>2, <2>1, SmallestSet
  <2>3. s # {}
    BY <1>3, <1>4 DEF Adds
  <2>4. PICK y \in s : TRUE
    BY <2>3
  <2>5. /\ s \ {y} \in SUBSET D /\ Cardinality(s) \in Nat
        /\ Cardinality(s \ {y}) = Cardinality(s) - 1
    <3> HIDE DEF D
    <3> QED BY <1>2, Smaller DEF B
  <2>6. g[s \ {y}] = h[s \ {y}]
    <3>1. Cardinality(s \ {y}) < Cardinality(s)
      BY <2>5
    <3>2. s \ {y} \notin B
      <4> HIDE DEF B
      <4> QED BY <2>2, <3>1
    <3> QED BY <2>5, <3>2
  <2>7. g[s] = f[y] + g[s \ {y}]
    BY <1>3 DEF Adds
  <2>8. h[s] = r[y] + h[s \ {y}]
    BY <1>1, <1>4 DEF Adds
  <2> QED BY <1>1, <2>6, <2>7, <2>8
<1>6. g[D] = h[D]
  BY <1>5
<1>7. g[DOMAIN f] = f[x] + g[D]
  BY <1>3 DEF Adds
<1>8. g[DOMAIN f] \in Int /\ h[D] \in Int
  BY <1>1, <1>3, <1>4 DEF Adds
<1> QED BY <1>2, <1>3, <1>4, <1>6, <1>7, <1>8

\* A sum is a number, and nothing when there is nothing to add.
LEMMA SumTypes ==
  ASSUME NEW f, Counts(f)
  PROVE  SumFunction(f) \in Int /\ (DOMAIN f = {} => SumFunction(f) = 0)
<1>1. PICK g : Adds(f, g) /\ SumFunction(f) = g[DOMAIN f]
  BY SumAdds
<1> QED BY <1>1 DEF Adds

\* A sum changes by what one of its elements, which may be new, changes.
LEMMA Changed ==
  ASSUME NEW f, Counts(f), f = [y \in DOMAIN f |-> f[y]],
         NEW g, NEW x, NEW d \in Int,
         DOMAIN g = DOMAIN f \union {x},
         \A y \in DOMAIN f \ {x} : g[y] = f[y],
         g[x] = d + IF x \in DOMAIN f THEN f[x] ELSE 0
  PROVE  Counts(g) /\ SumFunction(g) = SumFunction(f) + d
<1>1. Counts(g)
  <2>1. IsFiniteSet(DOMAIN g)
    BY FS_AddElement DEF Counts
  <2>2. ASSUME NEW y \in DOMAIN g PROVE g[y] \in Int
    BY DEF Counts
  <2> QED BY <2>1, <2>2 DEF Counts
<1>2. PICK r : r = [y \in DOMAIN g \ {x} |-> g[y]]
  OBVIOUS
<1>3. /\ SumFunction(g) = g[x] + SumFunction(r) /\ SumFunction(r) \in Int
  BY <1>1, <1>2, TakenOut
<1>4. CASE x \in DOMAIN f
  <2>1. r = [y \in DOMAIN f \ {x} |-> f[y]]
    BY <1>2, <1>4
  <2>2. SumFunction(f) = f[x] + SumFunction(r)
    BY <1>4, <2>1, TakenOut
  <2>3. f[x] \in Int /\ g[x] = d + f[x]
    BY <1>4 DEF Counts
  <2> QED BY <1>1, <1>3, <2>2, <2>3
<1>5. CASE x \notin DOMAIN f
  <2>1. DOMAIN r = DOMAIN f /\ \A y \in DOMAIN f : r[y] = f[y]
    BY <1>2, <1>5
  <2>2. r = f
    BY <1>2, <1>5, <2>1
  <2>3. g[x] = d
    BY <1>5
  <2> QED BY <1>1, <1>3, <2>2, <2>3
<1> QED BY <1>4, <1>5

\* What bounds every element bounds the sum; what has no counterpart must not
\* count against the bound.
LEMMA Bounded ==
  ASSUME NEW f, NEW g, Counts(f), Counts(g), DOMAIN f \subseteq DOMAIN g,
         NEW a \in Int, NEW b \in Int,
         \A x \in DOMAIN f : a * f[x] <= b * g[x],
         \A x \in DOMAIN g \ DOMAIN f : 0 <= b * g[x]
  PROVE  a * SumFunction(f) <= b * SumFunction(g)
<1> DEFINE D == DOMAIN g
           In(s) == s \cap DOMAIN f
<1>1. PICK u : Adds(f, u) /\ SumFunction(f) = u[DOMAIN f]
  BY SumAdds
<1>2. PICK v : Adds(g, v) /\ SumFunction(g) = v[D]
  BY SumAdds
<1> DEFINE B == {s \in SUBSET D : ~(a * u[In(s)] <= b * v[s])}
<1>3. B = {}
  <2> SUFFICES ASSUME B # {} PROVE FALSE
    OBVIOUS
  <2>1. B \in SUBSET (SUBSET D) /\ IsFiniteSet(D)
    BY DEF Counts
  <2>2. PICK s \in B : \A t \in B : ~(Cardinality(t) < Cardinality(s))
    <3> HIDE DEF B, D
    <3> QED BY <2>1, SmallestSet
  <2>3. s # {}
    <3>1. In({}) = {} /\ u[{}] = 0 /\ v[{}] = 0
      BY <1>1, <1>2 DEF Adds
    <3>2. a * 0 <= b * 0
      OBVIOUS
    <3> QED BY <3>1, <3>2
  <2>4. PICK x \in s : TRUE
    BY <2>3
  <2>5. PICK t : t = s \ {x}
    OBVIOUS
  <2>6. t \in SUBSET D /\ Cardinality(t) < Cardinality(s)
    <3>1. /\ t \in SUBSET D /\ Cardinality(s) \in Nat
          /\ Cardinality(t) = Cardinality(s) - 1
      <4> HIDE DEF D
      <4> QED BY <2>1, <2>5, Smaller DEF B
    <3> QED BY <3>1
  <2>7. a * u[In(t)] <= b * v[t]
    <3>1. t \notin B
      <4> HIDE DEF B
      <4> QED BY <2>2, <2>6
    <3> QED BY <2>6, <3>1
  <2>8. v[s] = g[x] + v[t]
    BY <1>2, <2>5 DEF Adds
  <2>9. /\ v[t] \in Int /\ u[In(t)] \in Int /\ g[x] \in Int
    <3>1. In(t) \in SUBSET DOMAIN f /\ x \in D
      OBVIOUS
    <3> QED BY <1>1, <1>2, <2>6, <3>1 DEF Adds, Counts
  <2>10. PICK n \in Int, m \in Int, k \in Int :
            n = v[t] /\ m = u[In(t)] /\ k = g[x]
    BY <2>9
  <2>11. b * v[s] = b * k + b * n
    BY <2>8, <2>10
  <2>12. CASE x \in DOMAIN f
    <3>1. In(s) \in SUBSET DOMAIN f /\ x \in In(s) /\ In(s) \ {x} = In(t)
      BY <2>5, <2>12
    <3>2. u[In(s)] = f[x] + u[In(t)]
      <4> HIDE DEF In
      <4> QED BY <1>1, <3>1 DEF Adds
    <3>3. PICK j \in Int : j = f[x]
      BY <2>12 DEF Counts
    <3>4. a * u[In(s)] = a * j + a * m
      BY <2>10, <3>2, <3>3
    <3>5. a * j <= b * k /\ a * m <= b * n
      BY <2>7, <2>10, <2>12, <3>3
    <3>6. \A p, q, y, z \in Int : p <= q /\ y <= z => p + y <= q + z
      OBVIOUS
    <3>7. a * j + a * m <= b * k + b * n
      <4>1. a * j \in Int /\ a * m \in Int /\ b * k \in Int /\ b * n \in Int
        OBVIOUS
      <4> QED BY <3>5, <3>6, <4>1
    <3>8. a * u[In(s)] <= b * v[s]
      <4> HIDE DEF In
      <4> QED BY <2>11, <3>4, <3>7
    <3> QED BY <3>8
  <2>13. CASE x \notin DOMAIN f
    <3>1. In(s) = In(t)
      BY <2>5, <2>13
    <3>2. 0 <= b * k /\ a * m <= b * n
      BY <2>7, <2>10, <2>13
    <3>3. \A p, q, z \in Int : p <= q /\ 0 <= z => p <= z + q
      OBVIOUS
    <3>4. a * m <= b * k + b * n
      <4>1. a * m \in Int /\ b * k \in Int /\ b * n \in Int
        OBVIOUS
      <4> QED BY <3>2, <3>3, <4>1
    <3>5. a * u[In(s)] <= b * v[s]
      <4> HIDE DEF In
      <4> QED BY <2>10, <2>11, <3>1, <3>4
    <3> QED BY <3>5
  <2> QED BY <2>12, <2>13
<1>4. D \in SUBSET D /\ In(D) = DOMAIN f
  OBVIOUS
<1>5. a * u[In(D)] <= b * v[D]
  BY <1>3
<1> QED BY <1>1, <1>2, <1>4, <1>5

-------------------------------------------------------------------------------
(* The allocation.                                                         *)

Most == Fresh(acct).slots
AllocTypes ==
  /\ acct \in Accounts /\ alloc \in [slots : Nat, upsized : BOOLEAN]
  /\ at \in {"minimum", "leverage", "cycle", "over"}
\* No larger count is viable.
NoneAbove == \A k \in (alloc.slots + 1) .. Most : ~Viable(k)
Trims ==
  ~alloc.upsized =>
    /\ at # "over" => alloc.slots \in 1 .. Most
    /\ at \in {"minimum", "leverage"} => NoneAbove
    /\ at = "leverage" => Leq(Minimum, NotionalOf(alloc.slots))
AllocInv ==
  /\ AllocTypes /\ Trims /\ (at = "minimum" => ~alloc.upsized)
  /\ AllocationIsLargest

LEMMA LeastOfTwo ==
  ASSUME NEW a \in Nat \ {0}, NEW b \in Nat \ {0}
  PROVE  Min({a, b}) \in Nat \ {0}
<1>1. \E x \in {a, b} : \A y \in {a, b} : x =< y
  OBVIOUS
<1>2. Min({a, b}) \in {a, b}
  BY <1>1 DEF Min
<1> QED BY <1>2

\* The largest of a set of numbers, once it is known.
LEMMA MaxIs ==
  ASSUME NEW S, NEW m \in S, S \subseteq Int, \A y \in S : m >= y
  PROVE  Max(S) = m
<1>1. PICK x : x = Max(S)
  OBVIOUS
<1>2. x \in S /\ \A y \in S : x >= y
  BY <1>1 DEF Max
<1>3. x >= m /\ m >= x /\ x \in Int /\ m \in Int
  BY <1>2
<1> QED BY <1>1, <1>3

LEMMA AccountTypes ==
  ASSUME NEW a \in Accounts
  PROVE  /\ a.equity \in Nat \ {0} /\ a.eligible \in Nat \ {0}
         /\ a.leverage \in Nat \ {0}
         /\ Fresh(a).slots \in Nat \ {0} /\ Fresh(a).upsized = FALSE
         /\ Fresh(a) \in [slots : Nat, upsized : BOOLEAN]
<1>1. /\ a.equity \in Nat \ {0} /\ a.eligible \in Nat \ {0}
      /\ a.leverage \in Nat \ {0}
  BY AccountAssumption, SettingsAssumption DEF Accounts
<1>2. Min({a.eligible, HardCap}) \in Nat \ {0}
  BY <1>1, SettingsAssumption, LeastOfTwo DEF PortfolioSettings
<1> QED BY <1>1, <1>2 DEF Fresh

\* A product with a positive number keeps an order.
LEMMA Mono ==
  \A a, b, c \in Nat : a <= b => a * c <= b * c
<1> SUFFICES ASSUME NEW a \in Nat, NEW b \in Nat, NEW c \in Nat, a <= b
             PROVE  a * c <= b * c
  OBVIOUS
<1>1. PICK d \in Nat : b = a + d
  <2>1. b - a \in Nat /\ b = a + (b - a)
    OBVIOUS
  <2> QED BY <2>1
<1>2. b * c = a * c + d * c /\ d * c \in Nat /\ a * c \in Nat
  BY <1>1
<1> QED BY <1>2

\* And it can be taken off both sides.
LEMMA Cancel ==
  \A a, b, c \in Int : c > 0 /\ a * c <= b * c => a <= b
<1> SUFFICES ASSUME NEW a \in Int, NEW b \in Int, NEW c \in Int, c > 0,
                    a * c <= b * c, ~(a <= b)
             PROVE  FALSE
  OBVIOUS
<1>1. PICK d \in Nat, e \in Nat : a = b + d + 1 /\ c = e + 1
  <2>1. a - b - 1 \in Nat /\ c - 1 \in Nat
    OBVIOUS
  <2>2. a = b + (a - b - 1) + 1 /\ c = (c - 1) + 1
    OBVIOUS
  <2> QED BY <2>1, <2>2
<1>2. a * c = b * c + d * c + c
  BY <1>1
<1>3. d * c \in Nat /\ b * c \in Int
  BY <1>1
<1> QED BY <1>2, <1>3

\* What k positions risk is a fraction.
LEMMA RiskTypes ==
  ASSUME NEW k \in Nat \ {0}
  PROVE  /\ RiskOf(k) \in [num : Nat \ {0}, den : Nat \ {0}]
         /\ RiskOf(k).num * k <= BudgetPct * RiskOf(k).den
BY SettingsAssumption DEF RiskOf, Lesser, Leq, RiskSettings

LEMMA NotionalTypes ==
  ASSUME NEW k \in Nat \ {0}, acct \in Accounts
  PROVE  NotionalOf(k) \in [num : Nat \ {0}, den : Nat \ {0}]
<1>1. PICK e \in Nat \ {0} : e = acct.equity
  BY AccountTypes
<1>2. PICK n \in Nat \ {0}, d \in Nat \ {0} :
         n = RiskOf(k).num /\ d = RiskOf(k).den
  BY RiskTypes
<1>3. StopPct \in Nat \ {0}
  BY SettingsAssumption DEF RiskSettings
<1>4. \A a, b \in Nat \ {0} : a * b \in Nat \ {0}
  OBVIOUS
<1>5. e * n \in Nat \ {0} /\ d * StopPct \in Nat \ {0}
  BY <1>3, <1>4
<1> QED BY <1>1, <1>2, <1>5 DEF NotionalOf

\* Fewer positions are worth no less each.
LEMMA FewerAreLarger ==
  ASSUME NEW k \in Nat \ {0}, acct \in Accounts
  PROVE  Leq(NotionalOf(k + 1), NotionalOf(k))
<1>1. PICK e \in Nat \ {0} : e = acct.equity
  BY AccountTypes
<1>2. PICK n \in Nat \ {0}, d \in Nat \ {0} :
         n = RiskOf(k).num /\ d = RiskOf(k).den
  BY RiskTypes
<1>3. PICK m \in Nat \ {0}, c \in Nat \ {0} :
         m = RiskOf(k + 1).num /\ c = RiskOf(k + 1).den
  BY RiskTypes
<1>4. PICK s \in Nat \ {0}, b \in Nat \ {0}, p \in Nat \ {0} :
         s = SinglePct /\ b = BudgetPct /\ p = StopPct
  BY SettingsAssumption DEF RiskSettings
<1>5. /\ n = IF s * k <= b * 1 THEN s ELSE b
      /\ d = IF s * k <= b * 1 THEN 1 ELSE k
      /\ m = IF s * (k + 1) <= b * 1 THEN s ELSE b
      /\ c = IF s * (k + 1) <= b * 1 THEN 1 ELSE k + 1
  BY <1>2, <1>3, <1>4 DEF RiskOf, Lesser, Leq
<1>6. m * d <= n * c
  <2>1. s * (k + 1) = s * k + s /\ b * (k + 1) = b * k + b
    OBVIOUS
  <2>2. s * k \in Nat /\ b * k \in Nat
    OBVIOUS
  <2>3. CASE s * (k + 1) <= b
    BY <1>5, <2>1, <2>2, <2>3
  <2>4. CASE ~(s * (k + 1) <= b) /\ s * k <= b
    BY <1>5, <2>1, <2>2, <2>4
  <2>5. CASE ~(s * (k + 1) <= b) /\ ~(s * k <= b)
    BY <1>5, <2>1, <2>2, <2>5
  <2> QED BY <2>3, <2>4, <2>5
<1>7. (m * d) * (e * p) <= (n * c) * (e * p)
  <2>1. \A x, y \in Nat : x * y \in Nat
    OBVIOUS
  <2>2. m * d \in Nat /\ n * c \in Nat /\ e * p \in Nat
    BY <2>1
  <2> QED BY <1>6, <2>2, Mono
<1>8. (e * m) * (d * p) <= (e * n) * (c * p)
  <2>1. /\ (e * m) * (d * p) = (m * d) * (e * p)
        /\ (e * n) * (c * p) = (n * c) * (e * p)
    OBVIOUS
  <2> QED BY <1>7, <2>1
<1> QED BY <1>1, <1>2, <1>3, <1>4, <1>8 DEF NotionalOf, Leq

\* When the count is viable and none above it is, it is the largest.
LEMMA LargestFound ==
  ASSUME NEW n \in Nat, NEW m \in Nat, n <= m,
         n = 0 \/ Viable(n), \A k \in (n + 1) .. m : ~Viable(k)
  PROVE  n = Max({0} \union {k \in 1 .. m : Viable(k)})
<1> DEFINE S == {0} \union {k \in 1 .. m : Viable(k)}
<1>1. n \in S /\ S \subseteq Int
  OBVIOUS
<1>2. ASSUME NEW y \in S PROVE n >= y
  <2>1. y \in 0 .. m
    OBVIOUS
  <2>2. y = 0 \/ (y \in 1 .. m /\ Viable(y))
    OBVIOUS
  <2>3. y \notin (n + 1) .. m \/ y = 0
    BY <2>2
  <2> QED BY <2>1, <2>3
<1>3. Max(S) = n
  <2> HIDE DEF S
  <2> QED BY <1>1, <1>2, MaxIs
<1> QED BY <1>3

\* A count whose value does not clear the minimum, or which the leverage does
\* not carry, is not viable; the rest is as it was.
AllocKept == acct' = acct /\ alloc' = alloc /\ at' = at

LEMMA KeptAllocation ==
  ASSUME AllocInv, AllocKept PROVE AllocInv'
<1>1. AllocTypes' /\ (at = "minimum" => ~alloc.upsized)'
  BY DEF AllocInv, AllocTypes, AllocKept
<1>2. Most' = Most /\ \A k : Viable(k)' = Viable(k)
  BY DEF AllocKept, Most, Fresh, Viable, NotionalOf, Leq, Times, Minimum,
     Ceiling, Whole
<1>3. Leq(Minimum, NotionalOf(alloc.slots))'
        = Leq(Minimum, NotionalOf(alloc.slots))
  BY DEF AllocKept, NotionalOf, Leq, Minimum, Whole
<1>4. NoneAbove' = NoneAbove
  BY <1>2 DEF AllocKept, NoneAbove
<1>5. Trims'
  BY <1>2, <1>3, <1>4 DEF AllocInv, Trims, AllocKept
<1>6. AllocationIsLargest'
  BY <1>2 DEF AllocInv, AllocationIsLargest, AllocKept, Fresh
<1> QED BY <1>1, <1>5, <1>6 DEF AllocInv

LEMMA MostTypes ==
  ASSUME acct \in Accounts PROVE Most \in Nat \ {0}
BY AccountTypes DEF Most

LEMMA TrimmedForMinimum ==
  ASSUME AllocInv, TrimMinimum PROVE AllocInv'
<1>1. /\ acct' = acct /\ acct \in Accounts /\ at = "minimum"
      /\ alloc \in [slots : Nat, upsized : BOOLEAN] /\ ~alloc.upsized
  BY DEF AllocInv, AllocTypes, TrimMinimum
<1>2. PICK n \in Nat, m \in Nat : n = alloc.slots /\ m = Most
  BY <1>1, MostTypes
<1>3. n \in 1 .. m /\ \A k \in (n + 1) .. m : ~Viable(k)
  BY <1>1, <1>2 DEF AllocInv, Trims, NoneAbove
<1>4. /\ Most' = m /\ \A k : Viable(k)' = Viable(k)
      /\ Minimum' = Minimum /\ \A k : NotionalOf(k)' = NotionalOf(k)
  BY <1>1, <1>2 DEF Most, Fresh, Viable, NotionalOf, Leq, Times, Minimum,
     Ceiling, Whole
<1>5. ASSUME Less(NotionalOf(n), Minimum) PROVE ~Viable(n)
  BY <1>5 DEF Less, Viable
<1>6. CASE n > 1 /\ Less(NotionalOf(n), Minimum)
  <2>1. alloc' = [alloc EXCEPT !.slots = @ - 1] /\ at' = at
    BY <1>2, <1>6 DEF TrimMinimum
  <2>2. n - 1 \in 1 .. m /\ n - 1 \in Nat
    BY <1>3, <1>6
  <2>3. /\ alloc' \in [slots : Nat, upsized : BOOLEAN]
        /\ alloc'.slots = n - 1 /\ ~alloc'.upsized
    BY <1>1, <1>2, <2>1, <2>2
  <2>4. \A k \in n .. m : ~Viable(k)
    BY <1>3, <1>5, <1>6
  <2>5. \A k \in (alloc'.slots + 1) .. m : ~Viable(k)
    BY <2>3, <2>4
  <2>6. NoneAbove'
    BY <1>4, <2>5 DEF NoneAbove
  <2>7. Trims'
    BY <1>1, <1>4, <2>1, <2>2, <2>3, <2>6 DEF Trims
  <2>8. AllocTypes' /\ AllocationIsLargest'
    BY <1>1, <2>1, <2>3 DEF AllocTypes, AllocationIsLargest
  <2> QED BY <1>1, <2>1, <2>3, <2>7, <2>8 DEF AllocInv
<1>7. CASE /\ ~(n > 1 /\ Less(NotionalOf(n), Minimum))
           /\ Leq(Minimum, NotionalOf(n))
  <2>1. alloc' = alloc /\ at' = "leverage"
    BY <1>2, <1>7 DEF TrimMinimum, Goto
  <2>2. NoneAbove'
    BY <1>2, <1>3, <1>4, <2>1 DEF NoneAbove
  <2>3. Leq(Minimum, NotionalOf(alloc.slots))'
    BY <1>1, <1>2, <1>7, <2>1 DEF NotionalOf, Leq, Minimum, Whole
  <2>4. Trims'
    BY <1>2, <1>3, <1>4, <2>1, <2>2, <2>3 DEF Trims
  <2>5. AllocTypes' /\ AllocationIsLargest'
    BY <1>1, <2>1 DEF AllocTypes, AllocationIsLargest
  <2> QED BY <2>1, <2>4, <2>5 DEF AllocInv
<1>8. CASE /\ ~Leq(Minimum, NotionalOf(n))
           /\ acct.takes /\ Leq(Minimum, Ceiling)
  <2>1. /\ ~(n > 1 /\ Less(NotionalOf(n), Minimum))
           => /\ alloc' = [slots |-> 1, upsized |-> TRUE]
              /\ at' = "leverage"
    BY <1>2, <1>8 DEF TrimMinimum, Goto
  <2>2. CASE ~(n > 1 /\ Less(NotionalOf(n), Minimum))
    <3>1. /\ at' = "leverage" /\ alloc'.upsized
          /\ alloc' \in [slots : Nat, upsized : BOOLEAN]
      <4>1. PICK one \in Nat : one = 1
        OBVIOUS
      <4>2. at' = "leverage" /\ alloc' = [slots |-> one, upsized |-> TRUE]
        BY <2>1, <2>2, <4>1
      <4> QED BY <4>2
    <3> QED BY <1>1, <3>1 DEF AllocInv, AllocTypes, Trims,
               AllocationIsLargest
  <2> QED BY <1>6, <2>2
<1>9. CASE /\ ~(n > 1 /\ Less(NotionalOf(n), Minimum))
           /\ ~Leq(Minimum, NotionalOf(n))
           /\ ~(acct.takes /\ Leq(Minimum, Ceiling))
  <2>1. alloc' = [alloc EXCEPT !.slots = 0] /\ at' = "over"
    BY <1>2, <1>9 DEF TrimMinimum, Goto
  <2>2. /\ alloc' \in [slots : Nat, upsized : BOOLEAN]
        /\ alloc'.slots = 0 /\ ~alloc'.upsized
    BY <1>1, <2>1
  <2>3. n = 1 /\ ~Viable(1)
    BY <1>3, <1>5, <1>9 DEF Less
  <2>4. \A k \in (0 + 1) .. m : ~Viable(k)
    BY <1>3, <2>3
  <2>5. 0 = Max({0} \union {k \in 1 .. m : Viable(k)})
    BY <2>4, LargestFound
  <2>6. AllocationIsLargest'
    BY <1>4, <2>2, <2>5 DEF AllocationIsLargest, Most
  <2>7. AllocTypes' /\ Trims'
    BY <1>1, <2>1, <2>2 DEF AllocTypes, Trims
  <2> QED BY <2>1, <2>6, <2>7 DEF AllocInv
<1> QED BY <1>6, <1>7, <1>8, <1>9

LEMMA TrimmedForLeverage ==
  ASSUME AllocInv, TrimLeverage PROVE AllocInv'
<1>1. /\ acct' = acct /\ acct \in Accounts /\ at = "leverage"
      /\ alloc \in [slots : Nat, upsized : BOOLEAN]
  BY DEF AllocInv, AllocTypes, TrimLeverage
<1>2. PICK n \in Nat, m \in Nat : n = alloc.slots /\ m = Most
  BY <1>1, MostTypes
<1>3. CASE alloc.upsized
  <2>1. /\ alloc'.upsized /\ alloc' \in [slots : Nat, upsized : BOOLEAN]
        /\ at' \in {"leverage", "over", "cycle"}
    <3>1. CASE n > 1 /\ Less(Ceiling, Times(n, Each))
      <4>1. alloc' = [alloc EXCEPT !.slots = @ - 1] /\ at' = at
        BY <1>2, <3>1 DEF TrimLeverage
      <4> QED BY <1>1, <1>2, <1>3, <3>1, <4>1
    <3>2. CASE ~(n > 1 /\ Less(Ceiling, Times(n, Each)))
      <4>1. \/ alloc' = [alloc EXCEPT !.slots = 0] /\ at' = "over"
            \/ alloc' = alloc /\ at' = "cycle"
        BY <1>2, <3>2 DEF TrimLeverage, Goto
      <4> QED BY <1>1, <1>3, <4>1
    <3> QED BY <3>1, <3>2
  <2> QED BY <1>1, <2>1 DEF AllocInv, AllocTypes, Trims, AllocationIsLargest
<1>4. CASE ~alloc.upsized
  <2>1. /\ n \in 1 .. m /\ (\A k \in (n + 1) .. m : ~Viable(k))
        /\ Leq(Minimum, NotionalOf(n)) /\ Each = NotionalOf(n)
    BY <1>1, <1>2, <1>4 DEF AllocInv, Trims, NoneAbove, Each
  <2>2. /\ Most' = m /\ \A k : Viable(k)' = Viable(k)
    BY <1>1, <1>2 DEF Most, Fresh, Viable, NotionalOf, Leq, Times, Minimum,
       Ceiling, Whole
  <2>3. CASE n > 1 /\ Less(Ceiling, Times(n, Each))
    <3>1. alloc' = [alloc EXCEPT !.slots = @ - 1] /\ at' = at
      BY <1>2, <2>3 DEF TrimLeverage
    <3>2. PICK p \in Nat \ {0} : n = p + 1
      <4>1. n - 1 \in Nat \ {0} /\ n = (n - 1) + 1
        BY <2>3
      <4> QED BY <4>1
    <3>3. /\ alloc' \in [slots : Nat, upsized : BOOLEAN]
          /\ alloc'.slots = p /\ ~alloc'.upsized
      BY <1>1, <1>2, <1>4, <3>1, <3>2
    <3>4. ~Viable(n)
      BY <2>1, <2>3 DEF Viable, Less
    <3>5. \A k \in (p + 1) .. m : ~Viable(k)
      BY <2>1, <3>2, <3>4
    <3>6. Leq(Minimum, NotionalOf(p))
      <4>1. Leq(NotionalOf(n), NotionalOf(p))
        BY <1>1, <3>2, FewerAreLarger
      <4>2. PICK a \in Nat \ {0}, b \in Nat \ {0} :
               NotionalOf(n) = [num |-> a, den |-> b]
        BY <1>1, <3>2, NotionalTypes
      <4>3. PICK c \in Nat \ {0}, d \in Nat \ {0} :
               NotionalOf(p) = [num |-> c, den |-> d]
        BY <1>1, NotionalTypes
      <4>4. a * d <= c * b /\ MinNotional * b <= a * 1 /\ MinNotional \in Nat
        BY <2>1, <4>1, <4>2, <4>3, AccountAssumption
           DEF Leq, Minimum, Whole
      <4>5. (MinNotional * b) * d <= a * d
        <5>1. MinNotional * b \in Nat
          BY <4>4
        <5>2. MinNotional * b <= a
          BY <4>4
        <5> QED BY <5>1, <5>2, Mono
      <4>6. (MinNotional * d) * b <= c * b
        <5>1. (MinNotional * d) * b = (MinNotional * b) * d
          BY <4>4
        <5>2. (MinNotional * d) * b \in Nat /\ a * d \in Nat /\ c * b \in Nat
          <6>1. \A x, y \in Nat : x * y \in Nat
            OBVIOUS
          <6> QED BY <4>4, <6>1
        <5> QED BY <4>4, <4>5, <5>1, <5>2
      <4>7. MinNotional * d <= c
        <5>1. MinNotional * d \in Int
          BY <4>4
        <5> QED BY <4>6, <5>1, Cancel
      <4> QED BY <4>3, <4>7 DEF Leq, Minimum, Whole
    <3>7. Leq(Minimum, NotionalOf(alloc.slots))'
      BY <1>1, <3>3, <3>6 DEF NotionalOf, Leq, Minimum, Whole
    <3>8. NoneAbove'
      BY <2>2, <3>3, <3>5 DEF NoneAbove
    <3>9. p \in 1 .. m
      BY <2>1, <3>2
    <3>10. Trims'
      BY <2>2, <3>3, <3>7, <3>8, <3>9 DEF Trims
    <3>11. AllocTypes' /\ AllocationIsLargest'
      BY <1>1, <3>1, <3>3 DEF AllocTypes, AllocationIsLargest
    <3> QED BY <1>1, <3>1, <3>10, <3>11 DEF AllocInv
  <2>4. PICK a \in Nat \ {0}, b \in Nat \ {0} :
           NotionalOf(n) = [num |-> a, den |-> b]
    BY <1>1, <2>1, NotionalTypes
  <2>5. PICK e \in Nat : Ceiling = [num |-> e, den |-> 1]
    <3>1. acct.equity * acct.leverage \in Nat
      <4>1. \A x, y \in Nat : x * y \in Nat
        OBVIOUS
      <4> QED BY <1>1, <4>1, AccountTypes
    <3> QED BY <3>1 DEF Ceiling, Whole
  <2>6. CASE ~(n > 1 /\ Less(Ceiling, Times(n, Each))) /\ Less(Ceiling, Each)
    <3>1. alloc' = [alloc EXCEPT !.slots = 0] /\ at' = "over"
      BY <1>2, <2>6 DEF TrimLeverage, Goto
    <3>2. /\ alloc' \in [slots : Nat, upsized : BOOLEAN]
          /\ alloc'.slots = 0 /\ ~alloc'.upsized
      BY <1>1, <1>4, <3>1
    <3>3. Less(Ceiling, Times(n, Each))
      <4>1. ~(a * 1 <= e * b)
        BY <2>1, <2>4, <2>5, <2>6 DEF Less, Leq
      <4>2. a * 1 <= n * a
        <5>1. 1 <= n
          BY <2>1
        <5>2. 1 * a <= n * a
          BY <5>1, Mono
        <5> QED BY <5>2
      <4>3. ~((n * a) * 1 <= e * b)
        <5>1. n * a \in Nat /\ e * b \in Nat
          <6>1. \A x, y \in Nat : x * y \in Nat
            OBVIOUS
          <6> QED BY <6>1
        <5> QED BY <4>1, <4>2, <5>1
      <4>4. Times(n, Each) = [num |-> n * a, den |-> b]
        BY <2>1, <2>4 DEF Times
      <4> QED BY <2>5, <4>3, <4>4 DEF Less, Leq
    <3>4. n = 1
      BY <2>1, <2>6, <3>3
    <3>5. ~Viable(1)
      BY <2>1, <3>3, <3>4 DEF Viable, Less
    <3>6. \A k \in (0 + 1) .. m : ~Viable(k)
      BY <2>1, <3>4, <3>5
    <3>7. 0 = Max({0} \union {k \in 1 .. m : Viable(k)})
      BY <3>6, LargestFound
    <3>8. AllocationIsLargest'
      BY <2>2, <3>2, <3>7 DEF AllocationIsLargest, Most
    <3> QED BY <1>1, <3>1, <3>2, <3>8 DEF AllocInv, AllocTypes, Trims
  <2>7. CASE ~(n > 1 /\ Less(Ceiling, Times(n, Each))) /\ ~Less(Ceiling, Each)
    <3>1. alloc' = alloc /\ at' = "cycle"
      BY <1>2, <2>7 DEF TrimLeverage, Goto
    <3>2. Leq(Times(n, Each), Ceiling)
      <4>1. CASE n > 1
        BY <2>7, <4>1 DEF Less
      <4>2. CASE n = 1
        <5>1. Times(n, Each) = [num |-> 1 * a, den |-> b] /\ 1 * a = a
          BY <2>1, <2>4, <4>2 DEF Times
        <5>2. Times(n, Each) = Each
          BY <2>1, <2>4, <5>1
        <5> QED BY <2>7, <5>2 DEF Less
      <4> QED BY <2>1, <4>1, <4>2
    <3>3. Viable(n)
      BY <2>1, <3>2 DEF Viable
    <3>4. n = Max({0} \union {k \in 1 .. m : Viable(k)})
      BY <2>1, <3>3, LargestFound
    <3>5. AllocationIsLargest'
      BY <1>2, <2>2, <3>1, <3>4 DEF AllocationIsLargest, Most
    <3>6. Trims'
      BY <1>2, <2>1, <2>2, <3>1 DEF Trims
    <3> QED BY <1>1, <3>1, <3>5, <3>6 DEF AllocInv, AllocTypes
  <2> QED BY <2>3, <2>6, <2>7
<1> QED BY <1>3, <1>4

LEMMA Begun ==
  ASSUME NEW a \in Accounts, acct' = a, alloc' = Fresh(a), at' = "minimum"
  PROVE  AllocInv'
<1>1. /\ Fresh(a) \in [slots : Nat, upsized : BOOLEAN]
      /\ Fresh(a).slots \in Nat \ {0} /\ ~Fresh(a).upsized
  BY AccountTypes
<1>2. Most' = Fresh(a).slots
  BY DEF Most, Fresh
<1>3. NoneAbove'
  BY <1>1, <1>2 DEF NoneAbove
<1> QED BY <1>1, <1>2, <1>3 DEF AllocInv, AllocTypes, Trims,
           AllocationIsLargest

LEMMA AllocInit == Init => AllocInv
<1> SUFFICES ASSUME Init PROVE AllocInv
  OBVIOUS
<1>1. /\ acct \in Accounts /\ alloc = Fresh(acct) /\ at = "minimum"
  BY DEF Init
<1>2. /\ Fresh(acct) \in [slots : Nat, upsized : BOOLEAN]
      /\ Fresh(acct).slots \in Nat \ {0} /\ ~Fresh(acct).upsized
  BY <1>1, AccountTypes
<1>3. Most = Fresh(acct).slots
  BY DEF Most
<1>4. NoneAbove
  BY <1>1, <1>2, <1>3 DEF NoneAbove
<1> QED BY <1>1, <1>2, <1>3, <1>4 DEF AllocInv, AllocTypes, Trims,
           AllocationIsLargest

LEMMA AllocSteps == AllocInv /\ [Next]_vars => AllocInv'
<1> SUFFICES ASSUME AllocInv, [Next]_vars PROVE AllocInv'
  OBVIOUS
<1>1. CASE TrimMinimum
  BY <1>1, TrimmedForMinimum
<1>2. CASE TrimLeverage
  BY <1>2, TrimmedForLeverage
<1>3. ASSUME NEW c \in Candidates, Send(c) PROVE AllocInv'
  BY <1>3, KeptAllocation DEF Send, AllocKept
<1>4. CASE Pass
  BY <1>4, KeptAllocation DEF Pass, AllocKept
<1>5. CASE Ends
  BY <1>5, KeptAllocation DEF Ends, AllocKept
<1>6. ASSUME NEW a \in Accounts, Begins(a) PROVE AllocInv'
  BY <1>6, Begun DEF Begins, Goto
<1>7. CASE UNCHANGED vars
  BY <1>7, KeptAllocation DEF vars, AllocKept
<1> QED BY <1>1, <1>2, <1>3, <1>4, <1>5, <1>6, <1>7 DEF Next

-------------------------------------------------------------------------------
(* One order.                                                              *)

Fraction == [num : Nat, den : Nat \ {0}]

LEMMA CeilDivCovers ==
  ASSUME NEW a \in Nat, NEW b \in Nat \ {0}
  PROVE  CeilDiv(a, b) \in Nat /\ a <= CeilDiv(a, b) * b
<1>1. PICK x \in Nat : x = a + b - 1
  OBVIOUS
<1>2. PICK k \in Int, r \in Int : k = x \div b /\ r = x % b
  OBVIOUS
<1>3. x = b * k + r /\ 0 <= r /\ r < b
  BY <1>1, <1>2
<1>4. a <= b * k
  BY <1>1, <1>3
<1>5. k \in Nat
  <2>1. CASE k >= 0
    BY <2>1
  <2>2. CASE k < 0
    <3>1. PICK j \in Nat : k = 0 - j - 1
      <4>1. 0 - k - 1 \in Nat /\ k = 0 - (0 - k - 1) - 1
        BY <2>2
      <4> QED BY <4>1
    <3>2. b * k = 0 - (b * j) - b /\ b * j \in Nat
      BY <3>1
    <3> QED BY <1>3, <1>1, <3>2
  <2> QED BY <2>1, <2>2
<1>6. b * k = k * b
  OBVIOUS
<1>7. CeilDiv(a, b) = k
  BY <1>1, <1>2 DEF CeilDiv
<1> QED BY <1>4, <1>5, <1>6, <1>7

LEMMA CandidateTypes ==
  ASSUME NEW c \in Candidates
  PROVE  /\ c.price \in Nat \ {0} /\ c.half \in Nat \ {0}
         /\ c.least \in Nat \ {0}
BY AccountAssumption DEF Candidates

\* The cheapest order clears the exchange minimum.
LEMMA CheapestClears ==
  ASSUME NEW c \in Candidates
  PROVE  Cheapest(c) \in Nat /\ MinNotional <= Cheapest(c) * c.price
<1>1. PICK p \in Nat \ {0}, l \in Nat \ {0}, m \in Nat :
         p = c.price /\ l = c.least /\ m = MinNotional
  BY CandidateTypes, AccountAssumption
<1>2. PICK k \in Nat : k = CeilDiv(m, p) /\ m <= k * p
  BY CeilDivCovers
<1>3. \E x \in {k, l} : \A y \in {k, l} : x >= y
  OBVIOUS
<1>4. PICK x : x = Max({k, l})
  OBVIOUS
<1>5. x \in {k, l} /\ x >= k
  BY <1>3, <1>4 DEF Max
<1>6. x \in Nat /\ k * p <= x * p
  BY <1>5, Mono
<1>7. m <= x * p
  <2>1. k * p \in Nat /\ x * p \in Nat
    BY <1>6
  <2> QED BY <1>2, <1>6, <2>1
<1> QED BY <1>1, <1>2, <1>4, <1>6, <1>7 DEF Cheapest

LEMMA RiskEachTypes ==
  ASSUME AllocInv, at = "cycle"
  PROVE  /\ RiskEach.num \in Nat /\ RiskEach.den \in Nat \ {0}
         /\ acct.equity \in Nat \ {0} /\ acct.leverage \in Nat \ {0}
<1>1. acct.equity \in Nat \ {0} /\ acct.leverage \in Nat \ {0}
  BY AccountTypes DEF AllocInv, AllocTypes
<1>2. CASE alloc.upsized
  <2>1. MinNotional * StopPct \in Nat
    BY AccountAssumption, SettingsAssumption DEF RiskSettings
  <2> QED BY <1>1, <1>2, <2>1 DEF RiskEach
<1>3. CASE ~alloc.upsized
  <2>1. alloc.slots \in Nat \ {0}
    BY <1>3, MostTypes DEF AllocInv, AllocTypes, Trims
  <2> QED BY <1>1, <1>3, <2>1, RiskTypes DEF RiskEach
<1> QED BY <1>1, <1>2, <1>3

\* What the risk manager asks for: no more than the stop allows.
LEMMA SizeTypes ==
  ASSUME AllocInv, at = "cycle", NEW c \in Candidates
  PROVE  /\ BySize(c) \in Fraction
         /\ BySize(c).num * (100 * RiskEach.den * c.half)
              <= (2 * acct.equity * RiskEach.num * c.price) * BySize(c).den
<1>1. PICK e \in Nat \ {0}, l \in Nat \ {0}, n \in Nat, d \in Nat \ {0} :
         /\ e = acct.equity /\ l = acct.leverage
         /\ n = RiskEach.num /\ d = RiskEach.den
  BY RiskEachTypes
<1>2. PICK p \in Nat \ {0}, h \in Nat \ {0}, s \in Nat :
         p = c.price /\ h = c.half /\ s = PositionPct
  BY CandidateTypes, SettingsAssumption DEF PortfolioSettings
<1>3. PICK x \in Nat, y \in Nat \ {0}, z \in Nat :
         x = 2 * e * n * p /\ y = 100 * d * h /\ z = e * l * s
  <2>1. \A u, v \in Nat : u * v \in Nat
    OBVIOUS
  <2>2. \A u, v \in Nat \ {0} : u * v \in Nat \ {0}
    OBVIOUS
  <2>3. 2 * e * n * p \in Nat
    <3>1. 2 * e \in Nat
      OBVIOUS
    <3>2. 2 * e * n \in Nat
      BY <2>1, <3>1
    <3> QED BY <2>1, <3>2
  <2>4. 100 * d * h \in Nat \ {0}
    <3>1. 100 * d \in Nat \ {0}
      OBVIOUS
    <3> QED BY <2>2, <3>1
  <2>5. e * l * s \in Nat
    <3>1. e * l \in Nat
      BY <2>1
    <3> QED BY <2>1, <3>1
  <2> QED BY <2>3, <2>4, <2>5
<1>4. PICK w \in Nat \ {0} : w = 100
  OBVIOUS
<1>5. BySize(c) = Lesser([num |-> x, den |-> y], [num |-> z, den |-> w])
  BY <1>1, <1>2, <1>3, <1>4 DEF BySize
<1>6. BySize(c) = IF x * w <= z * y THEN [num |-> x, den |-> y]
                                    ELSE [num |-> z, den |-> w]
  BY <1>5 DEF Lesser, Leq
<1>7. BySize(c) \in Fraction
  BY <1>6 DEF Fraction
<1>8. BySize(c).num * y <= x * BySize(c).den
  <2>1. CASE x * w <= z * y
    <3>1. BySize(c).num = x /\ BySize(c).den = y
      BY <1>6, <2>1
    <3>2. x * y \in Nat
      OBVIOUS
    <3> QED BY <3>1, <3>2
  <2>2. CASE ~(x * w <= z * y)
    <3>1. BySize(c).num = z /\ BySize(c).den = w
      BY <1>6, <2>2
    <3>2. x * w \in Nat /\ z * y \in Nat
      OBVIOUS
    <3> QED BY <2>2, <3>1, <3>2
  <2> QED BY <2>1, <2>2
<1> QED BY <1>1, <1>2, <1>3, <1>7, <1>8

\* What is asked for pays at least for the cheapest order.
LEMMA AskedCovers ==
  ASSUME AllocInv, at = "cycle", NEW c \in Candidates, NEW n \in Asked(c)
  PROVE  /\ n \in Fraction
         /\ (Cheapest(c) * c.price) * n.den <= n.num
         /\ ~TooSmall(c) => n = BySize(c)
<1>1. n = IF TooSmall(c) THEN Whole(Cheapest(c) * c.price) ELSE BySize(c)
  BY DEF Asked
<1>2. PICK k \in Nat : k = Cheapest(c) * c.price
  <2>1. \A x, y \in Nat : x * y \in Nat
    OBVIOUS
  <2> QED BY <2>1, CheapestClears, CandidateTypes
<1>3. CASE TooSmall(c)
  <2>1. PICK one \in Nat \ {0} : one = 1
    OBVIOUS
  <2>2. n = [num |-> k, den |-> one]
    BY <1>1, <1>2, <1>3, <2>1 DEF Whole
  <2>3. n \in Fraction
    BY <2>2 DEF Fraction
  <2>4. n.num = k /\ n.den = 1 /\ k * 1 <= k
    BY <2>1, <2>2
  <2> QED BY <1>2, <1>3, <2>3, <2>4
<1>4. CASE ~TooSmall(c)
  <2>1. n = BySize(c)
    BY <1>1, <1>4
  <2>2. Leq(Whole(k), n)
    BY <1>2, <1>4, <2>1 DEF TooSmall, Less
  <2>3. k * n.den <= n.num * 1
    BY <2>2 DEF Leq, Whole
  <2>4. n \in Fraction
    BY <2>1, SizeTypes
  <2>5. n.num \in Nat /\ n.den \in Nat
    BY <2>4 DEF Fraction
  <2>6. k * n.den <= n.num
    BY <2>3, <2>5
  <2> QED BY <1>2, <2>1, <2>4, <2>6
<1> QED BY <1>3, <1>4

\* The rounded order is worth no more than what was asked for, also when it
\* was rounded up.
LEMMA QuantityFits ==
  ASSUME AllocInv, at = "cycle", NEW c \in Candidates, NEW n \in Asked(c),
         NEW q \in Quantities(c, n)
  PROVE  q \in Nat \ {0} /\ (q * c.price) * n.den <= n.num
<1>1. PICK u \in Nat, d \in Nat \ {0}, p \in Nat \ {0}, m \in Nat, k \in Nat :
         /\ u = n.num /\ d = n.den /\ p = c.price /\ m = MinNotional
         /\ k = Cheapest(c) /\ m <= k * p /\ (k * p) * d <= u
  <2>1. n.num \in Nat /\ n.den \in Nat \ {0}
    BY AskedCovers DEF Fraction
  <2> QED BY <2>1, AskedCovers, CheapestClears, CandidateTypes,
             AccountAssumption
<1>2. PICK s \in Nat \ {0} : s = d * p
  <2>1. \A x, y \in Nat \ {0} : x * y \in Nat \ {0}
    OBVIOUS
  <2> QED BY <2>1
<1>3. PICK j \in Int, r \in Int : j = u \div s /\ r = u % s
  OBVIOUS
<1>4. u = s * j + r /\ 0 <= r
  BY <1>3
<1>5. PICK t \in RoundsTo(n, c.price) :
         q = Stepped(t, n, c.price) /\ q > 0
  BY DEF Quantities
<1>6. t \in {j - 1, j}
  BY <1>1, <1>2, <1>3 DEF RoundsTo
<1>7. t \in Int /\ s * t <= s * j
  <2>1. s * (j - 1) = s * j - s /\ s * j \in Int
    OBVIOUS
  <2> QED BY <1>6, <2>1
<1>8. CASE q = t
  <2>1. q \in Nat \ {0}
    BY <1>5, <1>7, <1>8
  <2>2. s * t <= u
    <3>1. s * t \in Int /\ s * j \in Int
      BY <1>7
    <3> QED BY <1>4, <1>7, <3>1
  <2>3. (q * p) * d = s * t
    BY <1>2, <1>7, <1>8
  <2> QED BY <1>1, <2>1, <2>2, <2>3
<1>9. CASE q # t
  <2>1. q = t + 1 /\ t * p < m
    BY <1>1, <1>5, <1>9 DEF Stepped
  <2>2. q \in Nat \ {0}
    BY <1>5, <1>7, <2>1
  <2>3. t < k
    <3> SUFFICES ASSUME k <= t PROVE FALSE
      BY <1>7
    <3>1. t \in Nat
      BY <1>7
    <3>2. k * p <= t * p
      BY <3>1, Mono
    <3>3. k * p \in Nat /\ t * p \in Nat
      BY <3>1
    <3> QED BY <1>1, <2>1, <3>2, <3>3
  <2>4. q <= k
    BY <1>7, <2>1, <2>3
  <2>5. q * p <= k * p /\ q * p \in Nat /\ k * p \in Nat
    BY <2>2, <2>4, Mono
  <2>6. (q * p) * d <= (k * p) * d
    BY <2>5, Mono
  <2>7. (q * p) * d \in Nat /\ (k * p) * d \in Nat
    BY <2>5
  <2> QED BY <1>1, <2>2, <2>6, <2>7
<1> QED BY <1>8, <1>9

\* The stop of an order that was not taken at the minimum costs no more than
\* the risk of one position, but for its rounding.
LEMMA RiskFits ==
  ASSUME AllocInv, at = "cycle", NEW c \in Candidates, NEW n \in Asked(c),
         NEW q \in Quantities(c, n), ~TooSmall(c), StopAt(c) > 0
  PROVE  /\ StopAt(c) \in Nat \ {0}
         /\ (100 * RiskEach.den) * (q * (2 * StopAt(c) - 1))
              <= 2 * acct.equity * RiskEach.num
<1>1. PICK e \in Nat \ {0}, g \in Nat, d \in Nat \ {0} :
         e = acct.equity /\ g = RiskEach.num /\ d = RiskEach.den
  BY RiskEachTypes
<1>2. PICK p \in Nat \ {0}, h \in Nat \ {0} : p = c.price /\ h = c.half
  BY CandidateTypes
<1>3. PICK s \in Nat \ {0} : s = StopAt(c) /\ 2 * s - 1 <= h
  <2>1. /\ (h + 2 - 1) \div 2 \in Nat /\ h \div 2 \in Nat
        /\ 2 * ((h + 2 - 1) \div 2) - 1 <= h /\ 2 * (h \div 2) - 1 <= h
    OBVIOUS
  <2> QED BY <1>2, <2>1 DEF StopAt, CeilDiv
<1>4. PICK u \in Nat, w \in Nat \ {0} :
         /\ u = n.num /\ w = n.den
         /\ u * (100 * d * h) <= (2 * e * g * p) * w
  <2>1. n = BySize(c) /\ n \in Fraction
    BY AskedCovers
  <2>2. n.num \in Nat /\ n.den \in Nat \ {0}
    BY <2>1 DEF Fraction
  <2> QED BY <1>1, <1>2, <2>1, <2>2, SizeTypes
<1>5. q \in Nat \ {0} /\ (q * p) * w <= u
  BY <1>2, <1>4, QuantityFits
<1>6. PICK y \in Nat \ {0}, z \in Nat :
         y = 100 * d /\ z = 2 * e * g
  <2>1. 2 * e \in Nat /\ \A a, b \in Nat : a * b \in Nat
    OBVIOUS
  <2>2. 2 * e * g \in Nat
    BY <2>1
  <2> QED BY <2>2
<1>7. \A a, b \in Nat : a * b \in Nat
  OBVIOUS
<1>8. ((q * p) * w) * (y * h) <= u * (y * h)
  <2>1. (q * p) * w \in Nat /\ y * h \in Nat
    <3>1. q * p \in Nat
      BY <1>5, <1>7
    <3> QED BY <1>7, <3>1
  <2> QED BY <1>5, <2>1, Mono
<1>9. u * (y * h) <= (z * p) * w
  BY <1>4, <1>6
<1>10. ((y * h) * q) * (p * w) <= z * (p * w)
  <2>1. /\ ((q * p) * w) * (y * h) = ((y * h) * q) * (p * w)
        /\ (z * p) * w = z * (p * w)
    BY <1>5
  <2>2. /\ (q * p) * w * (y * h) \in Nat /\ u * (y * h) \in Nat
        /\ (z * p) * w \in Nat
    <3>1. /\ q * p \in Nat /\ y * h \in Nat /\ z * p \in Nat
      BY <1>5, <1>7
    <3>2. (q * p) * w \in Nat
      BY <1>7, <3>1
    <3> QED BY <1>7, <3>1, <3>2
  <2> QED BY <1>8, <1>9, <2>1, <2>2
<1>11. (y * h) * q <= z
  <2>1. (y * h) * q \in Nat /\ p * w \in Nat \ {0}
    <3>1. \A a, b \in Nat \ {0} : a * b \in Nat \ {0}
      OBVIOUS
    <3>2. y * h \in Nat
      BY <1>7
    <3> QED BY <1>5, <1>7, <3>1, <3>2
  <2> QED BY <1>10, <2>1, Cancel
<1>12. y * (q * (2 * s - 1)) <= (y * h) * q
  <2>1. PICK v \in Nat : v = 2 * s - 1
    OBVIOUS
  <2>2. y * q \in Nat
    BY <1>5, <1>7
  <2>3. v * (y * q) <= h * (y * q)
    BY <1>3, <2>1, <2>2, Mono
  <2>4. v * (y * q) = y * (q * v) /\ h * (y * q) = (y * h) * q
    BY <1>5
  <2> QED BY <2>1, <2>3, <2>4
<1>13. y * (q * (2 * s - 1)) <= z
  <2>1. PICK v \in Nat : v = 2 * s - 1
    OBVIOUS
  <2>2. q * v \in Nat /\ y * h \in Nat
    BY <1>5, <1>7
  <2>3. y * (q * v) \in Nat /\ (y * h) * q \in Nat
    BY <1>5, <1>7, <2>2
  <2> QED BY <1>11, <1>12, <2>1, <2>3
<1> QED BY <1>1, <1>3, <1>6, <1>13

-------------------------------------------------------------------------------
(* The book.                                                               *)

IsOrder(o) ==
  /\ o.qty \in Nat \ {0} /\ o.price \in Nat \ {0} /\ o.stop \in Nat \ {0}
  /\ o.upsized \in BOOLEAN /\ o.cycle \in Nat
IsBook(b) ==
  /\ b = [o \in DOMAIN b |-> b[o]] /\ IsFiniteSet(DOMAIN b)
  /\ \A o \in DOMAIN b : b[o] \in Nat \ {0} /\ IsOrder(o)

\* An order costs no more than the risk of one position, but for the rounding
\* of its stop.
WithinRisk(o) ==
  (100 * RiskEach.den) * (o.qty * (2 * o.stop - 1))
    <= 2 * acct.equity * RiskEach.num

\* Every order belongs to a cycle; those of this one were sent under its
\* allocation, and while the book was small enough for its risk.
BookInv ==
  /\ IsBook(book) /\ cycle \in Nat
  /\ \A o \in DOMAIN book :
       o.cycle <= cycle /\ (at # "cycle" => o.cycle < cycle)
  /\ at = "cycle" /\ ~alloc.upsized
     => /\ \A o \in DOMAIN book :
             o.cycle = cycle /\ ~o.upsized => WithinRisk(o)
        /\ (\E o \in DOMAIN book : o.cycle = cycle)
           => Held * RiskEach.num <= BudgetPct * RiskEach.den

LEMMA BookCounts ==
  ASSUME NEW b, IsBook(b)
  PROVE  Counts(b) /\ SumFunction(b) \in Nat
<1>1. Counts(b)
  BY DEF IsBook, Counts
<1>2. PICK e : e = [x \in {} |-> 0]
  OBVIOUS
<1>3. DOMAIN e = {} /\ Counts(e)
  BY <1>2, FS_EmptySet DEF Counts
<1>4. SumFunction(e) = 0
  BY <1>3, SumTypes
<1>5. 1 * SumFunction(e) <= 1 * SumFunction(b)
  <2>1. /\ DOMAIN e \subseteq DOMAIN b
        /\ \A x \in DOMAIN e : 1 * e[x] <= 1 * b[x]
        /\ \A x \in DOMAIN b \ DOMAIN e : 0 <= 1 * b[x]
    BY <1>3 DEF IsBook
  <2>2. PICK one \in Int : one = 1
    OBVIOUS
  <2>3. one * SumFunction(e) <= one * SumFunction(b)
    BY <1>1, <1>3, <2>1, <2>2, Bounded
  <2> QED BY <2>2, <2>3
<1>6. SumFunction(b) \in Int
  BY <1>1, SumTypes
<1> QED BY <1>1, <1>4, <1>5, <1>6

\* What an order adds.
LEMMA Joined ==
  ASSUME IsBook(book), NEW o, IsOrder(o),
         NEW b, b = Having(o, Copies(o) + 1)
  PROVE  /\ IsBook(b) /\ DOMAIN b = DOMAIN book \union {o}
         /\ SumFunction(b) = Held + 1
         /\ Total(Value, b) = Total(Value, book) + Value(o)
         /\ Total(Value, book) \in Int /\ Value(o) \in Nat
<1>1. PICK n \in Nat : n = Copies(o)
  BY DEF Copies, IsBook
<1>2. PICK m \in Nat \ {0} : m = n + 1
  <2>1. n + 1 \in Nat \ {0}
    OBVIOUS
  <2> QED BY <2>1
<1>3. b = [x \in DOMAIN book \union {o} |-> IF x = o THEN m ELSE book[x]]
  <2>1. (DOMAIN book \ {o}) \union {o} = DOMAIN book \union {o}
    OBVIOUS
  <2> QED BY <1>1, <1>2, <2>1 DEF Having
<1>4. /\ DOMAIN b = DOMAIN book \union {o} /\ b[o] = m
      /\ \A x \in DOMAIN book \ {o} : b[x] = book[x]
  BY <1>3
<1>5. b = [x \in DOMAIN b |-> b[x]]
  BY <1>3
<1>6. IsFiniteSet(DOMAIN b)
  BY <1>4, FS_AddElement DEF IsBook
<1>7. ASSUME NEW x \in DOMAIN b PROVE b[x] \in Nat \ {0} /\ IsOrder(x)
  BY <1>4 DEF IsBook
<1>8. IsBook(b)
  BY <1>5, <1>6, <1>7 DEF IsBook
<1>9. m = 1 + IF o \in DOMAIN book THEN book[o] ELSE 0
  BY <1>1, <1>2 DEF Copies
<1>10. SumFunction(b) = Held + 1
  <2>1. Counts(book) /\ book = [y \in DOMAIN book |-> book[y]]
    BY BookCounts DEF IsBook
  <2> QED BY <1>4, <1>9, <2>1, Changed DEF Held
<1>11. PICK v \in Nat : v = Value(o)
  <2>1. \A x, y \in Nat : x * y \in Nat
    OBVIOUS
  <2> QED BY <2>1 DEF Value, IsOrder
<1>12. PICK f : f = [x \in DOMAIN book |-> book[x] * Value(x)]
  OBVIOUS
<1>13. PICK g : g = [x \in DOMAIN b |-> b[x] * Value(x)]
  OBVIOUS
<1>14. Counts(f) /\ f = [x \in DOMAIN f |-> f[x]]
  <2>1. ASSUME NEW x \in DOMAIN book PROVE book[x] * Value(x) \in Int
    <3>1. \A y, z \in Int : y * z \in Int
      OBVIOUS
    <3>2. x.qty \in Int /\ x.price \in Int /\ book[x] \in Int
      BY DEF IsBook, IsOrder
    <3> QED BY <3>1, <3>2 DEF Value
  <2>2. DOMAIN f = DOMAIN book /\ \A x \in DOMAIN book : f[x] \in Int
    BY <1>12, <2>1
  <2> QED BY <1>12, <2>2 DEF Counts, IsBook
<1>15. g[o] = v + IF o \in DOMAIN f THEN f[o] ELSE 0
  <2>1. g[o] = m * v
    BY <1>4, <1>11, <1>13
  <2>2. CASE o \in DOMAIN book
    <3>1. PICK k \in Nat : k = book[o]
      BY <2>2 DEF IsBook
    <3>2. m = 1 + k /\ f[o] = k * v
      BY <1>9, <1>11, <1>12, <2>2, <3>1
    <3>3. m * v = v + k * v
      BY <3>2
    <3> QED BY <1>12, <2>1, <2>2, <3>2, <3>3
  <2>3. CASE o \notin DOMAIN book
    <3>1. m * v = v
      BY <1>9, <2>3
    <3>2. o \notin DOMAIN f
      BY <1>12, <2>3
    <3> QED BY <2>1, <3>1, <3>2
  <2> QED BY <2>2, <2>3
<1>16. SumFunction(g) = SumFunction(f) + v
  <2>1. DOMAIN g = DOMAIN f \union {o}
    BY <1>4, <1>12, <1>13
  <2>2. \A x \in DOMAIN f \ {o} : g[x] = f[x]
    BY <1>4, <1>12, <1>13
  <2> QED BY <1>14, <1>15, <2>1, <2>2, Changed
<1>17. /\ Total(Value, b) = SumFunction(g)
       /\ Total(Value, book) = SumFunction(f)
  BY <1>12, <1>13 DEF Total
<1>18. SumFunction(f) \in Int
  BY <1>14, SumTypes
<1> QED BY <1>4, <1>8, <1>10, <1>11, <1>16, <1>17, <1>18

\* A trade that is over leaves no more than there was.
LEMMA Left ==
  ASSUME IsBook(book), NEW o \in DOMAIN book,
         NEW b, b = Having(o, book[o] - 1)
  PROVE  /\ IsBook(b) /\ DOMAIN b \subseteq DOMAIN book
         /\ SumFunction(b) <= Held /\ SumFunction(b) \in Nat /\ Held \in Nat
<1>1. PICK n \in Nat : n = book[o] - 1 /\ n < book[o]
  <2>1. book[o] \in Nat \ {0}
    BY DEF IsBook
  <2>2. book[o] - 1 \in Nat /\ book[o] - 1 < book[o]
    BY <2>1
  <2> QED BY <2>2
<1>2. PICK S : S = (DOMAIN book \ {o}) \union (IF n = 0 THEN {} ELSE {o})
  OBVIOUS
<1>3. b = [x \in S |-> IF x = o THEN n ELSE book[x]]
  BY <1>1, <1>2 DEF Having
<1>4. DOMAIN b = S /\ S \in SUBSET DOMAIN book
  BY <1>2, <1>3
<1>5. ASSUME NEW x \in DOMAIN b
      PROVE  b[x] \in Nat \ {0} /\ IsOrder(x) /\ b[x] <= book[x]
  <2>1. book[x] \in Nat \ {0} /\ IsOrder(x)
    BY <1>4 DEF IsBook
  <2>2. CASE x = o
    BY <1>1, <1>2, <1>3, <2>1, <2>2
  <2>3. CASE x # o
    BY <1>3, <1>4, <2>1, <2>3
  <2> QED BY <2>2, <2>3
<1>6. IsBook(b)
  <2>1. IsFiniteSet(DOMAIN b)
    BY <1>4, FS_Subset DEF IsBook
  <2>2. b = [x \in DOMAIN b |-> b[x]]
    BY <1>3
  <2> QED BY <1>5, <2>1, <2>2 DEF IsBook
<1>7. /\ Counts(b) /\ SumFunction(b) \in Nat
      /\ Counts(book) /\ SumFunction(book) \in Nat
  BY <1>6, BookCounts
<1>8. PICK one \in Int : one = 1
  OBVIOUS
<1>9. one * SumFunction(b) <= one * SumFunction(book)
  <2>1. \A x \in DOMAIN b : one * b[x] <= one * book[x]
    <3>1. ASSUME NEW x \in DOMAIN b PROVE one * b[x] <= one * book[x]
      <4>1. b[x] \in Int /\ book[x] \in Int /\ b[x] <= book[x]
        BY <1>4, <1>5 DEF IsBook
      <4> QED BY <1>8, <4>1
    <3> QED BY <3>1
  <2>2. \A x \in DOMAIN book \ DOMAIN b : 0 <= one * book[x]
    BY <1>8 DEF IsBook
  <2> QED BY <1>4, <1>7, <2>1, <2>2, Bounded
<1> QED BY <1>4, <1>6, <1>7, <1>8, <1>9 DEF Held

\* An order that is sent.
LEMMA SentTypes ==
  ASSUME AllocInv, at = "cycle", cycle \in Nat, NEW c \in Candidates,
         NEW n \in Asked(c), NEW q \in Quantities(c, n), StopAt(c) > 0
  PROVE  /\ IsOrder(Order(c, q)) /\ Order(c, q).cycle = cycle
         /\ ~Order(c, q).upsized => WithinRisk(Order(c, q))
         /\ Value(Order(c, q)) * n.den <= n.num
<1>1. q \in Nat \ {0} /\ (q * c.price) * n.den <= n.num
  BY QuantityFits
<1>2. c.price \in Nat \ {0} /\ c.half \in Nat \ {0}
  BY CandidateTypes
<1>3. StopAt(c) \in Nat \ {0}
  <2>1. PICK h \in Nat \ {0} : h = c.half
    BY <1>2
  <2>2. (h + 2 - 1) \div 2 \in Int /\ h \div 2 \in Int
    OBVIOUS
  <2>3. StopAt(c) \in Int
    BY <2>1, <2>2 DEF StopAt, CeilDiv
  <2> QED BY <2>3
<1>4. PICK o : o = Order(c, q)
  OBVIOUS
<1>5. /\ o.qty = q /\ o.price = c.price /\ o.stop = StopAt(c)
      /\ o.upsized = TooSmall(c) /\ o.cycle = cycle
  BY <1>4 DEF Order
<1>6. TooSmall(c) \in BOOLEAN
  BY DEF TooSmall, Less, Leq
<1>7. IsOrder(o)
  BY <1>1, <1>2, <1>3, <1>5, <1>6 DEF IsOrder
<1>8. ASSUME ~TooSmall(c) PROVE WithinRisk(o)
  BY <1>5, <1>8, RiskFits DEF WithinRisk
<1> QED BY <1>1, <1>4, <1>5, <1>7, <1>8 DEF Value

\* Before the first order of a cycle there is nothing of that cycle.
LEMMA NoneYet ==
  ASSUME BookInv, at # "cycle", book' = book, cycle' = cycle
  PROVE  BookInv'
<1>1. /\ IsBook(book) /\ cycle \in Nat
      /\ \A o \in DOMAIN book : o.cycle <= cycle /\ o.cycle < cycle
  BY DEF BookInv
<1>2. \A o \in DOMAIN book : o.cycle \in Nat
  BY <1>1 DEF IsBook, IsOrder
<1>3. \A o \in DOMAIN book' : o.cycle # cycle'
  BY <1>1, <1>2
<1>4. IsBook(book)' /\ cycle' \in Nat
  BY <1>1
<1>5. \A o \in DOMAIN book' :
        o.cycle <= cycle' /\ (at' # "cycle" => o.cycle < cycle')
  BY <1>1
<1> QED BY <1>3, <1>4, <1>5 DEF BookInv

LEMMA RiskKept ==
  ASSUME acct' = acct, alloc' = alloc
  PROVE  RiskEach' = RiskEach /\ \A o : WithinRisk(o)' = WithinRisk(o)
BY DEF RiskEach, RiskOf, WithinRisk

LEMMA BookSent ==
  ASSUME AllocInv, BookInv, NEW c \in Candidates, Send(c)
  PROVE  BookInv'
<1>1. /\ at = "cycle" /\ StopAt(c) > 0 /\ cycle' = cycle /\ at' = at
      /\ acct' = acct /\ alloc' = alloc
      /\ IsBook(book) /\ cycle \in Nat
  BY DEF Send, BookInv
<1>2. PICK n \in Asked(c) :
         /\ Fits(n)
         /\ \E q \in Quantities(c, n) :
              book' = Having(Order(c, q), Copies(Order(c, q)) + 1)
  BY DEF Send
<1>3. PICK q \in Quantities(c, n) :
         book' = Having(Order(c, q), Copies(Order(c, q)) + 1)
  BY <1>2
<1>4. PICK o : o = Order(c, q)
  OBVIOUS
<1>5. PICK b : b = Having(o, Copies(o) + 1)
  OBVIOUS
<1>6. book' = b
  BY <1>3, <1>4, <1>5
<1>7. IsOrder(o) /\ o.cycle = cycle /\ (~o.upsized => WithinRisk(o))
  BY <1>1, <1>4, SentTypes
<1>8. /\ IsBook(b) /\ DOMAIN b = DOMAIN book \union {o}
      /\ SumFunction(b) = Held + 1
  BY <1>1, <1>5, <1>7, Joined
<1>9. IsBook(book)'
  BY <1>6, <1>8
<1>10. \A x \in DOMAIN book' : x.cycle <= cycle' /\ at' = "cycle"
  BY <1>1, <1>6, <1>7, <1>8 DEF BookInv
<1>11. ASSUME ~alloc.upsized
       PROVE  Held' * RiskEach.num <= BudgetPct * RiskEach.den
  <2>1. (Held + 1) * RiskEach.num <= BudgetPct * RiskEach.den
    BY <1>2 DEF Fits
  <2>2. Held' = Held + 1
    BY <1>6, <1>8 DEF Held
  <2> QED BY <2>1, <2>2
<1>12. ASSUME ~alloc.upsized, NEW x \in DOMAIN book',
              x.cycle = cycle', ~x.upsized
       PROVE  WithinRisk(x)'
  <2>1. WithinRisk(x)
    BY <1>1, <1>6, <1>7, <1>8, <1>12 DEF BookInv
  <2> QED BY <1>1, <2>1, RiskKept
<1> QED BY <1>1, <1>9, <1>10, <1>11, <1>12, RiskKept DEF BookInv

LEMMA BookShrinks ==
  ASSUME BookInv, Ends, AllocInv
  PROVE  BookInv' /\ Held' \in Nat /\ Held \in Nat /\ Held' <= Held
<1>1. /\ cycle' = cycle /\ at' = at /\ acct' = acct /\ alloc' = alloc
      /\ IsBook(book) /\ cycle \in Nat
  BY DEF Ends, BookInv
<1>2. PICK o \in DOMAIN book : book' = Having(o, book[o] - 1)
  BY DEF Ends
<1>3. PICK b : b = Having(o, book[o] - 1)
  OBVIOUS
<1>4. book' = b
  BY <1>2, <1>3
<1>5. /\ IsBook(b) /\ DOMAIN b \subseteq DOMAIN book
      /\ SumFunction(b) <= Held /\ SumFunction(b) \in Nat /\ Held \in Nat
  BY <1>1, <1>3, Left
<1>6. Held' = SumFunction(b)
  BY <1>4 DEF Held
<1>7. IsBook(book)'
  BY <1>4, <1>5
<1>8. \A x \in DOMAIN book' :
        x.cycle <= cycle' /\ (at' # "cycle" => x.cycle < cycle')
  BY <1>1, <1>4, <1>5 DEF BookInv
<1>9. ASSUME at = "cycle", ~alloc.upsized
      PROVE  /\ \A x \in DOMAIN book' :
                  x.cycle = cycle' /\ ~x.upsized => WithinRisk(x)'
             /\ (\E x \in DOMAIN book' : x.cycle = cycle')
                => Held' * RiskEach'.num <= BudgetPct * RiskEach'.den
  <2>1. \A x \in DOMAIN book' :
          x.cycle = cycle' /\ ~x.upsized => WithinRisk(x)'
    BY <1>1, <1>4, <1>5, <1>9, RiskKept DEF BookInv
  <2>2. ASSUME NEW x \in DOMAIN book', x.cycle = cycle'
        PROVE  Held' * RiskEach.num <= BudgetPct * RiskEach.den
    <3>1. Held * RiskEach.num <= BudgetPct * RiskEach.den
      BY <1>1, <1>4, <1>5, <1>9, <2>2 DEF BookInv
    <3>2. PICK g \in Nat, d \in Nat, p \in Nat :
             g = RiskEach.num /\ d = RiskEach.den /\ p = BudgetPct
      BY <1>9, RiskEachTypes, SettingsAssumption DEF RiskSettings
    <3>3. PICK h \in Nat, k \in Nat : h = Held /\ k = Held'
      BY <1>5, <1>6
    <3>4. k * g <= h * g
      BY <1>5, <1>6, <3>3, Mono
    <3>5. k * g \in Nat /\ h * g \in Nat /\ p * d \in Nat
      <4>1. \A u, v \in Nat : u * v \in Nat
        OBVIOUS
      <4> QED BY <4>1
    <3> QED BY <3>1, <3>2, <3>3, <3>4, <3>5
  <2> QED BY <1>1, <2>1, <2>2, RiskKept
<1>10. BookInv'
  BY <1>1, <1>7, <1>8, <1>9 DEF BookInv
<1> QED BY <1>5, <1>6, <1>10

LEMMA BookInit == Init => BookInv
<1> SUFFICES ASSUME Init PROVE BookInv
  OBVIOUS
<1>1. PICK z : z = 0
  OBVIOUS
<1>2. book = [o \in {} |-> z]
  BY <1>1 DEF Init
<1>3. DOMAIN book = {} /\ book = [o \in DOMAIN book |-> book[o]]
  BY <1>2
<1>4. IsBook(book)
  BY <1>3, FS_EmptySet DEF IsBook
<1> QED BY <1>3, <1>4 DEF BookInv, Init

LEMMA BookSteps ==
  ASSUME AllocInv, BookInv, [Next]_vars PROVE BookInv'
<1>1. CASE TrimMinimum
  BY <1>1, NoneYet DEF TrimMinimum
<1>2. CASE TrimLeverage
  BY <1>2, NoneYet DEF TrimLeverage
<1>3. ASSUME NEW c \in Candidates, Send(c) PROVE BookInv'
  BY <1>3, BookSent
<1>4. CASE Pass \/ UNCHANGED vars
  <2>1. /\ book' = book /\ cycle' = cycle /\ at' = at
        /\ acct' = acct /\ alloc' = alloc
    BY <1>4 DEF Pass, vars
  <2>2. Held' = Held
    BY <2>1 DEF Held
  <2> QED BY <2>1, <2>2, RiskKept DEF BookInv
<1>5. CASE Ends
  BY <1>5, BookShrinks
<1>6. ASSUME NEW a \in Accounts, Begins(a) PROVE BookInv'
  <2>1. at' = "minimum" /\ cycle' = cycle + 1 /\ book' = book
    BY <1>6 DEF Begins, Goto
  <2>2. IsBook(book)' /\ cycle' \in Nat
    BY <2>1 DEF BookInv
  <2>3. \A o \in DOMAIN book' : o.cycle <= cycle' /\ o.cycle < cycle'
    <3>1. ASSUME NEW o \in DOMAIN book
          PROVE  o.cycle <= cycle + 1 /\ o.cycle < cycle + 1
      <4>1. o.cycle \in Nat /\ cycle \in Nat /\ o.cycle <= cycle
        BY DEF BookInv, IsBook, IsOrder
      <4> QED BY <4>1
    <3> QED BY <2>1, <3>1
  <2> QED BY <2>1, <2>2, <2>3 DEF BookInv
<1> QED BY <1>1, <1>2, <1>3, <1>4, <1>5, <1>6 DEF Next

-------------------------------------------------------------------------------
(* The theorems.                                                           *)

SizeInv == AllocInv /\ BookInv

\* The invariant behind the three properties: what the trimming has ruled out
\* so far, what each order of a cycle may cost, and that the book was small
\* enough for the risk of that cycle.
THEOREM SizesInvariant == Spec => []SizeInv
<1>1. Init => SizeInv
  BY AllocInit, BookInit DEF SizeInv
<1>2. SizeInv /\ [Next]_vars => SizeInv'
  BY AllocSteps, BookSteps DEF SizeInv
<1> QED BY <1>1, <1>2, PTL DEF Spec

\* allocate() finds the most positions that each clear the exchange minimum
\* and together respect the leverage, whatever the account is worth.
THEOREM AllocatesTheMost == Spec => []AllocationIsLargest
<1>1. SizeInv => AllocationIsLargest
  BY DEF SizeInv, AllocInv
<1> QED BY <1>1, SizesInvariant, PTL

\* place() never adds an order that takes the book past the leverage, for any
\* price, step and minimum of the exchange.
THEOREM LeverageIsKept == Spec => LeverageHolds
<1> DEFINE Kept == Held' > Held => Total(Value, book') <= Ceiling'.num
<1>1. ASSUME SizeInv, [Next]_vars PROVE Kept
  <2>1. AllocInv /\ BookInv /\ IsBook(book)
    BY <1>1 DEF SizeInv, BookInv
  <2>2. Held \in Nat
    BY <2>1, BookCounts DEF Held
  <2>3. CASE book' = book
    <3>1. Held' = Held
      BY <2>3 DEF Held
    <3> QED BY <2>2, <3>1
  <2>4. CASE Ends
    <3>1. Held' \in Nat /\ Held' <= Held
      BY <2>1, <2>4, BookShrinks
    <3> QED BY <2>2, <3>1
  <2>5. ASSUME NEW c \in Candidates, Send(c)
        PROVE  Total(Value, book') <= Ceiling'.num
    <3>1. /\ at = "cycle" /\ StopAt(c) > 0 /\ acct' = acct
          /\ cycle \in Nat
      BY <2>1, <2>5 DEF Send, BookInv
    <3>2. PICK n \in Asked(c) :
             /\ Fits(n)
             /\ \E q \in Quantities(c, n) :
                  book' = Having(Order(c, q), Copies(Order(c, q)) + 1)
      BY <2>5 DEF Send
    <3>3. PICK q \in Quantities(c, n) :
             book' = Having(Order(c, q), Copies(Order(c, q)) + 1)
      BY <3>2
    <3>4. PICK o : o = Order(c, q)
      OBVIOUS
    <3>5. PICK b : b = Having(o, Copies(o) + 1)
      OBVIOUS
    <3>6. book' = b
      BY <3>3, <3>4, <3>5
    <3>7. IsOrder(o) /\ Value(o) * n.den <= n.num
      BY <2>1, <3>1, <3>4, SentTypes
    <3>8. PICK t \in Int, v \in Int :
             /\ t = Total(Value, book) /\ v = Value(o)
             /\ Total(Value, b) = t + v
      <4>1. /\ Total(Value, b) = Total(Value, book) + Value(o)
            /\ Total(Value, book) \in Int /\ Value(o) \in Nat
        BY <2>1, <3>5, <3>7, Joined
      <4>2. Value(o) \in Int
        BY <4>1
      <4> QED BY <4>1, <4>2, Zenon
    <3>9. PICK u \in Int, d \in Int : u = n.num /\ d = n.den /\ d > 0
      BY <2>1, <3>1, AskedCovers DEF Fraction
    <3>10. PICK e \in Int : e = acct.equity * acct.leverage
      <4>1. \A x, y \in Int : x * y \in Int
        OBVIOUS
      <4> QED BY <2>1, <3>1, <4>1, RiskEachTypes
    <3>11. u + t * d <= e * d
      <4>1. [n EXCEPT !.num = @ + t * d] = [num |-> u + t * d, den |-> d]
        BY <2>1, <3>1, <3>9, AskedCovers DEF Fraction
      <4>2. Leq([num |-> u + t * d, den |-> d], Ceiling)
        BY <3>2, <3>8, <3>9, <4>1 DEF Fits
      <4>3. Ceiling = [num |-> e, den |-> 1]
        BY <3>10 DEF Ceiling, Whole
      <4>4. (u + t * d) * 1 <= e * d
        BY <4>2, <4>3 DEF Leq
      <4>5. u + t * d \in Int
        OBVIOUS
      <4> QED BY <4>4, <4>5
    <3>12. (t + v) * d <= e * d
      <4>1. v * d <= u
        BY <3>7, <3>8, <3>9
      <4>2. (t + v) * d = t * d + v * d
        OBVIOUS
      <4>3. t * d \in Int /\ v * d \in Int /\ e * d \in Int
        OBVIOUS
      <4> QED BY <3>11, <4>1, <4>2, <4>3
    <3>13. t + v <= e
      BY <3>9, <3>12, Cancel
    <3>14. Ceiling'.num = e
      BY <3>1, <3>10 DEF Ceiling, Whole
    <3> QED BY <3>6, <3>8, <3>13, <3>14
  <2>6. \/ book' = book \/ Ends \/ \E c \in Candidates : Send(c)
    BY <1>1 DEF Next, TrimMinimum, TrimLeverage, Pass, Begins, vars
  <2> QED BY <2>3, <2>4, <2>5, <2>6
<1> QED BY <1>1, SizesInvariant, PTL DEF Spec, LeverageHolds

\* What the stops of the orders of one cycle can cost fits the risk budget of
\* the account, give or take the rounding of each stop, unless an order was
\* taken at the exchange minimum.
THEOREM CycleIsBudgeted == Spec => []CycleFitsBudget
<1>1. ASSUME SizeInv PROVE CycleFitsBudget
  <2> DEFINE sized == {o \in DOMAIN book : o.cycle = cycle /\ ~o.upsized}
             orders == [o \in sized |-> book[o]]
             cost == [o \in sized |-> book[o] * (Loss(o) - o.qty)]
  <2>1. AllocInv /\ BookInv /\ IsBook(book)
    BY <1>1 DEF SizeInv, BookInv
  <2>2. /\ Counts(book) /\ SumFunction(book) \in Nat
        /\ acct.equity \in Nat
    BY <2>1, BookCounts, AccountTypes DEF AllocInv, AllocTypes
  <2>3. DOMAIN cost = sized /\ sized \in SUBSET DOMAIN book
    OBVIOUS
  <2>4. ASSUME NEW o \in DOMAIN book
        PROVE  /\ o.qty \in Nat /\ o.stop \in Nat \ {0}
               /\ book[o] \in Nat \ {0}
               /\ o.qty * (2 * o.stop - 1) \in Nat
               /\ Loss(o) - o.qty = o.qty * (2 * o.stop - 1)
    <3>1. PICK q \in Nat, s \in Nat \ {0} : q = o.qty /\ s = o.stop
      BY <2>1 DEF IsBook, IsOrder
    <3>2. PICK v \in Nat : v = 2 * s - 1
      OBVIOUS
    <3>3. q * v \in Nat
      OBVIOUS
    <3>4. 2 * q * s - q = q * (2 * s - 1)
      OBVIOUS
    <3> QED BY <2>1, <3>1, <3>2, <3>3, <3>4 DEF IsBook, Loss
  <2>5. Counts(cost)
    <3>1. IsFiniteSet(sized)
      BY <2>2, <2>3, FS_Subset DEF Counts
    <3>2. ASSUME NEW o \in sized PROVE cost[o] \in Int
      <4>1. \A x, y \in Nat : x * y \in Int
        OBVIOUS
      <4> QED BY <2>4, <4>1
    <3> HIDE DEF sized
    <3> QED BY <3>1, <3>2 DEF Counts
  <2>6. Total(LAMBDA o : Loss(o) - o.qty, orders) = SumFunction(cost)
    <3>1. \A o \in sized : orders[o] = book[o]
      OBVIOUS
    <3>2. DOMAIN orders = sized
      OBVIOUS
    <3>3. [o \in DOMAIN orders |-> orders[o] * (Loss(o) - o.qty)] = cost
      BY <3>1, <3>2
    <3> QED BY <3>3 DEF Total
  <2>7. PICK p \in Nat : p = BudgetPct
    BY SettingsAssumption DEF RiskSettings
  <2>8. CASE sized = {}
    <3>1. SumFunction(cost) = 0
      BY <2>3, <2>5, <2>8, SumTypes
    <3>2. \A x, y \in Nat : x * y \in Nat
      OBVIOUS
    <3>3. PICK e \in Nat : e = acct.equity
      BY <2>2
    <3>4. 2 * p * e \in Nat
      <4>1. 2 * p \in Nat
        OBVIOUS
      <4> QED BY <3>2, <4>1
    <3>5. 100 * SumFunction(cost) <= 2 * p * e
      BY <3>1, <3>4
    <3> HIDE DEF sized, orders, cost
    <3>6. FitsBudget(orders)
      BY <2>6, <2>7, <3>3, <3>5 DEF FitsBudget
    <3> QED BY <3>6 DEF CycleFitsBudget, sized, orders
  <2>9. CASE sized # {} /\ ~alloc.upsized
    <3>1. at = "cycle"
      <4>1. PICK o \in DOMAIN book : o.cycle = cycle
        BY <2>9
      <4>2. o.cycle \in Nat /\ cycle \in Nat
        BY <2>1, <4>1 DEF BookInv, IsBook, IsOrder
      <4> QED BY <2>1, <4>1, <4>2 DEF BookInv
    <3>2. PICK e \in Nat, g \in Nat, d \in Nat \ {0}, h \in Nat :
             /\ e = acct.equity /\ g = RiskEach.num /\ d = RiskEach.den
             /\ h = SumFunction(book)
      BY <2>1, <2>2, <3>1, RiskEachTypes
    <3>3. h * g <= p * d
      BY <2>1, <2>7, <2>9, <3>1, <3>2 DEF BookInv, Held
    <3>4. PICK a \in Nat \ {0}, b \in Nat :
             a = 100 * d /\ b = 2 * e * g
      <4>1. 2 * e \in Nat /\ \A x, y \in Nat : x * y \in Nat
        OBVIOUS
      <4>2. 2 * e * g \in Nat
        BY <4>1
      <4> QED BY <4>2
    <3>5. ASSUME NEW o \in sized PROVE a * cost[o] <= b * book[o]
      <4>1. o \in DOMAIN book /\ WithinRisk(o)
        BY <2>1, <2>9, <3>1 DEF BookInv
      <4>2. PICK k \in Nat, w \in Nat :
               k = book[o] /\ w = o.qty * (2 * o.stop - 1)
        BY <2>4, <4>1
      <4>3. a * w <= b
        BY <3>2, <3>4, <4>1, <4>2 DEF WithinRisk
      <4>4. (a * w) * k <= b * k
        <5>1. a * w \in Nat
          OBVIOUS
        <5> QED BY <4>3, <5>1, Mono
      <4>5. a * (k * w) = (a * w) * k
        OBVIOUS
      <4>6. cost[o] = k * w
        BY <2>4, <4>1, <4>2
      <4> QED BY <4>2, <4>4, <4>5, <4>6
    <3>6. ASSUME NEW o \in DOMAIN book \ sized PROVE 0 <= b * book[o]
      <4>1. PICK k \in Nat : k = book[o]
        BY <2>4
      <4>2. b * k \in Nat
        OBVIOUS
      <4> QED BY <4>1, <4>2
    <3>7. a * SumFunction(cost) <= b * h
      <4>1. /\ DOMAIN cost \subseteq DOMAIN book
            /\ \A x \in DOMAIN cost : a * cost[x] <= b * book[x]
            /\ \A x \in DOMAIN book \ DOMAIN cost : 0 <= b * book[x]
        <5> HIDE DEF sized, cost
        <5> QED BY <2>3, <3>5, <3>6
      <4>2. a \in Int /\ b \in Int
        OBVIOUS
      <4>3. a * SumFunction(cost) <= b * SumFunction(book)
        <5> HIDE DEF sized, cost
        <5> QED BY <2>2, <2>5, <4>1, <4>2, Bounded
      <4> QED BY <3>2, <4>3
    <3>8. PICK t \in Int : t = SumFunction(cost)
      <4> HIDE DEF cost
      <4> QED BY <2>5, SumTypes
    <3>9. b * h <= (2 * e) * (p * d)
      <4>1. PICK f \in Nat, y \in Nat, z \in Nat :
               f = 2 * e /\ y = h * g /\ z = p * d
        <5>1. \A x, y \in Nat : x * y \in Nat
          OBVIOUS
        <5> QED BY <5>1
      <4>2. y * f <= z * f
        BY <3>3, <4>1, Mono
      <4>3. b * h = (h * g) * (2 * e)
        BY <3>4
      <4>4. z * f = f * z
        OBVIOUS
      <4> QED BY <4>1, <4>2, <4>3, <4>4
    <3>10. (100 * t) * d <= (2 * p * e) * d
      <4>1. /\ (100 * t) * d = a * t
            /\ (2 * p * e) * d = (2 * e) * (p * d)
        BY <3>4
      <4>2. a * t \in Int /\ b * h \in Int /\ (2 * e) * (p * d) \in Int
        <5>1. \A x, y \in Int : x * y \in Int
          OBVIOUS
        <5>2. 2 * e \in Int /\ p * d \in Int
          BY <5>1
        <5> QED BY <5>1, <5>2
      <4> HIDE DEF cost
      <4> QED BY <3>7, <3>8, <3>9, <4>1, <4>2
    <3>11. 100 * t <= 2 * p * e
      <4>1. 100 * t \in Int /\ 2 * p * e \in Int /\ d \in Int /\ d > 0
        <5>1. 2 * p \in Int /\ \A x, y \in Int : x * y \in Int
          OBVIOUS
        <5>2. (2 * p) * e \in Int
          BY <5>1
        <5> QED BY <5>2
      <4> QED BY <3>10, <4>1, Cancel
    <3> HIDE DEF sized, orders, cost
    <3>12. FitsBudget(orders)
      BY <2>6, <2>7, <3>2, <3>8, <3>11 DEF FitsBudget
    <3> QED BY <3>12 DEF CycleFitsBudget, sized, orders
  <2> QED BY <2>8, <2>9 DEF CycleFitsBudget
<1> QED BY <1>1, SizesInvariant, PTL
===============================================================================
