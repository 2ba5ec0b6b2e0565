----------------------------- MODULE UnitsTheorems -----------------------------
(***************************************************************************)
(* Facts about sums that are counted unit by unit (Units).  None of them   *)
(* needs an induction: a set of units is a union of disjoint sets of       *)
(* units, and cardinalities add up.                                        *)
(***************************************************************************)
EXTENDS Units, FiniteSetTheorems, TLAPS

\* The units of one element.
LEMMA OneStack ==
  ASSUME NEW n, NEW x, n[x] \in Nat
  PROVE  /\ IsFiniteSet({x} \X (1 .. n[x]))
         /\ Cardinality({x} \X (1 .. n[x])) = n[x]
<1> DEFINE one == {x}
           numbers == 1 .. n[x]
<1>1. IsFiniteSet(one) /\ Cardinality(one) = 1
  BY FS_Singleton
<1>2. IsFiniteSet(numbers) /\ Cardinality(numbers) = n[x]
  BY FS_Interval
<1> HIDE DEF one, numbers
<1>3. IsFiniteSet(one \X numbers) /\ Cardinality(one \X numbers) = 1 * n[x]
  BY <1>1, <1>2, FS_Product
<1>4. QED
  BY <1>3 DEF one, numbers

\* A sum over a finite set is a natural number.
LEMMA AmountIsNat ==
  ASSUME NEW S, IsFiniteSet(S), NEW n, \A x \in S : n[x] \in Nat
  PROVE  IsFiniteSet(Units(n, S)) /\ Amount(n, S) \in Nat
<1> DEFINE stacks == {{x} \X (1 .. n[x]) : x \in S}
           f == [x \in S |-> {x} \X (1 .. n[x])]
<1>1. f \in Surjection(S, stacks)
  BY DEF Surjection
<1>2. IsFiniteSet(stacks)
  BY <1>1, FS_Surjection
<1>3. \A T \in stacks : IsFiniteSet(T)
  BY OneStack
<1>4. IsFiniteSet(UNION stacks)
  BY <1>2, <1>3, FS_UNION
<1>5. QED
  BY <1>4, FS_CardinalityType DEF Amount, Units

\* A sum only reads the function on the set it is taken over.
LEMMA AmountSame ==
  ASSUME NEW S, NEW n, NEW m, \A x \in S : n[x] = m[x]
  PROVE  Amount(n, S) = Amount(m, S)
<1>1. Units(n, S) = Units(m, S)
  BY DEF Units
<1>2. QED
  BY <1>1 DEF Amount

\* An element may be counted apart.
LEMMA AmountSplit ==
  ASSUME NEW S, IsFiniteSet(S), NEW n, \A y \in S : n[y] \in Nat, NEW x \in S
  PROVE  Amount(n, S) = Amount(n, S \ {x}) + n[x]
<1> DEFINE mine == {x} \X (1 .. n[x])
           others == Units(n, S \ {x})
<1>1. Units(n, S) = others \cup mine
  BY DEF Units
<1>2. others \cap mine = {}
  BY DEF Units
<1>3. IsFiniteSet(mine) /\ Cardinality(mine) = n[x]
  BY OneStack
<1>4. IsFiniteSet(S \ {x})
  BY FS_RemoveElement
<1>5. IsFiniteSet(others) /\ Cardinality(others) \in Nat
  BY <1>4, AmountIsNat DEF Amount
<1>6. Cardinality(others \cap mine) = 0
  BY <1>2, FS_EmptySet
<1> HIDE DEF mine, others
<1>7. Cardinality(others \cup mine) = Cardinality(others) + Cardinality(mine) - 0
  BY <1>3, <1>5, <1>6, FS_Union
<1>8. QED
  BY <1>1, <1>3, <1>5, <1>7 DEF Amount, others

\* A set that grows by one element.
LEMMA AmountAdd ==
  ASSUME NEW S, IsFiniteSet(S), NEW x, x \notin S, NEW n, \A y \in S \cup {x} : n[y] \in Nat
  PROVE  Amount(n, S \cup {x}) = Amount(n, S) + n[x]
<1>1. IsFiniteSet(S \cup {x})
  BY FS_AddElement
<1>2. (S \cup {x}) \ {x} = S
  OBVIOUS
<1>3. QED
  BY <1>1, <1>2, AmountSplit

\* A function that changes at one element.
LEMMA AmountChange ==
  ASSUME NEW S, IsFiniteSet(S), NEW x \in S,
         NEW n, \A y \in S : n[y] \in Nat,
         NEW m, \A y \in S : m[y] \in Nat,
         \A y \in S \ {x} : m[y] = n[y]
  PROVE  Amount(m, S) = Amount(n, S) - n[x] + m[x]
<1>1. Amount(n, S) = Amount(n, S \ {x}) + n[x]
  BY AmountSplit
<1>2. Amount(m, S) = Amount(m, S \ {x}) + m[x]
  BY AmountSplit
<1>3. Amount(m, S \ {x}) = Amount(n, S \ {x})
  BY AmountSame
<1>4. Amount(n, S \ {x}) \in Nat
  BY FS_RemoveElement, AmountIsNat
<1>5. QED
  BY <1>1, <1>2, <1>3, <1>4

\* Nothing adds up to nothing.
LEMMA AmountZero ==
  ASSUME NEW S, NEW n, \A x \in S : n[x] = 0
  PROVE  Amount(n, S) = 0
<1>1. Units(n, S) = {}
  BY DEF Units
<1>2. QED
  BY <1>1, FS_EmptySet DEF Amount

\* A unit is an element and a number.
LEMMA UnitIs ==
  ASSUME NEW S, NEW n, \A x \in S : n[x] \in Nat
  PROVE  /\ \A u \in Units(n, S) : u = <<u[1], u[2]>> /\ u[1] \in S /\ u[2] \in 1 .. n[u[1]]
         /\ \A x \in S : \A k \in 1 .. n[x] : <<x, k>> \in Units(n, S)
<1>1. ASSUME NEW u \in Units(n, S)
      PROVE  u = <<u[1], u[2]>> /\ u[1] \in S /\ u[2] \in 1 .. n[u[1]]
  <2>1. PICK x \in S : u \in {x} \X (1 .. n[x])
    BY DEF Units
  <2>2. QED
    BY <2>1
<1>2. QED
  BY <1>1 DEF Units

\* Sums add up element by element.
LEMMA AmountPlus ==
  ASSUME NEW S, IsFiniteSet(S),
         NEW n, \A x \in S : n[x] \in Nat,
         NEW m, \A x \in S : m[x] \in Nat,
         NEW q, \A x \in S : q[x] = n[x] + m[x]
  PROVE  Amount(q, S) = Amount(n, S) + Amount(m, S)
<1> DEFINE low == Units(n, S)
           high == {u \in Units(q, S) : u[2] > n[u[1]]}
           f == [u \in Units(m, S) |-> <<u[1], u[2] + n[u[1]]>>]
<1>1. \A x \in S : q[x] \in Nat
  OBVIOUS
<1>2. Units(q, S) = low \cup high
  <2>1. ASSUME NEW u \in Units(q, S), u \notin high PROVE u \in low
    <3>1. u = <<u[1], u[2]>> /\ u[1] \in S /\ u[2] \in 1 .. q[u[1]] /\ ~(u[2] > n[u[1]])
      BY <1>1, <2>1, UnitIs
    <3>2. u[2] \in 1 .. n[u[1]]
      BY <3>1
    <3>3. QED
      BY <3>1, <3>2, UnitIs
  <2>2. ASSUME NEW u \in low PROVE u \in Units(q, S)
    <3>1. u = <<u[1], u[2]>> /\ u[1] \in S /\ u[2] \in 1 .. n[u[1]]
      BY UnitIs
    <3>2. u[2] \in 1 .. q[u[1]]
      BY <3>1
    <3>3. QED
      BY <1>1, <3>1, <3>2, UnitIs
  <2>3. QED
    BY <2>1, <2>2
<1>3. low \cap high = {}
  <2>1. ASSUME NEW u \in low PROVE ~(u[2] > n[u[1]])
    BY UnitIs
  <2>2. QED
    BY <2>1
<1>4. f \in Bijection(Units(m, S), high)
  <2>1. ASSUME NEW u \in Units(m, S) PROVE f[u] \in high /\ f[u] = <<u[1], u[2] + n[u[1]]>>
    <3>1. u[1] \in S /\ u[2] \in 1 .. m[u[1]] /\ n[u[1]] \in Nat /\ m[u[1]] \in Nat
      BY UnitIs
    <3>2. u[2] + n[u[1]] \in 1 .. q[u[1]] /\ u[2] + n[u[1]] > n[u[1]]
      BY <3>1
    <3>3. QED
      BY <1>1, <3>1, <3>2, UnitIs
  <2>2. ASSUME NEW u \in Units(m, S), NEW v \in Units(m, S), f[u] = f[v] PROVE u = v
    <3>1. u[1] = v[1] /\ u[2] + n[u[1]] = v[2] + n[u[1]]
      BY <2>1, <2>2
    <3>2. u = <<u[1], u[2]>> /\ v = <<v[1], v[2]>> /\ u[2] \in Int /\ v[2] \in Int /\ n[u[1]] \in Nat
      BY UnitIs
    <3>3. QED
      BY <3>1, <3>2
  <2>3. ASSUME NEW w \in high PROVE \E u \in Units(m, S) : f[u] = w
    <3>1. w = <<w[1], w[2]>> /\ w[1] \in S /\ w[2] \in 1 .. q[w[1]] /\ w[2] > n[w[1]]
      BY <1>1, UnitIs
    <3>2. n[w[1]] \in Nat /\ m[w[1]] \in Nat /\ q[w[1]] = n[w[1]] + m[w[1]]
      BY <3>1
    <3>3. w[2] - n[w[1]] \in 1 .. m[w[1]] /\ (w[2] - n[w[1]]) + n[w[1]] = w[2]
      BY <3>1, <3>2
    <3>4. <<w[1], w[2] - n[w[1]]>> \in Units(m, S)
      BY <3>1, <3>3, UnitIs
    <3>5. f[<<w[1], w[2] - n[w[1]]>>] = w
      BY <2>1, <3>1, <3>3, <3>4
    <3>6. QED
      BY <3>4, <3>5
  <2>4. f \in [Units(m, S) -> high]
    BY <2>1
  <2> HIDE DEF f, high
  <2>5. QED
    BY <2>2, <2>3, <2>4 DEF Bijection, Injection, Surjection, IsInjective
<1>5. IsFiniteSet(Units(m, S)) /\ IsFiniteSet(low) /\ Amount(m, S) \in Nat /\ Amount(n, S) \in Nat
  BY AmountIsNat
<1>6. IsFiniteSet(high) /\ Cardinality(high) = Cardinality(Units(m, S))
  <2>1. ExistsBijection(Units(m, S), high)
    BY <1>4 DEF ExistsBijection
  <2>2. QED
    BY <1>5, <2>1, FS_Bijection
<1>7. Cardinality(low \cap high) = 0
  BY <1>3, FS_EmptySet
<1> HIDE DEF low, high
<1>8. Cardinality(low \cup high) = Cardinality(low) + Cardinality(high) - 0
  BY <1>5, <1>6, <1>7, FS_Union
<1>9. QED
  BY <1>2, <1>5, <1>6, <1>8 DEF Amount, low

\* What it is to be a bijection, without the library's names.
LEMMA BijectionIs ==
  ASSUME NEW A, NEW B, NEW g \in Bijection(A, B)
  PROVE  /\ \A k \in A : g[k] \in B
         /\ \A k, l \in A : g[k] = g[l] => k = l
         /\ \A w \in B : \E k \in A : g[k] = w
<1>1. g \in [A -> B]
  BY DEF Bijection, Injection
<1>2. \A k, l \in A : g[k] = g[l] => k = l
  BY DEF Bijection, Injection, IsInjective
<1>3. \A w \in B : \E k \in A : g[k] = w
  BY DEF Bijection, Surjection
<1>4. QED
  BY <1>1, <1>2, <1>3

\* A finite set that is cut into parts has as many elements as its parts together.
LEMMA AmountOfParts ==
  ASSUME NEW S, IsFiniteSet(S),
         NEW T, \A x \in S : IsFiniteSet(T[x]),
         \A x, y \in S : x # y => T[x] \cap T[y] = {},
         NEW n, \A x \in S : n[x] = Cardinality(T[x])
  PROVE  Amount(n, S) = Cardinality(UNION {T[x] : x \in S})
<1> DEFINE all == UNION {T[x] : x \in S}
           b == [x \in S |-> CHOOSE g : g \in Bijection(1 .. n[x], T[x])]
           f == [u \in Units(n, S) |-> b[u[1]][u[2]]]
<1>1. \A x \in S : n[x] \in Nat
  BY FS_CardinalityType
<1>2. ASSUME NEW x \in S PROVE b[x] \in Bijection(1 .. n[x], T[x])
  <2> DEFINE numbers == 1 .. n[x]
             part == T[x]
  <2>1. IsFiniteSet(numbers) /\ Cardinality(numbers) = n[x]
    <3>1. \A k \in Nat : IsFiniteSet(1 .. k) /\ Cardinality(1 .. k) = k
      <4>1. ASSUME NEW k \in Nat PROVE IsFiniteSet(1 .. k) /\ Cardinality(1 .. k) = k
        BY FS_Interval
      <4>2. QED
        BY <4>1
    <3>2. QED
      BY <1>1, <3>1
  <2>2. IsFiniteSet(part) /\ Cardinality(numbers) = Cardinality(part)
    BY <2>1
  <2> HIDE DEF numbers, part
  <2>3. ExistsBijection(numbers, part)
    BY <2>1, <2>2, FS_SameCardinalityBij
  <2> USE DEF numbers, part
  <2>4. QED
    BY <2>3 DEF ExistsBijection
<1> HIDE DEF b
<1>3. ASSUME NEW x \in S
      PROVE  /\ \A k \in 1 .. n[x] : b[x][k] \in T[x]
             /\ \A k, l \in 1 .. n[x] : b[x][k] = b[x][l] => k = l
             /\ \A w \in T[x] : \E k \in 1 .. n[x] : b[x][k] = w
  <2> DEFINE numbers == 1 .. n[x]
             part == T[x]
             g == b[x]
  <2>1. g \in Bijection(numbers, part)
    BY <1>2
  <2> HIDE DEF numbers, part, g
  <2>2. /\ \A k \in numbers : g[k] \in part
        /\ \A k, l \in numbers : g[k] = g[l] => k = l
        /\ \A w \in part : \E k \in numbers : g[k] = w
    BY <2>1, BijectionIs
  <2>3. QED
    BY <2>2 DEF numbers, part, g
<1>4. f \in Bijection(Units(n, S), all)
  <2>1. ASSUME NEW u \in Units(n, S) PROVE f[u] \in T[u[1]] /\ u[1] \in S /\ f[u] = b[u[1]][u[2]]
    BY <1>1, <1>3, UnitIs
  <2>2. ASSUME NEW u \in Units(n, S), NEW v \in Units(n, S), f[u] = f[v] PROVE u = v
    <3>1. u[1] = v[1]
      BY <2>1, <2>2
    <3>2. /\ u = <<u[1], u[2]>> /\ v = <<v[1], v[2]>>
          /\ u[1] \in S /\ u[2] \in 1 .. n[u[1]] /\ v[2] \in 1 .. n[u[1]]
      BY <1>1, <3>1, UnitIs
    <3>3. b[u[1]][u[2]] = b[u[1]][v[2]]
      BY <2>1, <2>2, <3>1
    <3>4. QED
      BY <1>3, <3>1, <3>2, <3>3
  <2>3. ASSUME NEW w \in all PROVE \E u \in Units(n, S) : f[u] = w
    <3>1. PICK x \in S : w \in T[x]
      OBVIOUS
    <3>2. PICK k \in 1 .. n[x] : b[x][k] = w
      BY <1>3, <3>1
    <3>3. <<x, k>> \in Units(n, S)
      BY <1>1, UnitIs
    <3>4. f[<<x, k>>] = w
      BY <2>1, <3>2, <3>3
    <3>5. QED
      BY <3>3, <3>4
  <2>4. f \in [Units(n, S) -> all]
    BY <2>1
  <2> HIDE DEF f, all
  <2>5. QED
    BY <2>2, <2>3, <2>4 DEF Bijection, Injection, Surjection, IsInjective
<1>5. IsFiniteSet(Units(n, S))
  BY <1>1, AmountIsNat
<1>6. ExistsBijection(Units(n, S), all)
  BY <1>4 DEF ExistsBijection
<1> HIDE DEF all
<1>7. Cardinality(all) = Cardinality(Units(n, S))
  BY <1>5, <1>6, FS_Bijection
<1>8. QED
  BY <1>7 DEF Amount, all

\* Stacks of one size.
LEMMA AmountEven ==
  ASSUME NEW S, IsFiniteSet(S), NEW k \in Nat, NEW n, \A x \in S : n[x] = k
  PROVE  Amount(n, S) = k * Cardinality(S)
<1>1. Units(n, S) = S \X (1 .. k)
  BY DEF Units
<1> DEFINE numbers == 1 .. k
<1>2. IsFiniteSet(numbers) /\ Cardinality(numbers) = k
  BY FS_Interval
<1> HIDE DEF numbers
<1>3. Cardinality(S \X numbers) = Cardinality(S) * k /\ Cardinality(S) \in Nat
  BY <1>2, FS_Product, FS_CardinalityType
<1>4. k * Cardinality(S) = Cardinality(S) * k
  BY <1>3
<1>5. QED
  BY <1>1, <1>3, <1>4 DEF Amount, numbers
=============================================================================
