-------------------------- MODULE PaymentFiles_proof --------------------------
(***************************************************************************)
(* Theorems about PaymentFiles, for any jobs, packages, credits, batches,  *)
(* files, failures and crashes: what SCB is told to pay is told once, the  *)
(* rows and files have their types, what SAP reports is counted once, and  *)
(* the three files of a batch ask for the same money.                      *)
(***************************************************************************)
EXTENDS PaymentFiles, FiniteSetTheorems, WellFoundedInduction, TLAPS

------------------------------------------------------------------------------
(* Sums over finite sets, as MapThenSumSet forms them                         *)

\* The element of a set that CHOOSE gives first.
One(s) == CHOOSE x \in s : TRUE

\* f sums the values of g over the subsets of S.
Sums(f, g, S) ==
  \A s \in SUBSET S : f[s] = IF s = {} THEN 0 ELSE g[One(s)] + f[s \ {One(s)}]

\* Whichever element comes first, the sum is the same.
AnyFirst(f, g, S) ==
  \A s \in SUBSET S : \A x \in s : f[s] = g[x] + f[s \ {x}]

\* The same for the subsets that have at most n elements.
SumsTo(f, g, S, n) ==
  \A s \in SUBSET S : Cardinality(s) <= n =>
    f[s] = IF s = {} THEN 0 ELSE g[One(s)] + f[s \ {One(s)}]

\* The recursive definition of such a function.
IsRecursive(f, g, S) ==
  f = [s \in SUBSET S |-> IF s = {} THEN 0 ELSE g[One(s)] + f[s \ {One(s)}]]

\* A set of subsets of a finite set has a smallest element.
LEMMA SmallestSubset ==
  ASSUME NEW S, IsFiniteSet(S), NEW T, T \subseteq SUBSET S, T # {}
  PROVE  \E m \in T : \A s \in T : s \subseteq m => s = m
<1>1. IsWellFoundedOn(StrictSubsetOrdering(S), SUBSET S)
  BY FS_StrictSubsetOrderingWellFounded, FS_FiniteSubsetsOfFinite
<1>2. PICK m \in T : \A s \in T : ~(<<s, m>> \in StrictSubsetOrdering(S))
  BY <1>1, WFMin
<1>3. ASSUME NEW s \in T, s \subseteq m, s # m PROVE FALSE
  <2>1. <<s, m>> \in (SUBSET S) \X (SUBSET S)
    OBVIOUS
  <2>2. <<s, m>> \in StrictSubsetOrdering(S)
    BY <2>1, <1>3 DEF StrictSubsetOrdering
  <2> QED BY <2>2, <1>2
<1> QED BY <1>3

\* A set of natural numbers has a smallest element.
LEMMA SmallestNumber ==
  ASSUME NEW T, T \subseteq Nat, T # {}
  PROVE  \E m \in T : \A n \in T : m <= n
<1>1. PICK m \in T : \A n \in T : ~(<<n, m>> \in OpToRel(<, Nat))
  BY NatLessThanWellFounded, WFMin
<1>2. ASSUME NEW n \in T, n < m PROVE FALSE
  <2>1. <<n, m>> \in Nat \X Nat /\ n < m
    BY <1>2
  <2>2. <<n, m>> \in OpToRel(<, Nat)
    BY <2>1 DEF OpToRel
  <2> QED BY <2>2, <1>1
<1> QED BY <1>2

\* Two functions that sum the same values sum to the same.
LEMMA SumsAgree ==
  ASSUME NEW S, IsFiniteSet(S), NEW g, NEW f, NEW e, Sums(f, g, S), Sums(e, g, S)
  PROVE  \A s \in SUBSET S : f[s] = e[s]
<1> DEFINE Bad == {s \in SUBSET S : f[s] # e[s]}
<1>1. SUFFICES ASSUME Bad # {} PROVE FALSE
  OBVIOUS
<1>2. PICK m \in Bad : \A s \in Bad : s \subseteq m => s = m
  <2>1. Bad \subseteq SUBSET S
    OBVIOUS
  <2> HIDE DEF Bad
  <2> QED BY <1>1, <2>1, SmallestSubset
<1>3. m # {}
  BY <1>2 DEF Sums
<1>4. One(m) \in m
  BY <1>3 DEF One
<1>5. m \ {One(m)} \notin Bad
  BY <1>2, <1>4
<1>6. f[m \ {One(m)}] = e[m \ {One(m)}]
  BY <1>4, <1>5
<1>7. f[m] = e[m]
  BY <1>3, <1>6 DEF Sums
<1> QED
  BY <1>2, <1>7

\* A function that sums integers has integers for values.
LEMMA SumsAreIntegers ==
  ASSUME NEW S, IsFiniteSet(S), NEW g, \A x \in S : g[x] \in Int, NEW f, Sums(f, g, S)
  PROVE  \A s \in SUBSET S : f[s] \in Int
<1> DEFINE Bad == {s \in SUBSET S : f[s] \notin Int}
<1>1. SUFFICES ASSUME Bad # {} PROVE FALSE
  OBVIOUS
<1>2. PICK m \in Bad : \A s \in Bad : s \subseteq m => s = m
  <2>1. Bad \subseteq SUBSET S
    OBVIOUS
  <2> HIDE DEF Bad
  <2> QED BY <1>1, <2>1, SmallestSubset
<1>3. m # {}
  <2>1. ASSUME m = {} PROVE f[m] = 0
    BY <2>1, <1>2 DEF Sums
  <2> QED BY <1>2, <2>1
<1>4. One(m) \in m
  BY <1>3 DEF One
<1>5. m \ {One(m)} \notin Bad
  BY <1>2, <1>4
<1>6. f[m \ {One(m)}] \in Int /\ g[One(m)] \in Int
  BY <1>4, <1>5
<1>7. f[m] \in Int
  <2>1. f[m] = g[One(m)] + f[m \ {One(m)}]
    BY <1>2, <1>3 DEF Sums
  <2> QED BY <2>1, <1>6
<1> QED
  BY <1>2, <1>7

\* Up to a size, there is a function that sums.
LEMMA SumsUpTo ==
  ASSUME NEW S, IsFiniteSet(S), NEW g, NEW n \in Nat
  PROVE  \E f : SumsTo(f, g, S, n)
<1> DEFINE Bad == {k \in Nat : ~ \E f : SumsTo(f, g, S, k)}
<1>1. SUFFICES ASSUME Bad # {} PROVE FALSE
  OBVIOUS
<1>2. PICK m \in Bad : \A k \in Bad : m <= k
  <2>1. Bad \subseteq Nat
    OBVIOUS
  <2> HIDE DEF Bad
  <2> QED BY <1>1, <2>1, SmallestNumber
<1>3. \A s \in SUBSET S : IsFiniteSet(s) /\ Cardinality(s) \in Nat
  BY FS_Subset, FS_CardinalityType
<1>4. m # 0
  <2> DEFINE f == [s \in SUBSET S |-> 0]
  <2>1. ASSUME NEW s \in SUBSET S, Cardinality(s) <= 0
        PROVE  f[s] = IF s = {} THEN 0 ELSE g[One(s)] + f[s \ {One(s)}]
    BY <1>3, <2>1, FS_EmptySet
  <2>2. SumsTo(f, g, S, 0)
    BY <2>1 DEF SumsTo
  <2> QED BY <2>2, <1>2
<1>5. m - 1 \in Nat /\ m - 1 \notin Bad
  <2>1. m \in Nat
    BY <1>2
  <2> HIDE DEF Bad
  <2> QED BY <1>2, <1>4, <2>1
<1>6. PICK f : SumsTo(f, g, S, m - 1)
  BY <1>5
<1> DEFINE h == [s \in SUBSET S |-> IF Cardinality(s) < m THEN f[s]
                                    ELSE IF s = {} THEN 0 ELSE g[One(s)] + f[s \ {One(s)}]]
<1>7. ASSUME NEW s \in SUBSET S, Cardinality(s) <= m
      PROVE  h[s] = IF s = {} THEN 0 ELSE g[One(s)] + h[s \ {One(s)}]
  <2>1. CASE s = {}
    <3>1. Cardinality(s) < m
      BY <2>1, <1>2, <1>4, FS_EmptySet
    <3>2. Cardinality(s) <= m - 1
      BY <3>1, <1>2, <1>3
    <3> QED BY <2>1, <3>1, <3>2, <1>6 DEF SumsTo
  <2>2. CASE s # {}
    <3>1. One(s) \in s
      BY <2>2 DEF One
    <3>2. /\ s \ {One(s)} \in SUBSET S
          /\ Cardinality(s \ {One(s)}) = Cardinality(s) - 1
      BY <3>1, <1>3, FS_RemoveElement
    <3>3. Cardinality(s \ {One(s)}) < m
      BY <3>2, <1>3, <1>7, <1>2
    <3>4. h[s \ {One(s)}] = f[s \ {One(s)}]
      BY <3>2, <3>3
    <3>5. CASE Cardinality(s) < m
      <4>1. Cardinality(s) <= m - 1
        BY <3>5, <1>2, <1>3
      <4> QED BY <4>1, <3>5, <1>6, <2>2, <3>4 DEF SumsTo
    <3>6. CASE ~(Cardinality(s) < m)
      BY <3>6, <2>2, <3>4
    <3> QED BY <3>5, <3>6
  <2> QED BY <2>1, <2>2
<1>8. SumsTo(h, g, S, m)
  BY <1>7 DEF SumsTo
<1> QED
  BY <1>8, <1>2

\* There is a function that sums over all subsets of a finite set.
LEMMA SumsExist ==
  ASSUME NEW S, IsFiniteSet(S), NEW g
  PROVE  \E f : IsRecursive(f, g, S)
<1>1. Cardinality(S) \in Nat
  BY FS_CardinalityType
<1>2. PICK f : SumsTo(f, g, S, Cardinality(S))
  BY <1>1, SumsUpTo
<1>3. \A s \in SUBSET S : Cardinality(s) <= Cardinality(S)
  BY FS_Subset
<1> DEFINE h == [s \in SUBSET S |-> f[s]]
<1>4. ASSUME NEW s \in SUBSET S
      PROVE  h[s] = IF s = {} THEN 0 ELSE g[One(s)] + h[s \ {One(s)}]
  <2>1. s \ {One(s)} \in SUBSET S
    OBVIOUS
  <2> QED BY <2>1, <1>2, <1>3 DEF SumsTo
<1>5. h = [s \in SUBSET S |-> IF s = {} THEN 0 ELSE g[One(s)] + h[s \ {One(s)}]]
  BY <1>4
<1>6. IsRecursive(h, g, S)
  BY <1>5, Zenon DEF IsRecursive
<1> QED
  BY <1>6

\* The sum of the values of g over S, as MapThenSumSet forms it.
Summed(g, S) == MapThenSumSet(LAMBDA i : g[i], S)

\* What MapThenSumSet returns for a function: the sum of its values.
LEMMA MapThenSumSums ==
  ASSUME NEW S, IsFiniteSet(S), NEW g
  PROVE  \E f : Sums(f, g, S) /\ Summed(g, S) = f[S]
<1> DEFINE c == CHOOSE f : IsRecursive(f, g, S)
<1>1. IsRecursive(c, g, S)
  BY SumsExist, Zenon
<1>2. Summed(g, S) = c[S]
  BY Zenon DEF Summed, MapThenSumSet, MapThenFoldSet, IsRecursive, One
<1> HIDE DEF c
<1>3. Sums(c, g, S)
  BY <1>1 DEF Sums, IsRecursive
<1> QED
  BY <1>2, <1>3

\* Any element may be the first of a sum of integers.
LEMMA SumOfOneMore ==
  ASSUME NEW S, IsFiniteSet(S), NEW g, \A x \in S : g[x] \in Int, NEW f, Sums(f, g, S)
  PROVE  AnyFirst(f, g, S)
<1> SUFFICES \A s \in SUBSET S : \A x \in s : f[s] = g[x] + f[s \ {x}]
  BY Zenon DEF AnyFirst
<1> DEFINE Bad == {s \in SUBSET S : \E x \in s : f[s] # g[x] + f[s \ {x}]}
<1>1. SUFFICES ASSUME Bad # {} PROVE FALSE
  OBVIOUS
<1>2. PICK m \in Bad : \A s \in Bad : s \subseteq m => s = m
  <2>1. Bad \subseteq SUBSET S
    OBVIOUS
  <2> HIDE DEF Bad
  <2> QED BY <1>1, <2>1, SmallestSubset
<1>3. PICK x \in m : f[m] # g[x] + f[m \ {x}]
  BY <1>2
<1>4. PICK y : y = One(m)
  OBVIOUS
<1>5. y \in m /\ f[m] = g[y] + f[m \ {y}]
  BY <1>2, <1>3, <1>4 DEF One, Sums
<1>6. y # x
  BY <1>3, <1>5
<1>7. m \ {x} \notin Bad /\ m \ {y} \notin Bad
  BY <1>2, <1>3, <1>5
<1>8. f[m \ {x}] = g[y] + f[(m \ {x}) \ {y}]
  BY <1>2, <1>5, <1>6, <1>7
<1>9. f[m \ {y}] = g[x] + f[(m \ {y}) \ {x}]
  BY <1>2, <1>3, <1>6, <1>7
<1>10. (m \ {x}) \ {y} = (m \ {y}) \ {x}
  OBVIOUS
<1>11. g[x] \in Int /\ g[y] \in Int /\ f[(m \ {y}) \ {x}] \in Int
  <2>1. (m \ {y}) \ {x} \in SUBSET S /\ x \in S /\ y \in S
    BY <1>2, <1>3, <1>5
  <2> QED BY <2>1, SumsAreIntegers
<1>12. f[m] = g[y] + (g[x] + f[(m \ {y}) \ {x}])
  BY <1>5, <1>9
<1>13. f[m \ {x}] = g[y] + f[(m \ {y}) \ {x}]
  BY <1>8, <1>10
<1> HIDE DEF Bad
<1>14. f[m] = g[x] + f[m \ {x}]
  BY <1>11, <1>12, <1>13
<1> QED
  BY <1>3, <1>14

\* Sums over disjoint sets add up.
LEMMA SumOfUnion ==
  ASSUME NEW S, IsFiniteSet(S), NEW g, \A x \in S : g[x] \in Int, NEW f, Sums(f, g, S),
         NEW A \in SUBSET S
  PROVE  \A B \in SUBSET S : A \cap B = {} => f[A \cup B] = f[A] + f[B]
<1>0. \A s \in SUBSET S : \A z \in s : f[s] = g[z] + f[s \ {z}]
  <2>1. AnyFirst(f, g, S)
    BY SumOfOneMore
  <2> QED BY <2>1, Zenon DEF AnyFirst
<1> DEFINE Bad == {B \in SUBSET S : A \cap B = {} /\ f[A \cup B] # f[A] + f[B]}
<1>1. SUFFICES ASSUME Bad # {} PROVE FALSE
  OBVIOUS
<1>2. PICK m \in Bad : \A s \in Bad : s \subseteq m => s = m
  <2>1. Bad \subseteq SUBSET S
    OBVIOUS
  <2> HIDE DEF Bad
  <2> QED BY <1>1, <2>1, SmallestSubset
<1>3. \A s \in SUBSET S : f[s] \in Int
  BY SumsAreIntegers
<1>4. m # {}
  <2>1. SUFFICES ASSUME m = {} PROVE FALSE
    OBVIOUS
  <2>2. f[m] = 0
    BY <2>1, <1>2 DEF Sums
  <2>3. A \cup m = A
    BY <2>1
  <2>4. f[A \cup m] = f[A] /\ f[A] \in Int
    BY <2>3, <1>3, Zenon
  <2>5. f[A \cup m] = f[A] + f[m]
    <3> HIDE DEF Bad
    <3> QED BY <2>2, <2>4
  <2> QED BY <1>2, <2>5
<1>5. PICK x \in m : TRUE
  BY <1>4
<1>6. m \ {x} \notin Bad /\ A \cap (m \ {x}) = {} /\ m \ {x} \in SUBSET S
  BY <1>2, <1>5
<1>7. f[A \cup (m \ {x})] = f[A] + f[m \ {x}]
  BY <1>6
<1>8. f[m] = g[x] + f[m \ {x}]
  BY <1>0, <1>2, <1>5
<1>9. (A \cup m) \ {x} = A \cup (m \ {x}) /\ x \in A \cup m /\ A \cup m \in SUBSET S /\ x \in S
  BY <1>2, <1>5
<1>10. f[A \cup m] = g[x] + f[A \cup (m \ {x})]
  <2>1. f[A \cup m] = g[x] + f[(A \cup m) \ {x}]
    BY <1>0, <1>9
  <2> QED BY <2>1, <1>9
<1>11. f[A] \in Int /\ f[m \ {x}] \in Int /\ g[x] \in Int
  BY <1>3, <1>6, <1>9
<1> QED
  BY <1>2, <1>7, <1>8, <1>10, <1>11

\* Of any two disjoint parts the sums add up.
Additive(f, S) == \A A \in SUBSET S : \A B \in SUBSET S : A \cap B = {} => f[A \cup B] = f[A] + f[B]

\* A function that sums integers adds up.
LEMMA SumsAddUp ==
  ASSUME NEW S, IsFiniteSet(S), NEW g, \A x \in S : g[x] \in Int, NEW f, Sums(f, g, S)
  PROVE  Additive(f, S)
<1>1. ASSUME NEW A \in SUBSET S
      PROVE  \A B \in SUBSET S : A \cap B = {} => f[A \cup B] = f[A] + f[B]
  BY SumOfUnion
<1> QED BY <1>1, Zenon DEF Additive

\* The sum over a part of a set.
LEMMA SummedPart ==
  ASSUME NEW S, IsFiniteSet(S), NEW g, NEW f, Sums(f, g, S), NEW T, T \subseteq S
  PROVE  Summed(g, T) = f[T]
<1>1. IsFiniteSet(T)
  BY FS_Subset
<1>2. PICK e : Sums(e, g, T) /\ Summed(g, T) = e[T]
  BY <1>1, MapThenSumSums
<1>3. Sums(f, g, T)
  BY DEF Sums
<1>4. \A s \in SUBSET T : e[s] = f[s]
  BY <1>1, <1>2, <1>3, SumsAgree
<1> QED BY <1>2, <1>4

\* v has the sums of u over what h maps to each element of T.
Fibers(u, v, h, S, T) == \A y \in T : v[y] = Summed(u, {x \in S : h[x] = y})

\* The sum over S is the sum, over T, of the sums over what h maps to each element.
LEMMA SumOfFibers ==
  ASSUME NEW S, IsFiniteSet(S), NEW T, IsFiniteSet(T), NEW u, NEW v, NEW h,
         \A x \in S : u[x] \in Int /\ h[x] \in T, Fibers(u, v, h, S, T)
  PROVE  Summed(u, S) = Summed(v, T)
<1> DEFINE Over(t) == {x \in S : h[x] \in t}
<1>1. PICK f : Sums(f, u, S) /\ Summed(u, S) = f[S]
  BY MapThenSumSums
<1>2. PICK e : Sums(e, v, T) /\ Summed(v, T) = e[T]
  BY MapThenSumSums
<1>3. \A y \in T : v[y] = f[Over({y})]
  <2>1. ASSUME NEW y \in T PROVE v[y] = f[Over({y})]
    <3>1. PICK F : F = {x \in S : h[x] = y}
      OBVIOUS
    <3>2. F \subseteq S /\ F = Over({y}) /\ v[y] = Summed(u, F)
      BY <3>1 DEF Fibers
    <3>3. Summed(u, F) = f[F]
      BY <1>1, <3>2, SummedPart
    <3> QED BY <3>2, <3>3
  <2> QED BY <2>1
<1>4. \A s \in SUBSET S : f[s] \in Int
  BY <1>1, SumsAreIntegers
<1>5. \A y \in T : v[y] \in Int
  BY <1>3, <1>4
<1>6. Additive(f, S)
  BY <1>1, SumsAddUp
<1>7. \A A, B \in SUBSET S : A \cap B = {} => f[A \cup B] = f[A] + f[B]
  BY <1>6, Zenon DEF Additive
<1> DEFINE Bad == {t \in SUBSET T : f[Over(t)] # e[t]}
<1>8. ASSUME Bad # {} PROVE FALSE
  <2>1. PICK m \in Bad : \A s \in Bad : s \subseteq m => s = m
    <3>1. Bad \subseteq SUBSET T
      OBVIOUS
    <3> HIDE DEF Bad
    <3> QED BY <1>8, <3>1, SmallestSubset
  <2>2. CASE m = {}
    <3>1. Over(m) = {}
      BY <2>2
    <3>2. f[{}] = 0 /\ e[{}] = 0
      <4>1. {} \in SUBSET S /\ {} \in SUBSET T
        OBVIOUS
      <4> QED BY <1>1, <1>2, <4>1 DEF Sums
    <3> QED BY <2>1, <2>2, <3>1, <3>2
  <2>3. CASE m # {}
    <3>1. PICK y : y = One(m)
      OBVIOUS
    <3>2. y \in m /\ e[m] = v[y] + e[m \ {y}]
      BY <1>2, <2>1, <2>3, <3>1 DEF Sums, One
    <3>3. m \ {y} \in SUBSET T /\ m \ {y} \notin Bad
      BY <2>1, <3>2
    <3>4. f[Over(m \ {y})] = e[m \ {y}]
      BY <3>3
    <3>5. Over(m) = Over({y}) \cup Over(m \ {y}) /\ Over({y}) \cap Over(m \ {y}) = {}
      BY <3>2
    <3>6. Over({y}) \in SUBSET S /\ Over(m \ {y}) \in SUBSET S
      OBVIOUS
    <3>7. f[Over(m)] = f[Over({y})] + f[Over(m \ {y})]
      <4> HIDE DEF Over
      <4> QED BY <1>7, <3>5, <3>6
    <3>8. y \in T
      BY <2>1, <3>2
    <3>9. f[Over(m)] = e[m]
      <4> HIDE DEF Over
      <4> QED BY <1>3, <3>2, <3>4, <3>7, <3>8
    <3> QED BY <2>1, <3>9
  <2> QED BY <2>2, <2>3
<1>9. f[Over(T)] = e[T]
  BY <1>8
<1>10. Over(T) = S
  OBVIOUS
<1> QED BY <1>1, <1>2, <1>9, <1>10

\* The sum of one value.
LEMMA SumOfSingle ==
  ASSUME NEW g, NEW x, g[x] \in Int
  PROVE  Summed(g, {x}) = g[x]
<1>1. IsFiniteSet({x})
  BY FS_Singleton
<1>2. PICK f : Sums(f, g, {x}) /\ Summed(g, {x}) = f[{x}]
  BY <1>1, MapThenSumSums
<1>3. {x} \in SUBSET {x} /\ {} \in SUBSET {x} /\ {x} \ {x} = {}
  OBVIOUS
<1>4. One({x}) = x
  BY DEF One
<1>5. f[{}] = 0
  BY <1>2, <1>3 DEF Sums
<1>6. f[{x}] = g[x] + f[{}]
  BY <1>2, <1>3, <1>4 DEF Sums
<1> QED BY <1>2, <1>5, <1>6

\* Values that are numbered anew, each by one number, sum to the same.
LEMMA SumOfImage ==
  ASSUME NEW S, IsFiniteSet(S), NEW T, IsFiniteSet(T), NEW u, NEW v, NEW h,
         \A x \in S : u[x] \in Int /\ h[x] \in T /\ v[h[x]] = u[x],
         \A x, y \in S : h[x] = h[y] => x = y,
         \A y \in T : \E x \in S : h[x] = y
  PROVE  Summed(u, S) = Summed(v, T)
<1>1. ASSUME NEW y \in T PROVE v[y] = Summed(u, {x \in S : h[x] = y})
  <2>1. PICK x \in S : h[x] = y
    OBVIOUS
  <2>2. {z \in S : h[z] = y} = {x}
    BY <2>1
  <2>3. Summed(u, {x}) = u[x]
    BY SumOfSingle
  <2> QED BY <2>1, <2>2, <2>3
<1>2. Fibers(u, v, h, S, T)
  BY <1>1, Zenon DEF Fibers
<1>3. \A x \in S : u[x] \in Int /\ h[x] \in T
  OBVIOUS
<1> QED BY <1>2, <1>3, SumOfFibers

\* A value n times.
LEMMA SumOfConstant ==
  ASSUME NEW x \in Int, NEW n \in Nat, NEW g, \A k \in 1..n : g[k] = x
  PROVE  Summed(g, 1..n) = n * x
<1>1. IsFiniteSet(1..n)
  <2>1. 1 \in Int /\ n \in Int
    OBVIOUS
  <2> QED BY <2>1, FS_Interval
<1>2. PICK f : Sums(f, g, 1..n) /\ Summed(g, 1..n) = f[1..n]
  BY <1>1, MapThenSumSums
<1>3. AnyFirst(f, g, 1..n)
  BY <1>1, <1>2, SumOfOneMore
<1>4. \A s \in SUBSET (1..n) : \A z \in s : f[s] = g[z] + f[s \ {z}]
  BY <1>3, Zenon DEF AnyFirst
<1> DEFINE Bad == {k \in 0..n : f[1..k] # k * x}
<1>5. ASSUME Bad # {} PROVE FALSE
  <2>1. PICK m \in Bad : \A k \in Bad : m <= k
    <3>1. Bad \subseteq Nat
      OBVIOUS
    <3> HIDE DEF Bad
    <3> QED BY <1>5, <3>1, SmallestNumber
  <2>2. CASE m = 0
    <3>1. 1..0 = {} /\ {} \in SUBSET (1..n)
      OBVIOUS
    <3>2. f[{}] = 0
      BY <1>2, <3>1 DEF Sums
    <3> QED BY <2>1, <2>2, <3>1, <3>2
  <2>3. CASE m # 0
    <3>1. m \in 1..n /\ m - 1 \in 0..n /\ ~(m <= m - 1)
      BY <2>1, <2>3
    <3>2. f[1..(m - 1)] = (m - 1) * x
      BY <2>1, <3>1
    <3>3. (1..m) \ {m} = 1..(m - 1) /\ m \in 1..m /\ 1..m \in SUBSET (1..n)
      BY <3>1
    <3>4. f[1..m] = g[m] + f[1..(m - 1)]
      BY <1>4, <3>3
    <3>5. g[m] = x
      BY <3>1
    <3>6. x + (m - 1) * x = m * x
      BY <3>1
    <3>7. f[1..m] = m * x
      BY <3>2, <3>4, <3>5, <3>6
    <3> QED BY <2>1, <3>7
  <2> QED BY <2>2, <2>3
<1>6. n \in 0..n
  OBVIOUS
<1>7. f[1..n] = n * x
  BY <1>5, <1>6
<1> QED BY <1>2, <1>7

------------------------------------------------------------------------------
(* Lists of the elements of a set, and lists of lists                         *)

\* SetToSeq lists the elements of a finite set, each once.
LEMMA SetToSeqLists ==
  ASSUME NEW S, IsFiniteSet(S)
  PROVE  /\ SetToSeq(S) \in Seq(S)
         /\ \A x \in S : \E n \in DOMAIN SetToSeq(S) : SetToSeq(S)[n] = x
         /\ \A m, n \in DOMAIN SetToSeq(S) : SetToSeq(S)[m] = SetToSeq(S)[n] => m = n
<1> DEFINE c == Cardinality(S)
<1>1. c \in Nat /\ ExistsBijection(1..c, S)
  BY FS_CardinalityType
<1>2. PICK f : f \in [1..c -> S] /\ IsInjective(f)
  BY <1>1 DEF ExistsBijection, Bijection, Injection
<1>3. SetToSeq(S) \in [1..c -> S] /\ IsInjective(SetToSeq(S))
  BY <1>2, Zenon DEF SetToSeq
<1>4. PICK q : q = SetToSeq(S)
  OBVIOUS
<1>5. q \in Seq(S) /\ DOMAIN q = 1..c
  BY <1>1, <1>3, <1>4
<1>6. \A m, n \in DOMAIN q : q[m] = q[n] => m = n
  BY <1>3, <1>4 DEF IsInjective
<1>7. IsFiniteSet(1..c) /\ Cardinality(1..c) = c
  <2>1. c \in Int /\ 1 \in Int
    BY <1>1
  <2> QED BY <2>1, <1>1, FS_Interval
<1>8. q \in Injection(1..c, S)
  BY <1>3, <1>4 DEF Injection
<1>9. q \in Surjection(1..c, S)
  BY <1>7, <1>8, FS_Injection
<1>10. \A x \in S : \E n \in DOMAIN q : q[n] = x
  BY <1>5, <1>9 DEF Surjection
<1> QED
  BY <1>4, <1>5, <1>6, <1>10

\* h[i] is the concatenation of the first i sequences of q.
IsFlat(h, q, n) == h = [i \in 1..n |-> IF i = 1 THEN q[i] ELSE h[i - 1] \o q[i]]

\* Up to a length, there is a function that concatenates.
LEMMA FlatUpTo ==
  ASSUME NEW q, NEW n \in Nat
  PROVE  \E h : IsFlat(h, q, n)
<1> DEFINE Bad == {k \in Nat : ~ \E h : IsFlat(h, q, k)}
<1>1. SUFFICES ASSUME Bad # {} PROVE FALSE
  OBVIOUS
<1>2. PICK m \in Bad : \A k \in Bad : m <= k
  <2>1. Bad \subseteq Nat
    OBVIOUS
  <2> HIDE DEF Bad
  <2> QED BY <1>1, <2>1, SmallestNumber
<1>3. m # 0
  <2> DEFINE h == [i \in 1..0 |-> q[i]]
  <2>1. h = [i \in 1..0 |-> IF i = 1 THEN q[i] ELSE h[i - 1] \o q[i]]
    OBVIOUS
  <2>2. IsFlat(h, q, 0)
    BY <2>1, Zenon DEF IsFlat
  <2> QED BY <2>2, <1>2
<1>4. m \in Nat /\ m - 1 \in Nat /\ m - 1 \notin Bad
  <2>1. m \in Nat
    BY <1>2
  <2> HIDE DEF Bad
  <2> QED BY <1>2, <1>3, <2>1
<1>5. PICK h : IsFlat(h, q, m - 1)
  BY <1>4
<1> DEFINE g == [i \in 1..m |-> IF i < m THEN h[i]
                                ELSE IF i = 1 THEN q[i] ELSE h[i - 1] \o q[i]]
<1>6. ASSUME NEW i \in 1..m
      PROVE  g[i] = IF i = 1 THEN q[i] ELSE g[i - 1] \o q[i]
  <2>1. i # 1 => i - 1 \in 1..m /\ i - 1 < m
    BY <1>4
  <2>2. i # 1 => g[i - 1] = h[i - 1]
    BY <2>1
  <2>3. CASE i < m
    <3>1. i \in 1..(m - 1)
      BY <1>4, <2>3
    <3>2. h[i] = IF i = 1 THEN q[i] ELSE h[i - 1] \o q[i]
      BY <1>5, <3>1 DEF IsFlat
    <3>3. g[i] = h[i]
      BY <2>3
    <3> QED BY <2>2, <3>2, <3>3
  <2>4. CASE ~(i < m)
    <3>1. g[i] = IF i = 1 THEN q[i] ELSE h[i - 1] \o q[i]
      BY <2>4
    <3> QED BY <2>2, <3>1
  <2> QED BY <2>3, <2>4
<1>7. g = [i \in 1..m |-> IF i = 1 THEN q[i] ELSE g[i - 1] \o q[i]]
  <2>1. g = [i \in 1..m |-> g[i]]
    OBVIOUS
  <2> HIDE DEF g
  <2>2. [i \in 1..m |-> g[i]] = [i \in 1..m |-> IF i = 1 THEN q[i] ELSE g[i - 1] \o q[i]]
    BY <1>6
  <2> QED BY <2>1, <2>2
<1>8. IsFlat(g, q, m)
  BY <1>7, Zenon DEF IsFlat
<1> QED
  BY <1>8, <1>2

\* What FlattenSeq returns: the last of such concatenations.
LEMMA FlattenIs ==
  ASSUME NEW q, Len(q) \in Nat, Len(q) # 0
  PROVE  \E h : IsFlat(h, q, Len(q)) /\ FlattenSeq(q) = h[Len(q)]
<1> DEFINE c == CHOOSE h : IsFlat(h, q, Len(q))
<1>1. IsFlat(c, q, Len(q))
  BY FlatUpTo, Zenon
<1>2. FlattenSeq(q) = c[Len(q)]
  BY Zenon DEF FlattenSeq, IsFlat
<1> HIDE DEF c
<1> QED
  BY <1>1, <1>2

\* Sequences of elements of S are flattened to one.
LEMMA FlattenType ==
  ASSUME NEW S, NEW q \in Seq(Seq(S))
  PROVE  FlattenSeq(q) \in Seq(S)
<1>1. CASE Len(q) = 0
  <2>1. FlattenSeq(q) = q
    BY <1>1, Zenon DEF FlattenSeq
  <2>2. q = <<>>
    BY <1>1
  <2> QED BY <2>1, <2>2
<1>2. CASE Len(q) # 0
  <2>1. PICK n : n = Len(q)
    OBVIOUS
  <2>2. n \in Nat /\ n # 0 /\ \A i \in 1..n : q[i] \in Seq(S)
    BY <1>2, <2>1
  <2>3. PICK h : IsFlat(h, q, n) /\ FlattenSeq(q) = h[n]
    BY <2>1, <2>2, FlattenIs
  <2>4. \A i \in 1..n : h[i] = IF i = 1 THEN q[i] ELSE h[i - 1] \o q[i]
    BY <2>3 DEF IsFlat
  <2> DEFINE Bad == {i \in 1..n : h[i] \notin Seq(S)}
  <2>5. Bad = {}
    <3>1. SUFFICES ASSUME Bad # {} PROVE FALSE
      OBVIOUS
    <3>2. PICK m \in Bad : \A k \in Bad : m <= k
      <4>1. Bad \subseteq Nat
        OBVIOUS
      <4> HIDE DEF Bad
      <4> QED BY <3>1, <4>1, SmallestNumber
    <3>3. m \in 1..n /\ h[m] \notin Seq(S)
      BY <3>2
    <3>4. m # 1
      BY <2>2, <2>4, <3>3
    <3>5. m - 1 \in 1..n /\ ~(m <= m - 1)
      BY <3>3, <3>4, <2>2
    <3>6. h[m - 1] \in Seq(S)
      BY <3>2, <3>5
    <3>7. h[m] = h[m - 1] \o q[m]
      BY <2>4, <3>3, <3>4
    <3>8. q[m] \in Seq(S)
      BY <2>2, <3>3
    <3> QED BY <3>3, <3>6, <3>7, <3>8
  <2>6. n \in 1..n
    BY <2>2
  <2> QED BY <2>3, <2>5, <2>6
<1> QED
  BY <1>1, <1>2

\* F lists the elements of the first n sequences of q: position k has the element off[k]
\* of the sequence at[k].
Places(F, q, n, at, off) ==
  /\ \A k \in DOMAIN F : at[k] \in 1..n /\ off[k] \in DOMAIN q[at[k]] /\ F[k] = q[at[k]][off[k]]
  /\ \A k, l \in DOMAIN F : at[k] = at[l] /\ off[k] = off[l] => k = l
  /\ \A i \in 1..n : \A r \in DOMAIN q[i] : \E k \in DOMAIN F : at[k] = i /\ off[k] = r

\* One sequence more.
LEMMA PlacesAppended ==
  ASSUME NEW S, NEW n \in Nat, NEW q, NEW F \in Seq(S), q[n + 1] \in Seq(S),
         NEW at, NEW off, Places(F, q, n, at, off)
  PROVE  \E b, o : Places(F \o q[n + 1], q, n + 1, b, o)
<1>1. PICK G, H : G = q[n + 1] /\ H = F \o G
  OBVIOUS
<1>2. /\ G \in Seq(S) /\ Len(F) \in Nat /\ Len(G) \in Nat
      /\ DOMAIN F = 1..Len(F) /\ DOMAIN G = 1..Len(G) /\ DOMAIN H = 1..(Len(F) + Len(G))
  <2>1. G \in Seq(S)
    BY <1>1
  <2>2. H \in Seq(S) /\ Len(H) = Len(F) + Len(G)
    BY <1>1, <2>1
  <2> QED BY <2>1, <2>2
<1>3. \A k \in DOMAIN H : H[k] = IF k <= Len(F) THEN F[k] ELSE G[k - Len(F)]
  BY <1>1, <1>2
<1>4. PICK b : b = [k \in DOMAIN H |-> IF k <= Len(F) THEN at[k] ELSE n + 1]
  OBVIOUS
<1>5. PICK o : o = [k \in DOMAIN H |-> IF k <= Len(F) THEN off[k] ELSE k - Len(F)]
  OBVIOUS
<1>6. \A k \in DOMAIN F : k \in DOMAIN H /\ b[k] = at[k] /\ o[k] = off[k] /\ H[k] = F[k]
  BY <1>2, <1>3, <1>4, <1>5
<1>7. \A k \in DOMAIN H \ DOMAIN F :
        k - Len(F) \in DOMAIN G /\ b[k] = n + 1 /\ o[k] = k - Len(F) /\ H[k] = G[k - Len(F)]
  BY <1>2, <1>3, <1>4, <1>5
<1>8. \A k \in DOMAIN F :
        at[k] \in 1..n /\ off[k] \in DOMAIN q[at[k]] /\ F[k] = q[at[k]][off[k]]
  BY DEF Places
<1>9. ASSUME NEW k \in DOMAIN H
      PROVE  b[k] \in 1..(n + 1) /\ o[k] \in DOMAIN q[b[k]] /\ H[k] = q[b[k]][o[k]]
  <2>1. CASE k \in DOMAIN F
    BY <1>6, <1>8, <2>1
  <2>2. CASE k \notin DOMAIN F
    <3>1. n + 1 \in 1..(n + 1)
      OBVIOUS
    <3> QED BY <1>1, <1>7, <2>2, <3>1
  <2> QED BY <2>1, <2>2
<1>10. ASSUME NEW k \in DOMAIN H, NEW l \in DOMAIN H, b[k] = b[l], o[k] = o[l] PROVE k = l
  <2>1. CASE k \in DOMAIN F /\ l \in DOMAIN F
    BY <1>6, <1>10, <2>1 DEF Places
  <2>2. CASE k \in DOMAIN F /\ l \notin DOMAIN F
    BY <1>6, <1>7, <1>8, <1>10, <2>2
  <2>3. CASE k \notin DOMAIN F /\ l \in DOMAIN F
    BY <1>6, <1>7, <1>8, <1>10, <2>3
  <2>4. CASE k \notin DOMAIN F /\ l \notin DOMAIN F
    BY <1>2, <1>7, <1>10, <2>4
  <2> QED BY <2>1, <2>2, <2>3, <2>4
<1>11. ASSUME NEW i \in 1..(n + 1), NEW r \in DOMAIN q[i]
       PROVE  \E k \in DOMAIN H : b[k] = i /\ o[k] = r
  <2>1. CASE i \in 1..n
    <3>1. PICK k \in DOMAIN F : at[k] = i /\ off[k] = r
      BY <2>1, <1>11 DEF Places
    <3> QED BY <1>6, <3>1
  <2>2. CASE i = n + 1
    <3>1. r \in 1..Len(G)
      BY <1>1, <1>2, <2>2
    <3>2. Len(F) + r \in DOMAIN H \ DOMAIN F /\ (Len(F) + r) - Len(F) = r
      BY <1>2, <3>1
    <3> QED BY <1>7, <2>2, <3>2
  <2> QED BY <2>1, <2>2
<1>12. Places(H, q, n + 1, b, o)
  BY <1>9, <1>10, <1>11 DEF Places
<1> QED BY <1>1, <1>12

\* Each position of a flattened list has its place.
LEMMA FlattenPlaces ==
  ASSUME NEW S, NEW q \in Seq(Seq(S))
  PROVE  \E at, off : Places(FlattenSeq(q), q, Len(q), at, off)
<1>1. CASE Len(q) = 0
  <2>1. FlattenSeq(q) = q
    BY <1>1, Zenon DEF FlattenSeq
  <2>2. q = <<>> /\ DOMAIN q = {} /\ 1..Len(q) = {}
    BY <1>1
  <2>3. Places(q, q, Len(q), q, q)
    BY <2>2 DEF Places
  <2> QED BY <2>1, <2>3
<1>2. CASE Len(q) # 0
  <2>1. PICK n : n = Len(q)
    OBVIOUS
  <2>2. n \in Nat /\ n # 0 /\ \A i \in 1..n : q[i] \in Seq(S)
    BY <1>2, <2>1
  <2>3. PICK h : IsFlat(h, q, n) /\ FlattenSeq(q) = h[n]
    BY <2>1, <2>2, FlattenIs
  <2>4. \A i \in 1..n : h[i] = IF i = 1 THEN q[i] ELSE h[i - 1] \o q[i]
    BY <2>3 DEF IsFlat
  <2> DEFINE Good(i) == h[i] \in Seq(S) /\ \E at, off : Places(h[i], q, i, at, off)
             Bad == {i \in 1..n : ~Good(i)}
  <2>5. ASSUME Bad # {} PROVE FALSE
    <3>1. PICK m \in Bad : \A k \in Bad : m <= k
      <4>1. Bad \subseteq Nat
        OBVIOUS
      <4> HIDE DEF Bad
      <4> QED BY <2>5, <4>1, SmallestNumber
    <3>2. m \in 1..n /\ ~Good(m)
      BY <3>1
    <3>3. CASE m = 1
      <4>1. h[1] = q[1] /\ q[1] \in Seq(S)
        BY <2>2, <2>4, <3>2, <3>3
      <4>2. PICK G : G = q[1]
        OBVIOUS
      <4>3. Places(<<>>, q, 0, <<>>, <<>>)
        BY DEF Places
      <4>4. <<>> \in Seq(S) /\ q[0 + 1] \in Seq(S) /\ 0 \in Nat
        BY <4>1
      <4>5. \E b, o : Places(<<>> \o q[0 + 1], q, 0 + 1, b, o)
        BY <4>3, <4>4, PlacesAppended
      <4>6. <<>> \o q[0 + 1] = h[1] /\ 0 + 1 = 1
        BY <4>1
      <4>7. \E b, o : Places(h[1], q, 1, b, o)
        BY <4>5, <4>6
      <4> QED BY <3>2, <3>3, <4>1, <4>7
    <3>4. CASE m # 1
      <4>1. m - 1 \in 1..n /\ ~(m <= m - 1) /\ m - 1 \in Nat /\ (m - 1) + 1 = m
        BY <2>2, <3>2, <3>4
      <4>2. Good(m - 1)
        BY <3>1, <4>1
      <4>3. PICK at, off : Places(h[m - 1], q, m - 1, at, off)
        BY <4>2
      <4>4. h[m] = h[m - 1] \o q[m] /\ h[m - 1] \in Seq(S) /\ q[m] \in Seq(S)
        BY <2>2, <2>4, <3>2, <3>4, <4>2
      <4>5. h[m] \in Seq(S)
        BY <4>4
      <4>6. PICK i : i = m - 1
        OBVIOUS
      <4>7. i \in Nat /\ i + 1 = m
        BY <4>1, <4>6
      <4>8. \E b, o : Places(h[i] \o q[i + 1], q, i + 1, b, o)
        BY <4>3, <4>4, <4>6, <4>7, PlacesAppended
      <4>9. \E b, o : Places(h[m], q, m, b, o)
        BY <4>4, <4>6, <4>7, <4>8
      <4> QED BY <3>2, <4>5, <4>9
    <3> QED BY <3>3, <3>4
  <2>6. n \in 1..n
    BY <2>2
  <2>7. Good(n)
    BY <2>5, <2>6
  <2> QED BY <2>1, <2>3, <2>7
<1> QED
  BY <1>1, <1>2

------------------------------------------------------------------------------
(* What the second script has in memory                                       *)

UploadPC == {"batch", "payment", "summary", "lines", "mark", "close"}
InBatch  == UploadPC \ {"batch"}

\* A row of payouts, and of batches, with the columns that it has.
IsPayout(x) == x = [owner |-> x.owner, tenant |-> x.tenant, amount |-> x.amount,
                    processed |-> x.processed, status |-> x.status]
IsBatch(x)  == x = [tenant |-> x.tenant, number |-> x.number, payouts |-> x.payouts,
                    total |-> x.total, status |-> x.status]
IsTable(seq) == \E S : seq \in Seq(S)

\* What the second script has in memory: the tenants whose turn is still to come, and
\* the payouts as it loaded them.
IsUpload(s) ==
  /\ s = [pc |-> s.pc, tenants |-> s.tenants, loaded |-> s.loaded, lines |-> s.lines,
          payouts |-> s.payouts, ids |-> s.ids, outcome |-> s.outcome, sent |-> s.sent]
  /\ s.pc \in UploadPC
  /\ s.tenants \in {<<"DMSS", "AMSS">>, <<"AMSS">>, <<>>}
  /\ DOMAIN s.loaded \subseteq DOMAIN payouts /\ s.payouts \subseteq DOMAIN s.loaded
  /\ \A p \in DOMAIN s.loaded :
       IsPayout(s.loaded[p]) /\ s.loaded[p].tenant = payouts[p].tenant

Shaped ==
  /\ IsTable(payouts) /\ \A p \in DOMAIN payouts : IsPayout(payouts[p])
  /\ IsTable(batches) /\ \A b \in DOMAIN batches : IsBatch(batches[b])
  /\ script.pc \in {"idle", "scheduleLines"} \/ IsUpload(script)

Turns(ts)    == {ts[i] : i \in DOMAIN ts}
Left(s)      == Turns(s.tenants)
InTransit(b) == batches[b].status = "IN_TRANSIT"

\* The payouts that the script may still send.
Pending == {p \in DOMAIN script.loaded : \/ payouts[p].tenant \in Left(script)
                                         \/ script.pc \in InBatch /\ p \in script.payouts}

\* The batch that is being sent is the last one, and closed once.
OneBatch ==
  script.pc \in InBatch =>
    /\ Len(batches) > 0 /\ batches[Len(batches)].payouts = script.payouts
    /\ ~InTransit(Len(batches))
    /\ \A p \in script.payouts : payouts[p].tenant \notin Left(script)
    /\ script.outcome = "IN_TRANSIT" => script.sent /\ script.pc = "close"

\* What a batch in transit pays is scheduled no longer, and neither is it in a later
\* batch nor among what the script may still send.
SentApart ==
  \A b \in DOMAIN batches : InTransit(b) =>
    /\ batches[b].payouts \subseteq DOMAIN payouts
    /\ \A p \in batches[b].payouts : payouts[p].status # "SCHEDULED"
    /\ script.pc \in UploadPC => batches[b].payouts \cap Pending = {}
    /\ \A c \in DOMAIN batches : b < c => batches[b].payouts \cap batches[c].payouts = {}

\* A payment file names payouts of its batch only.
FilesOfBatch ==
  \A f \in bucket : f.kind = "payment" =>
    /\ f.batch \in DOMAIN batches
    /\ \A d \in f.content.details : d.reference \in batches[f.batch].payouts

\* Each is sent in one batch.
SentApartInv == Shaped /\ OneBatch /\ SentApart /\ FilesOfBatch

------------------------------------------------------------------------------
\* The script's fields after it goes on to pc.
LEMMA ContinueFields ==
  ASSUME IsUpload(script), NEW pc, Continue(pc)
  PROVE  /\ script' = [pc |-> pc, tenants |-> script.tenants, loaded |-> script.loaded,
                       lines |-> script.lines, payouts |-> script.payouts, ids |-> script.ids,
                       outcome |-> script.outcome, sent |-> script.sent]
         /\ script'.pc = pc /\ script'.tenants = script.tenants
         /\ script'.loaded = script.loaded /\ script'.payouts = script.payouts
         /\ script'.outcome = script.outcome /\ script'.sent = script.sent
<1>1. PICK s : s = script
  OBVIOUS
<1>2. s = [pc |-> s.pc, tenants |-> s.tenants, loaded |-> s.loaded, lines |-> s.lines,
          payouts |-> s.payouts, ids |-> s.ids, outcome |-> s.outcome, sent |-> s.sent]
  BY <1>1 DEF IsUpload
<1>3. script' = [s EXCEPT !.pc = pc]
  BY <1>1 DEF Continue
<1>4. script' = [pc |-> pc, tenants |-> s.tenants, loaded |-> s.loaded, lines |-> s.lines,
          payouts |-> s.payouts, ids |-> s.ids, outcome |-> s.outcome, sent |-> s.sent]
  BY <1>2, <1>3
<1> QED BY <1>1, <1>4

\* A step that leaves payouts and batches alone, and with them the script's payouts and
\* tenants, keeps what is sent apart.
LEMMA SameTables ==
  ASSUME SentApartInv, UNCHANGED <<payouts, batches>>, FilesOfBatch',
         \/ script' = script
         \/ script'.pc \in {"idle", "scheduleLines"}
         \/ /\ script.pc \in InBatch /\ script'.pc \in InBatch /\ IsUpload(script')
            /\ script'.tenants = script.tenants
            /\ script'.loaded = script.loaded /\ script'.payouts = script.payouts
            /\ script'.outcome = "IN_TRANSIT" => script'.sent /\ script'.pc = "close"
  PROVE  SentApartInv'
<1> USE DEF SentApartInv
<1>1. CASE script' = script
  BY <1>1 DEF Shaped, IsTable, IsPayout, IsBatch, IsUpload, OneBatch, SentApart,
              InTransit, Pending, Left
<1>2. FilesOfBatch'
  OBVIOUS
<1>3. CASE script'.pc \in {"idle", "scheduleLines"}
  <2>1. script'.pc \notin UploadPC /\ script'.pc \notin InBatch
    BY <1>3 DEF UploadPC, InBatch
  <2>2. Shaped'
    BY <1>3 DEF Shaped, IsTable, IsPayout, IsBatch
  <2>3. OneBatch' /\ SentApart'
    BY <2>1 DEF OneBatch, SentApart, InTransit
  <2> QED BY <1>2, <2>2, <2>3
<1>4. CASE /\ script.pc \in InBatch /\ script'.pc \in InBatch /\ IsUpload(script')
           /\ script'.tenants = script.tenants
           /\ script'.loaded = script.loaded /\ script'.payouts = script.payouts
           /\ script'.outcome = "IN_TRANSIT" => script'.sent /\ script'.pc = "close"
  <2>1. Shaped'
    BY <1>4 DEF Shaped, IsTable, IsPayout, IsBatch, IsUpload
  <2>2. OneBatch'
    BY <1>4 DEF OneBatch, InTransit, Left
  <2>3. Pending' = Pending
    BY <1>4 DEF Pending, Left
  <2>4. script.pc \in UploadPC
    BY <1>4 DEF InBatch
  <2>5. SentApart'
    BY <2>3, <2>4 DEF SentApart, InTransit
  <2> QED BY <1>2, <2>1, <2>2, <2>5
<1> QED BY <1>1, <1>3, <1>4

\* Rows of payouts that change keep their tenants, and what is in transit is not
\* scheduled again.
LEMMA PayoutsChange ==
  ASSUME SentApartInv, UNCHANGED <<batches, bucket, script>>, IsTable(payouts)',
         DOMAIN payouts \subseteq DOMAIN payouts',
         \A p \in DOMAIN payouts' : IsPayout(payouts'[p]),
         \A p \in DOMAIN payouts :
           /\ payouts'[p].tenant = payouts[p].tenant
           /\ payouts'[p].status \in {payouts[p].status, "PAID"}
  PROVE  SentApartInv'
<1> USE DEF SentApartInv
<1>1. Shaped'
  BY DEF Shaped, IsTable, IsBatch, IsUpload, IsPayout
<1>2. script.pc \in UploadPC => Pending' = Pending
  <2>1. script.pc \in UploadPC => IsUpload(script)
    BY DEF Shaped, UploadPC
  <2> QED BY <2>1 DEF Pending, Left, IsUpload
<1>3. OneBatch'
  <2>1. script.pc \in InBatch => IsUpload(script)
    BY DEF Shaped, InBatch, UploadPC
  <2>2. script.pc \in InBatch => script.payouts \subseteq DOMAIN payouts
    BY <2>1 DEF IsUpload
  <2> QED BY <2>2 DEF OneBatch, InTransit, Left
<1>4. SentApart'
  <2>1. \A b \in DOMAIN batches : InTransit(b)' = InTransit(b)
    BY DEF InTransit
  <2>2. ASSUME NEW b \in DOMAIN batches, InTransit(b)
        PROVE  /\ batches[b].payouts \subseteq DOMAIN payouts'
               /\ \A p \in batches[b].payouts : payouts'[p].status # "SCHEDULED"
    BY <2>2 DEF SentApart
  <2> QED BY <1>2, <2>1, <2>2 DEF SentApart
<1>5. FilesOfBatch'
  BY DEF FilesOfBatch
<1> QED BY <1>1, <1>3, <1>4, <1>5

\* c is a, with the n rows of b behind.
Lists(b, n) == b = [i \in 1..n |-> b[i]]
Extends(c, a, b, n) ==
  /\ IsTable(c) /\ DOMAIN c = 1..(Len(a) + n) /\ DOMAIN a = 1..Len(a)
  /\ DOMAIN a \subseteq DOMAIN c
  /\ \A i \in DOMAIN a : c[i] = a[i]
  /\ \A i \in DOMAIN c \ DOMAIN a : i - Len(a) \in 1..n /\ c[i] = b[i - Len(a)]

\* Rows that are appended to a table.
LEMMA Appended ==
  ASSUME NEW a, IsTable(a), NEW n \in Nat, NEW b, Lists(b, n), NEW c, c = a \o b
  PROVE  Extends(c, a, b, n)
<1>0. PICK R : a \in Seq(R)
  BY DEF IsTable
<1>1. PICK S : S = R \cup {b[i] : i \in 1..n}
  OBVIOUS
<1>2. a \in Seq(S) /\ Len(a) \in Nat /\ DOMAIN a = 1..Len(a)
  BY <1>0, <1>1
<1>3. b \in Seq(S) /\ Len(b) = n
  BY <1>1 DEF Lists
<1>4. c \in Seq(S) /\ Len(c) = Len(a) + n /\ Len(c) \in Nat /\ DOMAIN c = 1..Len(c)
  BY <1>2, <1>3
<1>6. \A i \in 1..Len(c) : c[i] = IF i <= Len(a) THEN a[i] ELSE b[i - Len(a)]
  BY <1>2, <1>3
<1>5. IsTable(c)
  BY <1>4 DEF IsTable
<1>7. \A i \in DOMAIN a : i \in 1..Len(c) /\ i <= Len(a)
  BY <1>2, <1>4
<1>8. \A i \in DOMAIN c \ DOMAIN a : i \in 1..Len(c) /\ ~(i <= Len(a)) /\ i - Len(a) \in 1..n
  BY <1>2, <1>4
<1> QED BY <1>2, <1>4, <1>5, <1>6, <1>7, <1>8 DEF Extends

\* Payouts are appended for what is payable; no batch has them yet.
LEMMA SchedulePayoutsApart ==
  ASSUME SentApartInv, SchedulePayouts
  PROVE  SentApartInv'
<1> USE DEF SentApartInv
<1> DEFINE due == {c \in Credit : paidBy[c] = Payable}
           pairs == SetToSeq({<<c.owner, PrincipalGroup[c.job]>> : c \in due})
           Paid(i) == {c \in due : <<c.owner, PrincipalGroup[c.job]>> = pairs[i]}
           new == [i \in DOMAIN pairs |->
                      [owner |-> pairs[i][1], tenant |-> pairs[i][2], processed |-> 0,
                       amount |-> MapThenSumSet(Due, Paid(i)), status |-> "SCHEDULED"]]
<1>1. /\ script = Idle /\ payouts' = payouts \o new
      /\ script' = [pc |-> "scheduleLines", credits |-> due]
      /\ UNCHANGED <<lines, batches, bucket, ftp, inbox, reader, files, failures, crashes>>
  BY Zenon DEF SchedulePayouts
<1>2. IsFiniteSet({<<c.owner, PrincipalGroup[c.job]>> : c \in due})
  <2>1. PICK D, E : D = due /\ E = {<<c.owner, PrincipalGroup[c.job]>> : c \in due}
    OBVIOUS
  <2>2. IsFiniteSet(D)
    BY <2>1, FilesAssumption, FS_Subset
  <2>3. PICK f : f = [c \in D |-> <<c.owner, PrincipalGroup[c.job]>>]
    OBVIOUS
  <2>4. f \in Surjection(D, E)
    BY <2>1, <2>3 DEF Surjection
  <2>5. IsFiniteSet(E)
    BY <2>2, <2>4, FS_Surjection
  <2> QED BY <2>1, <2>5
<1>3. PICK n \in Nat : DOMAIN pairs = 1..n
  <2>1. PICK T : T = {<<c.owner, PrincipalGroup[c.job]>> : c \in due}
    OBVIOUS
  <2>2. PICK q : q = SetToSeq(T)
    OBVIOUS
  <2>3. q \in Seq(T)
    BY <1>2, <2>1, <2>2, SetToSeqLists
  <2>4. Len(q) \in Nat /\ DOMAIN q = 1..Len(q)
    BY <2>3
  <2>5. q = pairs
    BY <2>1, <2>2
  <2> HIDE DEF due, pairs
  <2> QED BY <2>4, <2>5
<1> HIDE DEF due, pairs, Paid
<1>4. PICK b : b = new
  OBVIOUS
<1>5. b = [i \in 1..n |-> b[i]] /\ \A i \in 1..n : IsPayout(b[i])
  BY <1>3, <1>4 DEF IsPayout
<1>11. payouts' = payouts \o b
  BY <1>1, <1>4
<1> HIDE DEF new
<1>6. /\ IsTable(payouts') /\ DOMAIN payouts \subseteq DOMAIN payouts'
      /\ \A p \in DOMAIN payouts : payouts'[p] = payouts[p]
      /\ \A p \in DOMAIN payouts' \ DOMAIN payouts : IsPayout(payouts'[p])
  <2>1. IsTable(payouts)
    BY DEF Shaped
  <2>2. PICK a, c : a = payouts /\ c = payouts'
    OBVIOUS
  <2>3. IsTable(a) /\ c = a \o b /\ Lists(b, n)
    BY <1>5, <1>11, <2>1, <2>2 DEF Lists
  <2>4. Extends(c, a, b, n)
    BY <2>3, Appended
  <2> QED BY <1>5, <2>2, <2>4 DEF Extends
<1>7. script'.pc = "scheduleLines" /\ script.pc = "idle"
  BY <1>1 DEF Idle
<1>8. Shaped'
  <2>1. \A p \in DOMAIN payouts' : IsPayout(payouts'[p])
    BY <1>6 DEF Shaped
  <2>2. (\A p \in DOMAIN payouts : IsPayout(payouts[p]))' /\ IsTable(payouts)'
    BY <1>6, <2>1 DEF IsPayout, IsTable
  <2>3. (IsTable(batches) /\ \A i \in DOMAIN batches : IsBatch(batches[i]))'
    BY <1>1 DEF Shaped, IsTable, IsBatch
  <2> QED BY <1>7, <2>2, <2>3 DEF Shaped
<1>9. OneBatch' /\ FilesOfBatch'
  BY <1>1, <1>7 DEF OneBatch, InBatch, UploadPC, FilesOfBatch
<1>10. SentApart'
  BY <1>1, <1>6, <1>7 DEF SentApart, InTransit, UploadPC
<1> QED BY <1>8, <1>9, <1>10

\* An upload begins with payouts that are scheduled, so with none that is in transit.
LEMMA UploadApart ==
  ASSUME SentApartInv, Upload
  PROVE  SentApartInv'
<1> USE DEF SentApartInv
<1> DEFINE scheduled == {p \in DOMAIN payouts : payouts[p].status = "SCHEDULED"}
<1>1. /\ script = Idle /\ UNCHANGED <<payouts, batches, bucket>>
      /\ script' = [pc |-> "batch", tenants |-> Tenant,
                    loaded |-> [p \in scheduled |-> payouts[p]],
                    lines |-> {l \in DOMAIN lines : lines[l].payout \in scheduled},
                    payouts |-> {}, ids |-> {}, outcome |-> "SCHEDULED", sent |-> FALSE]
  BY DEF Upload, rows
<1>2. PICK s : s = script'
  OBVIOUS
<1>3. /\ s.pc = "batch" /\ s.tenants = <<"DMSS", "AMSS">> /\ DOMAIN s.loaded = scheduled
      /\ s.payouts = {} /\ \A p \in scheduled : s.loaded[p] = payouts[p]
  BY <1>1, <1>2 DEF Tenant
<1>4. IsUpload(s)
  BY <1>1, <1>2, <1>3 DEF IsUpload, UploadPC, Shaped
<1>5. Shaped'
  BY <1>1, <1>2, <1>4 DEF Shaped, IsTable, IsBatch, IsPayout, IsUpload
<1>6. OneBatch' /\ FilesOfBatch'
  BY <1>1, <1>2, <1>3 DEF OneBatch, InBatch, FilesOfBatch
<1>7. Pending' \subseteq scheduled
  BY <1>2, <1>3 DEF Pending
<1>8. SentApart'
  BY <1>1, <1>7 DEF SentApart, InTransit
<1> QED BY <1>5, <1>6, <1>8

\* The tenant whose turn it is comes once.
LEMMA TenantsLeft ==
  ASSUME NEW ts \in {<<"DMSS", "AMSS">>, <<"AMSS">>, <<>>}, ts # <<>>
  PROVE  /\ Tail(ts) \in {<<"DMSS", "AMSS">>, <<"AMSS">>, <<>>}
         /\ Turns(Tail(ts)) \subseteq Turns(ts)
         /\ Head(ts) \in Turns(ts) /\ Head(ts) \notin Turns(Tail(ts))
<1>1. CASE ts = <<"DMSS", "AMSS">>
  <2>1. Tail(ts) = <<"AMSS">> /\ Head(ts) = "DMSS"
    BY <1>1
  <2>2. DOMAIN ts = {1, 2} /\ DOMAIN <<"AMSS">> = {1} /\ ts[1] = "DMSS" /\ ts[2] = "AMSS"
        /\ <<"AMSS">>[1] = "AMSS"
    BY <1>1
  <2> QED BY <2>1, <2>2 DEF Turns
<1>2. CASE ts = <<"AMSS">>
  <2>1. Tail(ts) = <<>> /\ Head(ts) = "AMSS"
    BY <1>2
  <2>2. DOMAIN ts = {1} /\ ts[1] = "AMSS" /\ DOMAIN Tail(ts) = {}
    BY <1>2, <2>1
  <2> QED BY <2>1, <2>2 DEF Turns
<1> QED BY <1>1, <1>2

\* The next tenant's turn: none of what it sends was sent before.
LEMMA NextTenantApart ==
  ASSUME SentApartInv, NextTenant
  PROVE  SentApartInv'
<1> USE DEF SentApartInv
<1>1. script.pc = "batch" /\ IsUpload(script)
  BY DEF NextTenant, Uploading, Shaped
<1>2. PICK s : s = script
  OBVIOUS
<1>3. s = [pc |-> s.pc, tenants |-> s.tenants, loaded |-> s.loaded, lines |-> s.lines,
           payouts |-> s.payouts, ids |-> s.ids, outcome |-> s.outcome, sent |-> s.sent]
      /\ s.pc = "batch"
  BY <1>1, <1>2 DEF IsUpload
<1>4. PICK P, L : /\ P = PayoutsOf(DOMAIN s.loaded, Head(s.tenants))
                  /\ L = LinesOf(s.lines, Head(s.tenants))
  OBVIOUS
<1>5. UNCHANGED bucket
  BY DEF NextTenant
<1>6. CASE script' = Idle /\ UNCHANGED <<batches, payouts>>
  <2>1. script'.pc = "idle"
    BY <1>6 DEF Idle
  <2>2. FilesOfBatch'
    BY <1>5, <1>6 DEF FilesOfBatch
  <2> QED BY <1>6, <2>1, <2>2, SameTables
<1>7. CASE /\ s.tenants # <<>> /\ script' = [s EXCEPT !.tenants = Tail(@)]
           /\ UNCHANGED <<batches, payouts>>
  <2>1. PICK q : q = script'
    OBVIOUS
  <2>2. q = [pc |-> "batch", tenants |-> Tail(s.tenants), loaded |-> s.loaded,
             lines |-> s.lines, payouts |-> s.payouts, ids |-> s.ids,
             outcome |-> s.outcome, sent |-> s.sent]
    BY <1>3, <1>7, <2>1
  <2>3. /\ q.pc = "batch" /\ q.tenants = Tail(s.tenants) /\ q.loaded = s.loaded
        /\ q.payouts = s.payouts
    BY <2>2
  <2>4. /\ q.tenants \in {<<"DMSS", "AMSS">>, <<"AMSS">>, <<>>} /\ Left(q) \subseteq Left(s)
    BY <1>1, <1>2, <1>7, <2>3, TenantsLeft DEF IsUpload, Left
  <2>5. IsUpload(q)
    BY <1>1, <1>2, <2>2, <2>3, <2>4 DEF IsUpload
  <2>6. Shaped'
    BY <1>7, <2>1, <2>5 DEF Shaped, IsTable, IsBatch, IsPayout, IsUpload
  <2>7. OneBatch' /\ FilesOfBatch'
    BY <1>5, <1>7, <2>1, <2>3 DEF OneBatch, InBatch, FilesOfBatch
  <2>8. Pending' \subseteq Pending
    BY <1>2, <1>7, <2>1, <2>3, <2>4 DEF Pending, InBatch
  <2>9. SentApart'
    BY <1>1, <1>7, <2>8 DEF SentApart, InTransit, UploadPC
  <2> QED BY <2>6, <2>7, <2>9
<1>8. CASE /\ s.tenants # <<>>
           /\ batches' = Append(batches,
                 [tenant |-> Head(s.tenants), payouts |-> P, total |-> Amount(payouts, P),
                  number |-> 1 + Cardinality({b \in DOMAIN batches :
                                                batches[b].tenant = Head(s.tenants)}),
                  status |-> "SCHEDULED"])
           /\ payouts' = Saved(P, FALSE)
           /\ script' = [s EXCEPT !.pc = "payment", !.tenants = Tail(@),
                            !.payouts = P, !.ids = L, !.outcome = "SCHEDULED", !.sent = FALSE]
  <2>1. PICK q : q = script'
    OBVIOUS
  <2>2. q = [pc |-> "payment", tenants |-> Tail(s.tenants), loaded |-> s.loaded,
             lines |-> s.lines, payouts |-> P, ids |-> L, outcome |-> "SCHEDULED", sent |-> FALSE]
    BY <1>3, <1>8, <2>1
  <2>3. /\ q.pc = "payment" /\ q.tenants = Tail(s.tenants) /\ q.loaded = s.loaded
        /\ q.payouts = P /\ q.outcome = "SCHEDULED"
    BY <2>2
  <2>4. /\ q.tenants \in {<<"DMSS", "AMSS">>, <<"AMSS">>, <<>>} /\ Left(q) \subseteq Left(s)
        /\ Head(s.tenants) \in Left(s) /\ Head(s.tenants) \notin Left(q)
    BY <1>1, <1>2, <1>8, <2>3, TenantsLeft DEF IsUpload, Left
  <2>5. P \subseteq DOMAIN s.loaded /\ \A p \in P : payouts[p].tenant = Head(s.tenants)
    BY <1>4 DEF PayoutsOf
  <2>6. PICK x, tenant, number, total :
          /\ x = [tenant |-> tenant, payouts |-> P, total |-> total, number |-> number,
                  status |-> "SCHEDULED"]
          /\ batches' = Append(batches, x)
    BY <1>8
  <2>7. x.payouts = P /\ x.status = "SCHEDULED" /\ IsBatch(x)
    BY <2>6 DEF IsBatch
  <2>8. PICK n \in Nat : /\ n = Len(batches) /\ DOMAIN batches = 1..n
                         /\ DOMAIN batches' = 1..(n + 1) /\ Len(batches') = n + 1
                         /\ \A b \in 1..n : batches'[b] = batches[b]
                         /\ batches'[n + 1] = x /\ IsTable(batches')
    <3>1. PICK S : batches \in Seq(S)
      BY DEF Shaped, IsTable
    <3>2. PICK T : T = S \cup {x}
      OBVIOUS
    <3>3. batches \in Seq(T) /\ x \in T
      BY <3>1, <3>2
    <3>4. batches' \in Seq(T)
      BY <2>6, <3>3
    <3>5. Len(batches) \in Nat /\ DOMAIN batches = 1..Len(batches)
      BY <3>3
    <3>6. Len(batches') = Len(batches) + 1 /\ DOMAIN batches' = 1..(Len(batches) + 1)
          /\ batches'[Len(batches) + 1] = x
          /\ \A b \in 1..Len(batches) : batches'[b] = batches[b]
      BY <2>6, <3>3
    <3> QED BY <3>4, <3>5, <3>6 DEF IsTable
  <2>9. payouts' = [p \in DOMAIN payouts |-> IF p \notin P THEN payouts[p] ELSE s.loaded[p]]
    BY <1>2, <1>8 DEF Saved
  <2>10. /\ DOMAIN payouts' = DOMAIN payouts /\ IsTable(payouts')
         /\ \A p \in DOMAIN payouts : /\ IsPayout(payouts'[p])
                                      /\ payouts'[p].tenant = payouts[p].tenant
                                      /\ p \notin P => payouts'[p] = payouts[p]
    <3>1. \A p \in DOMAIN payouts : /\ IsPayout(payouts'[p])
                                    /\ payouts'[p].tenant = payouts[p].tenant
                                    /\ p \notin P => payouts'[p] = payouts[p]
      BY <1>1, <1>2, <2>5, <2>9 DEF IsUpload, Shaped
    <3>2. PICK m \in Nat : DOMAIN payouts = 1..m
      <4>1. PICK S : payouts \in Seq(S)
        BY DEF Shaped, IsTable
      <4> QED BY <4>1
    <3>3. PICK T : T = {payouts'[p] : p \in 1..m}
      OBVIOUS
    <3>4. payouts' \in Seq(T)
      BY <2>9, <3>2, <3>3
    <3> QED BY <2>9, <3>1, <3>4 DEF IsTable
  <2>11. DOMAIN s.loaded \subseteq DOMAIN payouts
    BY <1>1, <1>2 DEF IsUpload
  <2>12. Pending' \subseteq Pending
    BY <1>2, <2>1, <2>3, <2>4, <2>5, <2>10, <2>11 DEF Pending
  <2>13. P \subseteq Pending
    BY <1>2, <2>4, <2>5 DEF Pending
  <2>14. IsUpload(q)'
    BY <1>1, <1>2, <2>2, <2>3, <2>4, <2>5, <2>10 DEF IsUpload, UploadPC, IsPayout
  <2>15. Shaped'
    <3>1. (\A p \in DOMAIN payouts : IsPayout(payouts[p]))' /\ IsTable(payouts)'
      BY <2>10 DEF IsPayout, IsTable
    <3>2. (IsTable(batches) /\ \A i \in DOMAIN batches : IsBatch(batches[i]))'
      <4>1. \A i \in 1..(n + 1) : i \in 1..n \/ i = n + 1
        OBVIOUS
      <4>2. \A i \in DOMAIN batches' : IsBatch(batches'[i])
        BY <2>7, <2>8, <4>1 DEF Shaped
      <4> QED BY <2>8, <4>2 DEF IsTable, IsBatch
    <3>3. IsUpload(script)'
      BY <2>1, <2>14 DEF IsUpload, IsPayout
    <3> QED BY <3>1, <3>2, <3>3 DEF Shaped
  <2>16. OneBatch'
    BY <2>1, <2>3, <2>4, <2>5, <2>7, <2>8, <2>10, <2>11 DEF OneBatch, InTransit, Left
  <2>17. \A b \in DOMAIN batches : InTransit(b)' <=> InTransit(b)
    BY <2>8 DEF InTransit
  <2>18. ~InTransit(n + 1)'
    BY <2>7, <2>8 DEF InTransit
  <2>19. script.pc \in UploadPC
    BY <1>1 DEF UploadPC
  <2>20. ASSUME NEW b \in DOMAIN batches', InTransit(b)'
         PROVE  /\ batches'[b].payouts \subseteq DOMAIN payouts'
                /\ \A p \in batches'[b].payouts : payouts'[p].status # "SCHEDULED"
                /\ batches'[b].payouts \cap Pending' = {}
                /\ \A c \in DOMAIN batches' : b < c =>
                     batches'[b].payouts \cap batches'[c].payouts = {}
    <3>1. b \in DOMAIN batches /\ InTransit(b)
      BY <2>8, <2>17, <2>18, <2>20
    <3>2. /\ batches[b].payouts \subseteq DOMAIN payouts
          /\ \A p \in batches[b].payouts : payouts[p].status # "SCHEDULED"
          /\ batches[b].payouts \cap Pending = {}
          /\ \A c \in DOMAIN batches : b < c => batches[b].payouts \cap batches[c].payouts = {}
      BY <2>19, <3>1 DEF SentApart
    <3>3. batches'[b] = batches[b]
      BY <2>8, <3>1
    <3>4. \A c \in DOMAIN batches' : (c \in DOMAIN batches /\ batches'[c] = batches[c]) \/ batches'[c] = x
      BY <2>8
    <3> QED BY <2>7, <2>10, <2>12, <2>13, <3>2, <3>3, <3>4
  <2>21. SentApart'
    BY <2>20 DEF SentApart
  <2>22. FilesOfBatch'
    BY <1>5, <2>8 DEF FilesOfBatch
  <2> QED BY <2>15, <2>16, <2>21, <2>22
<1> QED
  BY <1>2, <1>4, <1>6, <1>7, <1>8 DEF NextTenant

\* The files are written one after the other, of the payouts of the batch.
LEMMA SendApart ==
  ASSUME SentApartInv, SendPayment \/ SendSummary \/ SendLines \/ FailUpload \/ MarkSent
  PROVE  SentApartInv'
<1> USE DEF SentApartInv
<1>1. script.pc \in InBatch /\ script.pc # "close"
  BY DEF SendPayment, SendSummary, SendLines, FailUpload, MarkSent, Uploading, InBatch, UploadPC
<1>2. IsUpload(script) /\ UNCHANGED <<payouts, batches>>
  BY <1>1 DEF Shaped, InBatch, UploadPC, SendPayment, SendSummary, SendLines, FailUpload,
              MarkSent, rows
<1>3. script.outcome # "IN_TRANSIT"
  BY <1>1 DEF OneBatch
<1>4. \A kind, content : Store(kind, content) /\ kind # "payment" => FilesOfBatch'
  BY <1>2 DEF Store, FilesOfBatch
<1>5. ASSUME NEW pc \in InBatch, Continue(pc), FilesOfBatch' PROVE SentApartInv'
  <2>1. /\ script' = [pc |-> pc, tenants |-> script.tenants, loaded |-> script.loaded,
                      lines |-> script.lines, payouts |-> script.payouts, ids |-> script.ids,
                      outcome |-> script.outcome, sent |-> script.sent]
        /\ script'.pc = pc /\ script'.tenants = script.tenants
        /\ script'.loaded = script.loaded /\ script'.payouts = script.payouts
        /\ script'.outcome = script.outcome /\ script'.sent = script.sent
    BY <1>2, <1>5, ContinueFields
  <2>2. PICK q : q = script'
    OBVIOUS
  <2>3. IsUpload(q)
    BY <1>2, <1>5, <2>1, <2>2 DEF IsUpload, InBatch
  <2> HIDE DEF SentApartInv
  <2> QED BY <1>1, <1>2, <1>3, <1>5, <2>1, <2>2, <2>3, SameTables
<1>6. ASSUME NEW outcome, NEW sent, FilesOfBatch', outcome = "IN_TRANSIT" => sent,
             script' = [script EXCEPT !.pc = "close", !.outcome = outcome, !.sent = sent]
      PROVE  SentApartInv'
  <2>1. PICK s, q : s = script /\ q = script'
    OBVIOUS
  <2>2. s = [pc |-> s.pc, tenants |-> s.tenants, loaded |-> s.loaded, lines |-> s.lines,
             payouts |-> s.payouts, ids |-> s.ids, outcome |-> s.outcome, sent |-> s.sent]
    BY <1>2, <2>1 DEF IsUpload
  <2>3. q = [pc |-> "close", tenants |-> s.tenants, loaded |-> s.loaded, lines |-> s.lines,
             payouts |-> s.payouts, ids |-> s.ids, outcome |-> outcome, sent |-> sent]
    BY <1>6, <2>1, <2>2
  <2>4. /\ q.pc = "close" /\ q.tenants = s.tenants /\ q.loaded = s.loaded
        /\ q.payouts = s.payouts /\ q.outcome = outcome /\ q.sent = sent
    BY <2>3
  <2>5. IsUpload(q)
    BY <1>2, <2>1, <2>3, <2>4 DEF IsUpload, UploadPC
  <2>6. q.pc \in InBatch
    BY <2>4 DEF InBatch, UploadPC
  <2> HIDE DEF SentApartInv
  <2> QED BY <1>1, <1>2, <1>6, <2>1, <2>4, <2>5, <2>6, SameTables
<1>7. UNCHANGED bucket => FilesOfBatch'
  BY <1>2 DEF FilesOfBatch
<1>8. CASE SendPayment
  <2>1. bucket' = bucket \cup {[batch |-> Len(batches), kind |-> "payment",
                                content |-> PaymentFile(script.payouts)]}
    BY <1>8 DEF SendPayment, Store, Batch
  <2>2. \A d \in PaymentFile(script.payouts).details : d.reference \in script.payouts
    BY DEF PaymentFile, Detail
  <2>3. Len(batches) \in DOMAIN batches /\ batches[Len(batches)].payouts = script.payouts
    <3>1. Len(batches) > 0 /\ batches[Len(batches)].payouts = script.payouts
      BY <1>1 DEF OneBatch
    <3>2. PICK S : batches \in Seq(S)
      BY DEF Shaped, IsTable
    <3> QED BY <3>1, <3>2
  <2>4. FilesOfBatch'
    BY <1>2, <2>1, <2>2, <2>3 DEF FilesOfBatch
  <2>5. Continue("summary") /\ "summary" \in InBatch
    BY <1>8 DEF SendPayment, InBatch, UploadPC
  <2> QED BY <1>5, <2>4, <2>5
<1>9. CASE SendSummary
  <2>1. FilesOfBatch' /\ Continue("lines") /\ "lines" \in InBatch
    BY <1>4, <1>9 DEF SendSummary, InBatch, UploadPC
  <2> QED BY <1>5, <2>1
<1>10. CASE SendLines
  <2>1. FilesOfBatch' /\ Continue("mark") /\ "mark" \in InBatch
    BY <1>4, <1>10 DEF SendLines, InBatch, UploadPC
  <2> QED BY <1>5, <2>1
<1>11. CASE FailUpload
  <2>1. script' = [script EXCEPT !.pc = "close", !.outcome = "FAILED"] /\ UNCHANGED bucket
    BY <1>11 DEF FailUpload
  <2>2. PICK s : s = script
    OBVIOUS
  <2>3. s = [pc |-> s.pc, tenants |-> s.tenants, loaded |-> s.loaded, lines |-> s.lines,
             payouts |-> s.payouts, ids |-> s.ids, outcome |-> s.outcome, sent |-> s.sent]
    BY <1>2, <2>2 DEF IsUpload
  <2>4. [s EXCEPT !.pc = "close", !.outcome = "FAILED"]
          = [s EXCEPT !.pc = "close", !.outcome = "FAILED", !.sent = s.sent]
    BY <2>3
  <2>5. script' = [script EXCEPT !.pc = "close", !.outcome = "FAILED", !.sent = s.sent]
    BY <2>1, <2>2, <2>4
  <2>6. PICK outcome : outcome = "FAILED"
    OBVIOUS
  <2>7. PICK sent : sent = s.sent
    OBVIOUS
  <2>8. script' = [script EXCEPT !.pc = "close", !.outcome = outcome, !.sent = sent]
    BY <2>5, <2>6, <2>7
  <2>9. (outcome = "IN_TRANSIT" => sent) /\ FilesOfBatch'
    BY <1>7, <2>1, <2>6
  <2> HIDE DEF SentApartInv
  <2> QED BY <1>6, <2>8, <2>9
<1>12. CASE MarkSent
  <2>1. UNCHANGED bucket
    BY <1>12 DEF MarkSent
  <2>2. \E outcome \in {"IN_TRANSIT", "FAILED"} :
          script' = [script EXCEPT !.pc = "close", !.outcome = outcome, !.sent = TRUE]
    <3>1. \/ script' = [script EXCEPT !.pc = "close", !.outcome = "IN_TRANSIT", !.sent = TRUE]
          \/ script' = [script EXCEPT !.pc = "close", !.outcome = "FAILED", !.sent = TRUE]
      BY <1>12 DEF MarkSent
    <3> QED BY <3>1
  <2>3. PICK outcome \in {"IN_TRANSIT", "FAILED"} :
          script' = [script EXCEPT !.pc = "close", !.outcome = outcome, !.sent = TRUE]
    BY <2>2
  <2>4. PICK sent : sent = TRUE
    OBVIOUS
  <2>5. script' = [script EXCEPT !.pc = "close", !.outcome = outcome, !.sent = sent]
    BY <2>3, <2>4
  <2>6. (outcome = "IN_TRANSIT" => sent) /\ FilesOfBatch'
    BY <1>7, <2>1, <2>4
  <2> HIDE DEF SentApartInv
  <2> QED BY <1>6, <2>5, <2>6
<1> QED BY <1>8, <1>9, <1>10, <1>11, <1>12

\* The batch is closed: when it is in transit, its payouts are saved as sent.
LEMMA CloseBatchApart ==
  ASSUME SentApartInv, CloseBatch
  PROVE  SentApartInv'
<1> USE DEF SentApartInv
<1>1. script.pc = "close" /\ IsUpload(script) /\ UNCHANGED bucket
  BY DEF CloseBatch, Uploading, Shaped
<1>2. PICK s : s = script
  OBVIOUS
<1>3. PICK q : q = script'
  OBVIOUS
<1>4. /\ q = [pc |-> "batch", tenants |-> s.tenants, loaded |-> s.loaded,
              lines |-> s.lines, payouts |-> s.payouts, ids |-> s.ids,
              outcome |-> s.outcome, sent |-> s.sent]
      /\ q.pc = "batch" /\ q.tenants = s.tenants
      /\ q.loaded = s.loaded /\ q.payouts = s.payouts
  BY <1>1, <1>2, <1>3, ContinueFields DEF CloseBatch
<1>5. PICK n \in Nat : /\ n = Len(batches) /\ n > 0 /\ DOMAIN batches = 1..n
                       /\ batches[n].payouts = s.payouts /\ ~InTransit(n)
                       /\ \A p \in s.payouts : payouts[p].tenant \notin Left(s)
                       /\ s.outcome = "IN_TRANSIT" => s.sent
  <2>1. script.pc \in InBatch
    BY <1>1 DEF InBatch, UploadPC
  <2>2. PICK S : batches \in Seq(S)
    BY DEF Shaped, IsTable
  <2> QED BY <1>2, <2>1, <2>2 DEF OneBatch
<1>6. batches' = [batches EXCEPT ![n].status = s.outcome]
  BY <1>2, <1>5 DEF CloseBatch, Batch
<1>7. /\ DOMAIN batches' = DOMAIN batches /\ IsTable(batches')
      /\ \A b \in DOMAIN batches : /\ IsBatch(batches'[b])
                                   /\ batches'[b].payouts = batches[b].payouts
                                   /\ b # n => batches'[b] = batches[b]
      /\ batches'[n].status = s.outcome
  <2>1. PICK S : batches \in Seq(S)
    BY DEF Shaped, IsTable
  <2>2. PICK x : x = batches[n]
    OBVIOUS
  <2>3. x = [tenant |-> x.tenant, number |-> x.number, payouts |-> x.payouts,
             total |-> x.total, status |-> x.status]
    BY <1>5, <2>2 DEF Shaped, IsBatch
  <2>4. PICK y : y = [x EXCEPT !.status = s.outcome]
    OBVIOUS
  <2>5. y = [tenant |-> x.tenant, number |-> x.number, payouts |-> x.payouts,
             total |-> x.total, status |-> s.outcome]
    BY <2>3, <2>4
  <2>6. IsBatch(y) /\ y.payouts = x.payouts /\ y.status = s.outcome
    BY <2>5 DEF IsBatch
  <2>7. batches' = [batches EXCEPT ![n] = y]
    BY <1>6, <2>2, <2>4
  <2>8. PICK T : T = S \cup {y}
    OBVIOUS
  <2>9. batches \in Seq(T) /\ y \in T
    BY <2>1, <2>8
  <2>10. batches' \in Seq(T)
    BY <1>5, <2>7, <2>9
  <2>11. \A b \in DOMAIN batches : batches'[b] = IF b = n THEN y ELSE batches[b]
    BY <2>7
  <2>12. DOMAIN batches' = DOMAIN batches
    BY <2>7
  <2> QED BY <1>5, <2>2, <2>6, <2>10, <2>11, <2>12 DEF Shaped, IsTable
<1>8. payouts' = [p \in DOMAIN payouts |->
                    IF p \notin s.payouts THEN payouts[p]
                    ELSE IF s.sent THEN [s.loaded[p] EXCEPT !.status = "IN_TRANSIT"]
                         ELSE s.loaded[p]]
  BY <1>2 DEF CloseBatch, Saved
<1>9. s.payouts \subseteq DOMAIN s.loaded /\ DOMAIN s.loaded \subseteq DOMAIN payouts
  BY <1>1, <1>2 DEF IsUpload
<1>10. ASSUME NEW p \in DOMAIN payouts
       PROVE  /\ IsPayout(payouts'[p]) /\ payouts'[p].tenant = payouts[p].tenant
              /\ p \notin s.payouts => payouts'[p] = payouts[p]
              /\ p \in s.payouts /\ s.sent => payouts'[p].status = "IN_TRANSIT"
  <2>1. CASE p \notin s.payouts
    BY <1>8, <2>1 DEF Shaped
  <2>2. CASE p \in s.payouts
    <3>1. PICK x : x = s.loaded[p]
      OBVIOUS
    <3>2. x = [owner |-> x.owner, tenant |-> x.tenant, amount |-> x.amount,
               processed |-> x.processed, status |-> x.status]
          /\ x.tenant = payouts[p].tenant
      BY <1>1, <1>2, <1>9, <2>2, <3>1 DEF IsUpload, IsPayout
    <3>3. PICK y : y = [x EXCEPT !.status = "IN_TRANSIT"]
      OBVIOUS
    <3>4. y = [owner |-> x.owner, tenant |-> x.tenant, amount |-> x.amount,
               processed |-> x.processed, status |-> "IN_TRANSIT"]
      BY <3>2, <3>3
    <3>5. IsPayout(y) /\ y.tenant = x.tenant /\ y.status = "IN_TRANSIT" /\ IsPayout(x)
      BY <3>2, <3>4 DEF IsPayout
    <3>6. payouts'[p] = IF s.sent THEN y ELSE x
      BY <1>8, <2>2, <3>1, <3>3
    <3> QED BY <2>2, <3>2, <3>5, <3>6
  <2> QED BY <2>1, <2>2
<1>11. DOMAIN payouts' = DOMAIN payouts /\ IsTable(payouts')
  <2>1. PICK m \in Nat : DOMAIN payouts = 1..m
    <3>1. PICK S : payouts \in Seq(S)
      BY DEF Shaped, IsTable
    <3> QED BY <3>1
  <2>2. PICK T : T = {payouts'[p] : p \in 1..m}
    OBVIOUS
  <2>3. payouts' \in Seq(T)
    BY <1>8, <2>1, <2>2
  <2> QED BY <1>8, <2>3 DEF IsTable
<1>12. IsUpload(q)'
  BY <1>1, <1>2, <1>4, <1>10, <1>11 DEF IsUpload, UploadPC, IsPayout
<1>13. Shaped'
  <2>1. (\A p \in DOMAIN payouts : IsPayout(payouts[p]))' /\ IsTable(payouts)'
    BY <1>10, <1>11 DEF IsPayout, IsTable
  <2>2. (IsTable(batches) /\ \A i \in DOMAIN batches : IsBatch(batches[i]))'
    BY <1>7 DEF IsTable, IsBatch
  <2>3. IsUpload(script)'
    BY <1>3, <1>12 DEF IsUpload, IsPayout
  <2> QED BY <2>1, <2>2, <2>3 DEF Shaped
<1>14. OneBatch'
  BY <1>3, <1>4 DEF OneBatch, InBatch
<1>15. Pending' \subseteq Pending \ s.payouts
  BY <1>2, <1>3, <1>4, <1>5, <1>9, <1>10, <1>11 DEF Pending, InBatch, Left
<1>16. ASSUME NEW b \in DOMAIN batches', InTransit(b)'
       PROVE  /\ batches'[b].payouts \subseteq DOMAIN payouts'
              /\ \A p \in batches'[b].payouts : payouts'[p].status # "SCHEDULED"
              /\ batches'[b].payouts \cap Pending' = {}
              /\ \A c \in DOMAIN batches' : b < c =>
                   batches'[b].payouts \cap batches'[c].payouts = {}
  <2>1. CASE b = n
    <3>1. s.outcome = "IN_TRANSIT" /\ s.sent
      BY <1>5, <1>7, <1>16, <2>1 DEF InTransit
    <3>2. \A c \in DOMAIN batches' : ~(b < c)
      BY <1>5, <1>7, <2>1
    <3>3. batches'[b].payouts = s.payouts
      BY <1>5, <1>7, <2>1
    <3> QED BY <1>9, <1>10, <1>11, <1>15, <3>1, <3>2, <3>3
  <2>2. CASE b # n
    <3>1. b \in DOMAIN batches /\ InTransit(b) /\ batches'[b] = batches[b]
      BY <1>7, <1>16, <2>2 DEF InTransit
    <3>2. script.pc \in UploadPC
      BY <1>1 DEF UploadPC
    <3>3. /\ batches[b].payouts \subseteq DOMAIN payouts
          /\ \A p \in batches[b].payouts : payouts[p].status # "SCHEDULED"
          /\ batches[b].payouts \cap Pending = {}
          /\ \A c \in DOMAIN batches : b < c => batches[b].payouts \cap batches[c].payouts = {}
      BY <3>1, <3>2 DEF SentApart
    <3>4. s.payouts \subseteq Pending
      BY <1>1, <1>2, <1>9 DEF Pending, InBatch, UploadPC
    <3>5. \A p \in batches[b].payouts : payouts'[p] = payouts[p]
      BY <1>10, <3>3, <3>4
    <3> QED BY <1>7, <1>11, <1>15, <3>1, <3>3, <3>5
  <2> QED BY <2>1, <2>2
<1>17. SentApart'
  BY <1>16 DEF SentApart
<1>18. FilesOfBatch'
  BY <1>1, <1>7 DEF FilesOfBatch
<1> QED BY <1>13, <1>14, <1>17, <1>18

------------------------------------------------------------------------------
\* A table of which one row was replaced, where there is one, is a table.
LEMMA RowReplaced ==
  ASSUME NEW a, IsTable(a), NEW p, NEW y
  PROVE  LET b == [a EXCEPT ![p] = y]
         IN  /\ IsTable(b) /\ DOMAIN b = DOMAIN a
             /\ \A i \in DOMAIN a : b[i] = IF i = p THEN y ELSE a[i]
<1>1. PICK S : a \in Seq(S)
  BY DEF IsTable
<1>2. PICK T : T = S \cup {y}
  OBVIOUS
<1>3. a \in Seq(T) /\ y \in T
  BY <1>1, <1>2
<1>4. PICK n \in Nat : n = Len(a) /\ DOMAIN a = 1..n
  BY <1>3
<1>5. a \in [1..n -> T]
  BY <1>3, <1>4
<1>6. PICK b : b = [a EXCEPT ![p] = y]
  OBVIOUS
<1>7. b \in [1..n -> T] /\ \A i \in 1..n : b[i] = IF i = p THEN y ELSE a[i]
  BY <1>3, <1>5, <1>6
<1>8. b \in Seq(T)
  BY <1>7
<1> QED BY <1>4, <1>6, <1>7, <1>8 DEF IsTable

\* What is read of a status file changes what was processed of a payout.
LEMMA CountRowApart ==
  ASSUME SentApartInv, CountRow
  PROVE  SentApartInv'
<1>1. UNCHANGED <<batches, bucket, script>>
  BY DEF CountRow
<1>2. PICK p, more : payouts' = [payouts EXCEPT ![p].processed = @ + more]
  BY Zenon DEF CountRow
<1>3. PICK x : x = payouts[p]
  OBVIOUS
<1>4. PICK y : y = [x EXCEPT !.processed = @ + more]
  OBVIOUS
<1>5. PICK a : a = payouts
  OBVIOUS
<1>6. IsTable(a) /\ \A i \in DOMAIN a : IsPayout(a[i])
  BY <1>5 DEF SentApartInv, Shaped
<1>7. payouts' = [a EXCEPT ![p] = y]
  BY <1>2, <1>3, <1>4, <1>5
<1>8. /\ IsTable(payouts)' /\ DOMAIN payouts' = DOMAIN a
      /\ \A i \in DOMAIN a : payouts'[i] = IF i = p THEN y ELSE a[i]
  BY <1>6, <1>7, RowReplaced DEF IsTable
<1>9. ASSUME p \in DOMAIN a
      PROVE  IsPayout(y) /\ y.tenant = x.tenant /\ y.status = x.status
  <2>1. x = [owner |-> x.owner, tenant |-> x.tenant, amount |-> x.amount,
             processed |-> x.processed, status |-> x.status]
    BY <1>3, <1>5, <1>6, <1>9 DEF IsPayout
  <2>2. y = [owner |-> x.owner, tenant |-> x.tenant, amount |-> x.amount,
             processed |-> x.processed + more, status |-> x.status]
    BY <1>4, <2>1
  <2> QED BY <2>2 DEF IsPayout
<1> QED BY <1>1, <1>3, <1>5, <1>6, <1>8, <1>9, PayoutsChange

\* A payout of which all was processed is paid.
LEMMA PayRowApart ==
  ASSUME SentApartInv, PayRow
  PROVE  SentApartInv'
<1>1. UNCHANGED <<batches, bucket, script>>
  BY DEF PayRow
<1>2. PICK a : a = payouts
  OBVIOUS
<1>3. IsTable(a) /\ \A i \in DOMAIN a : IsPayout(a[i])
  BY <1>2 DEF SentApartInv, Shaped
<1>4. PICK p : payouts' = [payouts EXCEPT ![p].status = "PAID"] \/ payouts' = payouts
  <2>1. PICK p : p = reader.payout
    OBVIOUS
  <2>2. payouts' = IF payouts[p].processed = payouts[p].amount
                   THEN [payouts EXCEPT ![p].status = "PAID"] ELSE payouts
    BY <2>1 DEF PayRow
  <2> QED BY <2>2
<1>5. CASE payouts' = payouts
  <2>1. \A i \in DOMAIN payouts' : IsPayout(payouts'[i])
    BY <1>2, <1>3, <1>5
  <2>2. IsTable(payouts)'
    BY <1>2, <1>3, <1>5 DEF IsTable
  <2> QED BY <1>1, <1>5, <2>1, <2>2, PayoutsChange
<1>6. CASE payouts' = [payouts EXCEPT ![p].status = "PAID"]
  <2>1. PICK x : x = payouts[p]
    OBVIOUS
  <2>2. PICK y : y = [x EXCEPT !.status = "PAID"]
    OBVIOUS
  <2>3. payouts' = [a EXCEPT ![p] = y]
    BY <1>2, <1>6, <2>1, <2>2
  <2>4. /\ IsTable(payouts)' /\ DOMAIN payouts' = DOMAIN a
        /\ \A i \in DOMAIN a : payouts'[i] = IF i = p THEN y ELSE a[i]
    BY <1>3, <2>3, RowReplaced DEF IsTable
  <2>5. ASSUME p \in DOMAIN a
        PROVE  IsPayout(y) /\ y.tenant = x.tenant /\ y.status = "PAID"
    <3>1. x = [owner |-> x.owner, tenant |-> x.tenant, amount |-> x.amount,
               processed |-> x.processed, status |-> x.status]
      BY <1>2, <1>3, <2>1, <2>5 DEF IsPayout
    <3>2. y = [owner |-> x.owner, tenant |-> x.tenant, amount |-> x.amount,
               processed |-> x.processed, status |-> "PAID"]
      BY <2>2, <3>1
    <3> QED BY <3>2 DEF IsPayout
  <2> QED BY <1>1, <1>2, <1>3, <2>1, <2>4, <2>5, PayoutsChange
<1> QED BY <1>4, <1>5, <1>6

\* Every step keeps what is sent apart.
LEMMA NextApart ==
  ASSUME SentApartInv, [Next]_vars
  PROVE  SentApartInv'
<1>1. ASSUME UNCHANGED <<payouts, batches, bucket>>,
             script' = script \/ script'.pc \in {"idle", "scheduleLines"}
      PROVE  SentApartInv'
  <2>1. FilesOfBatch'
    BY <1>1 DEF SentApartInv, FilesOfBatch
  <2> QED BY <1>1, <2>1, SameTables
<1>2. ASSUME NEW c \in Credit, Earn(c) PROVE SentApartInv'
  BY <1>1, <1>2 DEF Earn
<1>3. CASE Schedule
  <2>1. CASE SchedulePayouts
    BY <2>1, SchedulePayoutsApart
  <2>2. CASE ScheduleLines
    <3>1. script' = Idle /\ UNCHANGED <<payouts, batches, bucket>>
      BY <2>2 DEF ScheduleLines
    <3> QED BY <1>1, <3>1 DEF Idle
  <2> QED BY <1>3, <2>1, <2>2 DEF Schedule
<1>4. CASE Upload
  BY <1>4, UploadApart
<1>5. CASE Transfer
  BY <1>5, NextTenantApart, SendApart, CloseBatchApart DEF Transfer
<1>6. CASE Report
  <2>1. UNCHANGED <<script, payouts, batches, bucket>>
    BY <1>6 DEF Report, rows
  <2> QED BY <1>1, <2>1
<1>7. CASE Read
  <2>1. CASE List \/ Download \/ EndOfList \/ MarkRow \/ RemoveFile
    <3>1. UNCHANGED <<script, payouts, batches, bucket>>
      BY <2>1 DEF List, Download, EndOfList, MarkRow, RemoveFile, rows
    <3> QED BY <1>1, <3>1
  <2> QED BY <1>7, <2>1, CountRowApart, PayRowApart DEF Read
<1>8. CASE Crash
  <2>1. /\ UNCHANGED <<payouts, batches, bucket>>
        /\ script' = script \/ script' = Idle
    BY <1>8 DEF Crash, rows
  <2> QED BY <1>1, <2>1 DEF Idle
<1>9. CASE UNCHANGED vars
  <2>1. UNCHANGED <<script, payouts, batches, bucket>>
    BY <1>9 DEF vars, rows
  <2> QED BY <1>1, <2>1
<1> QED BY <1>2, <1>3, <1>4, <1>5, <1>6, <1>7, <1>8, <1>9 DEF Next

\* The batches of which the payment files are, name different payouts.
LEMMA ApartOnce ==
  ASSUME SentApartInv
  PROVE  SentOnce
<1> SUFFICES ASSUME NEW f \in bucket, NEW g \in bucket,
                    f.kind = "payment", g.kind = "payment", f.batch < g.batch,
                    batches[f.batch].status = "IN_TRANSIT"
             PROVE  {d.reference : d \in f.content.details}
                      \cap {d.reference : d \in g.content.details} = {}
  BY DEF SentOnce
<1>1. /\ f.batch \in DOMAIN batches /\ g.batch \in DOMAIN batches
      /\ \A d \in f.content.details : d.reference \in batches[f.batch].payouts
      /\ \A d \in g.content.details : d.reference \in batches[g.batch].payouts
  BY DEF SentApartInv, FilesOfBatch
<1>2. batches[f.batch].payouts \cap batches[g.batch].payouts = {}
  BY <1>1 DEF SentApartInv, SentApart, InTransit
<1> QED BY <1>1, <1>2

\* At the start there is no batch, and no script has payouts in memory.
LEMMA InitApart ==
  ASSUME Init
  PROVE  SentApartInv
<1>1. script.pc = "idle" /\ payouts = <<>> /\ batches = <<>> /\ bucket = {}
  BY DEF Init, Idle
<1>2. IsTable(payouts) /\ IsTable(batches)
  <2>1. payouts \in Seq({}) /\ batches \in Seq({})
    BY <1>1
  <2> QED BY <2>1 DEF IsTable
<1>3. DOMAIN payouts = {} /\ DOMAIN batches = {}
  BY <1>1
<1>4. script.pc \notin InBatch
  BY <1>1 DEF InBatch, UploadPC
<1> QED BY <1>1, <1>2, <1>3, <1>4
        DEF SentApartInv, Shaped, OneBatch, SentApart, FilesOfBatch

\* PayoutService.generateAndUploadPaymentFiles: what SCB was told to pay by a batch that
\* is in transit, no later payment file tells it again, for any credits, failures and
\* crashes, and whatever is read of SAP's reports meanwhile.
THEOREM PaymentsAreSentOnce == Spec => []SentOnce
<1>1. Init => SentApartInv
  BY InitApart
<1>2. SentApartInv /\ [Next]_vars => SentApartInv'
  BY NextApart
<1>3. SentApartInv => SentOnce
  BY ApartOnce
<1> QED BY <1>1, <1>2, <1>3, PTL DEF Spec

------------------------------------------------------------------------------
(* Types *)

\* What the rows, the files and the two scripts hold, beyond TypeOK.
Named == Seq((Job \X Owner) \cup {Invalid})

RowsTyped ==
  /\ paidBy \in [Credit -> {NotEarned, Payable} \cup DOMAIN payouts]
  /\ payouts \in Seq(PayoutRow) /\ lines \in Seq(LineRow) /\ batches \in Seq(BatchRow)
  /\ \A l \in DOMAIN lines : lines[l].payout \in DOMAIN payouts

FilesTyped ==
  /\ ftp \subseteq ((DOMAIN batches) \X {"summary", "lines"})
  /\ \A f \in bucket :
       /\ f.kind = "payment" => f.content.details \subseteq DetailRow
       /\ f.kind = "lines" => \A r \in f.content : <<r.job, r.vendor>> \in Job \X Owner

InboxTyped ==
  /\ files \in Nat /\ failures \in Nat /\ crashes \in Nat
  /\ \A f \in inbox : f.name \in 1..files /\ f.rows \in Named /\ f.rows # <<>>

ScriptTyped ==
  /\ script.pc = "idle" => script = Idle
  /\ script.pc = "scheduleLines" =>
       /\ script.credits \subseteq Credit
       /\ \A c \in script.credits : paidBy[c] \in DOMAIN payouts
  /\ script.pc \in UploadPC =>
       /\ script.lines \subseteq DOMAIN lines /\ script.ids \subseteq DOMAIN lines
       /\ script.outcome \in Status
       /\ \A p \in DOMAIN script.loaded : script.loaded[p] \in PayoutRow

ReaderTyped ==
  /\ reader.pc \in {"idle", "next", "row", "count", "pay"}
  /\ reader.pc = "idle" => reader = Idle
  /\ reader.pc \in {"row", "count", "pay"} => reader.rows \in Named
  /\ reader.pc \in {"row", "count"} =>
       reader = [pc |-> reader.pc, names |-> reader.names, name |-> reader.name,
                 rows |-> reader.rows]
  /\ reader.pc \in {"count", "pay"} => reader.rows # <<>>
  /\ reader.pc = "pay" => reader.payout \in DOMAIN payouts

Typed == RowsTyped /\ FilesTyped /\ InboxTyped /\ ScriptTyped /\ ReaderTyped

\* The inductive invariant has the type invariant as a part.
LEMMA TypedTypeOK ==
  ASSUME Typed PROVE TypeOK
BY Zenon DEF Typed, RowsTyped, FilesTyped, InboxTyped, TypeOK

\* What a step leaves alone stays typed, while rows are added or change.
LEMMA StaysTyped ==
  ASSUME Typed, RowsTyped',
         DOMAIN payouts \subseteq DOMAIN payouts', DOMAIN lines \subseteq DOMAIN lines',
         DOMAIN batches \subseteq DOMAIN batches',
         \A c \in Credit : paidBy[c] \in DOMAIN payouts => paidBy'[c] \in DOMAIN payouts'
  PROVE  /\ UNCHANGED <<ftp, bucket>> => FilesTyped'
         /\ UNCHANGED <<inbox, files, failures, crashes>> => InboxTyped'
         /\ UNCHANGED script => ScriptTyped'
         /\ UNCHANGED reader => ReaderTyped'
<1>1. UNCHANGED <<ftp, bucket>> => FilesTyped'
  BY DEF Typed, FilesTyped
<1>2. UNCHANGED <<inbox, files, failures, crashes>> => InboxTyped'
  BY DEF Typed, InboxTyped
<1>3. UNCHANGED script => ScriptTyped'
  BY DEF Typed, ScriptTyped
<1>4. UNCHANGED reader => ReaderTyped'
  BY DEF Typed, ReaderTyped
<1> QED BY <1>1, <1>2, <1>3, <1>4

\* A step that leaves the rows alone.
LEMMA RowsStay ==
  ASSUME Typed, UNCHANGED rows
  PROVE  /\ RowsTyped'
         /\ UNCHANGED <<ftp, bucket>> => FilesTyped'
         /\ UNCHANGED <<inbox, files, failures, crashes>> => InboxTyped'
         /\ UNCHANGED script => ScriptTyped'
         /\ UNCHANGED reader => ReaderTyped'
<1>1. UNCHANGED <<paidBy, payouts, lines, batches>>
  BY DEF rows
<1>2. RowsTyped'
  BY <1>1 DEF Typed, RowsTyped
<1> QED BY <1>1, <1>2, StaysTyped

\* A script without anything in memory.
LEMMA IdleTyped ==
  /\ script' = Idle => ScriptTyped'
  /\ reader' = Idle => ReaderTyped'
BY DEF Idle, ScriptTyped, ReaderTyped, UploadPC

------------------------------------------------------------------------------
(* Sums of naturals *)

\* A sum of naturals is one.
LEMMA SumsAreNaturals ==
  ASSUME NEW S, IsFiniteSet(S), NEW g, \A x \in S : g[x] \in Nat, NEW f, Sums(f, g, S)
  PROVE  f[S] \in Nat
<1> DEFINE Bad == {s \in SUBSET S : f[s] \notin Nat}
<1>1. SUFFICES ASSUME Bad # {} PROVE FALSE
  OBVIOUS
<1>2. PICK m \in Bad : \A s \in Bad : s \subseteq m => s = m
  <2>1. Bad \subseteq SUBSET S
    OBVIOUS
  <2> HIDE DEF Bad
  <2> QED BY <1>1, <2>1, SmallestSubset
<1>3. m # {}
  <2>1. m = {} => f[m] = 0
    BY <1>2 DEF Sums
  <2>2. f[m] # 0
    BY <1>2
  <2> QED BY <2>1, <2>2
<1>4. One(m) \in m /\ One(m) \in S
  BY <1>2, <1>3 DEF One
<1>5. m \ {One(m)} \subseteq m /\ m \ {One(m)} # m /\ m \ {One(m)} \in SUBSET S
  BY <1>2, <1>4
<1>6. f[m \ {One(m)}] \in Nat
  BY <1>2, <1>5
<1>7. f[m] = g[One(m)] + f[m \ {One(m)}]
  BY <1>2, <1>3 DEF Sums
<1> QED
  BY <1>2, <1>4, <1>6, <1>7

\* The amounts of payouts.
LEMMA AmountIsNatural ==
  ASSUME NEW seq, NEW S, IsFiniteSet(S), \A i \in S : seq[i].amount \in Nat
  PROVE  Amount(seq, S) \in Nat
<1> DEFINE g == [i \in S |-> seq[i].amount]
<1>0. \A i \in S : g[i] = seq[i].amount /\ g[i] \in Nat
  OBVIOUS
<1> HIDE DEF g
<1> DEFINE It(f) == f = [s \in SUBSET S |-> IF s = {} THEN 0
                           ELSE LET x == CHOOSE x \in s : TRUE
                                IN  seq[x].amount + f[s \ {x}]]
           c == CHOOSE f : It(f)
<1>1. PICK e : IsRecursive(e, g, S)
  BY SumsExist
<1>2. \A s \in SUBSET S : s # {} => g[One(s)] = seq[One(s)].amount
  BY <1>0 DEF One
<1>3. e = [s \in SUBSET S |-> IF s = {} THEN 0 ELSE seq[One(s)].amount + e[s \ {One(s)}]]
  BY <1>1, <1>2 DEF IsRecursive
<1>4. It(e)
  BY <1>3, Zenon DEF One
<1>5. It(c)
  BY <1>4, Zenon
<1>6. Amount(seq, S) = c[S]
  BY Zenon DEF Amount, MapThenSumSet, MapThenFoldSet
<1> HIDE DEF c
<1>7. c = [s \in SUBSET S |-> IF s = {} THEN 0 ELSE seq[One(s)].amount + c[s \ {One(s)}]]
  BY <1>5, Zenon DEF One
<1>8. Sums(c, g, S)
  BY <1>2, <1>7 DEF Sums
<1> QED
  BY <1>0, <1>6, <1>8, SumsAreNaturals

\* What a wallet was credited for a job.
LEMMA DueIsNatural ==
  ASSUME NEW cr \in Credit
  PROVE  Due(cr) \in Nat
<1>0. cr \in [job : Job, owner : Owner, type : CreditType]
  BY FilesAssumption
<1>1. CASE cr.type # "INCOME"
  BY <1>0, <1>1, FilesAssumption DEF Due
<1>2. CASE cr.type = "INCOME"
  <2>1. PICK q : q = Packages[cr.job]
    OBVIOUS
  <2>2. q \in Seq([quantity : Nat, cost : Nat, price : Nat])
    BY <1>0, <2>1, FilesAssumption
  <2>3. PICK n \in Nat : n = Len(q) /\ DOMAIN q = 1..n
    BY <2>2
  <2>4. PICK S : S = DOMAIN q
    OBVIOUS
  <2>5. IsFiniteSet(S)
    <3>1. n \in Int /\ 1 \in Int
      OBVIOUS
    <3>2. IsFiniteSet(1..n)
      BY <3>1, FS_Interval
    <3> QED BY <2>3, <2>4, <3>2
  <2>6. \A i \in S : q[i].quantity * q[i].cost \in Nat
    <3>1. ASSUME NEW i \in S PROVE q[i].quantity * q[i].cost \in Nat
      <4>1. PICK R : R = [quantity : Nat, cost : Nat, price : Nat]
        OBVIOUS
      <4>3. q \in Seq(R) /\ i \in DOMAIN q
        BY <2>2, <2>4, <4>1
      <4>4. q[i] \in R
        BY <4>3
      <4>5. q[i].quantity \in Nat /\ q[i].cost \in Nat
        BY <4>1, <4>4
      <4>2. \A x, y \in Nat : x * y \in Nat
        OBVIOUS
      <4> QED BY <4>2, <4>5
    <3> QED BY <3>1
  <2> DEFINE g == [i \in S |-> q[i].quantity * q[i].cost]
  <2>7. \A i \in S : g[i] = q[i].quantity * q[i].cost /\ g[i] \in Nat
    BY <2>6
  <2> HIDE DEF g
  <2> DEFINE It(f) == f = [s \in SUBSET DOMAIN Packages[cr.job] |-> IF s = {} THEN 0
                             ELSE LET x == CHOOSE x \in s : TRUE
                                  IN  Packages[cr.job][x].quantity * Packages[cr.job][x].cost
                                      + f[s \ {x}]]
             c == CHOOSE f : It(f)
  <2>8. PICK e : IsRecursive(e, g, S)
    BY <2>5, SumsExist
  <2>9. \A s \in SUBSET S : s # {} => g[One(s)] = q[One(s)].quantity * q[One(s)].cost
    BY <2>7 DEF One
  <2>10. e = [s \in SUBSET S |-> IF s = {} THEN 0
                ELSE q[One(s)].quantity * q[One(s)].cost + e[s \ {One(s)}]]
    BY <2>8, <2>9 DEF IsRecursive
  <2>11. It(e)
    BY <2>1, <2>4, <2>10, Zenon DEF One
  <2>12. It(c)
    BY <2>11, Zenon
  <2>13. Due(cr) = c[DOMAIN Packages[cr.job]]
    BY <1>2, Zenon DEF Due, MapThenSumSet, MapThenFoldSet
  <2>16. S = DOMAIN Packages[cr.job] /\ q = Packages[cr.job]
    BY <2>1, <2>4
  <2> HIDE DEF c
  <2>14. c = [s \in SUBSET S |-> IF s = {} THEN 0
                ELSE q[One(s)].quantity * q[One(s)].cost + c[s \ {One(s)}]]
    BY <2>12, <2>1, <2>4, Zenon DEF One
  <2>15. Sums(c, g, S)
    BY <2>9, <2>14 DEF Sums
  <2> QED BY <2>5, <2>7, <2>13, <2>15, <2>16, SumsAreNaturals
<1> QED
  BY <1>1, <1>2

\* What is due for several credits.
LEMMA DuesAreNatural ==
  ASSUME NEW S, S \subseteq Credit
  PROVE  MapThenSumSet(Due, S) \in Nat
<1>1. IsFiniteSet(S)
  BY FilesAssumption, FS_Subset
<1> DEFINE g == [i \in S |-> Due(i)]
<1>0. \A i \in S : g[i] = Due(i) /\ g[i] \in Nat
  BY DueIsNatural
<1> HIDE DEF g
<1> DEFINE It(f) == f = [s \in SUBSET S |-> IF s = {} THEN 0
                           ELSE LET x == CHOOSE x \in s : TRUE
                                IN  Due(x) + f[s \ {x}]]
           c == CHOOSE f : It(f)
<1>2. PICK e : IsRecursive(e, g, S)
  BY <1>1, SumsExist
<1>3. \A s \in SUBSET S : s # {} => g[One(s)] = Due(One(s))
  BY <1>0 DEF One
<1>4. e = [s \in SUBSET S |-> IF s = {} THEN 0 ELSE Due(One(s)) + e[s \ {One(s)}]]
  BY <1>2, <1>3 DEF IsRecursive
<1>5. It(e)
  BY <1>4, Zenon DEF One
<1>6. It(c)
  BY <1>5, Zenon
<1>7. MapThenSumSet(Due, S) = c[S]
  BY Zenon DEF MapThenSumSet, MapThenFoldSet
<1> HIDE DEF c
<1>8. c = [s \in SUBSET S |-> IF s = {} THEN 0 ELSE Due(One(s)) + c[s \ {One(s)}]]
  BY <1>6, Zenon DEF One
<1>9. Sums(c, g, S)
  BY <1>3, <1>8 DEF Sums
<1> QED
  BY <1>0, <1>1, <1>7, <1>9, SumsAreNaturals

\* Rows numbered from 1.
LEMMA TableRows ==
  ASSUME NEW S, NEW a \in Seq(S)
  PROVE  /\ IsFiniteSet(DOMAIN a) /\ DOMAIN a \subseteq Nat
         /\ \A T : T \subseteq DOMAIN a => IsFiniteSet(T)
<1>1. PICK n \in Nat : DOMAIN a = 1..n
  OBVIOUS
<1>2. n \in Int /\ 1 \in Int
  OBVIOUS
<1>3. IsFiniteSet(1..n) /\ 1..n \subseteq Nat
  BY <1>2, FS_Interval
<1> QED BY <1>1, <1>3, FS_Subset

------------------------------------------------------------------------------
(* The steps of the first script *)

\* Owners and tenants of credits, each pair once.
Dues       == {c \in Credit : paidBy[c] = Payable}
PairOf(c)  == <<c.owner, PrincipalGroup[c.job]>>
PairsOf(D) == {PairOf(c) : c \in D}

\* The script goes through the owners and tenants of its credits, leaving none out.
LEMMA PairsListed ==
  ASSUME NEW D, D \subseteq Credit
  PROVE  /\ SetToSeq(PairsOf(D)) \in Seq(Owner \X Range(Tenant))
         /\ \A c \in D : \E i \in DOMAIN SetToSeq(PairsOf(D)) :
              SetToSeq(PairsOf(D))[i] = PairOf(c)
<1>0. PICK T : T = PairsOf(D)
  OBVIOUS
<1>1. IsFiniteSet(D)
  BY FilesAssumption, FS_Subset
<1>2. IsFiniteSet(T)
  <2>1. PICK f : f = [c \in D |-> PairOf(c)]
    OBVIOUS
  <2>2. f \in Surjection(D, T)
    BY <1>0, <2>1 DEF Surjection, PairsOf
  <2> QED BY <1>1, <2>2, FS_Surjection
<1>3. T \subseteq Owner \X Range(Tenant)
  <2>1. ASSUME NEW c \in D PROVE <<c.owner, PrincipalGroup[c.job]>> \in Owner \X Range(Tenant)
    <3>1. c \in [job : Job, owner : Owner, type : CreditType]
      BY FilesAssumption
    <3>2. c.owner \in Owner /\ c.job \in Job
      BY <3>1
    <3>3. PrincipalGroup[c.job] \in Range(Tenant)
      BY <3>2, FilesAssumption
    <3> QED BY <3>2, <3>3
  <2> QED BY <1>0, <2>1 DEF PairsOf, PairOf
<1>4. /\ SetToSeq(T) \in Seq(T)
      /\ \A x \in T : \E n \in DOMAIN SetToSeq(T) : SetToSeq(T)[n] = x
  BY <1>2, SetToSeqLists
<1>5. PICK q : q = SetToSeq(T)
  OBVIOUS
<1>6. q \in Seq(Owner \X Range(Tenant))
  <2>1. PICK O : O = Owner \X Range(Tenant)
    OBVIOUS
  <2>2. q \in Seq(T) /\ T \subseteq O
    BY <1>3, <1>4, <1>5, <2>1
  <2>3. q \in Seq(O)
    BY <2>2
  <2> QED BY <2>1, <2>3
<1>7. \A c \in D : PairOf(c) \in T
  BY <1>0 DEF PairsOf
<1> QED BY <1>0, <1>4, <1>5, <1>6, <1>7

\* The new payouts are numbered after the others, and each credit has one of them.
Of(D, q, i) == {c \in D : PairOf(c) = q[i]}

ScheduledAs(D, q) ==
  /\ D = Dues /\ q = SetToSeq(PairsOf(D))
  /\ payouts' = payouts \o [i \in DOMAIN q |->
                      [owner |-> q[i][1], tenant |-> q[i][2], processed |-> 0,
                       amount |-> MapThenSumSet(Due, Of(D, q, i)), status |-> "SCHEDULED"]]
  /\ paidBy' = [c \in Credit |->
                  IF c \in D THEN Len(payouts) + CHOOSE i \in DOMAIN q : c \in Of(D, q, i)
                  ELSE paidBy[c]]

NewPayouts(q) ==
  /\ DOMAIN payouts' = 1..(Len(payouts) + Len(q)) /\ DOMAIN payouts \subseteq DOMAIN payouts'
  /\ payouts' \in Seq(PayoutRow)
  /\ \A p \in DOMAIN payouts : payouts'[p] = payouts[p]
  /\ \A i \in DOMAIN q : payouts'[Len(payouts) + i].tenant = q[i][2]
  /\ \A p \in DOMAIN payouts' \ DOMAIN payouts :
       /\ payouts'[p].status = "SCHEDULED" /\ payouts'[p].processed = 0
  /\ \A c \in Credit \ Dues : paidBy'[c] = paidBy[c]
  /\ \A c \in Dues : \E i \in DOMAIN q :
       /\ paidBy'[c] = Len(payouts) + i /\ q[i] = PairOf(c)
       /\ paidBy'[c] \in DOMAIN payouts' \ DOMAIN payouts
  /\ paidBy' = [c \in Credit |-> paidBy'[c]]

\* What the first script saves are payouts for credits that are listed in some order.
LEMMA SchedulesAs ==
  ASSUME SchedulePayouts
  PROVE  \E D, q : ScheduledAs(D, q)
<1> DEFINE due == Dues
           pairs == SetToSeq(PairsOf(due))
<1>1. ScheduledAs(due, pairs)
  BY Zenon DEF SchedulePayouts, ScheduledAs, Dues, PairsOf, PairOf, Of
<1> QED BY <1>1

\* The payouts that it saves are new rows of their type.
LEMMA SchedulesNew ==
  ASSUME Typed, NEW D, NEW q, ScheduledAs(D, q)
  PROVE  NewPayouts(q)
<1>3. /\ q \in Seq(Owner \X Range(Tenant))
      /\ \A c \in D : \E i \in DOMAIN q : q[i] = PairOf(c)
  <2>1. D \subseteq Credit
    BY DEF ScheduledAs, Dues
  <2> QED BY <2>1, PairsListed DEF ScheduledAs
<1>4. PICK n \in Nat : n = Len(q) /\ DOMAIN q = 1..n
  BY <1>3
<1>5. \A i \in 1..n : q[i][1] \in Owner /\ q[i][2] \in Range(Tenant)
  <2>1. PICK O : O = Owner \X Range(Tenant)
    OBVIOUS
  <2>2. \A i \in 1..n : q[i] \in O
    BY <1>3, <1>4, <2>1
  <2> QED BY <2>1, <2>2
<1>6. PICK b : b = [i \in 1..n |-> [owner |-> q[i][1], tenant |-> q[i][2], processed |-> 0,
                          amount |-> MapThenSumSet(Due, Of(D, q, i)), status |-> "SCHEDULED"]]
  OBVIOUS
<1>8. payouts' = payouts \o b
  BY <1>4, <1>6 DEF ScheduledAs
<1>10. D = Dues
  BY DEF ScheduledAs
<1>11. \A i \in 1..n : MapThenSumSet(Due, Of(D, q, i)) \in Nat
  <2>1. \A i \in 1..n : Of(D, q, i) \subseteq Credit
    BY <1>10 DEF Dues, Of
  <2> QED BY <2>1, DuesAreNatural
<1>12. \A i \in 1..n : b[i] \in PayoutRow /\ b[i].tenant = q[i][2]
                       /\ b[i].status = "SCHEDULED" /\ b[i].processed = 0
  <2>1. ASSUME NEW i \in 1..n
        PROVE  b[i] = [owner |-> q[i][1], tenant |-> q[i][2], processed |-> 0,
                       amount |-> MapThenSumSet(Due, Of(D, q, i)), status |-> "SCHEDULED"]
    BY <1>6, Zenon
  <2>2. ASSUME NEW i \in 1..n, NEW x \in Nat, x = MapThenSumSet(Due, Of(D, q, i))
        PROVE  b[i] \in PayoutRow /\ b[i].tenant = q[i][2]
               /\ b[i].status = "SCHEDULED" /\ b[i].processed = 0
    <3>1. b[i] = [owner |-> q[i][1], tenant |-> q[i][2], processed |-> 0,
                  amount |-> x, status |-> "SCHEDULED"]
      BY <2>1, <2>2, Zenon
    <3> QED BY <1>5, <3>1 DEF PayoutRow, Status
  <2> QED BY <1>11, <2>2
<1>13. b = [i \in 1..n |-> b[i]]
  BY <1>6
<1>14. PICK a, d : a = payouts /\ d = payouts'
  OBVIOUS
<1>15. a \in Seq(PayoutRow) /\ b \in Seq(PayoutRow) /\ Len(b) = n
  <2>1. a \in Seq(PayoutRow)
    BY <1>14 DEF Typed, RowsTyped
  <2>2. b \in Seq(PayoutRow) /\ Len(b) = n
    BY <1>12, <1>13
  <2> QED BY <2>1, <2>2
<1>16. d = a \o b
  BY <1>8, <1>14
<1>17. /\ d \in Seq(PayoutRow) /\ Len(d) = Len(a) + n /\ DOMAIN d = 1..(Len(a) + n)
       /\ DOMAIN a = 1..Len(a) /\ Len(a) \in Nat
       /\ \A i \in 1..Len(a) : d[i] = a[i]
       /\ \A i \in 1..n : d[Len(a) + i] = b[i]
  <2>1. d \in Seq(PayoutRow) /\ Len(d) = Len(a) + n
    <3>1. PICK R : R = PayoutRow
      OBVIOUS
    <3>2. a \in Seq(R) /\ b \in Seq(R) /\ Len(b) = n
      BY <1>15, <3>1
    <3>3. a \o b \in Seq(R) /\ Len(a \o b) = Len(a) + Len(b)
      BY <3>2
    <3> QED BY <1>16, <3>1, <3>2, <3>3
  <2>2. DOMAIN a = 1..Len(a) /\ Len(a) \in Nat /\ DOMAIN d = 1..Len(d)
    BY <1>15, <2>1
  <2>3. \A i \in 1..Len(a) : d[i] = a[i]
    BY <1>15, <1>16, <2>2
  <2>4. \A i \in 1..n : d[Len(a) + i] = b[i]
    BY <1>15, <1>16, <2>2
  <2> QED BY <2>1, <2>2, <2>3, <2>4
<1>18. DOMAIN a \subseteq DOMAIN d
  BY <1>17
<1>19. \A p \in DOMAIN d \ DOMAIN a : d[p].status = "SCHEDULED" /\ d[p].processed = 0
  <2>1. ASSUME NEW p \in DOMAIN d \ DOMAIN a PROVE p - Len(a) \in 1..n /\ p = Len(a) + (p - Len(a))
    BY <1>17
  <2> QED BY <2>1, <1>12, <1>17
<1>20. ASSUME NEW c \in D
       PROVE  \E i \in 1..n : /\ paidBy'[c] = Len(a) + i /\ q[i] = PairOf(c)
                              /\ Len(a) + i \in DOMAIN d \ DOMAIN a
  <2>1. \E i \in DOMAIN q : c \in Of(D, q, i)
    <3>1. PICK i \in DOMAIN q : q[i] = PairOf(c)
      BY <1>3
    <3> QED BY <3>1 DEF Of
  <2>2. PICK i \in DOMAIN q : i = CHOOSE k \in DOMAIN q : c \in Of(D, q, k)
    BY <2>1
  <2>3. c \in Of(D, q, i)
    BY <2>1, <2>2
  <2>4. q[i] = PairOf(c)
    BY <2>3 DEF Of
  <2>5. paidBy'[c] = Len(a) + i
    <3>1. c \in Credit
      BY <1>10 DEF Dues
    <3> QED BY <1>14, <2>2, <3>1 DEF ScheduledAs
  <2>6. Len(a) + i \in DOMAIN d \ DOMAIN a
    BY <1>4, <1>17
  <2> QED BY <1>4, <2>4, <2>5, <2>6
<1>21. paidBy' = [c \in Credit |-> paidBy'[c]] /\ \A c \in Credit \ D : paidBy'[c] = paidBy[c]
  <2>1. PICK f : f = paidBy'
    OBVIOUS
  <2>2. f = [c \in Credit |-> IF c \in D THEN Len(payouts) + CHOOSE i \in DOMAIN q : c \in Of(D, q, i)
                  ELSE paidBy[c]]
    BY <2>1, Zenon DEF ScheduledAs
  <2>3. f = [c \in Credit |-> f[c]] /\ \A c \in Credit \ D : f[c] = paidBy[c]
    BY <2>2
  <2> QED BY <2>1, <2>3
<1>26. NewPayouts(q)
  <2>1. \A i \in DOMAIN q : d[Len(a) + i].tenant = q[i][2]
    BY <1>4, <1>12, <1>17
  <2>2. \A p \in DOMAIN a : d[p] = a[p]
    BY <1>17
  <2>3. d \in Seq(PayoutRow) /\ DOMAIN d = 1..(Len(a) + Len(q))
    BY <1>4, <1>17
  <2>4. \A c \in D : \E i \in DOMAIN q :
          /\ paidBy'[c] = Len(a) + i /\ q[i] = PairOf(c)
          /\ paidBy'[c] \in DOMAIN d \ DOMAIN a
    BY <1>4, <1>20
  <2> QED BY <1>10, <1>14, <1>18, <1>19, <1>21, <2>1, <2>2, <2>3, <2>4 DEF NewPayouts
<1> QED BY <1>26

\* Two tables joined.
LEMMA Joined ==
  ASSUME NEW S, NEW a \in Seq(S), NEW b \in Seq(S), NEW d, d = a \o b
  PROVE  /\ d \in Seq(S) /\ Len(a) \in Nat /\ Len(b) \in Nat
         /\ DOMAIN a = 1..Len(a) /\ DOMAIN b = 1..Len(b) /\ DOMAIN d = 1..(Len(a) + Len(b))
         /\ DOMAIN a \subseteq DOMAIN d
         /\ \A i \in DOMAIN a : d[i] = a[i]
         /\ \A i \in DOMAIN d \ DOMAIN a : i - Len(a) \in DOMAIN b /\ d[i] = b[i - Len(a)]
<1>1. d \in Seq(S) /\ Len(d) = Len(a) + Len(b)
  OBVIOUS
<1>2. /\ Len(a) \in Nat /\ Len(b) \in Nat
      /\ DOMAIN a = 1..Len(a) /\ DOMAIN b = 1..Len(b) /\ DOMAIN d = 1..(Len(a) + Len(b))
  BY <1>1
<1>3. DOMAIN a \subseteq DOMAIN d
  BY <1>2
<1>4. \A i \in 1..(Len(a) + Len(b)) : d[i] = IF i <= Len(a) THEN a[i] ELSE b[i - Len(a)]
  BY <1>2
<1>5. ASSUME NEW i \in DOMAIN a PROVE d[i] = a[i]
  <2>1. i \in 1..(Len(a) + Len(b)) /\ i <= Len(a)
    BY <1>2
  <2> QED BY <1>4, <2>1
<1>6. ASSUME NEW i \in DOMAIN d \ DOMAIN a
      PROVE  i - Len(a) \in DOMAIN b /\ d[i] = b[i - Len(a)]
  <2>1. i \in 1..(Len(a) + Len(b)) /\ ~(i <= Len(a)) /\ i - Len(a) \in 1..Len(b)
    BY <1>2
  <2> QED BY <1>2, <1>4, <2>1
<1> QED BY <1>1, <1>2, <1>3, <1>5, <1>6

\* A payout for each owner and tenant.
LEMMA SchedulePayoutsTyped ==
  ASSUME Typed, SchedulePayouts
  PROVE  Typed'
<1>1. PICK q : NewPayouts(q)
  <2>1. PICK D, r : ScheduledAs(D, r)
    BY SchedulesAs
  <2> QED BY <2>1, SchedulesNew
<1>2. /\ UNCHANGED <<lines, batches, bucket, ftp, inbox, reader, files, failures, crashes>>
      /\ script' = [pc |-> "scheduleLines", credits |-> Dues]
  BY Zenon DEF SchedulePayouts, Dues
<1>3. paidBy' \in [Credit -> {NotEarned, Payable} \cup DOMAIN payouts']
  <2>1. ASSUME NEW c \in Credit PROVE paidBy'[c] \in {NotEarned, Payable} \cup DOMAIN payouts'
    <3>1. CASE c \in Dues
      BY <1>1, <3>1 DEF NewPayouts
    <3>2. CASE c \notin Dues
      <4>1. paidBy'[c] = paidBy[c] /\ DOMAIN payouts \subseteq DOMAIN payouts'
        BY <1>1, <3>2 DEF NewPayouts
      <4>2. paidBy[c] \in {NotEarned, Payable} \cup DOMAIN payouts
        BY DEF Typed, RowsTyped
      <4> QED BY <4>1, <4>2
    <3> QED BY <3>1, <3>2
  <2>2. paidBy' = [c \in Credit |-> paidBy'[c]]
    BY <1>1 DEF NewPayouts
  <2> QED BY <2>1, <2>2
<1>4. payouts' \in Seq(PayoutRow) /\ DOMAIN payouts \subseteq DOMAIN payouts'
  BY <1>1 DEF NewPayouts
<1>5. RowsTyped'
  BY <1>2, <1>3, <1>4 DEF Typed, RowsTyped
<1>6. \A c \in Credit : paidBy[c] \in DOMAIN payouts => paidBy'[c] \in DOMAIN payouts'
  <2>1. ASSUME NEW c \in Credit, paidBy[c] \in DOMAIN payouts PROVE paidBy'[c] \in DOMAIN payouts'
    <3>1. c \notin Dues => paidBy'[c] = paidBy[c]
      BY <1>1 DEF NewPayouts
    <3>2. c \in Dues => paidBy'[c] \in DOMAIN payouts'
      BY <1>1 DEF NewPayouts
    <3> QED BY <1>4, <2>1, <3>1, <3>2
  <2> QED BY <2>1
<1>7. FilesTyped' /\ InboxTyped' /\ ReaderTyped'
  <2>1. DOMAIN lines \subseteq DOMAIN lines' /\ DOMAIN batches \subseteq DOMAIN batches'
    BY <1>2
  <2> QED BY <1>2, <1>4, <1>5, <1>6, <2>1, StaysTyped
<1>8. ScriptTyped'
  <2>1. script'.pc = "scheduleLines" /\ script'.credits = Dues
    BY <1>2
  <2>2. Dues \subseteq Credit /\ \A c \in Dues : paidBy'[c] \in DOMAIN payouts'
    BY <1>1 DEF NewPayouts, Dues
  <2> QED BY <2>1, <2>2 DEF ScriptTyped, UploadPC
<1> QED BY <1>5, <1>7, <1>8 DEF Typed

\* The items of a credit have costs and prices.
Item == [cost : Nat, price : Nat]

\* What is due for a credit is listed item by item.
LEMMA ItemsType ==
  ASSUME NEW c \in Credit
  PROVE  Items(c) \in Seq(Item)
<1>0. c \in [job : Job, owner : Owner, type : CreditType]
  BY FilesAssumption
<1>1. CASE c.type # "INCOME"
  <2>1. Surcharge[c.job] \in Item
    BY <1>0, FilesAssumption DEF Item
  <2>2. Items(c) = <<Surcharge[c.job]>>
    BY <1>1 DEF Items
  <2> QED BY <2>1, <2>2
<1>2. CASE c.type = "INCOME"
  <2>1. PICK q : q = Packages[c.job]
    OBVIOUS
  <2>2. q \in Seq([quantity : Nat, cost : Nat, price : Nat])
    BY <1>0, <2>1, FilesAssumption
  <2>3. PICK n \in Nat : DOMAIN q = 1..n
    BY <2>2
  <2> DEFINE units(i) == [k \in 1..q[i].quantity |-> [cost |-> q[i].cost, price |-> q[i].price]]
  <2>4. ASSUME NEW i \in 1..n PROVE units(i) \in Seq(Item)
    <3>1. PICK R : R = [quantity : Nat, cost : Nat, price : Nat]
      OBVIOUS
    <3>2. q[i] \in R
      <4>1. q \in Seq(R) /\ i \in DOMAIN q
        BY <2>2, <2>3, <3>1
      <4> QED BY <4>1
    <3>3. q[i].quantity \in Nat /\ [cost |-> q[i].cost, price |-> q[i].price] \in Item
      BY <3>1, <3>2 DEF Item
    <3>4. PICK m \in Nat, x \in Item :
            m = q[i].quantity /\ x = [cost |-> q[i].cost, price |-> q[i].price]
      BY <3>3
    <3>5. [k \in 1..m |-> x] \in Seq(Item)
      BY <3>4
    <3> QED BY <3>4, <3>5
  <2>5. [i \in 1..n |-> units(i)] \in Seq(Seq(Item))
    <3>1. PICK S : S = Seq(Item)
      OBVIOUS
    <3> HIDE DEF units
    <3>2. [i \in 1..n |-> units(i)] \in Seq(S)
      BY <2>4, <3>1
    <3> QED BY <3>1, <3>2
  <2>6. Items(c) = FlattenSeq([i \in 1..n |-> units(i)])
    BY <1>2, <2>1, <2>3, Zenon DEF Items
  <2> HIDE DEF units
  <2> QED BY <2>5, <2>6, FlattenType
<1> QED BY <1>1, <1>2

\* The new lines follow the others; each is of a credit that the script scheduled.
NewLine(last) ==
  {l \in LineRow : /\ \E c \in script.credits : l.job = c.job /\ l.owner = c.owner
                   /\ l.payout = paidBy[last[l.job]] /\ l.status = "SCHEDULED"}

NewLines(last, new) ==
  /\ last \in [{c.job : c \in script.credits} -> script.credits]
  /\ \A j \in DOMAIN last : last[j].job = j
  /\ new \in Seq(NewLine(last)) /\ lines' = lines \o new

\* What the first script saves next are lines, after those that were there.
LEMMA SchedulesLines ==
  ASSUME Typed, ScheduleLines
  PROVE  \E last, new : NewLines(last, new)
<1> DEFINE Sorted(t) == SetToSeq({c \in script.credits : c.type = t})
           all == Sorted("INCOME") \o Sorted("RESCHEDULE_SURCHARGE_COMPENSATION")
<1>1. script.pc = "scheduleLines"
  BY DEF ScheduleLines
<1>2. PICK K : K = script.credits
  OBVIOUS
<1>3. K \subseteq Credit /\ \A c \in K : paidBy[c] \in DOMAIN payouts
  BY <1>1, <1>2 DEF Typed, ScriptTyped
<1> DEFINE LinesOf1(c, last) == [i \in DOMAIN Items(c) |->
                 [job |-> c.job, owner |-> c.owner, type |-> c.type, status |-> "SCHEDULED",
                  cost |-> Items(c)[i].cost, price |-> Items(c)[i].price,
                  payout |-> paidBy[last[c.job]]]]
<1>4. PICK last \in [{c.job : c \in script.credits} -> script.credits] :
        /\ \A j \in DOMAIN last : last[j].job = j
        /\ lines' = lines \o FlattenSeq([i \in DOMAIN all |-> LinesOf1(all[i], last)])
  BY Zenon DEF ScheduleLines
<1>5. PICK q : q = all
  OBVIOUS
<1>6. q \in Seq(K)
  <2>1. ASSUME NEW t PROVE Sorted(t) \in Seq(K)
    <3>1. PICK T : T = {c \in K : c.type = t}
      OBVIOUS
    <3>2. IsFiniteSet(T) /\ T \subseteq K
      BY <1>3, <3>1, FilesAssumption, FS_Subset
    <3>3. SetToSeq(T) \in Seq(T)
      BY <3>2, SetToSeqLists
    <3>4. PICK r : r = SetToSeq(T)
      OBVIOUS
    <3>5. r \in Seq(K)
      BY <3>2, <3>3, <3>4
    <3> QED BY <1>2, <3>1, <3>4, <3>5
  <2>2. PICK r, s : r = Sorted("INCOME") /\ s = Sorted("RESCHEDULE_SURCHARGE_COMPENSATION")
    OBVIOUS
  <2>3. r \in Seq(K) /\ s \in Seq(K)
    BY <2>1, <2>2
  <2>4. r \o s \in Seq(K)
    BY <2>3
  <2> QED BY <1>5, <2>2, <2>4
<1>7. PICK n \in Nat : DOMAIN q = 1..n
  BY <1>6
<1>8. PICK S : S = NewLine(last)
  OBVIOUS
<1>9. ASSUME NEW c \in K PROVE LinesOf1(c, last) \in Seq(S)
  <2>1. PICK e : e = Items(c)
    OBVIOUS
  <2>2. e \in Seq(Item)
    BY <1>3, <1>9, <2>1, ItemsType
  <2>3. PICK m \in Nat : DOMAIN e = 1..m
    BY <2>2
  <2>4. \A i \in 1..m : e[i].cost \in Nat /\ e[i].price \in Nat
    <3>1. \A i \in 1..m : e[i] \in Item
      BY <2>2, <2>3
    <3> QED BY <3>1 DEF Item
  <2>5. c \in [job : Job, owner : Owner, type : CreditType]
    BY <1>3, <1>9, FilesAssumption
  <2>6. paidBy[last[c.job]] \in Nat
    <3>1. last[c.job] \in K
      BY <1>2, <1>4, <1>9
    <3>2. DOMAIN payouts \subseteq Nat
      <4>1. payouts \in Seq(PayoutRow)
        BY DEF Typed, RowsTyped
      <4> QED BY <4>1, TableRows
    <3> QED BY <1>3, <3>1, <3>2
  <2>7. PICK z : z = paidBy[last[c.job]]
    OBVIOUS
  <2>8. ASSUME NEW i \in 1..m
        PROVE  [job |-> c.job, owner |-> c.owner, type |-> c.type, status |-> "SCHEDULED",
                cost |-> e[i].cost, price |-> e[i].price, payout |-> z] \in S
    <3>1. PICK x, y \in Nat : x = e[i].cost /\ y = e[i].price
      BY <2>4
    <3>2. PICK l : l = [job |-> c.job, owner |-> c.owner, type |-> c.type, status |-> "SCHEDULED",
                        cost |-> x, price |-> y, payout |-> z]
      OBVIOUS
    <3>3. l \in LineRow
      BY <2>5, <2>6, <2>7, <3>1, <3>2 DEF LineRow, Status
    <3>4. l \in NewLine(last)
      BY <1>2, <1>9, <2>7, <3>2, <3>3 DEF NewLine
    <3> QED BY <1>8, <3>1, <3>2, <3>4
  <2>9. LinesOf1(c, last) = [i \in 1..m |->
                [job |-> c.job, owner |-> c.owner, type |-> c.type, status |-> "SCHEDULED",
                 cost |-> e[i].cost, price |-> e[i].price, payout |-> z]]
    BY <2>1, <2>3, <2>7
  <2> HIDE DEF LinesOf1
  <2> QED BY <2>8, <2>9
<1>10. PICK f : f = [i \in DOMAIN all |-> LinesOf1(all[i], last)]
  OBVIOUS
<1>11. f \in Seq(Seq(S))
  <2>1. PICK T : T = Seq(S)
    OBVIOUS
  <2>2. \A i \in 1..n : q[i] \in K
    BY <1>6, <1>7
  <2> HIDE DEF LinesOf1, all
  <2>3. f = [i \in 1..n |-> LinesOf1(q[i], last)]
    BY <1>5, <1>7, <1>10
  <2>4. \A i \in 1..n : LinesOf1(q[i], last) \in T
    BY <1>9, <2>1, <2>2
  <2>5. f \in Seq(T)
    BY <2>3, <2>4
  <2> QED BY <2>1, <2>5
<1>12. FlattenSeq(f) \in Seq(S)
  BY <1>11, FlattenType
<1>13. lines' = lines \o FlattenSeq(f)
  BY <1>4, <1>10, Zenon
<1>14. NewLines(last, FlattenSeq(f))
  BY <1>4, <1>8, <1>12, <1>13 DEF NewLines
<1> QED BY <1>14

\* The lines that are added have their type.
LEMMA ScheduleLinesTyped ==
  ASSUME Typed, ScheduleLines
  PROVE  Typed'
<1>1. PICK last, new : NewLines(last, new)
  BY SchedulesLines
<1>2. /\ script' = Idle
      /\ UNCHANGED <<paidBy, payouts, batches, bucket, ftp, inbox, reader, files, failures, crashes>>
  BY DEF ScheduleLines
<1>3. PICK S : S = NewLine(last)
  OBVIOUS
<1>4. new \in Seq(S) /\ S \subseteq LineRow
  BY <1>1, <1>3 DEF NewLines, NewLine
<1>5. new \in Seq(LineRow) /\ lines \in Seq(LineRow)
  BY <1>4 DEF Typed, RowsTyped
<1>6. PICK a, d : a = lines /\ d = lines'
  OBVIOUS
<1>7. d = a \o new /\ a \in Seq(LineRow)
  BY <1>1, <1>5, <1>6 DEF NewLines
<1>8. /\ d \in Seq(LineRow) /\ DOMAIN a \subseteq DOMAIN d
      /\ \A i \in DOMAIN a : d[i] = a[i]
      /\ \A i \in DOMAIN d \ DOMAIN a : i - Len(a) \in DOMAIN new /\ d[i] = new[i - Len(a)]
  BY <1>5, <1>7, Joined
<1>9. \A i \in DOMAIN new : new[i].payout \in DOMAIN payouts
  <2>1. script.pc = "scheduleLines"
    BY DEF ScheduleLines
  <2>2. \A c \in script.credits : paidBy[c] \in DOMAIN payouts
    BY <2>1 DEF Typed, ScriptTyped
  <2>3. ASSUME NEW i \in DOMAIN new PROVE new[i].payout \in DOMAIN payouts
    <3>1. new[i] \in S
      BY <1>4
    <3>2. PICK c \in script.credits : new[i].job = c.job
      BY <1>3, <3>1 DEF NewLine
    <3>3. last[c.job] \in script.credits
      BY <1>1 DEF NewLines
    <3>4. new[i].payout = paidBy[last[c.job]]
      BY <1>3, <3>1, <3>2 DEF NewLine
    <3> QED BY <2>2, <3>3, <3>4
  <2> QED BY <2>3
<1>10. \A l \in DOMAIN d : d[l].payout \in DOMAIN payouts
  <2>1. \A l \in DOMAIN a : a[l].payout \in DOMAIN payouts
    BY <1>6 DEF Typed, RowsTyped
  <2> QED BY <1>8, <1>9, <2>1
<1>11. RowsTyped'
  BY <1>2, <1>6, <1>8, <1>10 DEF Typed, RowsTyped
<1>12. FilesTyped' /\ InboxTyped' /\ ReaderTyped'
  <2>1. DOMAIN lines \subseteq DOMAIN lines' /\ DOMAIN batches \subseteq DOMAIN batches'
        /\ DOMAIN payouts \subseteq DOMAIN payouts'
        /\ \A c \in Credit : paidBy[c] \in DOMAIN payouts => paidBy'[c] \in DOMAIN payouts'
    BY <1>2, <1>6, <1>8
  <2> QED BY <1>2, <1>11, <2>1, StaysTyped
<1> QED BY <1>2, <1>11, <1>12, IdleTyped DEF Typed

------------------------------------------------------------------------------
(* The steps of the second script *)

\* While the second script is at work it has an upload in memory, and soon a batch.
LEMMA UploadMemory ==
  ASSUME SentApartInv, script.pc \in UploadPC
  PROVE  IsUpload(script) /\ (script.pc \in InBatch => Len(batches) > 0)
BY DEF SentApartInv, Shaped, OneBatch, UploadPC

\* The rows stay, or those of payouts and batches change in place.
LEMMA PlaceTyped ==
  ASSUME Typed, UNCHANGED <<paidBy, lines>>, payouts' \in Seq(PayoutRow),
         DOMAIN payouts' = DOMAIN payouts, batches' \in Seq(BatchRow),
         DOMAIN batches \subseteq DOMAIN batches'
  PROVE  /\ RowsTyped'
         /\ UNCHANGED <<ftp, bucket>> => FilesTyped'
         /\ UNCHANGED <<inbox, files, failures, crashes>> => InboxTyped'
         /\ UNCHANGED script => ScriptTyped'
         /\ UNCHANGED reader => ReaderTyped'
<1>1. RowsTyped'
  BY DEF Typed, RowsTyped
<1> QED BY <1>1, StaysTyped

\* Earning a credit keeps the types.
LEMMA EarnTyped ==
  ASSUME Typed, NEW c \in Credit, Earn(c)
  PROVE  Typed'
<1>1. UNCHANGED <<payouts, lines, batches, bucket, ftp, inbox, script, reader, files,
                 failures, crashes>>
  BY DEF Earn
<1>2. PICK f : f = paidBy'
  OBVIOUS
<1>3. f = [d \in Credit |->
             IF d = c \/ (Together /\ d.job = c.job /\ paidBy[d] = NotEarned)
             THEN Payable ELSE paidBy[d]]
  BY <1>2 DEF Earn
<1>4. \A d \in Credit : f[d] \in {Payable, paidBy[d]} /\ (f[d] # paidBy[d] => paidBy[d] = NotEarned)
  <2>1. paidBy[c] = NotEarned
    BY DEF Earn
  <2> QED BY <1>3, <2>1
<1>5. paidBy \in [Credit -> {NotEarned, Payable} \cup DOMAIN payouts]
  BY DEF Typed, RowsTyped
<1>6. f \in [Credit -> {NotEarned, Payable} \cup DOMAIN payouts]
  <2>1. \A d \in Credit : f[d] \in {NotEarned, Payable} \cup DOMAIN payouts
    BY <1>4, <1>5
  <2> QED BY <1>3, <2>1
<1>7. RowsTyped'
  BY <1>1, <1>2, <1>6 DEF Typed, RowsTyped
<1>8. \A d \in Credit : paidBy[d] \in DOMAIN payouts => paidBy'[d] \in DOMAIN payouts'
  <2>1. DOMAIN payouts \subseteq Nat
    <3>1. payouts \in Seq(PayoutRow)
      BY DEF Typed, RowsTyped
    <3> QED BY <3>1, TableRows
  <2>2. NotEarned \notin DOMAIN payouts
    BY <2>1 DEF NotEarned
  <2> QED BY <1>1, <1>2, <1>4, <2>2
<1> QED BY <1>1, <1>7, <1>8, StaysTyped DEF Typed

\* So does loading the payouts,
LEMMA UploadTyped ==
  ASSUME Typed, Upload
  PROVE  Typed'
<1> DEFINE scheduled == {p \in DOMAIN payouts : payouts[p].status = "SCHEDULED"}
<1>1. /\ UNCHANGED rows /\ UNCHANGED <<bucket, ftp, inbox, reader, files, failures, crashes>>
      /\ script' = [pc |-> "batch", tenants |-> Tenant,
                    loaded |-> [p \in scheduled |-> payouts[p]],
                    lines |-> {l \in DOMAIN lines : lines[l].payout \in scheduled},
                    payouts |-> {}, ids |-> {}, outcome |-> "SCHEDULED", sent |-> FALSE]
  BY DEF Upload
<1>2. PICK s : s = script'
  OBVIOUS
<1>3. /\ s.pc = "batch" /\ DOMAIN s.loaded = scheduled /\ s.ids = {} /\ s.outcome \in Status
      /\ s.lines \subseteq DOMAIN lines
      /\ \A p \in scheduled : s.loaded[p] = payouts[p]
  BY <1>1, <1>2 DEF Status
<1>4. \A p \in scheduled : payouts[p] \in PayoutRow
  <2>1. payouts \in Seq(PayoutRow)
    BY DEF Typed, RowsTyped
  <2> QED BY <2>1
<1>5. UNCHANGED lines
  BY <1>1 DEF rows
<1>6. ScriptTyped'
  <2>1. script'.pc = "batch" /\ script'.ids = {} /\ script'.outcome \in Status
        /\ script'.lines \subseteq DOMAIN lines'
        /\ \A p \in DOMAIN script'.loaded : script'.loaded[p] \in PayoutRow
    BY <1>2, <1>3, <1>4, <1>5
  <2> QED BY <2>1 DEF ScriptTyped
<1> QED BY <1>1, <1>6, RowsStay DEF Typed

\* Payouts saved as they were loaded, with another status.
LEMMA SavedTyped ==
  ASSUME SentApartInv, Typed, script.pc \in UploadPC, NEW P, P \subseteq DOMAIN script.loaded,
         NEW sent \in BOOLEAN
  PROVE  Saved(P, sent) \in Seq(PayoutRow) /\ DOMAIN Saved(P, sent) = DOMAIN payouts
<1>1. payouts \in Seq(PayoutRow)
  BY DEF Typed, RowsTyped
<1>2. PICK n \in Nat : DOMAIN payouts = 1..n
  BY <1>1
<1>3. \A p \in P : script.loaded[p] \in PayoutRow
  BY DEF Typed, ScriptTyped
<1>4. \A p \in P : [script.loaded[p] EXCEPT !.status = "IN_TRANSIT"] \in PayoutRow
  <2>1. ASSUME NEW x \in PayoutRow PROVE [x EXCEPT !.status = "IN_TRANSIT"] \in PayoutRow
    BY DEF PayoutRow, Status
  <2> QED BY <1>3, <2>1
<1>5. \A p \in 1..n : payouts[p] \in PayoutRow
  BY <1>1, <1>2
<1> DEFINE row(p) == IF p \notin P THEN payouts[p]
                     ELSE IF sent THEN [script.loaded[p] EXCEPT !.status = "IN_TRANSIT"]
                          ELSE script.loaded[p]
<1>6. \A p \in 1..n : row(p) \in PayoutRow
  BY <1>3, <1>4, <1>5
<1>7. Saved(P, sent) = [p \in 1..n |-> row(p)]
  BY <1>2, Zenon DEF Saved
<1> HIDE DEF row
<1> QED BY <1>2, <1>6, <1>7

\* making the batch of a tenant,
LEMMA NextTenantTyped ==
  ASSUME SentApartInv, Typed, NextTenant
  PROVE  Typed'
<1>1. /\ script.pc = "batch" /\ UNCHANGED <<paidBy, lines>>
      /\ UNCHANGED <<bucket, ftp, inbox, reader, files, failures, crashes>>
  BY DEF NextTenant, Uploading
<1>2. script.pc \in UploadPC /\ IsUpload(script)
  BY <1>1, UploadMemory DEF UploadPC
<1> DEFINE P == PayoutsOf(DOMAIN script.loaded, Head(script.tenants))
           L == LinesOf(script.lines, Head(script.tenants))
<1>3. P \subseteq DOMAIN script.loaded /\ P \subseteq DOMAIN payouts /\ L \subseteq DOMAIN lines
  BY <1>2 DEF PayoutsOf, LinesOf, Typed, ScriptTyped, IsUpload
<1>10. payouts \in Seq(PayoutRow) /\ batches \in Seq(BatchRow)
  BY DEF Typed, RowsTyped
<1>4. CASE UNCHANGED <<batches, payouts>> /\ script' = Idle
  <2>1. UNCHANGED rows
    BY <1>1, <1>4 DEF rows
  <2> QED BY <1>1, <1>4, <2>1, RowsStay, IdleTyped DEF Typed
<1>5. CASE UNCHANGED <<batches, payouts>> /\ script' = [script EXCEPT !.tenants = Tail(@)]
  <2>1. UNCHANGED rows
    BY <1>1, <1>5 DEF rows
  <2>2. PICK s, q : s = script /\ q = script'
    OBVIOUS
  <2>3. /\ q.pc = s.pc /\ q.lines = s.lines /\ q.ids = s.ids /\ q.outcome = s.outcome
        /\ q.loaded = s.loaded
    BY <1>2, <1>5, <2>2 DEF IsUpload
  <2>4. ScriptTyped'
    BY <1>1, <1>2, <2>2, <2>3 DEF ScriptTyped, Typed, UploadPC
  <2> QED BY <1>1, <2>1, <2>4, RowsStay DEF Typed
<1>6. CASE /\ script.tenants # <<>> /\ P # {}
           /\ batches' = Append(batches,
                 [tenant |-> Head(script.tenants), payouts |-> P, total |-> Amount(payouts, P),
                  number |-> 1 + Cardinality({b \in DOMAIN batches :
                                                batches[b].tenant = Head(script.tenants)}),
                  status |-> "SCHEDULED"])
           /\ payouts' = Saved(P, FALSE)
           /\ script' = [script EXCEPT !.pc = "payment", !.tenants = Tail(@),
                            !.payouts = P, !.ids = L, !.outcome = "SCHEDULED", !.sent = FALSE]
  <2>1. payouts' \in Seq(PayoutRow) /\ DOMAIN payouts' = DOMAIN payouts
    BY <1>2, <1>3, <1>6, SavedTyped
  <2>2. PICK t : t = Head(script.tenants)
    OBVIOUS
  <2>3. t \in Range(Tenant)
    <3>1. script.tenants \in {<<"DMSS", "AMSS">>, <<"AMSS">>, <<>>}
      BY <1>2 DEF IsUpload
    <3>2. t \in {"DMSS", "AMSS"}
      BY <1>6, <2>2, <3>1
    <3>3. PICK T : T = <<"DMSS", "AMSS">>
      OBVIOUS
    <3>4. DOMAIN T = {1, 2} /\ T[1] = "DMSS" /\ T[2] = "AMSS"
      BY <3>3
    <3> QED BY <3>2, <3>3, <3>4 DEF Tenant, Range
  <2>4. Amount(payouts, P) \in Nat
    <3>1. IsFiniteSet(P)
      BY <1>3, <1>10, TableRows
    <3>2. \A i \in P : payouts[i].amount \in Nat
      <4>1. \A i \in P : payouts[i] \in PayoutRow
        BY <1>3, <1>10
      <4> QED BY <4>1 DEF PayoutRow
    <3> HIDE DEF P
    <3> QED BY <3>1, <3>2, AmountIsNatural
  <2>5. 1 + Cardinality({b \in DOMAIN batches : batches[b].tenant = t}) \in Nat
    <3>1. PICK B : B = {b \in DOMAIN batches : batches[b].tenant = t}
      OBVIOUS
    <3>2. IsFiniteSet(B)
      BY <1>10, <3>1, TableRows
    <3>3. Cardinality(B) \in Nat
      BY <3>2, FS_CardinalityType
    <3> QED BY <3>1, <3>3
  <2>6. PICK Q, x, n : /\ Q = P /\ x = Amount(payouts, P)
                       /\ n = 1 + Cardinality({b \in DOMAIN batches : batches[b].tenant = t})
    OBVIOUS
  <2>7. Q \subseteq Nat /\ x \in Nat /\ n \in Nat
    <3>1. DOMAIN payouts \subseteq Nat
      BY <1>10, TableRows
    <3>2. Q \subseteq Nat
      BY <1>3, <2>6, <3>1
    <3> HIDE DEF P
    <3> QED BY <2>4, <2>5, <2>6, <3>2
  <2>8. [tenant |-> t, payouts |-> Q, total |-> x, number |-> n, status |-> "SCHEDULED"] \in BatchRow
    BY <2>3, <2>7 DEF BatchRow, Status
  <2>9. batches' = Append(batches, [tenant |-> t, payouts |-> Q, total |-> x, number |-> n,
                                    status |-> "SCHEDULED"])
    <3> HIDE DEF P, L
    <3> QED BY <1>6, <2>2, <2>6, Zenon
  <2>10. batches' \in Seq(BatchRow) /\ DOMAIN batches \subseteq DOMAIN batches'
    <3>1. PICK a, d, y : a = batches /\ d = batches' /\ y \in BatchRow /\ d = Append(a, y)
      BY <2>8, <2>9
    <3>2. a \in Seq(BatchRow)
      BY <1>10, <3>1
    <3>3. d \in Seq(BatchRow) /\ Len(d) = Len(a) + 1
      BY <3>1, <3>2
    <3>4. DOMAIN a = 1..Len(a) /\ DOMAIN d = 1..Len(d) /\ Len(a) \in Nat
      BY <3>2, <3>3
    <3>5. DOMAIN a \subseteq DOMAIN d
      BY <3>3, <3>4
    <3> QED BY <3>1, <3>3, <3>5
  <2>11. PICK s, q : s = script /\ q = script'
    OBVIOUS
  <2>12. /\ q.pc = "payment" /\ q.lines = s.lines /\ q.ids = L /\ q.outcome = "SCHEDULED"
         /\ q.loaded = s.loaded
    <3> HIDE DEF P, L
    <3>1. q = [pc |-> "payment", tenants |-> Tail(s.tenants), loaded |-> s.loaded,
               lines |-> s.lines, payouts |-> P, ids |-> L, outcome |-> "SCHEDULED",
               sent |-> FALSE]
      BY <1>2, <1>6, <2>11 DEF IsUpload
    <3> QED BY <3>1
  <2>13. ScriptTyped'
    <3>1. /\ script'.pc = "payment" /\ script'.lines \subseteq DOMAIN lines'
          /\ script'.ids \subseteq DOMAIN lines' /\ script'.outcome \in Status
          /\ \A p \in DOMAIN script'.loaded : script'.loaded[p] \in PayoutRow
      BY <1>1, <1>2, <1>3, <2>11, <2>12 DEF Typed, ScriptTyped, Status
    <3> QED BY <3>1 DEF ScriptTyped
  <2> QED BY <1>1, <2>1, <2>10, <2>13, PlaceTyped DEF Typed
<1>7. \/ UNCHANGED <<batches, payouts>> /\ script' = Idle
      \/ UNCHANGED <<batches, payouts>> /\ script' = [script EXCEPT !.tenants = Tail(@)]
      \/ /\ script.tenants # <<>> /\ P # {}
         /\ batches' = Append(batches,
                 [tenant |-> Head(script.tenants), payouts |-> P, total |-> Amount(payouts, P),
                  number |-> 1 + Cardinality({b \in DOMAIN batches :
                                                batches[b].tenant = Head(script.tenants)}),
                  status |-> "SCHEDULED"])
         /\ payouts' = Saved(P, FALSE)
         /\ script' = [script EXCEPT !.pc = "payment", !.tenants = Tail(@),
                            !.payouts = P, !.ids = L, !.outcome = "SCHEDULED", !.sent = FALSE]
  BY Zenon DEF NextTenant
<1> QED BY <1>4, <1>5, <1>6, <1>7

\* The second script goes on, with what it has in memory.
LEMMA ContinueTyped ==
  ASSUME SentApartInv, Typed, script.pc \in UploadPC, NEW pc \in UploadPC, Continue(pc),
         DOMAIN lines \subseteq DOMAIN lines'
  PROVE  ScriptTyped'
<1>1. /\ script'.pc = pc /\ script'.lines = script.lines /\ script'.ids = script.ids
      /\ script'.outcome = script.outcome /\ script'.loaded = script.loaded
  <2>1. IsUpload(script)
    BY UploadMemory
  <2>2. PICK s : s = script
    OBVIOUS
  <2>3. script' = [pc |-> pc, tenants |-> s.tenants, loaded |-> s.loaded,
                   lines |-> s.lines, payouts |-> s.payouts, ids |-> s.ids,
                   outcome |-> s.outcome, sent |-> s.sent]
    BY <2>1, <2>2, ContinueFields
  <2> QED BY <2>2, <2>3
<1> QED BY <1>1 DEF Typed, ScriptTyped, UploadPC

\* A detail of a payment file.
LEMMA DetailType ==
  ASSUME Typed, NEW p \in DOMAIN payouts
  PROVE  Detail(p) \in DetailRow
<1>1. payouts \in Seq(PayoutRow)
  BY DEF Typed, RowsTyped
<1>2. PICK x : x = payouts[p]
  OBVIOUS
<1>3. x \in PayoutRow
  BY <1>1, <1>2
<1>4. x.owner \in Owner /\ x.amount \in Nat /\ x.tenant \in Range(Tenant)
  BY <1>3 DEF PayoutRow
<1>5. p \in Nat
  BY <1>1, TableRows
<1>6. PICK d : d = Debit(x.tenant)
  OBVIOUS
<1>7. d \in [account : Numbered, city : Numbered]
  <2>1. <<"account", x.tenant>> \in Numbered /\ <<"city", x.tenant>> \in Numbered
    BY <1>4 DEF Numbered
  <2> QED BY <1>6, <2>1 DEF Debit
<1>8. Detail(p) = [reference |-> p, payee |-> x.owner, amount |-> x.amount, debit |-> d]
  BY <1>2, <1>6 DEF Detail
<1> QED BY <1>4, <1>5, <1>7, <1>8 DEF DetailRow

\* sending the payment file,
LEMMA SendPaymentTyped ==
  ASSUME SentApartInv, Typed, SendPayment
  PROVE  Typed'
<1>1. /\ script.pc = "payment" /\ Continue("summary") /\ UNCHANGED rows
      /\ UNCHANGED <<ftp, inbox, reader, files, failures, crashes>>
      /\ bucket' = bucket \cup {[batch |-> Batch, kind |-> "payment",
                                 content |-> PaymentFile(script.payouts)]}
  BY DEF SendPayment, Uploading, Store
<1>2. script.pc \in UploadPC /\ IsUpload(script)
  BY <1>1, UploadMemory DEF UploadPC
<1>3. \A p \in script.payouts : Detail(p) \in DetailRow
  BY <1>2, DetailType DEF IsUpload
<1>4. PICK D : D = {Detail(p) : p \in script.payouts}
  OBVIOUS
<1>5. D \subseteq DetailRow
  BY <1>3, <1>4
<1>6. PICK f : f = [batch |-> Batch, kind |-> "payment", content |-> PaymentFile(script.payouts)]
  OBVIOUS
<1>7. f.kind = "payment" /\ f.content.details = D
  <2>1. PICK x : x = PaymentFile(script.payouts)
    OBVIOUS
  <2>2. x.details = D
    BY <1>4, <2>1 DEF PaymentFile
  <2> QED BY <1>6, <2>1, <2>2
<1>8. bucket' = bucket \cup {f} /\ UNCHANGED <<ftp, batches>>
  BY <1>1, <1>6 DEF rows
<1>9. FilesTyped'
  <2>1. \A g \in bucket' : /\ g.kind = "payment" => g.content.details \subseteq DetailRow
                           /\ g.kind = "lines" => \A r \in g.content : <<r.job, r.vendor>> \in Job \X Owner
    BY <1>5, <1>7, <1>8 DEF Typed, FilesTyped
  <2>2. (ftp \subseteq ((DOMAIN batches) \X {"summary", "lines"}))'
    BY <1>8 DEF Typed, FilesTyped
  <2> QED BY <2>1, <2>2 DEF FilesTyped
<1>10. ScriptTyped'
  <2>1. DOMAIN lines \subseteq DOMAIN lines'
    BY <1>1 DEF rows
  <2> QED BY <1>1, <1>2, <2>1, ContinueTyped DEF UploadPC
<1> QED BY <1>1, <1>9, <1>10, RowsStay DEF Typed

\* A file that is forwarded is of the last batch.
LEMMA ForwardTyped ==
  ASSUME SentApartInv, Typed, script.pc \in InBatch, UNCHANGED batches,
         NEW kind \in {"summary", "lines"}, Forward(kind)
  PROVE  /\ (ftp \subseteq ((DOMAIN batches) \X {"summary", "lines"}))'
         /\ UNCHANGED <<inbox, files, crashes>> => InboxTyped'
<1>1. Len(batches) \in DOMAIN batches
  <2>1. Len(batches) > 0
    BY UploadMemory DEF InBatch
  <2>2. PICK a : a = batches
    OBVIOUS
  <2>3. a \in Seq(BatchRow)
    BY <2>2 DEF Typed, RowsTyped
  <2>4. Len(a) \in DOMAIN a
    BY <2>1, <2>2, <2>3
  <2> QED BY <2>2, <2>4
<1>2. ftp' \subseteq ftp \cup {<<Batch, kind>>} /\ failures' \in {failures, failures + 1}
  BY DEF Forward
<1>3. <<Batch, kind>> \in (DOMAIN batches) \X {"summary", "lines"}
  BY <1>1 DEF Batch
<1>4. (ftp \subseteq ((DOMAIN batches) \X {"summary", "lines"}))'
  BY <1>2, <1>3 DEF Typed, FilesTyped
<1>5. failures' \in Nat
  BY <1>2 DEF Typed, InboxTyped
<1> QED BY <1>4, <1>5 DEF Typed, InboxTyped

\* the summary,
LEMMA SendSummaryTyped ==
  ASSUME SentApartInv, Typed, SendSummary
  PROVE  Typed'
<1>1. /\ script.pc = "summary" /\ Continue("lines") /\ UNCHANGED rows /\ Forward("summary")
      /\ UNCHANGED <<inbox, reader, files, crashes>>
      /\ bucket' = bucket \cup {[batch |-> Batch, kind |-> "summary",
                                 content |-> SummaryFile(script.ids)]}
  BY DEF SendSummary, Uploading, Store
<1>2. script.pc \in UploadPC /\ script.pc \in InBatch /\ UNCHANGED <<batches, lines>>
  BY <1>1 DEF UploadPC, InBatch, rows
<1>3. PICK f : f = [batch |-> Batch, kind |-> "summary", content |-> SummaryFile(script.ids)]
  OBVIOUS
<1>4. f.kind = "summary" /\ bucket' = bucket \cup {f}
  BY <1>1, <1>3
<1>5. (ftp \subseteq ((DOMAIN batches) \X {"summary", "lines"}))' /\ InboxTyped'
  BY <1>1, <1>2, ForwardTyped
<1>6. FilesTyped'
  BY <1>4, <1>5 DEF Typed, FilesTyped
<1>7. ScriptTyped'
  BY <1>1, <1>2, ContinueTyped DEF UploadPC
<1> QED BY <1>1, <1>5, <1>6, <1>7, RowsStay DEF Typed

\* and the file of lines,
LEMMA SendLinesTyped ==
  ASSUME SentApartInv, Typed, SendLines
  PROVE  Typed'
<1>1. /\ script.pc = "lines" /\ Continue("mark") /\ UNCHANGED rows /\ Forward("lines")
      /\ UNCHANGED <<inbox, reader, files, crashes>>
      /\ bucket' = bucket \cup {[batch |-> Batch, kind |-> "lines",
                                 content |-> LinesFile(script.ids)]}
  BY DEF SendLines, Uploading, Store
<1>2. script.pc \in UploadPC /\ script.pc \in InBatch /\ UNCHANGED <<batches, lines>>
  BY <1>1 DEF UploadPC, InBatch, rows
<1>3. PICK f : f = [batch |-> Batch, kind |-> "lines", content |-> LinesFile(script.ids)]
  OBVIOUS
<1>4. f.kind = "lines" /\ f.content = LinesFile(script.ids) /\ bucket' = bucket \cup {f}
  BY <1>1, <1>3
<1>5. (ftp \subseteq ((DOMAIN batches) \X {"summary", "lines"}))' /\ InboxTyped'
  BY <1>1, <1>2, ForwardTyped
<1>6. \A r \in f.content : <<r.job, r.vendor>> \in Job \X Owner
  <2>1. ASSUME NEW r \in LinesFile(script.ids) PROVE <<r.job, r.vendor>> \in Job \X Owner
    <3>1. PICK l \in script.ids : r = LinesRow(script.ids, l)
      BY DEF LinesFile
    <3>2. l \in DOMAIN lines
      BY <1>2 DEF Typed, ScriptTyped
    <3>3. lines[l] \in LineRow
      BY <3>2 DEF Typed, RowsTyped
    <3>4. r.job = lines[l].job /\ r.vendor = lines[l].owner
      BY <3>1 DEF LinesRow
    <3> QED BY <3>3, <3>4 DEF LineRow
  <2> QED BY <1>4, <2>1
<1>7. FilesTyped'
  <2>1. \A g \in bucket' : /\ g.kind = "payment" => g.content.details \subseteq DetailRow
                           /\ g.kind = "lines" => \A r \in g.content : <<r.job, r.vendor>> \in Job \X Owner
    BY <1>4, <1>6 DEF Typed, FilesTyped
  <2> QED BY <1>5, <2>1 DEF FilesTyped
<1>8. ScriptTyped'
  BY <1>1, <1>2, ContinueTyped DEF UploadPC
<1> QED BY <1>1, <1>5, <1>7, <1>8, RowsStay DEF Typed

\* a transfer that fails,
LEMMA FailUploadTyped ==
  ASSUME SentApartInv, Typed, FailUpload
  PROVE  Typed'
<1>1. /\ script.pc \in {"payment", "summary", "lines"} /\ failures' = failures + 1
      /\ script' = [script EXCEPT !.pc = "close", !.outcome = "FAILED"]
      /\ UNCHANGED rows /\ UNCHANGED <<bucket, ftp, inbox, reader, files, crashes>>
  BY DEF FailUpload
<1>2. script.pc \in UploadPC /\ IsUpload(script) /\ UNCHANGED lines
  BY <1>1, UploadMemory DEF UploadPC, rows
<1>3. PICK s, q : s = script /\ q = script'
  OBVIOUS
<1>4. /\ q.pc = "close" /\ q.lines = s.lines /\ q.ids = s.ids /\ q.outcome = "FAILED"
      /\ q.loaded = s.loaded
  BY <1>1, <1>2, <1>3 DEF IsUpload
<1>5. ScriptTyped'
  BY <1>2, <1>3, <1>4 DEF ScriptTyped, Typed, UploadPC, Status
<1>6. InboxTyped'
  BY <1>1 DEF Typed, InboxTyped
<1> QED BY <1>1, <1>5, <1>6, RowsStay DEF Typed

\* Lines get another status.
LEMMA MarkedTyped ==
  ASSUME Typed, NEW L, NEW status \in Status, UNCHANGED <<paidBy, payouts, batches>>,
         lines' = [l \in DOMAIN lines |-> IF l \in L
                     THEN [lines[l] EXCEPT !.status = status] ELSE lines[l]]
  PROVE  RowsTyped' /\ DOMAIN lines' = DOMAIN lines
<1>1. PICK a, d : a = lines /\ d = lines'
  OBVIOUS
<1>2. a \in Seq(LineRow)
  BY <1>1 DEF Typed, RowsTyped
<1>3. PICK n \in Nat : DOMAIN a = 1..n
  BY <1>2
<1>4. d = [l \in 1..n |-> IF l \in L THEN [a[l] EXCEPT !.status = status] ELSE a[l]]
  BY <1>1, <1>3
<1>5. \A l \in 1..n : a[l] \in LineRow
  BY <1>2, <1>3
<1>6. \A x \in LineRow : /\ [x EXCEPT !.status = status] \in LineRow
                         /\ [x EXCEPT !.status = status].payout = x.payout
  BY DEF LineRow
<1>7. \A l \in 1..n : d[l] \in LineRow /\ d[l].payout = a[l].payout
  BY <1>4, <1>5, <1>6
<1>8. d \in Seq(LineRow) /\ DOMAIN d = DOMAIN a
  <2>1. d = [l \in 1..n |-> d[l]]
    BY <1>4
  <2> QED BY <1>3, <1>7, <2>1
<1>9. \A l \in DOMAIN d : d[l].payout \in DOMAIN payouts
  BY <1>1, <1>3, <1>7, <1>8 DEF Typed, RowsTyped
<1>10. RowsTyped'
  BY <1>1, <1>8, <1>9 DEF Typed, RowsTyped
<1> QED BY <1>1, <1>8, <1>10

\* marking what was sent,
LEMMA MarkSentTyped ==
  ASSUME SentApartInv, Typed, MarkSent
  PROVE  Typed'
<1>1. /\ script.pc = "mark"
      /\ UNCHANGED <<paidBy, payouts, batches, bucket, ftp, inbox, reader, files, failures, crashes>>
  BY DEF MarkSent, Uploading
<1>2. script.pc \in UploadPC /\ IsUpload(script)
  BY <1>1, UploadMemory DEF UploadPC
<1>3. \/ lines' = [l \in DOMAIN lines |-> IF l \in script.ids
                     THEN [lines[l] EXCEPT !.status = "IN_TRANSIT"] ELSE lines[l]]
      \/ UNCHANGED lines
  BY DEF MarkSent
<1>4. RowsTyped' /\ DOMAIN lines' = DOMAIN lines
  <2>1. CASE UNCHANGED lines
    BY <1>1, <2>1 DEF Typed, RowsTyped
  <2>2. CASE lines' = [l \in DOMAIN lines |-> IF l \in script.ids
                         THEN [lines[l] EXCEPT !.status = "IN_TRANSIT"] ELSE lines[l]]
    BY <1>1, <2>2, MarkedTyped DEF Status
  <2> QED BY <1>3, <2>1, <2>2
<1>5. PICK outcome \in Status : script' = [script EXCEPT !.pc = "close", !.outcome = outcome, !.sent = TRUE]
  BY DEF MarkSent, Status
<1>6. PICK s, q : s = script /\ q = script'
  OBVIOUS
<1>7. /\ q.pc = "close" /\ q.lines = s.lines /\ q.ids = s.ids /\ q.outcome = outcome
      /\ q.loaded = s.loaded
  BY <1>2, <1>5, <1>6 DEF IsUpload
<1>8. ScriptTyped'
  BY <1>2, <1>4, <1>6, <1>7 DEF ScriptTyped, Typed, UploadPC
<1>9. FilesTyped' /\ InboxTyped' /\ ReaderTyped'
  <2>1. DOMAIN lines \subseteq DOMAIN lines' /\ DOMAIN batches \subseteq DOMAIN batches'
        /\ DOMAIN payouts \subseteq DOMAIN payouts'
        /\ \A c \in Credit : paidBy[c] \in DOMAIN payouts => paidBy'[c] \in DOMAIN payouts'
    BY <1>1, <1>4
  <2> QED BY <1>1, <1>4, <2>1, StaysTyped
<1> QED BY <1>4, <1>8, <1>9 DEF Typed

\* and closing the batch.
LEMMA CloseBatchTyped ==
  ASSUME SentApartInv, Typed, CloseBatch
  PROVE  Typed'
<1>1. /\ script.pc = "close" /\ Continue("batch")
      /\ batches' = [batches EXCEPT ![Batch].status = script.outcome]
      /\ payouts' = Saved(script.payouts, script.sent)
      /\ UNCHANGED <<paidBy, lines, bucket, ftp, inbox, reader, files, failures, crashes>>
  BY DEF CloseBatch, Uploading
<1>2. script.pc \in UploadPC /\ IsUpload(script)
  BY <1>1, UploadMemory DEF UploadPC
<1>3. payouts' \in Seq(PayoutRow) /\ DOMAIN payouts' = DOMAIN payouts
  <2>1. PICK sent \in BOOLEAN : Saved(script.payouts, script.sent) = Saved(script.payouts, sent)
    <3>1. PICK sent \in BOOLEAN : sent <=> script.sent
      OBVIOUS
    <3>2. Saved(script.payouts, script.sent) = Saved(script.payouts, sent)
      BY <3>1 DEF Saved
    <3> QED BY <3>2
  <2>2. script.payouts \subseteq DOMAIN script.loaded
    BY <1>2 DEF IsUpload
  <2>3. Saved(script.payouts, sent) \in Seq(PayoutRow)
        /\ DOMAIN Saved(script.payouts, sent) = DOMAIN payouts
    BY <1>2, <2>2, SavedTyped
  <2> QED BY <1>1, <2>1, <2>3
<1>4. batches' \in Seq(BatchRow) /\ DOMAIN batches' = DOMAIN batches
  <2>1. PICK a, d, b, o : a = batches /\ d = batches' /\ b = Batch /\ o = script.outcome
    OBVIOUS
  <2>2. a \in Seq(BatchRow) /\ o \in Status
    BY <1>2, <2>1 DEF Typed, RowsTyped, ScriptTyped
  <2>3. d = [a EXCEPT ![b].status = o]
    BY <1>1, <2>1
  <2>4. \A x \in BatchRow : [x EXCEPT !.status = o] \in BatchRow
    BY <2>2 DEF BatchRow
  <2>5. PICK y : y = [a[b] EXCEPT !.status = o]
    OBVIOUS
  <2>6. d = [a EXCEPT ![b] = y]
    BY <2>3, <2>5
  <2>7. b \in DOMAIN a => y \in BatchRow
    <3>1. b \in DOMAIN a => a[b] \in BatchRow
      BY <2>2
    <3> QED BY <2>4, <2>5, <3>1
  <2>8. PICK n \in Nat : DOMAIN a = 1..n
    BY <2>2
  <2>9. \A i \in 1..n : a[i] \in BatchRow
    BY <2>2, <2>8
  <2>10. d = [i \in 1..n |-> IF i = b THEN y ELSE a[i]]
    <3>1. a = [i \in 1..n |-> a[i]]
      BY <2>2, <2>8
    <3> QED BY <2>6, <3>1
  <2>11. d \in Seq(BatchRow) /\ DOMAIN d = DOMAIN a
    BY <2>7, <2>8, <2>9, <2>10
  <2> QED BY <2>1, <2>11
<1>5. ScriptTyped'
  BY <1>1, <1>2, ContinueTyped DEF UploadPC
<1> QED BY <1>1, <1>3, <1>4, <1>5, PlaceTyped DEF Typed

------------------------------------------------------------------------------
(* What lines cost *)

CostOf(seq, S) == MapThenSumSet(LAMBDA l : seq[l].cost, S)

\* What lines cost together is a sum of their costs.
LEMMA CostSums ==
  ASSUME NEW seq, NEW S, IsFiniteSet(S), NEW g, \A i \in S : g[i] = seq[i].cost
  PROVE  \E f : Sums(f, g, S) /\ CostOf(seq, S) = f[S]
<1> DEFINE It(f) == f = [s \in SUBSET S |-> IF s = {} THEN 0
                           ELSE LET x == CHOOSE x \in s : TRUE
                                IN  seq[x].cost + f[s \ {x}]]
           c == CHOOSE f : It(f)
<1>1. PICK e : IsRecursive(e, g, S)
  BY SumsExist
<1>2. \A s \in SUBSET S : s # {} => g[One(s)] = seq[One(s)].cost
  BY DEF One
<1>3. e = [s \in SUBSET S |-> IF s = {} THEN 0 ELSE seq[One(s)].cost + e[s \ {One(s)}]]
  BY <1>1, <1>2 DEF IsRecursive
<1>4. It(e)
  BY <1>3, Zenon DEF One
<1>5. It(c)
  BY <1>4, Zenon
<1>6. CostOf(seq, S) = c[S]
  BY Zenon DEF CostOf, MapThenSumSet, MapThenFoldSet
<1> HIDE DEF c
<1>7. c = [s \in SUBSET S |-> IF s = {} THEN 0 ELSE seq[One(s)].cost + c[s \ {One(s)}]]
  BY <1>5, Zenon DEF One
<1>8. Sums(c, g, S)
  BY <1>2, <1>7 DEF Sums
<1> QED
  BY <1>6, <1>8

\* It is a natural number.
LEMMA CostIsNatural ==
  ASSUME NEW seq, NEW S, IsFiniteSet(S), \A i \in S : seq[i].cost \in Nat
  PROVE  CostOf(seq, S) \in Nat
<1> DEFINE g == [i \in S |-> seq[i].cost]
<1>1. \A i \in S : g[i] = seq[i].cost /\ g[i] \in Nat
  OBVIOUS
<1> HIDE DEF g
<1>2. PICK f : Sums(f, g, S) /\ CostOf(seq, S) = f[S]
  BY <1>1, CostSums
<1> QED BY <1>1, <1>2, SumsAreNaturals

\* Equal costs have equal sums.
LEMMA CostsAgree ==
  ASSUME NEW seq, NEW rqs, NEW S, IsFiniteSet(S), \A i \in S : seq[i].cost = rqs[i].cost
  PROVE  CostOf(seq, S) = CostOf(rqs, S)
<1> DEFINE g == [i \in S |-> seq[i].cost]
<1>1. \A i \in S : g[i] = seq[i].cost /\ g[i] = rqs[i].cost
  OBVIOUS
<1> HIDE DEF g
<1>2. PICK f : Sums(f, g, S) /\ CostOf(seq, S) = f[S]
  BY <1>1, CostSums
<1>3. PICK e : Sums(e, g, S) /\ CostOf(rqs, S) = e[S]
  BY <1>1, CostSums
<1>4. \A s \in SUBSET S : f[s] = e[s]
  BY <1>2, <1>3, SumsAgree
<1>5. f[S] = e[S]
  BY <1>4
<1> QED
  BY <1>2, <1>3, <1>5

\* The rest of some lines, and these.
LEMMA CostOfUnion ==
  ASSUME NEW seq, NEW S, IsFiniteSet(S), \A i \in S : seq[i].cost \in Nat,
         NEW A \in SUBSET S, NEW B \in SUBSET S, A \cap B = {}
  PROVE  CostOf(seq, A \cup B) = CostOf(seq, A) + CostOf(seq, B)
<1>0. PICK g : g = [i \in S |-> seq[i].cost]
  OBVIOUS
<1>1. \A i \in S : g[i] = seq[i].cost /\ g[i] \in Int
  BY <1>0
<1>2. PICK f : Sums(f, g, S) /\ CostOf(seq, S) = f[S]
  BY <1>1, CostSums
<1>3. ASSUME NEW T \in SUBSET S PROVE CostOf(seq, T) = f[T]
  <2>1. IsFiniteSet(T)
    BY FS_Subset
  <2>2. PICK e : Sums(e, g, T) /\ CostOf(seq, T) = e[T]
    BY <1>1, <2>1, CostSums
  <2>3. Sums(f, g, T)
    BY <1>2 DEF Sums
  <2>4. \A s \in SUBSET T : e[s] = f[s]
    BY <2>1, <2>2, <2>3, SumsAgree
  <2> QED BY <2>2, <2>4
<1>4. f[A \cup B] = f[A] + f[B]
  <2>1. Additive(f, S)
    BY <1>1, <1>2, SumsAddUp
  <2> QED BY <2>1, Zenon DEF Additive
<1>5. A \cup B \in SUBSET S
  OBVIOUS
<1> QED BY <1>3, <1>4, <1>5

\* Costs and numbers of the lines.
LEMMA LinesTyped ==
  ASSUME Typed
  PROVE  /\ IsFiniteSet(DOMAIN lines) /\ DOMAIN lines \subseteq Nat
         /\ \A L : L \subseteq DOMAIN lines => IsFiniteSet(L) /\ Cost(L) \in Nat
         /\ \A l \in DOMAIN lines :
              /\ lines[l].cost \in Nat /\ lines[l].payout \in DOMAIN payouts
              /\ lines[l].job \in Job /\ lines[l].owner \in Owner /\ lines[l].status \in Status
<1>1. lines \in Seq(LineRow)
  BY DEF Typed, RowsTyped
<1>2. \A l \in DOMAIN lines : lines[l] \in LineRow
  BY <1>1
<1>3. \A l \in DOMAIN lines :
              /\ lines[l].cost \in Nat /\ lines[l].payout \in DOMAIN payouts
              /\ lines[l].job \in Job /\ lines[l].owner \in Owner /\ lines[l].status \in Status
  BY <1>2 DEF LineRow, Typed, RowsTyped
<1>4. /\ IsFiniteSet(DOMAIN lines) /\ DOMAIN lines \subseteq Nat
      /\ \A L : L \subseteq DOMAIN lines => IsFiniteSet(L)
  BY <1>1, TableRows
<1>5. ASSUME NEW L, L \subseteq DOMAIN lines PROVE Cost(L) \in Nat
  <2>1. CostOf(lines, L) \in Nat
    BY <1>3, <1>4, <1>5, CostIsNatural
  <2>2. Cost(L) = CostOf(lines, L)
    BY Zenon DEF Cost, CostOf
  <2> QED BY <2>1, <2>2
<1> QED BY <1>3, <1>4, <1>5

------------------------------------------------------------------------------
(* SAP, and the steps of the third script *)

\* Names of a job and its provider stand in rows of their own.
LEMMA NamedRows ==
  ASSUME NEW r1 \in (Job \X Owner) \cup {Invalid}, NEW r2 \in (Job \X Owner) \cup {Invalid}
  PROVE  <<r1, r2>> \in Named /\ <<r1, r2>> # <<>>
BY DEF Named

\* A report of SAP keeps the types.
LEMMA ReportTyped ==
  ASSUME Typed, Report
  PROVE  Typed'
<1>1. /\ files' = files + 1 /\ UNCHANGED rows
      /\ UNCHANGED <<bucket, ftp, script, reader, failures, crashes>>
  BY DEF Report
<1>2. PICK b \in DOMAIN batches :
        LET pairs == UNION {{<<r.job, r.vendor>> : r \in f.content} :
                              f \in {g \in bucket : g.batch = b /\ g.kind = "lines"}}
        IN  \E r1 \in pairs : \E r2 \in (pairs \ {r1}) \cup {Invalid} :
              inbox' = inbox \cup {[name |-> files', rows |-> <<r1, r2>>]}
  BY Zenon DEF Report
<1>3. PICK pairs : pairs = UNION {{<<r.job, r.vendor>> : r \in f.content} :
                              f \in {g \in bucket : g.batch = b /\ g.kind = "lines"}}
  OBVIOUS
<1>4. pairs \subseteq Job \X Owner
  BY <1>3 DEF Typed, FilesTyped
<1>5. PICK r1 \in pairs : \E r2 \in (pairs \ {r1}) \cup {Invalid} :
              inbox' = inbox \cup {[name |-> files', rows |-> <<r1, r2>>]}
  BY <1>2, <1>3, Zenon
<1>6. PICK r2 \in (pairs \ {r1}) \cup {Invalid} :
              inbox' = inbox \cup {[name |-> files', rows |-> <<r1, r2>>]}
  BY <1>5
<1>7. <<r1, r2>> \in Named /\ <<r1, r2>> # <<>>
  <2>1. r1 \in (Job \X Owner) \cup {Invalid} /\ r2 \in (Job \X Owner) \cup {Invalid}
    BY <1>4
  <2> QED BY <2>1, NamedRows
<1>8. files \in Nat /\ files' \in 1..files' /\ \A i \in 1..files : i \in 1..files'
  BY <1>1 DEF Typed, InboxTyped
<1>9. InboxTyped'
  <2>1. files' \in Nat /\ failures' \in Nat /\ crashes' \in Nat
    BY <1>1 DEF Typed, InboxTyped
  <2>2. PICK e : e = [name |-> files', rows |-> <<r1, r2>>]
    OBVIOUS
  <2>3. e.name = files' /\ e.rows \in Named /\ e.rows # <<>>
    BY <1>7, <2>2
  <2>4. \A f \in inbox' : f.name \in 1..files' /\ f.rows \in Named /\ f.rows # <<>>
    BY <1>6, <1>8, <2>2, <2>3 DEF Typed, InboxTyped
  <2> QED BY <2>1, <2>4 DEF InboxTyped
<1> QED BY <1>1, <1>9, RowsStay DEF Typed

\* The inbox stays typed when files are only taken from it.
LEMMA FailureCounted ==
  ASSUME Typed, Fail \/ UNCHANGED failures, UNCHANGED <<files, crashes>>, inbox' \subseteq inbox
  PROVE  InboxTyped'
<1>1. failures' \in Nat
  BY DEF Fail, Typed, InboxTyped
<1> QED BY <1>1 DEF Typed, InboxTyped

\* The reader at a row, and at the next file.
LEMMA AtRow ==
  ASSUME NEW pc \in {"row", "count"}, NEW names, NEW name, NEW seq \in Named,
         pc = "count" => seq # <<>>,
         reader' = [pc |-> pc, names |-> names, name |-> name, rows |-> seq]
  PROVE  ReaderTyped'
<1>1. PICK s : s = reader'
  OBVIOUS
<1>2. s.pc = pc /\ s.names = names /\ s.name = name /\ s.rows = seq
      /\ s = [pc |-> s.pc, names |-> s.names, name |-> s.name, rows |-> s.rows]
  BY <1>1
<1> QED BY <1>1, <1>2 DEF ReaderTyped

\* A reader that goes on to the next file has nothing else in memory.
LEMMA AtNext ==
  ASSUME NEW names, reader' = [pc |-> "next", names |-> names]
  PROVE  ReaderTyped'
<1>1. reader'.pc = "next"
  OBVIOUS
<1> QED BY <1>1 DEF ReaderTyped

\* Listing the inbox keeps the types, as does the end of the list,
LEMMA ListTyped ==
  ASSUME Typed, List \/ EndOfList
  PROVE  Typed'
<1>1. /\ UNCHANGED rows
      /\ UNCHANGED <<bucket, ftp, inbox, script, files, failures, crashes>>
  BY DEF List, EndOfList
<1>2. ReaderTyped'
  BY AtNext, IdleTyped DEF List, EndOfList
<1> QED BY <1>1, <1>2, RowsStay DEF Typed

\* The beginning of a file has rows of a file.
LEMMA BeginningNamed ==
  ASSUME NEW seq \in Named, NEW n \in 0..(Len(seq) - 1)
  PROVE  /\ SubSeq(seq, 1, n) \in Named /\ DOMAIN SubSeq(seq, 1, n) = 1..n
         /\ \A i \in 1..n : i \in DOMAIN seq /\ SubSeq(seq, 1, n)[i] = seq[i]
<1>1. PICK R : R = (Job \X Owner) \cup {Invalid}
  OBVIOUS
<1>2. seq \in Seq(R) /\ n \in Nat /\ n <= Len(seq)
  BY <1>1 DEF Named
<1>3. /\ SubSeq(seq, 1, n) \in Seq(R) /\ DOMAIN SubSeq(seq, 1, n) = 1..n
      /\ \A i \in 1..n : i \in DOMAIN seq /\ SubSeq(seq, 1, n)[i] = seq[i]
  BY <1>2
<1> QED BY <1>1, <1>3 DEF Named

\* reading a file,
LEMMA DownloadTyped ==
  ASSUME Typed, Download
  PROVE  Typed'
<1>1. /\ UNCHANGED rows /\ UNCHANGED <<bucket, ftp, inbox, script, files, crashes>>
      /\ (Fail \/ UNCHANGED failures)
  BY DEF Download
<1>2. PICK f \in inbox : \/ Begin(f, f.rows) \/ reader' = Idle
                        \/ \E n \in 0..(Len(f.rows) - 1) : Begin(f, SubSeq(f.rows, 1, n))
  BY DEF Download
<1>3. f.rows \in Named /\ f.rows # <<>>
  BY DEF Typed, InboxTyped
<1>4. \A n \in 0..(Len(f.rows) - 1) : SubSeq(f.rows, 1, n) \in Named
  BY <1>3, BeginningNamed
<1>5. ASSUME NEW seq \in Named, Begin(f, seq) PROVE ReaderTyped'
  <2>1. PICK names, name : reader' = [pc |-> "row", names |-> names, name |-> name, rows |-> seq]
    BY <1>5 DEF Begin
  <2> QED BY <2>1, AtRow
<1>6. ReaderTyped'
  BY <1>2, <1>3, <1>4, <1>5, IdleTyped
<1>7. InboxTyped'
  BY <1>1, FailureCounted
<1> QED BY <1>1, <1>6, <1>7, RowsStay DEF Typed

\* and marking the lines of a row.
LEMMA MarkRowTyped ==
  ASSUME Typed, MarkRow
  PROVE  Typed'
<1>1. /\ reader.pc = "row" /\ reader.rows # <<>>
      /\ UNCHANGED <<paidBy, payouts, batches, bucket, ftp, inbox, script, files, failures, crashes>>
  BY DEF MarkRow, Reading
<1>2. PICK mine : mine = Reported(Head(reader.rows))
  OBVIOUS
<1>3. \/ /\ lines' = [l \in DOMAIN lines |-> IF l \in mine
                        THEN [lines[l] EXCEPT !.status = "PAID"] ELSE lines[l]]
         /\ reader' = [reader EXCEPT !.pc = "count"]
      \/ /\ reader' = [reader EXCEPT !.rows = Tail(@)]
         /\ UNCHANGED lines
  BY <1>2 DEF MarkRow
<1>4. PICK s : s = reader
  OBVIOUS
<1>5. s = [pc |-> "row", names |-> s.names, name |-> s.name, rows |-> s.rows] /\ s.rows \in Named
  BY <1>1, <1>4 DEF Typed, ReaderTyped
<1>6. CASE /\ lines' = [l \in DOMAIN lines |-> IF l \in mine
                        THEN [lines[l] EXCEPT !.status = "PAID"] ELSE lines[l]]
           /\ reader' = [reader EXCEPT !.pc = "count"]
  <2>1. RowsTyped' /\ DOMAIN lines' = DOMAIN lines
    BY <1>1, <1>6, MarkedTyped DEF Status
  <2>2. reader' = [pc |-> "count", names |-> s.names, name |-> s.name, rows |-> s.rows]
    BY <1>4, <1>5, <1>6
  <2>3. ReaderTyped'
    BY <1>1, <1>4, <1>5, <2>2, AtRow
  <2>4. FilesTyped' /\ InboxTyped' /\ ScriptTyped'
    <3>1. DOMAIN lines \subseteq DOMAIN lines' /\ DOMAIN batches \subseteq DOMAIN batches'
          /\ DOMAIN payouts \subseteq DOMAIN payouts'
          /\ \A c \in Credit : paidBy[c] \in DOMAIN payouts => paidBy'[c] \in DOMAIN payouts'
      BY <1>1, <2>1
    <3> QED BY <1>1, <2>1, <3>1, StaysTyped
  <2> QED BY <2>1, <2>3, <2>4 DEF Typed
<1>7. CASE reader' = [reader EXCEPT !.rows = Tail(@)] /\ UNCHANGED lines
  <2>1. UNCHANGED rows
    BY <1>1, <1>7 DEF rows
  <2>2. reader' = [pc |-> "row", names |-> s.names, name |-> s.name, rows |-> Tail(s.rows)]
    <3>1. PICK z : z = Tail(s.rows)
      OBVIOUS
    <3>2. reader' = [s EXCEPT !.rows = z]
      BY <1>4, <1>7, <3>1
    <3>3. PICK n1, n2, w : n1 = s.names /\ n2 = s.name /\ w = s.rows
      OBVIOUS
    <3>4. s = [pc |-> "row", names |-> n1, name |-> n2, rows |-> w]
      BY <1>5, <3>3
    <3>5. reader' = [pc |-> "row", names |-> n1, name |-> n2, rows |-> z]
      BY <3>2, <3>4
    <3> QED BY <3>1, <3>3, <3>5
  <2>3. Tail(s.rows) \in Named
    BY <1>1, <1>4, <1>5 DEF Named
  <2>4. ReaderTyped'
    BY <2>2, <2>3, AtRow
  <2> QED BY <1>1, <2>1, <2>4, RowsStay DEF Typed
<1> QED BY <1>3, <1>6, <1>7

\* A payout changes in place.
LEMMA PayoutChanged ==
  ASSUME Typed, NEW p \in DOMAIN payouts, NEW y \in PayoutRow,
         NEW d, d = [payouts EXCEPT ![p] = y]
  PROVE  d \in Seq(PayoutRow) /\ DOMAIN d = DOMAIN payouts /\ d[p] = y
         /\ \A i \in DOMAIN payouts : i # p => d[i] = payouts[i]
<1>1. PICK a : a = payouts
  OBVIOUS
<1>2. a \in Seq(PayoutRow) /\ p \in DOMAIN a /\ d = [a EXCEPT ![p] = y]
  BY <1>1 DEF Typed, RowsTyped
<1>3. PICK n \in Nat : DOMAIN a = 1..n
  BY <1>2
<1>4. \A i \in 1..n : a[i] \in PayoutRow
  BY <1>2, <1>3
<1>5. d = [i \in 1..n |-> IF i = p THEN y ELSE a[i]]
  <2>1. a = [i \in 1..n |-> a[i]]
    BY <1>2, <1>3
  <2> QED BY <1>2, <2>1
<1>6. DOMAIN d = 1..n /\ d[p] = y /\ \A i \in 1..n : i # p => d[i] = a[i]
  BY <1>2, <1>3, <1>5
<1>7. \A i \in 1..n : d[i] \in PayoutRow
  BY <1>4, <1>5
<1>8. d \in Seq(PayoutRow)
  <2>1. PICK R : R = PayoutRow
    OBVIOUS
  <2>2. d = [i \in 1..n |-> d[i]] /\ \A i \in 1..n : d[i] \in R
    BY <1>5, <1>7, <2>1
  <2>3. d \in [1..n -> R]
    BY <2>2
  <2>4. \A e : e \in [1..n -> R] => e \in Seq(R)
    BY <1>3
  <2> QED BY <2>1, <2>3, <2>4
<1> QED BY <1>1, <1>3, <1>6, <1>8

\* What is counted, and for which payout.
CountedFor(p, mine) ==
  /\ mine = Reported(Head(reader.rows)) /\ \E l \in mine : p = lines[l].payout
  /\ payouts' = [payouts EXCEPT ![p] = [payouts[p] EXCEPT !.processed = @ + Cost(mine)]]
  /\ reader' = [pc |-> "pay", names |-> reader.names, name |-> reader.name,
                rows |-> reader.rows, payout |-> p]

\* What is counted is for one payout, of the lines in hand.
LEMMA CountsFor ==
  ASSUME CountRow
  PROVE  \E p, mine : CountedFor(p, mine)
<1>1. PICK mine : mine = Reported(Head(reader.rows))
  OBVIOUS
<1>2. PICK l \in mine :
           /\ payouts' = [payouts EXCEPT ![lines[l].payout].processed = @ + Cost(mine)]
           /\ reader' = [pc |-> "pay", names |-> reader.names, name |-> reader.name,
                         rows |-> reader.rows, payout |-> lines[l].payout]
  BY <1>1, Zenon DEF CountRow
<1>3. PICK p : p = lines[l].payout
  OBVIOUS
<1>4. CountedFor(p, mine)
  BY <1>1, <1>2, <1>3 DEF CountedFor
<1> QED BY <1>4

\* Counting them keeps the types,
LEMMA CountRowTyped ==
  ASSUME Typed, CountRow
  PROVE  Typed'
<1>1. /\ reader.pc = "count"
      /\ UNCHANGED <<paidBy, lines, batches, bucket, ftp, inbox, script, files, failures, crashes>>
  BY DEF CountRow, Reading
<1>2. PICK p, mine : CountedFor(p, mine)
  BY CountsFor
<1>3. mine \subseteq DOMAIN lines
  BY <1>2 DEF CountedFor, Reported
<1>4. p \in DOMAIN payouts /\ Cost(mine) \in Nat
  BY <1>2, <1>3, LinesTyped DEF CountedFor
<1>5. PICK x, m : x = payouts[p] /\ m = Cost(mine)
  OBVIOUS
<1>6. [x EXCEPT !.processed = @ + m] \in PayoutRow
  <2>1. x \in PayoutRow
    <3>1. payouts \in Seq(PayoutRow)
      BY DEF Typed, RowsTyped
    <3> QED BY <1>4, <1>5, <3>1
  <2>2. x.processed \in Nat /\ m \in Nat
    BY <1>4, <1>5, <2>1 DEF PayoutRow
  <2>3. PICK z \in Nat : z = x.processed + m
    BY <2>2
  <2>4. [x EXCEPT !.processed = z] \in PayoutRow
    BY <2>1 DEF PayoutRow
  <2> QED BY <2>3, <2>4
<1>7. payouts' = [payouts EXCEPT ![p] = [x EXCEPT !.processed = @ + m]]
  BY <1>2, <1>5 DEF CountedFor
<1>8. payouts' \in Seq(PayoutRow) /\ DOMAIN payouts' = DOMAIN payouts
  BY <1>4, <1>6, <1>7, PayoutChanged
<1>9. ReaderTyped'
  <2>1. reader'.pc = "pay" /\ reader'.rows = reader.rows /\ reader'.payout = p
    BY <1>2 DEF CountedFor
  <2>2. reader.rows \in Named /\ reader.rows # <<>>
    BY <1>1 DEF Typed, ReaderTyped
  <2> QED BY <1>4, <1>8, <2>1, <2>2 DEF ReaderTyped
<1>10. batches' \in Seq(BatchRow) /\ DOMAIN batches \subseteq DOMAIN batches'
  BY <1>1 DEF Typed, RowsTyped
<1> QED BY <1>1, <1>8, <1>9, <1>10, PlaceTyped DEF Typed

\* as does comparing the payout with what was counted,
LEMMA PayRowTyped ==
  ASSUME Typed, PayRow
  PROVE  Typed'
<1>1. /\ reader.pc = "pay"
      /\ UNCHANGED <<paidBy, lines, batches, bucket, ftp, inbox, script, files, failures, crashes>>
  BY DEF PayRow, Reading
<1>2. PICK p : p = reader.payout
  OBVIOUS
<1>3. p \in DOMAIN payouts /\ reader.rows \in Named /\ reader.rows # <<>>
  BY <1>1, <1>2 DEF Typed, ReaderTyped
<1>4. PICK y : y = [payouts[p] EXCEPT !.status = "PAID"]
  OBVIOUS
<1>5. payouts' = [payouts EXCEPT ![p] = y] \/ payouts' = payouts
  <2>1. payouts' = IF payouts[p].processed = payouts[p].amount
                   THEN [payouts EXCEPT ![p].status = "PAID"] ELSE payouts
    BY <1>2 DEF PayRow
  <2> QED BY <1>4, <2>1
<1>6. payouts \in Seq(PayoutRow)
  BY DEF Typed, RowsTyped
<1>7. y \in PayoutRow
  <2>1. payouts[p] \in PayoutRow
    BY <1>3, <1>6
  <2> QED BY <1>4, <2>1 DEF PayoutRow, Status
<1>8. payouts' \in Seq(PayoutRow) /\ DOMAIN payouts' = DOMAIN payouts
  BY <1>3, <1>5, <1>6, <1>7, PayoutChanged
<1>9. ReaderTyped'
  <2>1. reader' = [pc |-> "row", names |-> reader.names, name |-> reader.name,
                   rows |-> Tail(reader.rows)]
    BY DEF PayRow
  <2>2. Tail(reader.rows) \in Named
    BY <1>3 DEF Named
  <2>3. PICK names, name, seq : names = reader.names /\ name = reader.name /\ seq = Tail(reader.rows)
    OBVIOUS
  <2>4. seq \in Named /\ reader' = [pc |-> "row", names |-> names, name |-> name, rows |-> seq]
    BY <2>1, <2>2, <2>3
  <2> QED BY <2>4, AtRow
<1>10. batches' \in Seq(BatchRow) /\ DOMAIN batches \subseteq DOMAIN batches'
  BY <1>1 DEF Typed, RowsTyped
<1> QED BY <1>1, <1>8, <1>9, <1>10, PlaceTyped DEF Typed

\* removing the file,
LEMMA RemoveFileTyped ==
  ASSUME Typed, RemoveFile
  PROVE  Typed'
<1>1. /\ UNCHANGED rows /\ UNCHANGED <<bucket, ftp, script, files, crashes>>
      /\ (Fail \/ UNCHANGED failures) /\ inbox' \subseteq inbox
      /\ reader' = [pc |-> "next", names |-> reader.names]
  BY DEF RemoveFile
<1>2. ReaderTyped'
  BY <1>1, AtNext
<1>3. InboxTyped'
  BY <1>1, FailureCounted
<1> QED BY <1>1, <1>2, <1>3, RowsStay DEF Typed

\* and losing the processes.
LEMMA CrashTyped ==
  ASSUME Typed, Crash
  PROVE  Typed'
<1>1. /\ UNCHANGED rows /\ UNCHANGED <<bucket, ftp, inbox, files, failures>>
      /\ crashes' = crashes + 1
      /\ \/ script' = Idle /\ UNCHANGED reader
         \/ reader' = Idle /\ UNCHANGED script
  BY DEF Crash
<1>2. InboxTyped'
  BY <1>1 DEF Typed, InboxTyped
<1> QED BY <1>1, <1>2, RowsStay, IdleTyped DEF Typed

\* At the start everything is typed.
LEMMA InitTyped ==
  ASSUME Init
  PROVE  Typed
<1>1. payouts = <<>> /\ lines = <<>> /\ batches = <<>> /\ script = Idle /\ reader = Idle
  BY DEF Init
<1>2. RowsTyped
  BY DEF Init, RowsTyped
<1>3. FilesTyped /\ InboxTyped
  BY DEF Init, FilesTyped, InboxTyped
<1>4. ScriptTyped /\ ReaderTyped
  BY <1>1 DEF Idle, ScriptTyped, ReaderTyped, UploadPC
<1> QED BY <1>2, <1>3, <1>4 DEF Typed

\* Every step keeps the types.
LEMMA NextTyped ==
  ASSUME SentApartInv, Typed, [Next]_vars
  PROVE  Typed'
<1>1. ASSUME NEW c \in Credit, Earn(c) PROVE Typed'
  BY <1>1, EarnTyped
<1>2. CASE Schedule
  BY <1>2, SchedulePayoutsTyped, ScheduleLinesTyped DEF Schedule
<1>3. CASE Upload
  BY <1>3, UploadTyped
<1>4. CASE Transfer
  BY <1>4, NextTenantTyped, SendPaymentTyped, SendSummaryTyped, SendLinesTyped,
     FailUploadTyped, MarkSentTyped, CloseBatchTyped DEF Transfer
<1>5. CASE Report
  BY <1>5, ReportTyped
<1>6. CASE Read
  BY <1>6, ListTyped, DownloadTyped, MarkRowTyped, CountRowTyped, PayRowTyped,
     RemoveFileTyped DEF Read
<1>7. CASE Crash
  BY <1>7, CrashTyped
<1>8. CASE UNCHANGED vars
  <2>1. /\ UNCHANGED rows
        /\ UNCHANGED <<bucket, ftp, inbox, script, reader, files, failures, crashes>>
    BY <1>8 DEF vars
  <2> QED BY <2>1, RowsStay DEF Typed
<1> QED BY <1>1, <1>2, <1>3, <1>4, <1>5, <1>6, <1>7, <1>8 DEF Next

\* The rows, files and status files have the shape that their entities and writers give
\* them: for any packages, credits, batches and failures, processes lost included.
THEOREM TypeCorrect == Spec => []TypeOK
<1>1. Init => SentApartInv /\ Typed
  BY InitApart, InitTyped
<1>2. SentApartInv /\ Typed /\ [Next]_vars => SentApartInv' /\ Typed'
  BY NextApart, NextTyped
<1>3. Typed => TypeOK
  BY TypedTypeOK
<1> QED BY <1>1, <1>2, <1>3, PTL DEF Spec

------------------------------------------------------------------------------
(* The invariant of the counting, while no process is lost *)

\* What belongs to a job is paid together: its credits are earned and scheduled in one
\* step, its lines have one payout, of its tenant; and no line of it is made later.
OneFor ==
  \A l, k \in DOMAIN lines : lines[l].job = lines[k].job => lines[l].payout = lines[k].payout

CreditsTogether ==
  \A c, d \in Credit : c.job = d.job =>
    /\ paidBy[c] = NotEarned => paidBy[d] = NotEarned
    /\ paidBy[c] = Payable => paidBy[d] = Payable

TenantsAgree ==
  /\ \A c \in Credit : paidBy[c] \in DOMAIN payouts =>
                         payouts[paidBy[c]].tenant = PrincipalGroup[c.job]
  /\ \A l \in DOMAIN lines : payouts[lines[l].payout].tenant = PrincipalGroup[lines[l].job]

NewJobs ==
  /\ \A l \in DOMAIN lines : \A c \in Credit :
       c.job = lines[l].job => paidBy[c] \in DOMAIN payouts
  /\ script.pc = "scheduleLines" =>
       \A l \in DOMAIN lines : \A c \in script.credits : c.job # lines[l].job

PerJob == OneFor /\ CreditsTogether /\ TenantsAgree /\ NewJobs

\* What the second script has in memory and may still save is as it loaded it.
Held ==
  script.pc \in UploadPC =>
    /\ \A p \in Pending : payouts[p] = script.loaded[p] /\ payouts[p].status = "SCHEDULED"
    /\ \A l \in script.lines : lines[l].payout \in DOMAIN script.loaded
    /\ script.pc \in InBatch => \A l \in script.ids : lines[l].payout \in script.payouts
    /\ script.pc \in InBatch \ {"close"} => ~script.sent

\* SAP hears only of jobs whose payouts are no longer scheduled, or are about to be sent.
SentJob(j) ==
  /\ \E l \in DOMAIN lines : lines[l].job = j
  /\ \A l \in DOMAIN lines : lines[l].job = j => payouts[lines[l].payout].status # "SCHEDULED"

Marking == script.pc = "mark" \/ (script.pc = "close" /\ script.sent)

BeingSent(j) ==
  /\ Marking
  /\ \E l \in DOMAIN lines : lines[l].job = j
  /\ \A l \in DOMAIN lines : lines[l].job = j => lines[l].payout \in script.payouts

ToldOf(seq) == \A i \in DOMAIN seq : seq[i] # Invalid => SentJob(seq[i][1])

BucketTold == \A f \in bucket : f.kind = "lines" =>
                \A r \in f.content : SentJob(r.job) \/ BeingSent(r.job)
InboxTold  == \A f \in inbox : ToldOf(f.rows)
ReaderTold ==
  /\ reader.pc \in {"row", "count", "pay"} => ToldOf(reader.rows)
  /\ reader.pc = "pay" => payouts[reader.payout].status # "SCHEDULED"

Told == BucketTold /\ InboxTold /\ ReaderTold

\* The lines that were marked and are still to be counted, and the payout that is still
\* to be compared.
Counting     == IF reader.pc = "count" THEN Reported(Head(reader.rows)) ELSE {}
OfPayout(p)  == {l \in DOMAIN lines : lines[l].payout = p}
PaidLines(p) == {l \in OfPayout(p) : lines[l].status = "PAID"}
Open(p) == \/ reader.pc = "count" /\ \E l \in Counting : lines[l].payout = p
           \/ reader.pc = "pay" /\ reader.payout = p

InHand == reader.pc = "count" => Counting # {} /\ \A l \in Counting : lines[l].status = "PAID"

Processed ==
  \A p \in DOMAIN payouts : payouts[p].processed = CostOf(lines, PaidLines(p) \ Counting)

PaidUp ==
  \A p \in DOMAIN payouts :
    /\ ~Open(p) /\ OfPayout(p) # {} /\ PaidLines(p) = OfPayout(p)
    /\ CostOf(lines, OfPayout(p)) = payouts[p].amount
    => payouts[p].status = "PAID"

Counts == InHand /\ Processed /\ PaidUp

CountedInv == PerJob /\ Held /\ Told /\ Counts

------------------------------------------------------------------------------
(* What a step leaves alone *)

LinesKept ==
  /\ DOMAIN lines' = DOMAIN lines
  /\ \A l \in DOMAIN lines :
       /\ lines'[l].job = lines[l].job /\ lines'[l].owner = lines[l].owner
       /\ lines'[l].payout = lines[l].payout /\ lines'[l].cost = lines[l].cost

PaidKept == \A l \in DOMAIN lines : lines'[l].status = "PAID" <=> lines[l].status = "PAID"

PayoutsKept ==
  /\ DOMAIN payouts' = DOMAIN payouts
  /\ \A p \in DOMAIN payouts :
       /\ payouts'[p].tenant = payouts[p].tenant
       /\ payouts[p].status # "SCHEDULED" => payouts'[p].status # "SCHEDULED"

CountsKept ==
  \A p \in DOMAIN payouts :
    /\ payouts'[p].processed = payouts[p].processed /\ payouts'[p].amount = payouts[p].amount
    /\ payouts[p].status = "PAID" => payouts'[p].status = "PAID"

SentStay == \A j : SentJob(j) => SentJob(j)'

\* Where no row changes, lines, payouts and counts are kept.
LEMMA RowsKept ==
  ASSUME UNCHANGED rows
  PROVE  LinesKept /\ PaidKept /\ PayoutsKept /\ CountsKept
BY DEF rows, LinesKept, PaidKept, PayoutsKept, CountsKept

\* Each line is of a payout.
LEMMA PayoutOfLine ==
  ASSUME Typed, NEW l \in DOMAIN lines
  PROVE  lines[l].payout \in DOMAIN payouts
BY DEF Typed, RowsTyped

\* What belongs to a job stays together while no line is made.
LEMMA PerJobStays ==
  ASSUME Typed, PerJob, UNCHANGED paidBy, LinesKept, PayoutsKept,
         script'.pc # "scheduleLines" \/ UNCHANGED script
  PROVE  PerJob'
<1>1. OneFor'
  BY DEF PerJob, OneFor, LinesKept
<1>2. CreditsTogether'
  BY DEF PerJob, CreditsTogether
<1>3. TenantsAgree'
  <2>1. \A c \in Credit : paidBy'[c] \in DOMAIN payouts' =>
                         payouts'[paidBy'[c]].tenant = PrincipalGroup[c.job]
    BY DEF PerJob, TenantsAgree, PayoutsKept
  <2>2. \A l \in DOMAIN lines' : payouts'[lines'[l].payout].tenant = PrincipalGroup[lines'[l].job]
    BY PayoutOfLine DEF PerJob, TenantsAgree, PayoutsKept, LinesKept
  <2> QED BY <2>1, <2>2 DEF TenantsAgree
<1>4. NewJobs'
  BY DEF PerJob, NewJobs, LinesKept, PayoutsKept
<1> QED BY <1>1, <1>2, <1>3, <1>4 DEF PerJob

\* What was sent stays sent while lines and payouts are kept.
LEMMA SentStays ==
  ASSUME Typed, LinesKept, PayoutsKept
  PROVE  SentStay
<1>1. ASSUME NEW j, SentJob(j) PROVE SentJob(j)'
  BY <1>1, PayoutOfLine DEF SentJob, LinesKept, PayoutsKept
<1> QED BY <1>1 DEF SentStay

\* So what a file tells of what was sent goes on to be true:
LEMMA ToldStays ==
  ASSUME SentStay, NEW seq, ToldOf(seq)
  PROVE  ToldOf(seq)'
BY DEF ToldOf, SentStay

\* of the files that were sent,
LEMMA BucketStays ==
  ASSUME Told, SentStay, \A f \in bucket' : f \in bucket \/ f.kind # "lines",
         ~Marking \/ (Marking' /\ script'.payouts = script.payouts /\ LinesKept)
  PROVE  BucketTold'
<1>1. ASSUME NEW j, SentJob(j) PROVE SentJob(j)'
  BY <1>1 DEF SentStay
<1>2. ASSUME NEW j, BeingSent(j) PROVE BeingSent(j)'
  BY <1>2 DEF BeingSent, LinesKept
<1>3. ASSUME NEW f \in bucket', f.kind = "lines", NEW r \in f.content
      PROVE  SentJob(r.job)' \/ BeingSent(r.job)'
  <2>1. f \in bucket
    BY <1>3
  <2>2. SentJob(r.job) \/ BeingSent(r.job)
    BY <1>3, <2>1 DEF Told, BucketTold
  <2>3. PICK j : j = r.job
    OBVIOUS
  <2>4. SentJob(j)' \/ BeingSent(j)'
    BY <1>1, <1>2, <2>2, <2>3
  <2> QED BY <2>3, <2>4
<1> QED BY <1>3 DEF BucketTold

\* of those that SAP left,
LEMMA InboxStays ==
  ASSUME Told, SentStay, inbox' \subseteq inbox
  PROVE  InboxTold'
BY ToldStays DEF Told, InboxTold

\* and of the one that is being read.
LEMMA ReaderStays ==
  ASSUME Typed, Told, SentStay, PayoutsKept, UNCHANGED reader
  PROVE  ReaderTold'
<1>1. reader.pc \in {"row", "count", "pay"} => ToldOf(reader.rows)'
  <2>1. PICK seq : seq = reader.rows
    OBVIOUS
  <2>2. reader.pc \in {"row", "count", "pay"} => ToldOf(seq)
    BY <2>1 DEF Told, ReaderTold
  <2>3. reader.pc \in {"row", "count", "pay"} => ToldOf(seq)'
    BY <2>2, ToldStays
  <2> QED BY <2>1, <2>3
<1>2. reader.pc = "pay" => payouts'[reader.payout].status # "SCHEDULED"
  BY DEF Told, ReaderTold, PayoutsKept, Typed, ReaderTyped
<1> QED BY <1>1, <1>2 DEF ReaderTold

\* The second script's payouts are as it loaded them while no step changes those.
LEMMA HeldStays ==
  ASSUME Held, UNCHANGED script, LinesKept, PayoutsKept, Typed, SentApartInv,
         script.pc \in UploadPC => \A p \in Pending : payouts'[p] = payouts[p]
  PROVE  Held'
<1>1. SUFFICES ASSUME script.pc \in UploadPC PROVE Held'
  BY DEF Held
<1>2. \A p \in DOMAIN script.loaded : p \in DOMAIN payouts
  BY <1>1, UploadMemory DEF IsUpload
<1>3. Pending' = Pending
  BY <1>2 DEF Pending, PayoutsKept, Left
<1>4. \A p \in Pending' : payouts'[p] = script'.loaded[p] /\ payouts'[p].status = "SCHEDULED"
  BY <1>1, <1>3 DEF Held
<1>5. script.lines \subseteq DOMAIN lines /\ script.ids \subseteq DOMAIN lines
  BY <1>1 DEF Typed, ScriptTyped
<1>6. /\ \A l \in script'.lines : lines'[l].payout \in DOMAIN script'.loaded
      /\ script'.pc \in InBatch => \A l \in script'.ids : lines'[l].payout \in script'.payouts
      /\ script'.pc \in InBatch \ {"close"} => ~script'.sent
  BY <1>1, <1>5 DEF Held, LinesKept
<1> QED BY <1>4, <1>6 DEF Held

\* A script that does not upload holds nothing.
LEMMA NothingHeld ==
  script'.pc \notin UploadPC => Held'
BY DEF Held

\* The lines in hand are lines.
LEMMA CountingLines ==
  Counting \subseteq DOMAIN lines
BY DEF Counting, Reported

\* The lines of a payout stay the same, and those of them that are paid.
LEMMA LinesStay ==
  ASSUME LinesKept, NEW p
  PROVE  /\ OfPayout(p)' = OfPayout(p)
         /\ PaidKept => PaidLines(p)' = PaidLines(p)
<1>1. OfPayout(p)' = OfPayout(p)
  BY DEF OfPayout, LinesKept
<1>2. PaidKept => PaidLines(p)' = PaidLines(p)
  BY <1>1 DEF PaidLines, PaidKept, OfPayout
<1> QED BY <1>1, <1>2

\* The lines that a row reports stay the same.
LEMMA ReportedStay ==
  ASSUME LinesKept, NEW row
  PROVE  Reported(row)' = Reported(row)
BY DEF LinesKept, Reported

\* Lines cost what they cost before.
LEMMA CostStays ==
  ASSUME Typed, LinesKept, NEW S, S \subseteq DOMAIN lines
  PROVE  CostOf(lines', S) = CostOf(lines, S)
<1>1. PICK a, b : a = lines /\ b = lines'
  OBVIOUS
<1>2. IsFiniteSet(S)
  BY LinesTyped
<1>3. \A i \in S : a[i].cost = b[i].cost
  BY <1>1 DEF LinesKept
<1>4. CostOf(a, S) = CostOf(b, S)
  BY <1>2, <1>3, CostsAgree
<1> QED BY <1>1, <1>4

\* The counts agree with the lines while neither changes.
LEMMA CountsStay ==
  ASSUME Typed, Counts, LinesKept, PaidKept, DOMAIN payouts' = DOMAIN payouts, CountsKept,
         UNCHANGED reader \/ {reader.pc, reader'.pc} \cap {"count", "pay"} = {}
  PROVE  Counts'
<1>1. Counting' = Counting
  <2>1. CASE {reader.pc, reader'.pc} \cap {"count", "pay"} = {}
    BY <2>1 DEF Counting
  <2>2. CASE UNCHANGED reader
    <3>1. PICK row : row = Head(reader.rows)
      OBVIOUS
    <3>2. row = Head(reader'.rows)
      BY <2>2, <3>1
    <3>3. Reported(row)' = Reported(row)
      BY ReportedStay
    <3>4. Counting = IF reader.pc = "count" THEN Reported(row) ELSE {}
      BY <3>1 DEF Counting
    <3>5. Counting' = IF reader'.pc = "count" THEN Reported(row)' ELSE {}
      BY <3>2 DEF Counting
    <3> QED BY <2>2, <3>3, <3>4, <3>5
  <2> QED BY <2>1, <2>2
<1>2. InHand'
  BY <1>1, CountingLines DEF Counts, InHand, PaidKept, Counting
<1>3. ASSUME NEW p \in DOMAIN payouts'
      PROVE  payouts'[p].processed = CostOf(lines', (PaidLines(p) \ Counting)')
  <2>1. payouts[p].processed = CostOf(lines, PaidLines(p) \ Counting)
    BY DEF Counts, Processed
  <2>2. PICK S : S = PaidLines(p) \ Counting
    OBVIOUS
  <2>3. S = (PaidLines(p) \ Counting)'
    BY <1>1, <2>2, LinesStay
  <2>4. S \subseteq DOMAIN lines
    BY <2>2 DEF PaidLines, OfPayout
  <2>5. CostOf(lines', S) = CostOf(lines, S)
    BY <2>4, CostStays
  <2>6. payouts'[p].processed = payouts[p].processed
    BY DEF CountsKept
  <2> QED BY <2>1, <2>2, <2>3, <2>5, <2>6
<1>4. Processed'
  BY <1>3 DEF Processed
<1>5. ASSUME NEW p \in DOMAIN payouts', ~Open(p)', OfPayout(p)' # {},
             PaidLines(p)' = OfPayout(p)', CostOf(lines', OfPayout(p)') = payouts'[p].amount
      PROVE  payouts'[p].status = "PAID"
  <2>1. OfPayout(p)' = OfPayout(p) /\ PaidLines(p)' = PaidLines(p)
    BY LinesStay
  <2>2. PICK S : S = OfPayout(p)
    OBVIOUS
  <2>3. CostOf(lines', S) = CostOf(lines, S)
    <3>1. S \subseteq DOMAIN lines
      BY <2>2 DEF OfPayout
    <3> QED BY <3>1, CostStays
  <2>4. payouts'[p].amount = payouts[p].amount
    BY DEF CountsKept
  <2>5. CostOf(lines, OfPayout(p)) = payouts[p].amount
    BY <1>5, <2>1, <2>2, <2>3, <2>4
  <2>6. ~Open(p)
    <3>1. CASE {reader.pc, reader'.pc} \cap {"count", "pay"} = {}
      BY <3>1 DEF Open
    <3>2. CASE UNCHANGED reader
      BY <1>1, <1>5, <3>2, CountingLines DEF Open, LinesKept
    <3> QED BY <3>1, <3>2
  <2>7. payouts[p].status = "PAID"
    BY <1>5, <2>1, <2>5, <2>6 DEF Counts, PaidUp
  <2> QED BY <2>7 DEF CountsKept
<1>6. PaidUp'
  BY <1>5 DEF PaidUp
<1> QED BY <1>2, <1>4, <1>6 DEF Counts

\* A step that leaves the rows and the scripts' memory alone, or ends it.
LEMMA Quiet ==
  ASSUME SentApartInv, Typed, CountedInv, UNCHANGED rows,
         UNCHANGED script \/ script'.pc \notin UploadPC \cup {"scheduleLines"}
  PROVE  /\ PerJob' /\ SentStay
         /\ Held'
         /\ UNCHANGED bucket /\ (UNCHANGED script \/ ~Marking) => BucketTold'
         /\ inbox' \subseteq inbox => InboxTold'
         /\ UNCHANGED reader => ReaderTold' /\ Counts'
         /\ {reader.pc, reader'.pc} \cap {"count", "pay"} = {} => Counts'
<1>1. LinesKept /\ PaidKept /\ PayoutsKept /\ CountsKept
  BY RowsKept
<1>2. UNCHANGED <<paidBy, payouts>> /\ DOMAIN payouts' = DOMAIN payouts
  BY DEF rows
<1>3. SentStay
  BY <1>1, SentStays
<1>4. PerJob'
  BY <1>1, <1>2, PerJobStays DEF CountedInv
<1>5. Held'
  <2>1. CASE UNCHANGED script
    BY <1>1, <1>2, <2>1, HeldStays DEF CountedInv
  <2> QED BY <2>1, NothingHeld
<1>6. UNCHANGED bucket /\ (UNCHANGED script \/ ~Marking) => BucketTold'
  <2>1. SUFFICES ASSUME UNCHANGED bucket, UNCHANGED script \/ ~Marking PROVE BucketTold'
    OBVIOUS
  <2>2. ~Marking \/ (Marking' /\ script'.payouts = script.payouts)
    BY <2>1 DEF Marking
  <2> QED BY <1>1, <1>3, <2>1, <2>2, BucketStays DEF CountedInv
<1>7. inbox' \subseteq inbox => InboxTold'
  BY <1>3, InboxStays DEF CountedInv
<1>8. UNCHANGED reader => ReaderTold' /\ Counts'
  BY <1>1, <1>2, <1>3, ReaderStays, CountsStay DEF CountedInv
<1>9. {reader.pc, reader'.pc} \cap {"count", "pay"} = {} => Counts'
  BY <1>1, <1>2, CountsStay DEF CountedInv
<1> QED BY <1>3, <1>4, <1>5, <1>6, <1>7, <1>8, <1>9

\* Listing the inbox keeps the invariant of what is counted,
LEMMA ListCounted ==
  ASSUME SentApartInv, Typed, CountedInv, List \/ EndOfList
  PROVE  CountedInv'
<1>1. /\ UNCHANGED rows /\ UNCHANGED script /\ UNCHANGED bucket /\ inbox' \subseteq inbox
      /\ {reader.pc, reader'.pc} \cap {"row", "count", "pay"} = {}
  BY DEF List, EndOfList, Reading, Idle
<1>2. ReaderTold'
  BY <1>1 DEF ReaderTold
<1> QED BY <1>1, <1>2, Quiet DEF CountedInv, Told

\* as does reading a file,
LEMMA DownloadCounted ==
  ASSUME SentApartInv, Typed, CountedInv, Download
  PROVE  CountedInv'
<1>1. /\ UNCHANGED rows /\ UNCHANGED script /\ UNCHANGED bucket /\ inbox' \subseteq inbox
      /\ reader.pc = "next"
  BY DEF Download, Reading
<1>2. PICK f \in inbox : \/ Begin(f, f.rows) \/ reader' = Idle
                        \/ \E n \in 0..(Len(f.rows) - 1) : Begin(f, SubSeq(f.rows, 1, n))
  BY DEF Download
<1>3. PICK seq : seq = f.rows
  OBVIOUS
<1>4. seq \in Named /\ seq # <<>> /\ ToldOf(seq)
  BY <1>3 DEF Typed, InboxTyped, CountedInv, Told, InboxTold
<1>5. ToldOf(seq)' /\ \A n \in 0..(Len(seq) - 1) : ToldOf(SubSeq(seq, 1, n))'
  <2>1. ASSUME NEW n \in 0..(Len(seq) - 1) PROVE ToldOf(SubSeq(seq, 1, n))
    <3>1. PICK part : part = SubSeq(seq, 1, n)
      OBVIOUS
    <3>2. DOMAIN part = 1..n /\ \A i \in 1..n : i \in DOMAIN seq /\ part[i] = seq[i]
      BY <1>4, <3>1, BeginningNamed
    <3>3. ToldOf(part)
      BY <1>4, <3>2 DEF ToldOf
    <3> QED BY <3>1, <3>3
  <2>2. SentStay
    BY <1>1, Quiet
  <2>3. ASSUME NEW n \in 0..(Len(seq) - 1) PROVE ToldOf(SubSeq(seq, 1, n))'
    <3>1. PICK part : part = SubSeq(seq, 1, n)
      OBVIOUS
    <3>2. ToldOf(part)'
      BY <2>1, <2>2, <3>1, ToldStays
    <3>3. part = SubSeq(seq, 1, n)
      BY <3>1
    <3> QED BY <3>2, <3>3
  <2>4. ToldOf(seq)'
    BY <1>4, <2>2, ToldStays
  <2> QED BY <2>3, <2>4
<1>6. ReaderTold' /\ reader'.pc \in {"row", "idle"}
  <2>1. ASSUME NEW q, ToldOf(q)', Begin(f, q) PROVE ReaderTold' /\ reader'.pc = "row"
    <3>1. reader'.pc = "row" /\ reader'.rows = q
      BY <2>1 DEF Begin
    <3> QED BY <2>1, <3>1 DEF ReaderTold
  <2>2. CASE reader' = Idle
    BY <2>2 DEF ReaderTold, Idle
  <2>3. ASSUME NEW n \in 0..(Len(seq) - 1), Begin(f, SubSeq(seq, 1, n))
        PROVE  ReaderTold' /\ reader'.pc = "row"
    <3>1. PICK part : part = SubSeq(seq, 1, n)
      OBVIOUS
    <3> QED BY <1>5, <2>1, <2>3, <3>1
  <2> QED BY <1>2, <1>3, <1>5, <2>1, <2>2, <2>3 DEF Idle
<1>7. {reader.pc, reader'.pc} \cap {"count", "pay"} = {}
  BY <1>1, <1>6
<1> QED BY <1>1, <1>6, <1>7, Quiet DEF CountedInv, Told

\* and removing it.
LEMMA RemoveFileCounted ==
  ASSUME SentApartInv, Typed, CountedInv, RemoveFile
  PROVE  CountedInv'
<1>1. /\ UNCHANGED rows /\ UNCHANGED script /\ UNCHANGED bucket /\ inbox' \subseteq inbox
      /\ reader.pc = "row" /\ reader'.pc = "next"
  BY DEF RemoveFile, Reading
<1>2. ReaderTold'
  BY <1>1 DEF ReaderTold
<1>3. {reader.pc, reader'.pc} \cap {"count", "pay"} = {}
  BY <1>1
<1> QED BY <1>1, <1>2, <1>3, Quiet DEF CountedInv, Told

\* SAP reports jobs of a batch that it has, while nothing is being sent.
LEMMA ReportCounted ==
  ASSUME SentApartInv, Typed, CountedInv, Report
  PROVE  CountedInv'
<1>1. /\ UNCHANGED rows /\ script = Idle
      /\ UNCHANGED <<bucket, script, reader>>
  BY DEF Report
<1>2. ~Marking
  BY <1>1 DEF Marking, Idle
<1>3. PICK b \in DOMAIN batches :
        LET pairs == UNION {{<<r.job, r.vendor>> : r \in f.content} :
                              f \in {g \in bucket : g.batch = b /\ g.kind = "lines"}}
        IN  \E r1 \in pairs : \E r2 \in (pairs \ {r1}) \cup {Invalid} :
              inbox' = inbox \cup {[name |-> files', rows |-> <<r1, r2>>]}
  BY Zenon DEF Report
<1>4. PICK pairs : pairs = UNION {{<<r.job, r.vendor>> : r \in f.content} :
                              f \in {g \in bucket : g.batch = b /\ g.kind = "lines"}}
  OBVIOUS
<1>5. \A x \in pairs : SentJob(x[1])
  <2>1. ASSUME NEW f \in bucket, f.kind = "lines", NEW r \in f.content PROVE SentJob(r.job)
    BY <1>2, <2>1 DEF CountedInv, Told, BucketTold, BeingSent
  <2>2. ASSUME NEW x \in pairs PROVE SentJob(x[1])
    <3>1. PICK f \in bucket : f.kind = "lines" /\ \E r \in f.content : x = <<r.job, r.vendor>>
      BY <1>4, <2>2
    <3>2. PICK r \in f.content : x = <<r.job, r.vendor>>
      BY <3>1
    <3>3. PICK j : j = r.job
      OBVIOUS
    <3>4. SentJob(j)
      BY <2>1, <3>1, <3>3
    <3>5. x[1] = j
      BY <3>2, <3>3
    <3> QED BY <3>4, <3>5
  <2> QED BY <2>2
<1>6. PICK r1 \in pairs : \E r2 \in (pairs \ {r1}) \cup {Invalid} :
              inbox' = inbox \cup {[name |-> files', rows |-> <<r1, r2>>]}
  BY <1>3, <1>4, Zenon
<1>7. PICK r2 \in (pairs \ {r1}) \cup {Invalid} :
              inbox' = inbox \cup {[name |-> files', rows |-> <<r1, r2>>]}
  BY <1>6
<1>8. PICK seq : seq = <<r1, r2>>
  OBVIOUS
<1>9. ToldOf(seq)
  <2>1. DOMAIN seq = {1, 2} /\ seq[1] = r1 /\ seq[2] = r2
    BY <1>8
  <2> QED BY <1>5, <2>1 DEF ToldOf
<1>10. SentStay
  BY <1>1, Quiet
<1>11. ToldOf(seq)'
  BY <1>9, <1>10, ToldStays
<1>12. InboxTold'
  <2>1. ASSUME NEW f \in inbox PROVE ToldOf(f.rows)'
    BY <1>10, ToldStays DEF CountedInv, Told, InboxTold
  <2>2. PICK e : e = [name |-> files', rows |-> seq]
    OBVIOUS
  <2>3. inbox' = inbox \cup {e}
    BY <1>7, <1>8, <2>2
  <2>4. ToldOf(e.rows)'
    BY <1>11, <2>2
  <2>5. \A f \in inbox' : ToldOf(f.rows)'
    BY <2>1, <2>3, <2>4
  <2> QED BY <2>5 DEF InboxTold
<1> QED BY <1>1, <1>12, Quiet DEF CountedInv, Told

\* What is earned is payable together with what else its job earned.
LEMMA EarnCounted ==
  ASSUME Together, SentApartInv, Typed, CountedInv, NEW c \in Credit, Earn(c)
  PROVE  CountedInv'
<1>1. /\ UNCHANGED <<payouts, lines, batches, bucket, inbox, script, reader>>
      /\ paidBy[c] = NotEarned
      /\ paidBy' = [d \in Credit |->
                  IF d = c \/ (Together /\ d.job = c.job /\ paidBy[d] = NotEarned)
                  THEN Payable ELSE paidBy[d]]
  BY DEF Earn
<1>2. LinesKept /\ PaidKept /\ PayoutsKept /\ CountsKept /\ DOMAIN payouts' = DOMAIN payouts
  BY <1>1 DEF LinesKept, PaidKept, PayoutsKept, CountsKept
<1>3. \A d \in Credit : d.job = c.job => paidBy[d] = NotEarned
  BY <1>1 DEF CountedInv, PerJob, CreditsTogether
<1>4. \A d \in Credit : paidBy'[d] = IF d.job = c.job THEN Payable ELSE paidBy[d]
  BY <1>1, <1>3
<1>5. DOMAIN payouts \subseteq Nat \ {0}
  <2>1. payouts \in Seq(PayoutRow)
    BY DEF Typed, RowsTyped
  <2>2. PICK n \in Nat : DOMAIN payouts = 1..n
    BY <2>1
  <2> QED BY <2>2
<1>6. NotEarned \notin DOMAIN payouts /\ Payable \notin DOMAIN payouts /\ NotEarned # Payable
  BY <1>5 DEF NotEarned, Payable
<1>7. PerJob'
  <2>1. OneFor'
    BY <1>1 DEF CountedInv, PerJob, OneFor
  <2>2. CreditsTogether'
    BY <1>4, <1>6 DEF CountedInv, PerJob, CreditsTogether
  <2>3. TenantsAgree'
    BY <1>1, <1>4, <1>6 DEF CountedInv, PerJob, TenantsAgree
  <2>4. NewJobs'
    BY <1>1, <1>3, <1>4, <1>6 DEF CountedInv, PerJob, NewJobs
  <2> QED BY <2>1, <2>2, <2>3, <2>4 DEF PerJob
<1>8. SentStay
  BY <1>2, SentStays
<1>9. Held'
  BY <1>1, <1>2, HeldStays DEF CountedInv
<1>10. BucketTold'
  <2>1. ~Marking \/ (Marking' /\ script'.payouts = script.payouts)
    BY <1>1 DEF Marking
  <2> QED BY <1>1, <1>2, <1>8, <2>1, BucketStays DEF CountedInv
<1>11. InboxTold' /\ ReaderTold'
  BY <1>1, <1>2, <1>8, InboxStays, ReaderStays DEF CountedInv
<1>12. Counts'
  BY <1>1, <1>2, CountsStay DEF CountedInv
<1> QED BY <1>7, <1>9, <1>10, <1>11, <1>12 DEF CountedInv, Told

\* The second script loads payouts as they are.
LEMMA UploadCounted ==
  ASSUME SentApartInv, Typed, CountedInv, Upload
  PROVE  CountedInv'
<1> DEFINE scheduled == {p \in DOMAIN payouts : payouts[p].status = "SCHEDULED"}
<1>1. /\ UNCHANGED rows /\ UNCHANGED <<bucket, inbox, reader>> /\ script = Idle
      /\ script' = [pc |-> "batch", tenants |-> Tenant,
                    loaded |-> [p \in scheduled |-> payouts[p]],
                    lines |-> {l \in DOMAIN lines : lines[l].payout \in scheduled},
                    payouts |-> {}, ids |-> {}, outcome |-> "SCHEDULED", sent |-> FALSE]
  BY DEF Upload
<1>2. PICK s : s = script'
  OBVIOUS
<1>3. /\ s.pc = "batch" /\ DOMAIN s.loaded = scheduled /\ s.sent = FALSE
      /\ s.lines = {l \in DOMAIN lines : lines[l].payout \in scheduled}
      /\ \A p \in scheduled : s.loaded[p] = payouts[p]
  BY <1>1, <1>2
<1>4. UNCHANGED <<paidBy, payouts, lines>> /\ DOMAIN payouts' = DOMAIN payouts
  BY <1>1 DEF rows
<1>5. LinesKept /\ PaidKept /\ PayoutsKept /\ CountsKept
  BY <1>1, RowsKept
<1>6. Held'
  <2>1. \A p \in Pending' : payouts'[p] = script'.loaded[p] /\ payouts'[p].status = "SCHEDULED"
    BY <1>2, <1>3, <1>4 DEF Pending
  <2>2. \A l \in script'.lines : lines'[l].payout \in DOMAIN script'.loaded
    BY <1>2, <1>3, <1>4
  <2>3. script'.pc \notin InBatch
    BY <1>2, <1>3 DEF InBatch, UploadPC
  <2> QED BY <2>1, <2>2, <2>3 DEF Held
<1>7. PerJob'
  <2>1. script'.pc # "scheduleLines"
    BY <1>2, <1>3
  <2> QED BY <1>4, <1>5, <2>1, PerJobStays DEF CountedInv
<1>8. SentStay
  BY <1>5, SentStays
<1>9. BucketTold'
  <2>1. ~Marking
    BY <1>1 DEF Marking, Idle
  <2> QED BY <1>1, <1>8, <2>1, BucketStays DEF CountedInv
<1>10. InboxTold' /\ ReaderTold' /\ Counts'
  BY <1>1, <1>4, <1>5, <1>8, InboxStays, ReaderStays, CountsStay DEF CountedInv
<1> QED BY <1>6, <1>7, <1>9, <1>10 DEF CountedInv, Told

\* What the next tenant's turn and the sending of a file leave alone: all that is counted.
LEMMA Sending ==
  ASSUME SentApartInv, Typed, CountedInv, script'.pc # "scheduleLines",
         UNCHANGED <<paidBy, lines, inbox, reader>>, PayoutsKept, CountsKept
  PROVE  PerJob' /\ SentStay /\ LinesKept /\ InboxTold' /\ ReaderTold' /\ Counts'
<1>1. LinesKept /\ PaidKept /\ DOMAIN payouts' = DOMAIN payouts
  BY DEF LinesKept, PaidKept, PayoutsKept
<1>2. SentStay
  BY <1>1, SentStays
<1>3. PerJob'
  BY <1>1, PerJobStays DEF CountedInv
<1> QED BY <1>1, <1>2, <1>3, InboxStays, ReaderStays, CountsStay DEF CountedInv

\* While the script has what it loaded, a save leaves the rows as they are.
LEMMA SavedStay ==
  ASSUME SentApartInv, Typed, Held, script.pc \in UploadPC, NEW P, P \subseteq Pending
  PROVE  Saved(P, FALSE) = payouts
<1>1. \A p \in P : payouts[p] = script.loaded[p]
  BY DEF Held
<1>2. PICK a : a = payouts
  OBVIOUS
<1>3. a = [p \in DOMAIN a |-> a[p]]
  <2>1. a \in Seq(PayoutRow)
    BY <1>2 DEF Typed, RowsTyped
  <2> QED BY <2>1
<1>4. Saved(P, FALSE) = [p \in DOMAIN a |-> a[p]]
  BY <1>1, <1>2 DEF Saved
<1> QED BY <1>2, <1>3, <1>4

\* Where no payout changes, payouts and counts are kept.
LEMMA SamePayouts ==
  ASSUME UNCHANGED payouts
  PROVE  PayoutsKept /\ CountsKept
BY DEF PayoutsKept, CountsKept

\* The next batch is of payouts that are as they were loaded.
LEMMA NextTenantCounted ==
  ASSUME SentApartInv, Typed, CountedInv, NextTenant
  PROVE  CountedInv'
<1>1. /\ script.pc = "batch" /\ UNCHANGED <<paidBy, lines, bucket, inbox, reader>>
  BY DEF NextTenant, Uploading
<1>2. script.pc \in UploadPC /\ IsUpload(script)
  BY <1>1, UploadMemory DEF UploadPC
<1>3. PICK s, q : s = script /\ q = script'
  OBVIOUS
<1>4. PICK t, P, L : /\ t = Head(s.tenants) /\ P = PayoutsOf(DOMAIN s.loaded, t)
                     /\ L = LinesOf(s.lines, t)
  OBVIOUS
<1>5. \/ q = Idle /\ UNCHANGED payouts
      \/ s.tenants # <<>> /\ q = [s EXCEPT !.tenants = Tail(@)] /\ UNCHANGED payouts
      \/ /\ s.tenants # <<>> /\ payouts' = Saved(P, FALSE)
         /\ q = [s EXCEPT !.pc = "payment", !.tenants = Tail(@),
                            !.payouts = P, !.ids = L, !.outcome = "SCHEDULED", !.sent = FALSE]
  BY <1>3, <1>4, Zenon DEF NextTenant
<1>6. s.tenants # <<>> => Turns(Tail(s.tenants)) \subseteq Turns(s.tenants) /\ t \in Turns(s.tenants)
  BY <1>2, <1>3, <1>4, TenantsLeft DEF IsUpload
<1>7. s.tenants # <<>> => P \subseteq Pending
  BY <1>3, <1>4, <1>6 DEF PayoutsOf, Pending, Left
<1>8. UNCHANGED payouts
  BY <1>2, <1>5, <1>7, SavedStay DEF CountedInv
<1>9. PayoutsKept /\ CountsKept
  BY <1>8, SamePayouts
<1>10. ~Marking
  BY <1>1 DEF Marking
<1>11. PICK rest : rest = Tail(s.tenants)
  OBVIOUS
<1>12. CASE q = Idle
  <2>1. q.pc = "idle"
    BY <1>12 DEF Idle
  <2>2. script'.pc # "scheduleLines" /\ Held'
    BY <1>3, <2>1, NothingHeld DEF UploadPC
  <2>3. PerJob' /\ SentStay /\ InboxTold' /\ ReaderTold' /\ Counts'
    BY <1>1, <1>9, <2>2, Sending
  <2>4. BucketTold'
    BY <1>1, <1>10, <2>3, BucketStays DEF CountedInv
  <2> QED BY <2>2, <2>3, <2>4 DEF CountedInv, Told
<1>13. ASSUME s.tenants # <<>>, q.tenants = rest, q.loaded = s.loaded, q.lines = s.lines,
              \/ q.pc = "batch"
              \/ q.pc = "payment" /\ q.payouts = P /\ q.ids = L /\ q.sent = FALSE
       PROVE  CountedInv'
  <2>1. Pending' \subseteq Pending
    <3>1. ASSUME NEW p \in DOMAIN s.loaded,
                 payouts[p].tenant \in Turns(rest) \/ (q.pc = "payment" /\ p \in P)
          PROVE  p \in Pending
      BY <1>3, <1>6, <1>7, <1>11, <1>13, <3>1 DEF Pending, Left
    <3>2. Pending' = {p \in DOMAIN q.loaded : \/ payouts[p].tenant \in Turns(q.tenants)
                                              \/ q.pc \in InBatch /\ p \in q.payouts}
      BY <1>3, <1>8 DEF Pending, Left
    <3>3. ASSUME NEW p \in Pending' PROVE p \in Pending
      <4>1. /\ p \in DOMAIN q.loaded
            /\ payouts[p].tenant \in Turns(q.tenants) \/ (q.pc \in InBatch /\ p \in q.payouts)
        BY <3>2, <3>3, Zenon
      <4>2. p \in DOMAIN s.loaded
        BY <1>13, <4>1
      <4>3. payouts[p].tenant \in Turns(rest) \/ (q.pc = "payment" /\ p \in P)
        BY <1>13, <4>1 DEF InBatch
      <4> QED BY <3>1, <4>2, <4>3
    <3> QED BY <3>3
  <2>2. \A p \in Pending : payouts[p] = s.loaded[p] /\ payouts[p].status = "SCHEDULED"
    BY <1>2, <1>3 DEF CountedInv, Held
  <2>3. \A l \in s.lines : lines[l].payout \in DOMAIN s.loaded /\ l \in DOMAIN lines
    BY <1>2, <1>3 DEF CountedInv, Held, Typed, ScriptTyped
  <2>4. \A l \in L : lines[l].payout \in P
    <3>1. ASSUME NEW l \in L PROVE lines[l].payout \in P
      <4>1. l \in s.lines /\ PrincipalGroup[lines[l].job] = t
        BY <1>4 DEF LinesOf
      <4>2. payouts[lines[l].payout].tenant = t
        BY <2>3, <4>1 DEF CountedInv, PerJob, TenantsAgree
      <4> QED BY <1>4, <2>3, <4>1, <4>2 DEF PayoutsOf
    <3> QED BY <3>1
  <2>5. Held'
    <3>1. \A p \in Pending' : payouts'[p] = script'.loaded[p] /\ payouts'[p].status = "SCHEDULED"
      BY <1>3, <1>8, <1>13, <2>1, <2>2
    <3>2. \A l \in script'.lines : lines'[l].payout \in DOMAIN script'.loaded
      BY <1>1, <1>3, <1>13, <2>3
    <3>3. /\ script'.pc \in InBatch => \A l \in script'.ids : lines'[l].payout \in script'.payouts
          /\ script'.pc \in InBatch \ {"close"} => ~script'.sent
      BY <1>1, <1>3, <1>13, <2>4 DEF InBatch
    <3> QED BY <3>1, <3>2, <3>3 DEF Held
  <2>6. script'.pc # "scheduleLines"
    BY <1>3, <1>13
  <2>7. PerJob' /\ SentStay /\ InboxTold' /\ ReaderTold' /\ Counts'
    BY <1>1, <1>9, <2>6, Sending
  <2>8. BucketTold'
    BY <1>1, <1>10, <2>7, BucketStays DEF CountedInv
  <2> QED BY <2>5, <2>7, <2>8 DEF CountedInv, Told
<1>14. CASE s.tenants # <<>> /\ q = [s EXCEPT !.tenants = Tail(@)]
  <2>1. q.tenants = rest /\ q.loaded = s.loaded /\ q.lines = s.lines /\ q.pc = "batch"
    BY <1>1, <1>2, <1>3, <1>11, <1>14 DEF IsUpload
  <2> QED BY <1>13, <1>14, <2>1
<1>15. CASE /\ s.tenants # <<>>
            /\ q = [s EXCEPT !.pc = "payment", !.tenants = Tail(@),
                            !.payouts = P, !.ids = L, !.outcome = "SCHEDULED", !.sent = FALSE]
  <2>1. q.tenants = rest /\ q.loaded = s.loaded /\ q.lines = s.lines /\ q.pc = "payment"
        /\ q.payouts = P /\ q.ids = L /\ q.sent = FALSE
    BY <1>1, <1>2, <1>3, <1>11, <1>15 DEF IsUpload
  <2> QED BY <1>13, <1>15, <2>1
<1> QED BY <1>5, <1>12, <1>14, <1>15

\* The script goes on with its batch, with what it has in memory.
SameMemory ==
  /\ script'.tenants = script.tenants /\ script'.loaded = script.loaded
  /\ script'.lines = script.lines /\ script'.payouts = script.payouts /\ script'.ids = script.ids

\* They stay so while the files are sent.
LEMMA HeldOn ==
  ASSUME SentApartInv, Typed, Held, script.pc \in InBatch, SameMemory, UNCHANGED payouts,
         LinesKept, script'.pc \in InBatch, script'.pc = "close" \/ ~script'.sent
  PROVE  Held'
<1>1. script.pc \in UploadPC
  BY DEF InBatch
<1>2. Pending' = Pending
  BY DEF Pending, Left, SameMemory
<1>3. \A p \in Pending' : payouts'[p] = script'.loaded[p] /\ payouts'[p].status = "SCHEDULED"
  BY <1>1, <1>2 DEF Held, SameMemory
<1>4. script.lines \subseteq DOMAIN lines /\ script.ids \subseteq DOMAIN lines
  BY <1>1 DEF Typed, ScriptTyped
<1>5. /\ \A l \in script'.lines : lines'[l].payout \in DOMAIN script'.loaded
      /\ \A l \in script'.ids : lines'[l].payout \in script'.payouts
  BY <1>1, <1>4 DEF Held, LinesKept, SameMemory
<1> QED BY <1>3, <1>5 DEF Held

\* A step of the script leaves what it has in memory.
LEMMA ContinueSame ==
  ASSUME IsUpload(script), NEW pc, Continue(pc)
  PROVE  SameMemory /\ script'.pc = pc /\ script'.sent = script.sent
<1>1. PICK s : s = script
  OBVIOUS
<1>2. script' = [pc |-> pc, tenants |-> s.tenants, loaded |-> s.loaded,
                 lines |-> s.lines, payouts |-> s.payouts, ids |-> s.ids,
                 outcome |-> s.outcome, sent |-> s.sent]
  BY <1>1, ContinueFields
<1> QED BY <1>1, <1>2 DEF SameMemory

\* A file other than the lines' is stored, or the batch fails.
LEMMA OtherFileCounted ==
  ASSUME SentApartInv, Typed, CountedInv,
         SendPayment \/ SendSummary \/ FailUpload
  PROVE  CountedInv'
<1>1. UNCHANGED rows /\ UNCHANGED <<inbox, reader>>
  BY DEF SendPayment, SendSummary, FailUpload
<1>2. script.pc \in {"payment", "summary", "lines"}
  BY DEF SendPayment, SendSummary, FailUpload, Uploading
<1>3. script.pc \in UploadPC /\ script.pc \in InBatch \ {"close"}
  BY <1>2 DEF UploadPC, InBatch
<1>4. IsUpload(script) /\ ~script.sent /\ ~Marking
  BY <1>2, <1>3, UploadMemory DEF CountedInv, Held, Marking
<1>5. SameMemory /\ script'.pc \in {"summary", "lines", "close"} /\ ~script'.sent
  <2>1. CASE SendPayment
    <3>1. Continue("summary")
      BY <2>1 DEF SendPayment
    <3> QED BY <1>4, <3>1, ContinueSame
  <2>2. CASE SendSummary
    <3>1. Continue("lines")
      BY <2>2 DEF SendSummary
    <3> QED BY <1>4, <3>1, ContinueSame
  <2>3. CASE FailUpload
    <3>1. PICK s, q : s = script /\ q = script'
      OBVIOUS
    <3>2. q = [s EXCEPT !.pc = "close", !.outcome = "FAILED"]
      BY <2>3, <3>1 DEF FailUpload
    <3>3. s = [pc |-> s.pc, tenants |-> s.tenants, loaded |-> s.loaded, lines |-> s.lines,
               payouts |-> s.payouts, ids |-> s.ids, outcome |-> s.outcome, sent |-> s.sent]
      BY <1>4, <3>1 DEF IsUpload
    <3>4. /\ q.pc = "close" /\ q.tenants = s.tenants /\ q.loaded = s.loaded /\ q.lines = s.lines
          /\ q.payouts = s.payouts /\ q.ids = s.ids /\ q.sent = s.sent
      BY <3>2, <3>3
    <3> QED BY <1>4, <3>1, <3>4 DEF SameMemory
  <2> QED BY <2>1, <2>2, <2>3
<1>6. \A f \in bucket' : f \in bucket \/ f.kind # "lines"
  BY DEF SendPayment, SendSummary, FailUpload, Store
<1>7. UNCHANGED <<paidBy, payouts, lines>> /\ PayoutsKept /\ CountsKept
  BY <1>1, SamePayouts DEF rows
<1>8. PerJob' /\ SentStay /\ LinesKept /\ InboxTold' /\ ReaderTold' /\ Counts'
  BY <1>1, <1>5, <1>7, Sending
<1>9. BucketTold'
  BY <1>4, <1>6, <1>8, BucketStays DEF CountedInv
<1>10. Held'
  <2>1. script'.pc \in InBatch
    BY <1>5 DEF InBatch, UploadPC
  <2> QED BY <1>3, <1>5, <1>7, <1>8, <2>1, HeldOn DEF CountedInv
<1> QED BY <1>8, <1>9, <1>10 DEF CountedInv, Told

\* SAP hears of the jobs of the batch, all whose lines have the payouts of the batch.
LEMMA SendLinesCounted ==
  ASSUME SentApartInv, Typed, CountedInv, SendLines
  PROVE  CountedInv'
<1>1. /\ UNCHANGED rows /\ UNCHANGED <<inbox, reader>> /\ script.pc = "lines"
      /\ Continue("mark") /\ Store("lines", LinesFile(script.ids))
  BY DEF SendLines, Uploading
<1>2. script.pc \in UploadPC /\ script.pc \in InBatch \ {"close"}
  BY <1>1 DEF UploadPC, InBatch
<1>3. IsUpload(script) /\ ~script.sent /\ ~Marking
  BY <1>1, <1>2, UploadMemory DEF CountedInv, Held, Marking
<1>4. SameMemory /\ script'.pc = "mark" /\ ~script'.sent
  BY <1>1, <1>3, ContinueSame
<1>5. UNCHANGED <<paidBy, payouts, lines>> /\ PayoutsKept /\ CountsKept
  BY <1>1, SamePayouts DEF rows
<1>6. PerJob' /\ SentStay /\ LinesKept /\ InboxTold' /\ ReaderTold' /\ Counts'
  BY <1>1, <1>4, <1>5, Sending
<1>7. Held'
  <2>1. script'.pc \in InBatch
    BY <1>4 DEF InBatch, UploadPC
  <2> QED BY <1>2, <1>4, <1>5, <1>6, <2>1, HeldOn DEF CountedInv
<1>8. ASSUME NEW l \in script.ids PROVE BeingSent(lines[l].job)'
  <2>1. script.ids \subseteq DOMAIN lines
    BY <1>2 DEF Typed, ScriptTyped
  <2>2. PICK j : j = lines[l].job
    OBVIOUS
  <2>3. \A k \in DOMAIN lines : lines[k].job = j => lines[k].payout = lines[l].payout
    BY <1>8, <2>1, <2>2 DEF CountedInv, PerJob, OneFor
  <2>4. lines[l].payout \in script.payouts
    BY <1>2, <1>8 DEF CountedInv, Held
  <2>5. Marking'
    BY <1>4 DEF Marking
  <2>6. BeingSent(j)'
    BY <1>4, <1>5, <1>8, <2>1, <2>2, <2>3, <2>4, <2>5 DEF BeingSent, SameMemory
  <2> QED BY <1>5, <2>2, <2>6
<1>9. ASSUME NEW f \in bucket', f.kind = "lines", NEW r \in f.content
      PROVE  SentJob(r.job)' \/ BeingSent(r.job)'
  <2>1. PICK j : j = r.job
    OBVIOUS
  <2>2. CASE f \in bucket
    <3>1. SentJob(j)
      BY <1>3, <1>9, <2>1, <2>2 DEF CountedInv, Told, BucketTold, BeingSent
    <3>2. SentJob(j)'
      BY <1>6, <3>1 DEF SentStay
    <3> QED BY <2>1, <3>2
  <2>3. CASE f \notin bucket
    <3>1. f.content = LinesFile(script.ids)
      BY <1>1, <2>3 DEF Store
    <3>2. PICK l \in script.ids : r = LinesRow(script.ids, l)
      BY <1>9, <3>1 DEF LinesFile
    <3>3. r.job = lines[l].job
      BY <3>2 DEF LinesRow
    <3>4. BeingSent(j)'
      <4>1. PICK i : i = lines[l].job
        OBVIOUS
      <4>2. i = lines'[l].job
        BY <1>5, <4>1
      <4>3. BeingSent(lines[l].job)'
        BY <1>8
      <4>4. BeingSent(i)'
        BY <4>2, <4>3
      <4> QED BY <2>1, <3>3, <4>1, <4>4
    <3> QED BY <2>1, <3>4
  <2> QED BY <2>2, <2>3
<1>10. BucketTold'
  BY <1>9 DEF BucketTold
<1> QED BY <1>6, <1>7, <1>10 DEF CountedInv, Told

\* When the lines are marked as sent, the payouts are still as loaded.
LEMMA MarkSentCounted ==
  ASSUME SentApartInv, Typed, CountedInv, MarkSent
  PROVE  CountedInv'
<1>1. /\ script.pc = "mark"
      /\ UNCHANGED <<paidBy, payouts, bucket, inbox, reader>>
  BY DEF MarkSent, Uploading
<1>2. script.pc \in UploadPC /\ script.pc \in InBatch /\ IsUpload(script)
  BY <1>1, UploadMemory DEF UploadPC, InBatch
<1>3. \/ /\ \A l \in script.ids : lines[l].status = "SCHEDULED"
         /\ lines' = [l \in DOMAIN lines |-> IF l \in script.ids
                       THEN [lines[l] EXCEPT !.status = "IN_TRANSIT"] ELSE lines[l]]
      \/ UNCHANGED lines
  BY DEF MarkSent
<1>4. PICK outcome : script' = [script EXCEPT !.pc = "close", !.outcome = outcome, !.sent = TRUE]
  BY DEF MarkSent
<1>5. SameMemory /\ script'.pc = "close" /\ script'.sent
  <2>1. PICK s, q : s = script /\ q = script'
    OBVIOUS
  <2>2. s = [pc |-> s.pc, tenants |-> s.tenants, loaded |-> s.loaded, lines |-> s.lines,
               payouts |-> s.payouts, ids |-> s.ids, outcome |-> s.outcome, sent |-> s.sent]
    BY <1>2, <2>1 DEF IsUpload
  <2>3. /\ q.pc = "close" /\ q.tenants = s.tenants /\ q.loaded = s.loaded /\ q.lines = s.lines
        /\ q.payouts = s.payouts /\ q.ids = s.ids /\ q.sent = TRUE
    BY <1>4, <2>1, <2>2
  <2> QED BY <2>1, <2>3 DEF SameMemory
<1>6. LinesKept /\ PaidKept
  <2>1. CASE UNCHANGED lines
    BY <2>1 DEF LinesKept, PaidKept
  <2>2. CASE /\ \A l \in script.ids : lines[l].status = "SCHEDULED"
             /\ lines' = [l \in DOMAIN lines |-> IF l \in script.ids
                       THEN [lines[l] EXCEPT !.status = "IN_TRANSIT"] ELSE lines[l]]
    <3>1. \A x \in LineRow :
            LET y == [x EXCEPT !.status = "IN_TRANSIT"]
            IN  y.job = x.job /\ y.owner = x.owner /\ y.payout = x.payout /\ y.cost = x.cost
                /\ y.status = "IN_TRANSIT"
      BY DEF LineRow
    <3>2. \A l \in DOMAIN lines : lines[l] \in LineRow
      <4>1. lines \in Seq(LineRow)
        BY DEF Typed, RowsTyped
      <4> QED BY <4>1
    <3> QED BY <2>2, <3>1, <3>2 DEF LinesKept, PaidKept
  <2> QED BY <1>3, <2>1, <2>2
<1>7. PayoutsKept /\ CountsKept /\ DOMAIN payouts' = DOMAIN payouts
  BY <1>1, SamePayouts DEF PayoutsKept
<1>8. SentStay
  BY <1>6, <1>7, SentStays
<1>9. PerJob'
  BY <1>1, <1>5, <1>6, <1>7, PerJobStays DEF CountedInv
<1>10. Held'
  <2>1. script'.pc \in InBatch
    BY <1>5 DEF InBatch, UploadPC
  <2> QED BY <1>1, <1>2, <1>5, <1>6, <2>1, HeldOn DEF CountedInv
<1>11. BucketTold'
  <2>1. Marking' /\ script'.payouts = script.payouts
    BY <1>5 DEF Marking, SameMemory
  <2> QED BY <1>1, <1>6, <1>8, <2>1, BucketStays DEF CountedInv
<1>12. InboxTold' /\ ReaderTold' /\ Counts'
  BY <1>1, <1>6, <1>7, <1>8, InboxStays, ReaderStays, CountsStay DEF CountedInv
<1> QED BY <1>9, <1>10, <1>11, <1>12 DEF CountedInv, Told

\* What the script sent is saved as sent: from here on SAP may report it.
LEMMA CloseBatchSaves ==
  ASSUME SentApartInv, Typed, Held, CloseBatch
  PROVE  /\ PayoutsKept /\ CountsKept
         /\ script.sent => \A p \in script.payouts : payouts'[p].status # "SCHEDULED"
         /\ \A p \in DOMAIN payouts \ script.payouts : payouts'[p] = payouts[p]
<1>1. /\ script.pc = "close" /\ payouts' = Saved(script.payouts, script.sent)
  BY DEF CloseBatch, Uploading
<1>2. script.pc \in UploadPC /\ script.pc \in InBatch /\ IsUpload(script)
  BY <1>1, UploadMemory DEF UploadPC, InBatch
<1>3. PICK P : P = script.payouts
  OBVIOUS
<1>4. P \subseteq Pending /\ P \subseteq DOMAIN script.loaded /\ P \subseteq DOMAIN payouts
  BY <1>2, <1>3 DEF Pending, IsUpload
<1>5. \A p \in P : payouts[p] = script.loaded[p] /\ payouts[p].status = "SCHEDULED"
  BY <1>2, <1>4 DEF Held
<1>6. CASE ~script.sent
  <2>1. Saved(P, script.sent) = Saved(P, FALSE)
    BY <1>6 DEF Saved
  <2>2. UNCHANGED payouts
    BY <1>1, <1>2, <1>3, <1>4, <2>1, SavedStay
  <2> QED BY <1>6, <2>2, SamePayouts
<1>7. CASE script.sent
  <2>1. payouts' = [p \in DOMAIN payouts |->
                      IF p \notin P THEN payouts[p]
                      ELSE [script.loaded[p] EXCEPT !.status = "IN_TRANSIT"]]
    BY <1>1, <1>3, <1>7 DEF Saved
  <2>2. DOMAIN payouts' = DOMAIN payouts
    BY <2>1
  <2>3. \A p \in DOMAIN payouts \ P : payouts'[p] = payouts[p]
    BY <2>1
  <2>4. ASSUME NEW p \in P
        PROVE  /\ payouts'[p].tenant = payouts[p].tenant /\ payouts'[p].amount = payouts[p].amount
               /\ payouts'[p].processed = payouts[p].processed
               /\ payouts'[p].status = "IN_TRANSIT"
    <3>1. PICK x : x = payouts[p]
      OBVIOUS
    <3>2. x \in PayoutRow
      <4>1. payouts \in Seq(PayoutRow)
        BY DEF Typed, RowsTyped
      <4> QED BY <1>4, <3>1, <4>1
    <3>3. payouts'[p] = [x EXCEPT !.status = "IN_TRANSIT"]
      BY <1>4, <1>5, <2>1, <3>1
    <3>4. PICK y : y = payouts'[p]
      OBVIOUS
    <3>5. /\ y.tenant = x.tenant /\ y.amount = x.amount /\ y.processed = x.processed
          /\ y.status = "IN_TRANSIT"
      BY <3>2, <3>3, <3>4 DEF PayoutRow
    <3> QED BY <3>1, <3>4, <3>5
  <2>5. \A p \in P : payouts[p].status # "PAID"
    BY <1>5
  <2>6. PayoutsKept /\ CountsKept
    <3>1. ASSUME NEW p \in DOMAIN payouts
          PROVE  /\ payouts'[p].tenant = payouts[p].tenant
                 /\ payouts'[p].amount = payouts[p].amount
                 /\ payouts'[p].processed = payouts[p].processed
                 /\ payouts[p].status # "SCHEDULED" => payouts'[p].status # "SCHEDULED"
                 /\ payouts[p].status = "PAID" => payouts'[p].status = "PAID"
      <4>1. CASE p \in P
        BY <1>5, <2>4, <2>5, <4>1
      <4>2. CASE p \notin P
        BY <2>3, <4>2
      <4> QED BY <4>1, <4>2
    <3> QED BY <2>2, <3>1 DEF PayoutsKept, CountsKept
  <2>7. \A p \in P : payouts'[p].status # "SCHEDULED"
    BY <2>4
  <2> QED BY <1>3, <2>3, <2>6, <2>7
<1> QED BY <1>6, <1>7

\* Saving them as they were loaded takes no count back.
LEMMA CloseBatchCounted ==
  ASSUME SentApartInv, Typed, CountedInv, CloseBatch
  PROVE  CountedInv'
<1>1. /\ script.pc = "close" /\ Continue("batch")
      /\ UNCHANGED <<paidBy, lines, bucket, inbox, reader>>
  BY DEF CloseBatch, Uploading
<1>2. script.pc \in UploadPC /\ script.pc \in InBatch /\ IsUpload(script)
  BY <1>1, UploadMemory DEF UploadPC, InBatch
<1>3. /\ PayoutsKept /\ CountsKept
      /\ script.sent => \A p \in script.payouts : payouts'[p].status # "SCHEDULED"
      /\ \A p \in DOMAIN payouts \ script.payouts : payouts'[p] = payouts[p]
  BY CloseBatchSaves DEF CountedInv
<1>4. SameMemory /\ script'.pc = "batch"
  BY <1>1, <1>2, ContinueSame
<1>5. PerJob' /\ SentStay /\ LinesKept /\ InboxTold' /\ ReaderTold' /\ Counts'
  BY <1>1, <1>3, <1>4, Sending
<1>6. Held'
  <2>1. ASSUME NEW p \in Pending' PROVE p \in Pending /\ payouts'[p] = payouts[p]
    <3>1. p \in DOMAIN script.loaded /\ payouts'[p].tenant \in Left(script)
      BY <1>4 DEF Pending, Left, SameMemory, InBatch
    <3>2. p \in DOMAIN payouts
      BY <1>2, <3>1 DEF IsUpload
    <3>3. payouts[p].tenant \in Left(script)
      BY <1>3, <3>1, <3>2 DEF PayoutsKept
    <3>4. p \notin script.payouts
      BY <1>2, <3>3 DEF SentApartInv, OneBatch
    <3> QED BY <1>3, <3>1, <3>2, <3>3, <3>4 DEF Pending
  <2>2. \A p \in Pending' : payouts'[p] = script'.loaded[p] /\ payouts'[p].status = "SCHEDULED"
    BY <1>2, <1>4, <2>1 DEF CountedInv, Held, SameMemory
  <2>3. \A l \in script'.lines : lines'[l].payout \in DOMAIN script'.loaded
    BY <1>1, <1>2, <1>4 DEF CountedInv, Held, SameMemory
  <2>4. script'.pc \notin InBatch
    BY <1>4 DEF InBatch
  <2> QED BY <2>2, <2>3, <2>4 DEF Held
<1>7. ASSUME NEW j, BeingSent(j) PROVE SentJob(j)'
  BY <1>1, <1>3, <1>7 DEF BeingSent, Marking, SentJob
<1>8. ASSUME NEW f \in bucket', f.kind = "lines", NEW r \in f.content PROVE SentJob(r.job)'
  <2>1. PICK j : j = r.job
    OBVIOUS
  <2>2. SentJob(j) \/ BeingSent(j)
    BY <1>1, <1>8, <2>1 DEF CountedInv, Told, BucketTold
  <2>3. SentJob(j)'
    BY <1>5, <1>7, <2>2 DEF SentStay
  <2> QED BY <2>1, <2>3
<1>9. BucketTold'
  BY <1>8 DEF BucketTold
<1> QED BY <1>5, <1>6, <1>9 DEF CountedInv, Told

\* New payouts have no lines yet.
LEMMA SchedulePayoutsCounted ==
  ASSUME SentApartInv, Typed, CountedInv, SchedulePayouts
  PROVE  CountedInv'
<1>1. PICK D, q : ScheduledAs(D, q)
  BY SchedulesAs
<1>2. NewPayouts(q)
  BY <1>1, SchedulesNew
<1>3. /\ script = Idle /\ UNCHANGED <<lines, bucket, inbox, reader>>
      /\ script' = [pc |-> "scheduleLines", credits |-> Dues]
  BY Zenon DEF SchedulePayouts, Dues
<1>4. /\ script'.pc = "scheduleLines" /\ script'.credits = Dues
      /\ DOMAIN payouts \subseteq DOMAIN payouts'
      /\ \A p \in DOMAIN payouts : payouts'[p] = payouts[p]
  BY <1>2, <1>3 DEF NewPayouts
<1>5. DOMAIN payouts \subseteq Nat \ {0}
  <2>1. payouts \in Seq(PayoutRow)
    BY DEF Typed, RowsTyped
  <2>2. PICK n \in Nat : DOMAIN payouts = 1..n
    BY <2>1
  <2> QED BY <2>2
<1>6. DOMAIN payouts' \subseteq Nat \ {0}
  <2>1. payouts' \in Seq(PayoutRow)
    BY <1>2 DEF NewPayouts
  <2>2. PICK n \in Nat : DOMAIN payouts' = 1..n
    BY <2>1
  <2> QED BY <2>2
<1>7. \A l \in DOMAIN lines : lines[l].payout \in DOMAIN payouts
  BY PayoutOfLine
<1>8. \A c \in Credit : /\ c \in Dues => paidBy'[c] \in DOMAIN payouts' \ DOMAIN payouts
                        /\ c \notin Dues => paidBy'[c] = paidBy[c] /\ paidBy[c] # Payable
  <2>1. \A c \in Credit : c \in Dues <=> paidBy[c] = Payable
    BY DEF Dues
  <2> QED BY <1>2, <2>1 DEF NewPayouts
<1>9. NotEarned # Payable /\ NotEarned \notin DOMAIN payouts' /\ Payable \notin DOMAIN payouts'
      /\ Payable \notin DOMAIN payouts
  BY <1>5, <1>6 DEF NotEarned, Payable
<1>10. PerJob'
  <2>1. OneFor'
    BY <1>3 DEF CountedInv, PerJob, OneFor
  <2>2. CreditsTogether'
    <3>1. ASSUME NEW c \in Credit, NEW d \in Credit, c.job = d.job
          PROVE  /\ paidBy'[c] = NotEarned => paidBy'[d] = NotEarned
                 /\ paidBy'[c] = Payable => paidBy'[d] = Payable
      <4>1. paidBy'[c] # Payable
        BY <1>8, <1>9
      <4>2. paidBy'[c] = NotEarned => paidBy[c] = NotEarned
        BY <1>8, <1>9
      <4>3. paidBy[c] = NotEarned => paidBy[d] = NotEarned
        BY <3>1 DEF CountedInv, PerJob, CreditsTogether
      <4>4. paidBy[d] = NotEarned => paidBy'[d] = NotEarned
        BY <1>8, <1>9 DEF Dues
      <4> QED BY <4>1, <4>2, <4>3, <4>4
    <3> QED BY <3>1 DEF CreditsTogether
  <2>3. TenantsAgree'
    <3>1. ASSUME NEW c \in Credit, paidBy'[c] \in DOMAIN payouts'
          PROVE  payouts'[paidBy'[c]].tenant = PrincipalGroup[c.job]
      <4>1. CASE c \in Dues
        <5>1. PICK i \in DOMAIN q : paidBy'[c] = Len(payouts) + i /\ q[i] = PairOf(c)
          BY <1>2, <4>1 DEF NewPayouts
        <5>2. payouts'[paidBy'[c]].tenant = q[i][2]
          BY <1>2, <5>1 DEF NewPayouts
        <5> QED BY <5>1, <5>2 DEF PairOf
      <4>2. CASE c \notin Dues
        <5>1. paidBy'[c] = paidBy[c] /\ paidBy[c] # Payable /\ paidBy[c] # NotEarned
          BY <1>8, <1>9, <3>1, <4>2
        <5>2. paidBy[c] \in DOMAIN payouts
          BY <5>1 DEF Typed, RowsTyped
        <5>3. payouts[paidBy[c]].tenant = PrincipalGroup[c.job]
          BY <5>2 DEF CountedInv, PerJob, TenantsAgree
        <5> QED BY <1>4, <5>1, <5>2, <5>3
      <4> QED BY <4>1, <4>2
    <3>2. \A l \in DOMAIN lines' : payouts'[lines'[l].payout].tenant = PrincipalGroup[lines'[l].job]
      BY <1>3, <1>4, <1>7 DEF CountedInv, PerJob, TenantsAgree
    <3> QED BY <3>1, <3>2 DEF TenantsAgree
  <2>4. NewJobs'
    <3>1. ASSUME NEW l \in DOMAIN lines', NEW c \in Credit, c.job = lines'[l].job
          PROVE  paidBy'[c] \in DOMAIN payouts' /\ c \notin Dues
      <4>1. paidBy[c] \in DOMAIN payouts
        BY <1>3, <3>1 DEF CountedInv, PerJob, NewJobs
      <4>2. c \notin Dues
        BY <1>9, <4>1 DEF Dues
      <4> QED BY <1>4, <1>8, <4>1, <4>2
    <3>2. \A l \in DOMAIN lines' : \A c \in script'.credits : c.job # lines'[l].job
      BY <1>4, <3>1 DEF Dues
    <3> QED BY <3>1, <3>2 DEF NewJobs
  <2> QED BY <2>1, <2>2, <2>3, <2>4 DEF PerJob
<1>11. Held'
  BY <1>4, NothingHeld DEF UploadPC
<1>12. SentStay
  <2>1. ASSUME NEW j, SentJob(j) PROVE SentJob(j)'
    BY <1>3, <1>4, <1>7, <2>1 DEF SentJob
  <2> QED BY <2>1 DEF SentStay
<1>13. BucketTold'
  <2>1. ~Marking
    BY <1>3 DEF Marking, Idle
  <2> QED BY <1>3, <1>12, <2>1, BucketStays DEF CountedInv
<1>14. InboxTold'
  BY <1>3, <1>12, InboxStays DEF CountedInv
<1>15. ReaderTold'
  <2>1. PICK seq : seq = reader.rows
    OBVIOUS
  <2>2. reader.pc \in {"row", "count", "pay"} => ToldOf(seq)'
    BY <1>12, <2>1, ToldStays DEF CountedInv, Told, ReaderTold
  <2>3. reader'.pc \in {"row", "count", "pay"} => ToldOf(reader.rows)'
    BY <1>3, <2>1, <2>2
  <2>4. reader.pc = "pay" => payouts'[reader.payout].status # "SCHEDULED"
    BY <1>4 DEF CountedInv, Told, ReaderTold, Typed, ReaderTyped
  <2> QED BY <1>3, <2>1, <2>2, <2>4 DEF ReaderTold
<1>16. Counts'
  <2>1. Counting' = Counting
    BY <1>3 DEF Counting, Reported
  <2>2. \A p : OfPayout(p)' = OfPayout(p) /\ PaidLines(p)' = PaidLines(p) /\ Open(p)' = Open(p)
    BY <1>3, <2>1 DEF OfPayout, PaidLines, Open
  <2>3. \A p \in DOMAIN payouts' \ DOMAIN payouts : OfPayout(p) = {} /\ PaidLines(p) = {}
    BY <1>7 DEF OfPayout, PaidLines
  <2>4. InHand'
    BY <1>3, <2>1 DEF CountedInv, Counts, InHand
  <2>5. CostOf(lines, {}) = 0
    <3>1. PICK s, e : s = lines /\ e = {}
      OBVIOUS
    <3>2. PICK g : g = [i \in e |-> s[i].cost]
      OBVIOUS
    <3>3. IsFiniteSet(e) /\ \A i \in e : g[i] = s[i].cost
      BY <3>1, FS_EmptySet
    <3>4. PICK f : Sums(f, g, e) /\ CostOf(s, e) = f[e]
      BY <3>3, CostSums
    <3>5. f[{}] = 0
      BY <3>4 DEF Sums
    <3> QED BY <3>1, <3>4, <3>5
  <2>6. ASSUME NEW p \in DOMAIN payouts'
        PROVE  payouts'[p].processed = CostOf(lines, PaidLines(p) \ Counting)
    <3>1. CASE p \in DOMAIN payouts
      BY <1>4, <3>1 DEF CountedInv, Counts, Processed
    <3>2. CASE p \notin DOMAIN payouts
      <4>1. PaidLines(p) \ Counting = {}
        BY <2>3, <3>2
      <4>2. payouts'[p].processed = 0
        BY <1>2, <3>2 DEF NewPayouts
      <4> QED BY <2>5, <4>1, <4>2
    <3> QED BY <3>1, <3>2
  <2>7. Processed'
    <3>1. \A p : (PaidLines(p) \ Counting)' = PaidLines(p) \ Counting
      BY <2>1, <2>2
    <3> QED BY <1>3, <2>6, <3>1 DEF Processed
  <2>8. PaidUp'
    <3>1. ASSUME NEW p \in DOMAIN payouts', ~Open(p), OfPayout(p) # {},
                 PaidLines(p) = OfPayout(p), CostOf(lines, OfPayout(p)) = payouts'[p].amount
          PROVE  payouts'[p].status = "PAID"
      <4>1. p \in DOMAIN payouts
        BY <2>3, <3>1
      <4> QED BY <1>4, <3>1, <4>1 DEF CountedInv, Counts, PaidUp
    <3> QED BY <1>3, <2>2, <3>1 DEF PaidUp
  <2> QED BY <2>4, <2>7, <2>8 DEF Counts
<1> QED BY <1>10, <1>11, <1>13, <1>14, <1>15, <1>16 DEF CountedInv, Told

\* The new lines are of jobs without lines, and have the payouts of their credits.
FreshLines ==
  /\ DOMAIN lines \subseteq DOMAIN lines'
  /\ \A l \in DOMAIN lines : lines'[l] = lines[l]
  /\ \A k \in DOMAIN lines' \ DOMAIN lines :
       /\ lines'[k].status = "SCHEDULED"
       /\ \E c \in script.credits : /\ c.job = lines'[k].job /\ lines'[k].payout = paidBy[c]
                                    /\ c \in Credit /\ paidBy[c] \in DOMAIN payouts
       /\ \A l \in DOMAIN lines : lines[l].job # lines'[k].job
  /\ \A k, l \in DOMAIN lines' \ DOMAIN lines :
       lines'[k].job = lines'[l].job => lines'[k].payout = lines'[l].payout

\* New lines are of jobs that had none, and those of a job have one payout.
LEMMA SchedulesFresh ==
  ASSUME Typed, PerJob, ScheduleLines
  PROVE  FreshLines
<1>1. PICK last, new : NewLines(last, new)
  BY SchedulesLines
<1>2. script.pc = "scheduleLines"
  BY DEF ScheduleLines
<1>3. PICK a, d, K : a = lines /\ d = lines' /\ K = script.credits
  OBVIOUS
<1>4. K \subseteq Credit /\ \A c \in K : paidBy[c] \in DOMAIN payouts
  BY <1>2, <1>3 DEF Typed, ScriptTyped
<1>5. \A c \in K : last[c.job] \in K /\ last[c.job].job = c.job
  BY <1>1, <1>3 DEF NewLines
<1>6. PICK S : S = NewLine(last)
  OBVIOUS
<1>7. /\ S \subseteq LineRow
      /\ \A x \in S : /\ x.status = "SCHEDULED" /\ x.payout = paidBy[last[x.job]]
                      /\ \E c \in K : x.job = c.job
  BY <1>3, <1>6 DEF NewLine
<1>8. d = a \o new /\ a \in Seq(LineRow) /\ new \in Seq(S) /\ new \in Seq(LineRow)
  <2>1. d = a \o new /\ new \in Seq(S)
    BY <1>1, <1>3, <1>6 DEF NewLines
  <2>2. a \in Seq(LineRow)
    BY <1>3 DEF Typed, RowsTyped
  <2>3. PICK R : R = LineRow
    OBVIOUS
  <2>4. S \subseteq R
    BY <1>7, <2>3
  <2>5. new \in Seq(R)
    BY <2>1, <2>4
  <2> QED BY <2>1, <2>2, <2>3, <2>5
<1>9. /\ DOMAIN a \subseteq DOMAIN d
      /\ \A i \in DOMAIN a : d[i] = a[i]
      /\ \A i \in DOMAIN d \ DOMAIN a : i - Len(a) \in DOMAIN new /\ d[i] = new[i - Len(a)]
  BY <1>8, Joined
<1>10. \A k \in DOMAIN d \ DOMAIN a : d[k] \in S
  <2>1. \A i \in DOMAIN new : new[i] \in S
    BY <1>8
  <2> QED BY <1>9, <2>1
<1>11. \A k \in DOMAIN d \ DOMAIN a :
         /\ d[k].status = "SCHEDULED" /\ d[k].payout = paidBy[last[d[k].job]]
         /\ last[d[k].job] \in K /\ last[d[k].job].job = d[k].job
  <2>1. ASSUME NEW x \in S
        PROVE  /\ x.status = "SCHEDULED" /\ x.payout = paidBy[last[x.job]]
               /\ last[x.job] \in K /\ last[x.job].job = x.job
    <3>1. PICK c \in K : x.job = c.job
      BY <1>7
    <3> QED BY <1>5, <1>7, <3>1
  <2> QED BY <1>10, <2>1
<1>12. ASSUME NEW k \in DOMAIN d \ DOMAIN a
       PROVE  /\ \E c \in K : /\ c.job = d[k].job /\ d[k].payout = paidBy[c]
                              /\ c \in Credit /\ paidBy[c] \in DOMAIN payouts
              /\ \A l \in DOMAIN a : a[l].job # d[k].job
  <2>1. PICK c \in K : c.job = d[k].job /\ d[k].payout = paidBy[c]
    BY <1>11
  <2>2. c \in Credit /\ paidBy[c] \in DOMAIN payouts
    BY <1>4
  <2>3. \A l \in DOMAIN a : a[l].job # c.job
    BY <1>2, <1>3 DEF PerJob, NewJobs
  <2> QED BY <2>1, <2>2, <2>3
<1>13. \A k, l \in DOMAIN d \ DOMAIN a : d[k].job = d[l].job => d[k].payout = d[l].payout
  BY <1>11
<1> QED BY <1>3, <1>9, <1>11, <1>12, <1>13 DEF FreshLines

\* Of them nothing was reported or counted.
LEMMA ScheduleLinesCounted ==
  ASSUME SentApartInv, Typed, CountedInv, ScheduleLines
  PROVE  CountedInv'
<1>1. /\ script.pc = "scheduleLines" /\ script' = Idle
      /\ UNCHANGED <<paidBy, payouts, bucket, inbox, reader>>
  BY DEF ScheduleLines
<1>2. FreshLines
  BY SchedulesFresh DEF CountedInv
<1>3. /\ DOMAIN lines \subseteq DOMAIN lines'
      /\ \A l \in DOMAIN lines : lines'[l] = lines[l]
  BY <1>2 DEF FreshLines
<1>4. PerJob'
  <2>1. OneFor'
    <3>1. ASSUME NEW l \in DOMAIN lines', NEW k \in DOMAIN lines', lines'[l].job = lines'[k].job
          PROVE  lines'[l].payout = lines'[k].payout
      <4>1. CASE l \in DOMAIN lines /\ k \in DOMAIN lines
        BY <1>3, <3>1, <4>1 DEF CountedInv, PerJob, OneFor
      <4>2. CASE l \in DOMAIN lines /\ k \notin DOMAIN lines
        BY <1>2, <1>3, <3>1, <4>2 DEF FreshLines
      <4>3. CASE l \notin DOMAIN lines /\ k \in DOMAIN lines
        BY <1>2, <1>3, <3>1, <4>3 DEF FreshLines
      <4>4. CASE l \notin DOMAIN lines /\ k \notin DOMAIN lines
        BY <1>2, <3>1, <4>4 DEF FreshLines
      <4> QED BY <4>1, <4>2, <4>3, <4>4
    <3> QED BY <3>1 DEF OneFor
  <2>2. CreditsTogether'
    BY <1>1 DEF CountedInv, PerJob, CreditsTogether
  <2>3. TenantsAgree'
    <3>1. ASSUME NEW k \in DOMAIN lines' \ DOMAIN lines
          PROVE  payouts[lines'[k].payout].tenant = PrincipalGroup[lines'[k].job]
      <4>1. PICK c \in Credit : /\ c.job = lines'[k].job /\ lines'[k].payout = paidBy[c]
                                /\ paidBy[c] \in DOMAIN payouts
        BY <1>2 DEF FreshLines
      <4> QED BY <4>1 DEF CountedInv, PerJob, TenantsAgree
    <3>2. \A l \in DOMAIN lines : payouts[lines'[l].payout].tenant = PrincipalGroup[lines'[l].job]
      BY <1>3 DEF CountedInv, PerJob, TenantsAgree
    <3>3. \A c \in Credit : paidBy'[c] \in DOMAIN payouts' =>
                         payouts'[paidBy'[c]].tenant = PrincipalGroup[c.job]
      BY <1>1 DEF CountedInv, PerJob, TenantsAgree
    <3> QED BY <1>1, <3>1, <3>2, <3>3 DEF TenantsAgree
  <2>4. NewJobs'
    <3>1. ASSUME NEW k \in DOMAIN lines' \ DOMAIN lines, NEW c \in Credit, c.job = lines'[k].job
          PROVE  paidBy[c] \in DOMAIN payouts
      <4>1. PICK b \in Credit : b.job = lines'[k].job /\ paidBy[b] \in DOMAIN payouts
        BY <1>2 DEF FreshLines
      <4>2. DOMAIN payouts \subseteq Nat \ {0}
        <5>1. payouts \in Seq(PayoutRow)
          BY DEF Typed, RowsTyped
        <5>2. PICK n \in Nat : DOMAIN payouts = 1..n
          BY <5>1
        <5> QED BY <5>2
      <4>3. paidBy[b] # NotEarned /\ paidBy[b] # Payable
        BY <4>1, <4>2 DEF NotEarned, Payable
      <4>4. paidBy[c] # NotEarned /\ paidBy[c] # Payable
        BY <3>1, <4>1, <4>3 DEF CountedInv, PerJob, CreditsTogether
      <4> QED BY <4>4 DEF Typed, RowsTyped
    <3>2. \A l \in DOMAIN lines : \A c \in Credit : c.job = lines'[l].job => paidBy[c] \in DOMAIN payouts
      BY <1>3 DEF CountedInv, PerJob, NewJobs
    <3>3. script'.pc # "scheduleLines"
      BY <1>1 DEF Idle
    <3> QED BY <1>1, <3>1, <3>2, <3>3 DEF NewJobs
  <2> QED BY <2>1, <2>2, <2>3, <2>4 DEF PerJob
<1>5. Held'
  BY <1>1, NothingHeld DEF Idle, UploadPC
<1>6. SentStay
  <2>1. ASSUME NEW j, SentJob(j) PROVE SentJob(j)'
    <3>1. PICK l \in DOMAIN lines : lines[l].job = j
      BY <2>1 DEF SentJob
    <3>2. \A k \in DOMAIN lines' \ DOMAIN lines : lines'[k].job # j
      BY <1>2, <3>1 DEF FreshLines
    <3> QED BY <1>1, <1>3, <2>1, <3>1, <3>2 DEF SentJob
  <2> QED BY <2>1 DEF SentStay
<1>7. BucketTold'
  <2>1. ~Marking
    BY <1>1 DEF Marking
  <2> QED BY <1>1, <1>6, <2>1, BucketStays DEF CountedInv
<1>8. InboxTold' /\ ReaderTold'
  <2>1. PayoutsKept
    BY <1>1, SamePayouts
  <2> QED BY <1>1, <1>6, <2>1, InboxStays, ReaderStays DEF CountedInv
<1>9. Counting' = Counting
  <2>1. PICK row : row = Head(reader.rows)
    OBVIOUS
  <2>2. CASE reader.pc = "count"
    <3>1. PICK l \in DOMAIN lines : <<lines[l].job, lines[l].owner>> = row
      BY <2>1, <2>2 DEF CountedInv, Counts, InHand, Counting, Reported
    <3>2. \A k \in DOMAIN lines' \ DOMAIN lines : <<lines'[k].job, lines'[k].owner>> # row
      BY <1>2, <3>1 DEF FreshLines
    <3>3. {k \in DOMAIN lines' : <<lines'[k].job, lines'[k].owner>> = row}
          = {k \in DOMAIN lines : <<lines[k].job, lines[k].owner>> = row}
      BY <1>3, <3>2
    <3> QED BY <1>1, <2>1, <2>2, <3>3 DEF Counting, Reported
  <2>3. CASE reader.pc # "count"
    BY <1>1, <2>3 DEF Counting
  <2> QED BY <2>2, <2>3
<1>10. InHand'
  BY <1>1, <1>3, <1>9, CountingLines DEF CountedInv, Counts, InHand
<1>11. ASSUME NEW p
       PROVE  /\ PaidLines(p)' = PaidLines(p) /\ OfPayout(p) \subseteq OfPayout(p)'
              /\ PaidLines(p)' = OfPayout(p)' => OfPayout(p)' = OfPayout(p)
  <2>1. \A k \in DOMAIN lines' \ DOMAIN lines : lines'[k].status # "PAID"
    BY <1>2 DEF FreshLines
  <2>2. PaidLines(p)' = PaidLines(p)
    BY <1>3, <2>1 DEF PaidLines, OfPayout
  <2>3. OfPayout(p) \subseteq OfPayout(p)'
    BY <1>3 DEF OfPayout
  <2>4. PaidLines(p) \subseteq OfPayout(p)
    BY DEF PaidLines
  <2> QED BY <2>2, <2>3, <2>4
<1>12. ASSUME NEW S, S \subseteq DOMAIN lines PROVE CostOf(lines', S) = CostOf(lines, S)
  <2>1. PICK a, b : a = lines /\ b = lines'
    OBVIOUS
  <2>2. IsFiniteSet(S)
    BY <1>12, LinesTyped
  <2>3. \A i \in S : a[i].cost = b[i].cost
    BY <1>3, <1>12, <2>1
  <2>4. CostOf(a, S) = CostOf(b, S)
    BY <2>2, <2>3, CostsAgree
  <2> QED BY <2>1, <2>4
<1>13. ASSUME NEW p \in DOMAIN payouts
       PROVE  payouts[p].processed = CostOf(lines', (PaidLines(p) \ Counting)')
  <2>1. PICK S : S = PaidLines(p) \ Counting
    OBVIOUS
  <2>2. S = (PaidLines(p) \ Counting)' /\ S \subseteq DOMAIN lines
    BY <1>9, <1>11, <2>1 DEF PaidLines, OfPayout
  <2>3. payouts[p].processed = CostOf(lines, S)
    BY <2>1 DEF CountedInv, Counts, Processed
  <2> QED BY <1>12, <2>2, <2>3
<1>14. Processed'
  BY <1>1, <1>13 DEF Processed
<1>15. ASSUME NEW p \in DOMAIN payouts, ~Open(p)', OfPayout(p)' # {},
              PaidLines(p)' = OfPayout(p)', CostOf(lines', OfPayout(p)') = payouts[p].amount
       PROVE  payouts[p].status = "PAID"
  <2>1. OfPayout(p)' = OfPayout(p) /\ PaidLines(p)' = PaidLines(p)
    BY <1>11, <1>15
  <2>2. PICK S : S = OfPayout(p)
    OBVIOUS
  <2>3. S \subseteq DOMAIN lines
    BY <2>2 DEF OfPayout
  <2>4. CostOf(lines', S) = CostOf(lines, S)
    BY <1>12, <2>3
  <2>5. CostOf(lines, OfPayout(p)) = payouts[p].amount
    BY <1>15, <2>1, <2>2, <2>4
  <2>6. ~Open(p)
    BY <1>1, <1>3, <1>9, <1>15, CountingLines DEF Open
  <2> QED BY <1>15, <2>1, <2>5, <2>6 DEF CountedInv, Counts, PaidUp
<1>16. PaidUp'
  BY <1>1, <1>15 DEF PaidUp
<1> QED BY <1>4, <1>5, <1>7, <1>8, <1>10, <1>14, <1>16 DEF CountedInv, Told, Counts

\* The rows that follow the first are among those that were told.
LEMMA TailTold ==
  ASSUME NEW seq \in Named, seq # <<>>, ToldOf(seq)
  PROVE  ToldOf(Tail(seq))
<1>1. PICK R : R = (Job \X Owner) \cup {Invalid}
  OBVIOUS
<1>2. seq \in Seq(R)
  BY <1>1 DEF Named
<1>3. PICK t : t = Tail(seq)
  OBVIOUS
<1>4. \A i \in DOMAIN t : i + 1 \in DOMAIN seq /\ t[i] = seq[i + 1]
  BY <1>2, <1>3
<1>5. ToldOf(t)
  <2>1. ASSUME NEW i \in DOMAIN t, t[i] # Invalid PROVE SentJob(t[i][1])
    <3>1. PICK x, k : k = i + 1 /\ x = seq[k]
      OBVIOUS
    <3>2. k \in DOMAIN seq /\ t[i] = x
      BY <1>4, <3>1
    <3>3. SentJob(x[1])
      BY <2>1, <3>1, <3>2 DEF ToldOf
    <3> QED BY <3>2, <3>3
  <2> QED BY <2>1 DEF ToldOf
<1> QED BY <1>3, <1>5

\* The lines that a row reports: of one job, with one payout that is no longer scheduled.
LEMMA ReportedLines ==
  ASSUME Typed, CountedInv, NEW mine, mine = Reported(Head(reader.rows)), NEW l \in mine,
         reader.pc \in {"row", "count"}, reader.rows # <<>>
  PROVE  /\ mine \subseteq DOMAIN lines
         /\ \A k \in mine : lines[k].job = lines[l].job /\ lines[k].payout = lines[l].payout
         /\ lines[l].payout \in DOMAIN payouts
         /\ payouts[lines[l].payout].status # "SCHEDULED"
<1>1. mine \subseteq DOMAIN lines
  BY DEF Reported
<1>2. PICK row, seq : seq = reader.rows /\ row = Head(seq)
  OBVIOUS
<1>3. \A k \in mine : <<lines[k].job, lines[k].owner>> = row
  BY <1>2 DEF Reported
<1>4. \A k \in mine : lines[k].job = row[1] /\ lines[k].owner = row[2]
  BY <1>3
<1>5. \A k \in mine : lines[k].job = lines[l].job /\ lines[k].payout = lines[l].payout
  BY <1>1, <1>4 DEF CountedInv, PerJob, OneFor
<1>6. lines[l].payout \in DOMAIN payouts
  BY <1>1, PayoutOfLine
<1>7. row # Invalid
  <2>1. lines[l].owner \in Owner
    BY <1>1, LinesTyped
  <2>2. lines[l].owner # NoOwner
    BY <2>1, FilesAssumption
  <2>3. Invalid[2] = NoOwner
    BY DEF Invalid
  <2> QED BY <1>4, <2>2, <2>3
<1>8. SentJob(row[1])
  <2>1. ToldOf(seq)
    BY <1>2 DEF CountedInv, Told, ReaderTold
  <2>2. 1 \in DOMAIN seq /\ row = seq[1]
    <3>1. PICK R : R = (Job \X Owner) \cup {Invalid}
      OBVIOUS
    <3>2. seq \in Seq(R) /\ seq # <<>>
      BY <1>2, <3>1 DEF Named, Typed, ReaderTyped
    <3> QED BY <1>2, <3>2
  <2> QED BY <1>7, <2>1, <2>2 DEF ToldOf
<1>9. payouts[lines[l].payout].status # "SCHEDULED"
  BY <1>1, <1>4, <1>8 DEF SentJob
<1> QED BY <1>1, <1>5, <1>6, <1>9

\* The lines that a row marks are those that it is to count.
LEMMA MarkRowCounted ==
  ASSUME SentApartInv, Typed, CountedInv, MarkRow
  PROVE  CountedInv'
<1>1. /\ reader.pc = "row" /\ reader.rows # <<>> /\ reader.rows \in Named
      /\ UNCHANGED <<paidBy, payouts, batches, bucket, inbox, script>>
  BY DEF MarkRow, Reading, Typed, ReaderTyped
<1>2. PICK mine : mine = Reported(Head(reader.rows))
  OBVIOUS
<1>3. \/ /\ mine # {} /\ \A l \in mine : lines[l].status = "IN_TRANSIT"
         /\ lines' = [l \in DOMAIN lines |-> IF l \in mine
                        THEN [lines[l] EXCEPT !.status = "PAID"] ELSE lines[l]]
         /\ reader' = [reader EXCEPT !.pc = "count"]
      \/ /\ reader' = [reader EXCEPT !.rows = Tail(@)]
         /\ UNCHANGED lines
  BY <1>2 DEF MarkRow
<1>4. PICK s, q : s = reader /\ q = reader'
  OBVIOUS
<1>5. s = [pc |-> "row", names |-> s.names, name |-> s.name, rows |-> s.rows]
  BY <1>1, <1>4 DEF Typed, ReaderTyped
<1>6. ToldOf(reader.rows)
  BY <1>1 DEF CountedInv, Told, ReaderTold
<1>7. CASE reader' = [reader EXCEPT !.rows = Tail(@)] /\ UNCHANGED lines
  <2>1. UNCHANGED rows
    BY <1>1, <1>7 DEF rows
  <2>2. PICK t : t = Tail(reader.rows)
    OBVIOUS
  <2>3. q.pc = "row" /\ q.rows = t
    BY <1>4, <1>5, <1>7, <2>2
  <2>4. ToldOf(t)
    BY <1>1, <1>6, <2>2, TailTold
  <2>5. ToldOf(t)'
    <3>1. SentStay
      BY <1>1, <2>1, Quiet
    <3> QED BY <2>4, <3>1, ToldStays
  <2>6. ReaderTold'
    BY <1>4, <2>3, <2>5 DEF ReaderTold
  <2>7. {reader.pc, reader'.pc} \cap {"count", "pay"} = {}
    BY <1>1, <1>4, <2>3
  <2> QED BY <1>1, <2>1, <2>6, <2>7, Quiet DEF CountedInv, Told
<1>8. CASE /\ mine # {} /\ \A l \in mine : lines[l].status = "IN_TRANSIT"
           /\ lines' = [l \in DOMAIN lines |-> IF l \in mine
                          THEN [lines[l] EXCEPT !.status = "PAID"] ELSE lines[l]]
           /\ reader' = [reader EXCEPT !.pc = "count"]
  <2>1. q.pc = "count" /\ q.rows = s.rows
    BY <1>4, <1>5, <1>8
  <2>2. mine \subseteq DOMAIN lines
    BY <1>2 DEF Reported
  <2>3. \A l \in DOMAIN lines : lines[l] \in LineRow
    <3>1. lines \in Seq(LineRow)
      BY DEF Typed, RowsTyped
    <3> QED BY <3>1
  <2>4. /\ DOMAIN lines' = DOMAIN lines
        /\ \A l \in mine : lines'[l].status = "PAID"
        /\ \A l \in DOMAIN lines \ mine : lines'[l] = lines[l]
    <3>1. \A x \in LineRow : [x EXCEPT !.status = "PAID"].status = "PAID"
      BY DEF LineRow
    <3> QED BY <1>8, <2>2, <2>3, <3>1
  <2>5. LinesKept
    <3>1. \A x \in LineRow :
            LET y == [x EXCEPT !.status = "PAID"]
            IN  y.job = x.job /\ y.owner = x.owner /\ y.payout = x.payout /\ y.cost = x.cost
      BY DEF LineRow
    <3> QED BY <1>8, <2>3, <3>1 DEF LinesKept
  <2>6. PayoutsKept
    BY <1>1, SamePayouts
  <2>7. SentStay
    BY <2>5, <2>6, SentStays
  <2>8. PerJob' /\ Held' /\ InboxTold'
    BY <1>1, <2>5, <2>6, <2>7, PerJobStays, HeldStays, InboxStays DEF CountedInv
  <2>9. BucketTold'
    <3>1. ~Marking \/ (Marking' /\ script'.payouts = script.payouts)
      BY <1>1 DEF Marking
    <3> QED BY <1>1, <2>5, <2>7, <3>1, BucketStays DEF CountedInv
  <2>10. ReaderTold'
    <3>1. PICK seq : seq = reader.rows
      OBVIOUS
    <3>2. ToldOf(seq)'
      BY <1>6, <2>7, <3>1, ToldStays
    <3>3. reader'.rows = seq /\ reader'.pc = "count"
      BY <1>4, <2>1, <3>1
    <3> QED BY <3>2, <3>3 DEF ReaderTold
  <2>11. Counting = {} /\ Counting' = mine
    <3>1. PICK row : row = Head(reader.rows)
      OBVIOUS
    <3>2. row = Head(reader'.rows) /\ reader'.pc = "count"
      BY <1>4, <2>1, <3>1
    <3>3. Reported(row)' = Reported(row)
      BY <2>5, ReportedStay
    <3>4. Counting' = Reported(row)'
      BY <3>2 DEF Counting
    <3> QED BY <1>1, <1>2, <3>1, <3>3, <3>4 DEF Counting
  <2>12. InHand'
    BY <1>8, <2>4, <2>11 DEF InHand
  <2>13. ASSUME NEW p
         PROVE  OfPayout(p)' = OfPayout(p) /\ (PaidLines(p) \ Counting)' = PaidLines(p)
    <3>1. OfPayout(p)' = OfPayout(p)
      BY <2>5, LinesStay
    <3>2. PaidLines(p)' = {l \in OfPayout(p) : lines'[l].status = "PAID"}
      BY <3>1 DEF PaidLines
    <3>3. OfPayout(p) \subseteq DOMAIN lines
      BY DEF OfPayout
    <3>4. \A l \in mine : l \notin PaidLines(p)
      BY <1>8 DEF PaidLines
    <3>5. \A l \in OfPayout(p) : l \notin mine => lines'[l] = lines[l]
      BY <2>4, <3>3
    <3>6. PaidLines(p)' \ mine = PaidLines(p)
      BY <3>2, <3>4, <3>5 DEF PaidLines
    <3> QED BY <2>11, <3>1, <3>6
  <2>14. ASSUME NEW p \in DOMAIN payouts
         PROVE  payouts[p].processed = CostOf(lines', (PaidLines(p) \ Counting)')
    <3>1. PICK S : S = PaidLines(p)
      OBVIOUS
    <3>2. S \subseteq DOMAIN lines
      BY <3>1 DEF PaidLines, OfPayout
    <3>3. S \ Counting = S
      BY <2>11
    <3>4. payouts[p].processed = CostOf(lines, S)
      BY <3>1, <3>3 DEF CountedInv, Counts, Processed
    <3>5. CostOf(lines', S) = CostOf(lines, S)
      BY <2>5, <3>2, CostStays
    <3> QED BY <2>13, <3>1, <3>4, <3>5
  <2>15. Processed'
    BY <1>1, <2>14 DEF Processed
  <2>16. ASSUME NEW p \in DOMAIN payouts, ~Open(p)', OfPayout(p)' # {},
                PaidLines(p)' = OfPayout(p)', CostOf(lines', OfPayout(p)') = payouts[p].amount
         PROVE  payouts[p].status = "PAID"
    <3>1. \A l \in mine : lines'[l].payout # p
      BY <1>4, <2>1, <2>11, <2>16 DEF Open
    <3>2. OfPayout(p)' = OfPayout(p) /\ OfPayout(p) \cap mine = {}
      <4>1. OfPayout(p) \cap mine = {}
        BY <2>5, <3>1 DEF OfPayout, LinesKept
      <4> QED BY <2>13, <4>1
    <3>3. PaidLines(p) = OfPayout(p)
      <4>1. (PaidLines(p) \ Counting)' = PaidLines(p)' \ mine
        BY <2>11
      <4> QED BY <2>13, <2>16, <3>2, <4>1
    <3>4. PICK S : S = OfPayout(p)
      OBVIOUS
    <3>5. S \subseteq DOMAIN lines
      BY <3>4 DEF OfPayout
    <3>6. CostOf(lines', S) = CostOf(lines, S)
      BY <2>5, <3>5, CostStays
    <3>7. CostOf(lines, OfPayout(p)) = payouts[p].amount
      BY <2>16, <3>2, <3>4, <3>6
    <3>8. ~Open(p)
      BY <1>1 DEF Open
    <3> QED BY <2>16, <3>2, <3>3, <3>7, <3>8 DEF CountedInv, Counts, PaidUp
  <2>17. PaidUp'
    BY <1>1, <2>16 DEF PaidUp
  <2> QED BY <2>8, <2>9, <2>10, <2>12, <2>15, <2>17 DEF CountedInv, Told, Counts
<1> QED BY <1>3, <1>7, <1>8

\* A payout that is no longer scheduled changes: what the second script holds stays.
LEMMA HeldApart ==
  ASSUME SentApartInv, Typed, CountedInv, UNCHANGED <<script, lines>>, PayoutsKept,
         NEW p \in DOMAIN payouts, payouts[p].status # "SCHEDULED",
         \A i \in DOMAIN payouts : i # p => payouts'[i] = payouts[i]
  PROVE  Held'
<1>1. LinesKept
  BY DEF LinesKept
<1>2. script.pc \in UploadPC => \A i \in Pending : payouts'[i] = payouts[i]
  <2>1. SUFFICES ASSUME script.pc \in UploadPC, NEW i \in Pending PROVE payouts'[i] = payouts[i]
    OBVIOUS
  <2>2. payouts[i].status = "SCHEDULED"
    BY <2>1 DEF CountedInv, Held
  <2>3. i \in DOMAIN payouts
    BY <2>1, UploadMemory DEF Pending, IsUpload
  <2> QED BY <2>2, <2>3
<1> QED BY <1>1, <1>2, HeldStays DEF CountedInv

\* What the row reported is added to the payout that all its lines have.
LEMMA CountRowCounted ==
  ASSUME SentApartInv, Typed, CountedInv, CountRow
  PROVE  CountedInv'
<1>1. /\ reader.pc = "count" /\ reader.rows # <<>>
      /\ UNCHANGED <<paidBy, lines, bucket, inbox, script>>
  BY DEF CountRow, Reading, Typed, ReaderTyped
<1>2. PICK p, mine : CountedFor(p, mine)
  BY CountsFor
<1>3. mine = Reported(Head(reader.rows)) /\ \E l \in mine : p = lines[l].payout
  BY <1>2 DEF CountedFor
<1>4. PICK l \in mine : p = lines[l].payout
  BY <1>3
<1>5. /\ mine \subseteq DOMAIN lines /\ \A k \in mine : lines[k].payout = p
      /\ p \in DOMAIN payouts /\ payouts[p].status # "SCHEDULED"
  BY <1>1, <1>3, <1>4, ReportedLines
<1>6. mine = Counting /\ \A k \in mine : lines[k].status = "PAID"
  BY <1>1, <1>3 DEF Counting, CountedInv, Counts, InHand
<1>7. PICK x, m : x = payouts[p] /\ m = Cost(mine)
  OBVIOUS
<1>8. x \in PayoutRow /\ x.processed \in Nat /\ m \in Nat
  <2>1. payouts \in Seq(PayoutRow)
    BY DEF Typed, RowsTyped
  <2>2. x \in PayoutRow
    BY <1>5, <1>7, <2>1
  <2>3. m \in Nat
    BY <1>5, <1>7, LinesTyped
  <2> QED BY <2>2, <2>3 DEF PayoutRow
<1>9. PICK z \in Nat : z = x.processed + m
  BY <1>8
<1>10. PICK y : y = [x EXCEPT !.processed = z]
  OBVIOUS
<1>11. /\ y \in PayoutRow /\ y.processed = z /\ y.amount = x.amount /\ y.status = x.status
       /\ y.tenant = x.tenant
  BY <1>8, <1>9, <1>10 DEF PayoutRow
<1>12. payouts' = [payouts EXCEPT ![p] = y]
  BY <1>2, <1>7, <1>9, <1>10 DEF CountedFor
<1>13. /\ DOMAIN payouts' = DOMAIN payouts /\ payouts'[p] = y
       /\ \A i \in DOMAIN payouts : i # p => payouts'[i] = payouts[i]
  BY <1>5, <1>11, <1>12, PayoutChanged
<1>14. /\ reader'.pc = "pay" /\ reader'.rows = reader.rows /\ reader'.payout = p
  BY <1>2 DEF CountedFor
<1>15. PayoutsKept
  <2>1. \A i \in DOMAIN payouts :
          /\ payouts'[i].tenant = payouts[i].tenant
          /\ payouts'[i].amount = payouts[i].amount
          /\ payouts'[i].status = payouts[i].status
    BY <1>7, <1>11, <1>13
  <2> QED BY <1>13, <2>1 DEF PayoutsKept
<1>16. LinesKept
  BY <1>1 DEF LinesKept
<1>17. SentStay
  BY <1>15, <1>16, SentStays
<1>18. PerJob' /\ Held' /\ InboxTold'
  <2>1. Held'
    BY <1>1, <1>5, <1>13, <1>15, HeldApart
  <2> QED BY <1>1, <1>15, <1>16, <1>17, <2>1, PerJobStays, InboxStays DEF CountedInv
<1>19. BucketTold'
  <2>1. ~Marking \/ (Marking' /\ script'.payouts = script.payouts)
    BY <1>1 DEF Marking
  <2> QED BY <1>1, <1>16, <1>17, <2>1, BucketStays DEF CountedInv
<1>20. ReaderTold'
  <2>1. PICK seq : seq = reader.rows
    OBVIOUS
  <2>2. ToldOf(seq)'
    BY <1>1, <1>17, <2>1, ToldStays DEF CountedInv, Told, ReaderTold
  <2>3. ToldOf(reader.rows)'
    BY <1>14, <2>1, <2>2
  <2>4. payouts'[reader'.payout].status # "SCHEDULED"
    BY <1>5, <1>7, <1>11, <1>13, <1>14
  <2> QED BY <2>3, <2>4 DEF ReaderTold
<1>21. Counting' = {}
  BY <1>14 DEF Counting
<1>22. InHand'
  BY <1>14 DEF InHand
<1>23. \A i : OfPayout(i)' = OfPayout(i) /\ PaidLines(i)' = PaidLines(i)
  BY <1>1 DEF OfPayout, PaidLines
<1>24. ASSUME NEW i \in DOMAIN payouts
       PROVE  payouts'[i].processed = CostOf(lines, PaidLines(i))
  <2>1. payouts[i].processed = CostOf(lines, PaidLines(i) \ mine)
    BY <1>6 DEF CountedInv, Counts, Processed
  <2>2. CASE i # p
    <3>1. PaidLines(i) \ mine = PaidLines(i)
      BY <1>5, <2>2 DEF PaidLines, OfPayout
    <3> QED BY <1>13, <2>1, <2>2, <3>1
  <2>3. CASE i = p
    <3>1. PICK A : A = PaidLines(p) \ mine
      OBVIOUS
    <3>2. mine \subseteq PaidLines(p)
      BY <1>5, <1>6 DEF PaidLines, OfPayout
    <3>3. A \cup mine = PaidLines(p) /\ A \cap mine = {}
      BY <3>1, <3>2
    <3>4. CostOf(lines, A \cup mine) = CostOf(lines, A) + CostOf(lines, mine)
      <4>1. PICK a, S : a = lines /\ S = DOMAIN lines
        OBVIOUS
      <4>2. A \in SUBSET S /\ mine \in SUBSET S
        BY <1>5, <3>1, <4>1 DEF PaidLines, OfPayout
      <4>3. IsFiniteSet(S) /\ \A k \in S : a[k].cost \in Nat
        BY <4>1, LinesTyped
      <4>4. CostOf(a, A \cup mine) = CostOf(a, A) + CostOf(a, mine)
        BY <3>3, <4>2, <4>3, CostOfUnion
      <4> QED BY <4>1, <4>4
    <3>5. CostOf(lines, mine) = m
      <4>1. Cost(mine) = CostOf(lines, mine)
        BY Zenon DEF Cost, CostOf
      <4> QED BY <1>7, <4>1
    <3>6. x.processed = CostOf(lines, A)
      BY <1>7, <2>1, <2>3, <3>1
    <3>7. payouts'[i].processed = z
      BY <1>11, <1>13, <2>3
    <3> QED BY <1>9, <2>3, <3>3, <3>4, <3>5, <3>6, <3>7
  <2> QED BY <2>2, <2>3
<1>25. Processed'
  <2>1. \A i : (PaidLines(i) \ Counting)' = PaidLines(i)
    BY <1>21, <1>23
  <2> QED BY <1>1, <1>13, <1>24, <2>1 DEF Processed
<1>26. ASSUME NEW i \in DOMAIN payouts, ~Open(i)', OfPayout(i) # {},
              PaidLines(i) = OfPayout(i), CostOf(lines, OfPayout(i)) = payouts'[i].amount
       PROVE  payouts'[i].status = "PAID"
  <2>1. i # p
    BY <1>14, <1>26 DEF Open
  <2>2. ~Open(i)
    BY <1>1, <1>5, <1>6, <2>1 DEF Open
  <2>3. payouts'[i] = payouts[i]
    BY <1>13, <2>1
  <2> QED BY <1>26, <2>2, <2>3 DEF CountedInv, Counts, PaidUp
<1>27. PaidUp'
  BY <1>1, <1>13, <1>23, <1>26 DEF PaidUp
<1> QED BY <1>18, <1>19, <1>20, <1>22, <1>25, <1>27 DEF CountedInv, Told, Counts

\* The payout is paid when what was counted is its amount.
LEMMA PayRowCounted ==
  ASSUME SentApartInv, Typed, CountedInv, PayRow
  PROVE  CountedInv'
<1>1. /\ reader.pc = "pay" /\ reader.rows # <<>> /\ reader.rows \in Named
      /\ reader.payout \in DOMAIN payouts
      /\ UNCHANGED <<paidBy, lines, bucket, inbox, script>>
  BY DEF PayRow, Reading, Typed, ReaderTyped
<1>2. PICK p : p = reader.payout
  OBVIOUS
<1>3. p \in DOMAIN payouts /\ payouts[p].status # "SCHEDULED"
  BY <1>1, <1>2 DEF CountedInv, Told, ReaderTold
<1>4. PICK x, y : x = payouts[p] /\ y = [x EXCEPT !.status = "PAID"]
  OBVIOUS
<1>5. x \in PayoutRow
  <2>1. payouts \in Seq(PayoutRow)
    BY DEF Typed, RowsTyped
  <2> QED BY <1>3, <1>4, <2>1
<1>6. /\ y \in PayoutRow /\ y.status = "PAID" /\ y.amount = x.amount
      /\ y.processed = x.processed /\ y.tenant = x.tenant
  BY <1>4, <1>5 DEF PayoutRow, Status
<1>7. payouts' = IF x.processed = x.amount THEN [payouts EXCEPT ![p] = y] ELSE payouts
  BY <1>2, <1>4 DEF PayRow
<1>8. /\ DOMAIN payouts' = DOMAIN payouts
      /\ payouts'[p] = IF x.processed = x.amount THEN y ELSE x
      /\ \A i \in DOMAIN payouts : i # p => payouts'[i] = payouts[i]
  <2>1. CASE x.processed = x.amount
    BY <1>3, <1>6, <1>7, <2>1, PayoutChanged
  <2>2. CASE x.processed # x.amount
    BY <1>4, <1>7, <2>2
  <2> QED BY <2>1, <2>2
<1>9. ASSUME NEW i \in DOMAIN payouts
      PROVE  /\ payouts'[i].tenant = payouts[i].tenant /\ payouts'[i].amount = payouts[i].amount
             /\ payouts'[i].processed = payouts[i].processed
             /\ payouts[i].status # "SCHEDULED" => payouts'[i].status # "SCHEDULED"
             /\ payouts[i].status = "PAID" => payouts'[i].status = "PAID"
  <2>1. CASE i = p
    BY <1>4, <1>6, <1>8, <2>1
  <2>2. CASE i # p
    BY <1>8, <2>2
  <2> QED BY <2>1, <2>2
<1>10. PayoutsKept
  BY <1>8, <1>9 DEF PayoutsKept
<1>11. LinesKept
  BY <1>1 DEF LinesKept
<1>12. SentStay
  BY <1>10, <1>11, SentStays
<1>13. PerJob' /\ Held' /\ InboxTold'
  <2>1. Held'
    BY <1>1, <1>3, <1>8, <1>10, HeldApart
  <2> QED BY <1>1, <1>10, <1>11, <1>12, <2>1, PerJobStays, InboxStays DEF CountedInv
<1>14. BucketTold'
  <2>1. ~Marking \/ (Marking' /\ script'.payouts = script.payouts)
    BY <1>1 DEF Marking
  <2> QED BY <1>1, <1>11, <1>12, <2>1, BucketStays DEF CountedInv
<1>15. PICK t : t = Tail(reader.rows)
  OBVIOUS
<1>16. reader'.pc = "row" /\ reader'.rows = t
  BY <1>15 DEF PayRow
<1>17. ReaderTold'
  <2>1. ToldOf(t)
    BY <1>1, <1>15, TailTold DEF CountedInv, Told, ReaderTold
  <2>2. ToldOf(t)'
    BY <1>12, <2>1, ToldStays
  <2> QED BY <1>16, <2>2 DEF ReaderTold
<1>18. Counting = {} /\ Counting' = {}
  BY <1>1, <1>16 DEF Counting
<1>19. InHand'
  BY <1>16 DEF InHand
<1>20. \A i : OfPayout(i)' = OfPayout(i) /\ PaidLines(i)' = PaidLines(i)
  BY <1>1 DEF OfPayout, PaidLines
<1>21. Processed'
  <2>1. \A i : (PaidLines(i) \ Counting)' = PaidLines(i) \ Counting
    BY <1>18, <1>20
  <2>2. \A i \in DOMAIN payouts : payouts'[i].processed = CostOf(lines, PaidLines(i) \ Counting)
    BY <1>9 DEF CountedInv, Counts, Processed
  <2> QED BY <1>1, <1>8, <2>1, <2>2 DEF Processed
<1>22. ASSUME NEW i \in DOMAIN payouts, OfPayout(i) # {},
              PaidLines(i) = OfPayout(i), CostOf(lines, OfPayout(i)) = payouts'[i].amount
       PROVE  payouts'[i].status = "PAID"
  <2>1. CASE i = p
    <3>1. PaidLines(p) \ Counting = PaidLines(p)
      BY <1>18
    <3>2. x.processed = CostOf(lines, PaidLines(p))
      BY <1>3, <1>4, <3>1 DEF CountedInv, Counts, Processed
    <3>3. x.processed = x.amount
      BY <1>4, <1>9, <1>22, <2>1, <3>2
    <3> QED BY <1>6, <1>8, <2>1, <3>3
  <2>2. CASE i # p
    <3>1. ~Open(i)
      BY <1>1, <1>2, <2>2 DEF Open
    <3>2. payouts'[i] = payouts[i]
      BY <1>8, <2>2
    <3> QED BY <1>22, <3>1, <3>2 DEF CountedInv, Counts, PaidUp
  <2> QED BY <2>1, <2>2
<1>23. PaidUp'
  BY <1>1, <1>8, <1>20, <1>22 DEF PaidUp
<1> QED BY <1>13, <1>14, <1>17, <1>19, <1>21, <1>23 DEF CountedInv, Told, Counts

\* While no process is lost, the counting is right.
CountedNow == SentApartInv /\ Typed /\ (crashes = 0 => CountedInv)

\* At the start there is nothing to count.
LEMMA InitCounted ==
  ASSUME Init
  PROVE  CountedInv
<1>1. /\ payouts = <<>> /\ lines = <<>> /\ bucket = {} /\ inbox = {}
      /\ script.pc = "idle" /\ reader.pc = "idle" /\ paidBy = [c \in Credit |-> NotEarned]
  BY DEF Init, Idle
<1>2. DOMAIN payouts = {} /\ DOMAIN lines = {}
  BY <1>1
<1>3. PerJob
  BY <1>1, <1>2 DEF PerJob, OneFor, CreditsTogether, TenantsAgree, NewJobs
<1>4. Held
  BY <1>1 DEF Held, UploadPC
<1>5. Told
  BY <1>1 DEF Told, BucketTold, InboxTold, ReaderTold
<1>6. Counts
  BY <1>1, <1>2 DEF Counts, InHand, Processed, PaidUp
<1> QED BY <1>3, <1>4, <1>5, <1>6 DEF CountedInv

\* Every step keeps what is counted right, or a process was lost.
LEMMA NextCounted ==
  ASSUME Together, SentApartInv, Typed, CountedInv, [Next]_vars
  PROVE  CountedInv' \/ crashes' # 0
<1>1. ASSUME NEW c \in Credit, Earn(c) PROVE CountedInv'
  BY <1>1, EarnCounted
<1>2. CASE Schedule
  BY <1>2, SchedulePayoutsCounted, ScheduleLinesCounted DEF Schedule
<1>3. CASE Upload
  BY <1>3, UploadCounted
<1>4. CASE Transfer
  BY <1>4, NextTenantCounted, OtherFileCounted, SendLinesCounted, MarkSentCounted,
     CloseBatchCounted DEF Transfer
<1>5. CASE Report
  BY <1>5, ReportCounted
<1>6. CASE Read
  BY <1>6, ListCounted, DownloadCounted, MarkRowCounted, CountRowCounted, PayRowCounted,
     RemoveFileCounted DEF Read
<1>7. CASE Crash
  <2>1. crashes \in Nat /\ crashes' = crashes + 1
    BY <1>7 DEF Crash, Typed, InboxTyped
  <2> QED BY <2>1
<1>8. CASE UNCHANGED vars
  <2>1. UNCHANGED rows /\ UNCHANGED <<bucket, inbox, script, reader>>
    BY <1>8 DEF vars
  <2> QED BY <2>1, Quiet DEF CountedInv, Told
<1> QED BY <1>1, <1>2, <1>3, <1>4, <1>5, <1>6, <1>7, <1>8 DEF Next

\* No process is found again.
LEMMA CrashesStay ==
  ASSUME Typed, [Next]_vars, crashes' = 0
  PROVE  crashes = 0
<1>1. crashes \in Nat
  BY DEF Typed, InboxTyped
<1>2. crashes' = crashes \/ crashes' = crashes + 1
  <2>1. CASE Crash
    BY <2>1 DEF Crash
  <2>2. CASE \E c \in Credit : Earn(c)
    BY <2>2 DEF Earn
  <2>3. CASE Schedule \/ Upload \/ Report
    BY <2>3 DEF Schedule, SchedulePayouts, ScheduleLines, Upload, Report
  <2>4. CASE Transfer
    BY <2>4 DEF Transfer, NextTenant, SendPayment, SendSummary, SendLines, FailUpload,
                MarkSent, CloseBatch
  <2>5. CASE Read
    BY <2>5 DEF Read, List, Download, EndOfList, MarkRow, CountRow, PayRow, RemoveFile
  <2>6. CASE UNCHANGED vars
    BY <2>6 DEF vars
  <2> QED BY <2>1, <2>2, <2>3, <2>4, <2>5, <2>6 DEF Next
<1> QED BY <1>1, <1>2

\* So each line counts once.
LEMMA CountedNowOnce ==
  ASSUME CountedNow
  PROVE  CountedOnce
<1>1. SUFFICES ASSUME reader = Idle, crashes = 0, NEW p \in DOMAIN payouts
               PROVE  LET mine == {l \in DOMAIN lines : lines[l].payout = p}
                      IN  /\ payouts[p].processed = Cost(OfStatus(mine, "PAID"))
                          /\ mine # {} /\ Cost(mine) = payouts[p].amount
                             /\ OfStatus(mine, "PAID") = mine => payouts[p].status = "PAID"
  BY Zenon DEF CountedOnce
<1>2. CountedInv /\ reader.pc = "idle"
  BY <1>1 DEF CountedNow, Idle
<1>3. PICK mine, paid : mine = OfPayout(p) /\ paid = PaidLines(p)
  OBVIOUS
<1>4. mine = {l \in DOMAIN lines : lines[l].payout = p} /\ paid = OfStatus(mine, "PAID")
  BY <1>3 DEF OfPayout, PaidLines, OfStatus
<1>5. Cost(mine) = CostOf(lines, mine) /\ Cost(paid) = CostOf(lines, paid)
  BY Zenon DEF Cost, CostOf
<1>6. paid \ Counting = paid /\ ~Open(p)
  BY <1>2 DEF Counting, Open
<1>7. payouts[p].processed = Cost(paid)
  BY <1>2, <1>3, <1>5, <1>6 DEF CountedInv, Counts, Processed
<1>8. mine # {} /\ Cost(mine) = payouts[p].amount /\ paid = mine => payouts[p].status = "PAID"
  BY <1>2, <1>3, <1>5, <1>6 DEF CountedInv, Counts, PaidUp
<1>9. /\ payouts[p].processed = Cost(OfStatus(mine, "PAID"))
      /\ mine # {} /\ Cost(mine) = payouts[p].amount
         /\ OfStatus(mine, "PAID") = mine => payouts[p].status = "PAID"
  BY <1>4, <1>7, <1>8
<1> QED BY <1>4, <1>9

\* PayoutService.markPayoutLinesAsPaid: what SAP reports is counted once, however often it
\* reports it and a file is read again, and pays the payout when it is the whole of it.
THEOREM ReportsAreCountedOnce ==
  ASSUME Together
  PROVE  Spec => []CountedOnce
<1>1. Init => CountedNow
  BY InitApart, InitTyped, InitCounted DEF CountedNow
<1>2. CountedNow /\ [Next]_vars => CountedNow'
  <2>1. SUFFICES ASSUME CountedNow, [Next]_vars PROVE CountedNow'
    OBVIOUS
  <2>2. SentApartInv' /\ Typed'
    BY <2>1, NextApart, NextTyped DEF CountedNow
  <2>3. crashes' = 0 => CountedInv'
    BY <2>1, NextCounted, CrashesStay DEF CountedNow
  <2> QED BY <2>2, <2>3 DEF CountedNow
<1>3. CountedNow => CountedOnce
  BY CountedNowOnce
<1> QED BY <1>1, <1>2, <1>3, PTL DEF Spec

------------------------------------------------------------------------------
(* Sums of columns, as sums of a function: one lemma per column, for the provers do *)
(* not instantiate an operator                                                      *)

PriceOf(seq, S)  == MapThenSumSet(LAMBDA l : seq[l].price, S)
UnitsCost(q, S)  == MapThenSumSet(LAMBDA i : q[i].quantity * q[i].cost, S)
AmountsIn(S)     == MapThenSumSet(LAMBDA d : d.amount, S)
CostsIn(S)       == MapThenSumSet(LAMBDA d : d.cost, S)
PricesIn(S)      == MapThenSumSet(LAMBDA d : d.price, S)

\* Amounts of rows.
LEMMA AmountSummed ==
  ASSUME NEW seq, NEW S, IsFiniteSet(S), NEW g, \A i \in S : g[i] = seq[i].amount
  PROVE  Amount(seq, S) = Summed(g, S)
<1> DEFINE It(f) == f = [s \in SUBSET S |-> IF s = {} THEN 0
                           ELSE LET x == CHOOSE x \in s : TRUE
                                IN  seq[x].amount + f[s \ {x}]]
           c == CHOOSE f : It(f)
<1>1. PICK e : IsRecursive(e, g, S)
  BY SumsExist
<1>2. \A s \in SUBSET S : s # {} => g[One(s)] = seq[One(s)].amount
  BY DEF One
<1>3. e = [s \in SUBSET S |-> IF s = {} THEN 0 ELSE seq[One(s)].amount + e[s \ {One(s)}]]
  BY <1>1, <1>2 DEF IsRecursive
<1>4. It(e)
  BY <1>3, Zenon DEF One
<1>5. It(c)
  BY <1>4, Zenon
<1>6. Amount(seq, S) = c[S]
  BY Zenon DEF Amount, MapThenSumSet, MapThenFoldSet
<1> HIDE DEF c
<1>7. c = [s \in SUBSET S |-> IF s = {} THEN 0 ELSE seq[One(s)].amount + c[s \ {One(s)}]]
  BY <1>5, Zenon DEF One
<1>8. Sums(c, g, S)
  BY <1>2, <1>7 DEF Sums
<1>9. Summed(g, S) = c[S]
  BY <1>8, SummedPart
<1> QED
  BY <1>6, <1>9

\* Costs of rows.
LEMMA CostSummed ==
  ASSUME NEW seq, NEW S, IsFiniteSet(S), NEW g, \A i \in S : g[i] = seq[i].cost
  PROVE  CostOf(seq, S) = Summed(g, S)
<1> DEFINE It(f) == f = [s \in SUBSET S |-> IF s = {} THEN 0
                           ELSE LET x == CHOOSE x \in s : TRUE
                                IN  seq[x].cost + f[s \ {x}]]
           c == CHOOSE f : It(f)
<1>1. PICK e : IsRecursive(e, g, S)
  BY SumsExist
<1>2. \A s \in SUBSET S : s # {} => g[One(s)] = seq[One(s)].cost
  BY DEF One
<1>3. e = [s \in SUBSET S |-> IF s = {} THEN 0 ELSE seq[One(s)].cost + e[s \ {One(s)}]]
  BY <1>1, <1>2 DEF IsRecursive
<1>4. It(e)
  BY <1>3, Zenon DEF One
<1>5. It(c)
  BY <1>4, Zenon
<1>6. CostOf(seq, S) = c[S]
  BY Zenon DEF CostOf, MapThenSumSet, MapThenFoldSet
<1> HIDE DEF c
<1>7. c = [s \in SUBSET S |-> IF s = {} THEN 0 ELSE seq[One(s)].cost + c[s \ {One(s)}]]
  BY <1>5, Zenon DEF One
<1>8. Sums(c, g, S)
  BY <1>2, <1>7 DEF Sums
<1>9. Summed(g, S) = c[S]
  BY <1>8, SummedPart
<1> QED
  BY <1>6, <1>9

\* Prices of rows.
LEMMA PriceSummed ==
  ASSUME NEW seq, NEW S, IsFiniteSet(S), NEW g, \A i \in S : g[i] = seq[i].price
  PROVE  PriceOf(seq, S) = Summed(g, S)
<1> DEFINE It(f) == f = [s \in SUBSET S |-> IF s = {} THEN 0
                           ELSE LET x == CHOOSE x \in s : TRUE
                                IN  seq[x].price + f[s \ {x}]]
           c == CHOOSE f : It(f)
<1>1. PICK e : IsRecursive(e, g, S)
  BY SumsExist
<1>2. \A s \in SUBSET S : s # {} => g[One(s)] = seq[One(s)].price
  BY DEF One
<1>3. e = [s \in SUBSET S |-> IF s = {} THEN 0 ELSE seq[One(s)].price + e[s \ {One(s)}]]
  BY <1>1, <1>2 DEF IsRecursive
<1>4. It(e)
  BY <1>3, Zenon DEF One
<1>5. It(c)
  BY <1>4, Zenon
<1>6. PriceOf(seq, S) = c[S]
  BY Zenon DEF PriceOf, MapThenSumSet, MapThenFoldSet
<1> HIDE DEF c
<1>7. c = [s \in SUBSET S |-> IF s = {} THEN 0 ELSE seq[One(s)].price + c[s \ {One(s)}]]
  BY <1>5, Zenon DEF One
<1>8. Sums(c, g, S)
  BY <1>2, <1>7 DEF Sums
<1>9. Summed(g, S) = c[S]
  BY <1>8, SummedPart
<1> QED
  BY <1>6, <1>9

\* Costs of packages.
LEMMA UnitsSummed ==
  ASSUME NEW q, NEW S, IsFiniteSet(S), NEW g, \A i \in S : g[i] = q[i].quantity * q[i].cost
  PROVE  UnitsCost(q, S) = Summed(g, S)
<1> DEFINE It(f) == f = [s \in SUBSET S |-> IF s = {} THEN 0
                           ELSE LET x == CHOOSE x \in s : TRUE
                                IN  q[x].quantity * q[x].cost + f[s \ {x}]]
           c == CHOOSE f : It(f)
<1>1. PICK e : IsRecursive(e, g, S)
  BY SumsExist
<1>2. \A s \in SUBSET S : s # {} => g[One(s)] = q[One(s)].quantity * q[One(s)].cost
  BY DEF One
<1>3. e = [s \in SUBSET S |-> IF s = {} THEN 0 ELSE q[One(s)].quantity * q[One(s)].cost + e[s \ {One(s)}]]
  BY <1>1, <1>2 DEF IsRecursive
<1>4. It(e)
  BY <1>3, Zenon DEF One
<1>5. It(c)
  BY <1>4, Zenon
<1>6. UnitsCost(q, S) = c[S]
  BY Zenon DEF UnitsCost, MapThenSumSet, MapThenFoldSet
<1> HIDE DEF c
<1>7. c = [s \in SUBSET S |-> IF s = {} THEN 0 ELSE q[One(s)].quantity * q[One(s)].cost + c[s \ {One(s)}]]
  BY <1>5, Zenon DEF One
<1>8. Sums(c, g, S)
  BY <1>2, <1>7 DEF Sums
<1>9. Summed(g, S) = c[S]
  BY <1>8, SummedPart
<1> QED
  BY <1>6, <1>9

\* What several credits are.
LEMMA DuesSummed ==
  ASSUME NEW S, IsFiniteSet(S), NEW g, \A i \in S : g[i] = Due(i)
  PROVE  MapThenSumSet(Due, S) = Summed(g, S)
<1> DEFINE It(f) == f = [s \in SUBSET S |-> IF s = {} THEN 0
                           ELSE LET x == CHOOSE x \in s : TRUE
                                IN  Due(x) + f[s \ {x}]]
           c == CHOOSE f : It(f)
<1>1. PICK e : IsRecursive(e, g, S)
  BY SumsExist
<1>2. \A s \in SUBSET S : s # {} => g[One(s)] = Due(One(s))
  BY DEF One
<1>3. e = [s \in SUBSET S |-> IF s = {} THEN 0 ELSE Due(One(s)) + e[s \ {One(s)}]]
  BY <1>1, <1>2 DEF IsRecursive
<1>4. It(e)
  BY <1>3, Zenon DEF One
<1>5. It(c)
  BY <1>4, Zenon
<1>6. MapThenSumSet(Due, S) = c[S]
  BY Zenon DEF MapThenSumSet, MapThenFoldSet
<1> HIDE DEF c
<1>7. c = [s \in SUBSET S |-> IF s = {} THEN 0 ELSE Due(One(s)) + c[s \ {One(s)}]]
  BY <1>5, Zenon DEF One
<1>8. Sums(c, g, S)
  BY <1>2, <1>7 DEF Sums
<1>9. Summed(g, S) = c[S]
  BY <1>8, SummedPart
<1> QED
  BY <1>6, <1>9

\* Amounts of records.
LEMMA AmountsInSummed ==
  ASSUME NEW S, IsFiniteSet(S), NEW g, \A i \in S : g[i] = i.amount
  PROVE  AmountsIn(S) = Summed(g, S)
<1> DEFINE It(f) == f = [s \in SUBSET S |-> IF s = {} THEN 0
                           ELSE LET x == CHOOSE x \in s : TRUE
                                IN  x.amount + f[s \ {x}]]
           c == CHOOSE f : It(f)
<1>1. PICK e : IsRecursive(e, g, S)
  BY SumsExist
<1>2. \A s \in SUBSET S : s # {} => g[One(s)] = One(s).amount
  BY DEF One
<1>3. e = [s \in SUBSET S |-> IF s = {} THEN 0 ELSE One(s).amount + e[s \ {One(s)}]]
  BY <1>1, <1>2 DEF IsRecursive
<1>4. It(e)
  BY <1>3, Zenon DEF One
<1>5. It(c)
  BY <1>4, Zenon
<1>6. AmountsIn(S) = c[S]
  BY Zenon DEF AmountsIn, MapThenSumSet, MapThenFoldSet
<1> HIDE DEF c
<1>7. c = [s \in SUBSET S |-> IF s = {} THEN 0 ELSE One(s).amount + c[s \ {One(s)}]]
  BY <1>5, Zenon DEF One
<1>8. Sums(c, g, S)
  BY <1>2, <1>7 DEF Sums
<1>9. Summed(g, S) = c[S]
  BY <1>8, SummedPart
<1> QED
  BY <1>6, <1>9

\* Costs of records.
LEMMA CostsInSummed ==
  ASSUME NEW S, IsFiniteSet(S), NEW g, \A i \in S : g[i] = i.cost
  PROVE  CostsIn(S) = Summed(g, S)
<1> DEFINE It(f) == f = [s \in SUBSET S |-> IF s = {} THEN 0
                           ELSE LET x == CHOOSE x \in s : TRUE
                                IN  x.cost + f[s \ {x}]]
           c == CHOOSE f : It(f)
<1>1. PICK e : IsRecursive(e, g, S)
  BY SumsExist
<1>2. \A s \in SUBSET S : s # {} => g[One(s)] = One(s).cost
  BY DEF One
<1>3. e = [s \in SUBSET S |-> IF s = {} THEN 0 ELSE One(s).cost + e[s \ {One(s)}]]
  BY <1>1, <1>2 DEF IsRecursive
<1>4. It(e)
  BY <1>3, Zenon DEF One
<1>5. It(c)
  BY <1>4, Zenon
<1>6. CostsIn(S) = c[S]
  BY Zenon DEF CostsIn, MapThenSumSet, MapThenFoldSet
<1> HIDE DEF c
<1>7. c = [s \in SUBSET S |-> IF s = {} THEN 0 ELSE One(s).cost + c[s \ {One(s)}]]
  BY <1>5, Zenon DEF One
<1>8. Sums(c, g, S)
  BY <1>2, <1>7 DEF Sums
<1>9. Summed(g, S) = c[S]
  BY <1>8, SummedPart
<1> QED
  BY <1>6, <1>9

\* Prices of records.
LEMMA PricesInSummed ==
  ASSUME NEW S, IsFiniteSet(S), NEW g, \A i \in S : g[i] = i.price
  PROVE  PricesIn(S) = Summed(g, S)
<1> DEFINE It(f) == f = [s \in SUBSET S |-> IF s = {} THEN 0
                           ELSE LET x == CHOOSE x \in s : TRUE
                                IN  x.price + f[s \ {x}]]
           c == CHOOSE f : It(f)
<1>1. PICK e : IsRecursive(e, g, S)
  BY SumsExist
<1>2. \A s \in SUBSET S : s # {} => g[One(s)] = One(s).price
  BY DEF One
<1>3. e = [s \in SUBSET S |-> IF s = {} THEN 0 ELSE One(s).price + e[s \ {One(s)}]]
  BY <1>1, <1>2 DEF IsRecursive
<1>4. It(e)
  BY <1>3, Zenon DEF One
<1>5. It(c)
  BY <1>4, Zenon
<1>6. PricesIn(S) = c[S]
  BY Zenon DEF PricesIn, MapThenSumSet, MapThenFoldSet
<1> HIDE DEF c
<1>7. c = [s \in SUBSET S |-> IF s = {} THEN 0 ELSE One(s).price + c[s \ {One(s)}]]
  BY <1>5, Zenon DEF One
<1>8. Sums(c, g, S)
  BY <1>2, <1>7 DEF Sums
<1>9. Summed(g, S) = c[S]
  BY <1>8, SummedPart
<1> QED
  BY <1>6, <1>9

\* The units of a credit cost what is due.
LEMMA ItemsCost ==
  ASSUME NEW c \in Credit
  PROVE  CostOf(Items(c), DOMAIN Items(c)) = Due(c)
<1>0. c \in [job : Job, owner : Owner, type : CreditType]
  BY FilesAssumption
<1>1. CASE c.type # "INCOME"
  <2>1. PICK x : x = Surcharge[c.job]
    OBVIOUS
  <2>2. x.cost \in Nat
    BY <1>0, <2>1, FilesAssumption
  <2>3. PICK q : q = Items(c)
    OBVIOUS
  <2>4. q = <<x>>
    BY <1>1, <2>1, <2>3 DEF Items
  <2>5. DOMAIN q = {1} /\ q[1] = x
    BY <2>4
  <2>6. PICK g : g = [k \in {1} |-> x.cost]
    OBVIOUS
  <2>7. g[1] = x.cost /\ \A k \in {1} : g[k] = q[k].cost
    BY <2>5, <2>6
  <2>8. IsFiniteSet({1})
    BY FS_Singleton
  <2>9. CostOf(q, {1}) = Summed(g, {1})
    BY <2>7, <2>8, CostSummed
  <2>10. Summed(g, {1}) = x.cost
    BY <2>2, <2>7, SumOfSingle
  <2>11. Due(c) = x.cost
    BY <1>1, <2>1 DEF Due
  <2> QED BY <2>3, <2>5, <2>9, <2>10, <2>11
<1>2. CASE c.type = "INCOME"
  <2>1. PICK q : q = Packages[c.job]
    OBVIOUS
  <2>2. q \in Seq([quantity : Nat, cost : Nat, price : Nat])
    BY <1>0, <2>1, FilesAssumption
  <2>3. PICK n \in Nat : n = Len(q) /\ DOMAIN q = 1..n
    BY <2>2
  <2> DEFINE units(i) == [k \in 1..q[i].quantity |-> [cost |-> q[i].cost, price |-> q[i].price]]
  <2>4. ASSUME NEW i \in 1..n
        PROVE  q[i].quantity \in Nat /\ q[i].cost \in Nat /\ q[i].price \in Nat
    <3>1. PICK R : R = [quantity : Nat, cost : Nat, price : Nat]
      OBVIOUS
    <3>2. q \in Seq(R) /\ i \in DOMAIN q
      BY <2>2, <2>3, <3>1
    <3>3. q[i] \in R
      BY <3>2
    <3> QED BY <3>1, <3>3
  <2>5. ASSUME NEW i \in 1..n PROVE units(i) \in Seq(Item)
    <3>1. PICK m \in Nat, x \in Item :
            m = q[i].quantity /\ x = [cost |-> q[i].cost, price |-> q[i].price]
      BY <2>4 DEF Item
    <3>2. [k \in 1..m |-> x] \in Seq(Item)
      BY <3>1
    <3> QED BY <3>1, <3>2
  <2>6. PICK Q : Q = [i \in 1..n |-> units(i)]
    OBVIOUS
  <2>7. Q \in Seq(Seq(Item)) /\ Len(Q) = n
    <3>1. PICK S : S = Seq(Item)
      OBVIOUS
    <3> HIDE DEF units
    <3>2. Q \in Seq(S) /\ Len(Q) = n
      BY <2>5, <2>6, <3>1
    <3> QED BY <3>1, <3>2
  <2>8. \A i \in 1..n : /\ DOMAIN Q[i] = 1..q[i].quantity
                        /\ \A k \in DOMAIN Q[i] : Q[i][k].cost = q[i].cost
    BY <2>6
  <2>9. PICK F : F = FlattenSeq(Q)
    OBVIOUS
  <2>10. F = Items(c)
    BY <1>2, <2>1, <2>3, <2>6, <2>9, Zenon DEF Items
  <2> HIDE DEF units
  <2>11. PICK at, off : Places(F, Q, n, at, off)
    BY <2>7, <2>9, FlattenPlaces
  <2>12. F \in Seq(Item)
    BY <2>7, <2>9, FlattenType
  <2>13. PICK D : D = DOMAIN F
    OBVIOUS
  <2>14. IsFiniteSet(D) /\ \A T : T \subseteq D => IsFiniteSet(T)
    BY <2>12, <2>13, TableRows
  <2>15. \A k \in D : /\ at[k] \in 1..n /\ off[k] \in 1..q[at[k]].quantity
                      /\ F[k].cost = q[at[k]].cost
    <3>1. ASSUME NEW k \in D
          PROVE  at[k] \in 1..n /\ off[k] \in DOMAIN Q[at[k]] /\ F[k] = Q[at[k]][off[k]]
      BY <2>11, <2>13 DEF Places
    <3>2. ASSUME NEW k \in D
          PROVE  off[k] \in 1..q[at[k]].quantity /\ F[k].cost = q[at[k]].cost
      <4>1. PICK i, r : i = at[k] /\ r = off[k]
        OBVIOUS
      <4>2. i \in 1..n /\ r \in DOMAIN Q[i] /\ F[k] = Q[i][r]
        BY <3>1, <4>1
      <4>3. r \in 1..q[i].quantity /\ F[k].cost = q[i].cost
        BY <2>8, <4>2
      <4> QED BY <4>1, <4>3
    <3> QED BY <3>1, <3>2
  <2>16. PICK g : g = [k \in D |-> F[k].cost]
    OBVIOUS
  <2>17. \A k \in D : g[k] = F[k].cost /\ g[k] \in Int
    <3>1. \A k \in D : q[at[k]].cost \in Nat
      BY <2>4, <2>15
    <3> QED BY <2>15, <2>16, <3>1
  <2>18. PICK v : v = [i \in 1..n |-> q[i].quantity * q[i].cost]
    OBVIOUS
  <2>19. \A i \in 1..n : v[i] = q[i].quantity * q[i].cost
    BY <2>18
  <2>20. ASSUME NEW i \in 1..n PROVE v[i] = Summed(g, {k \in D : at[k] = i})
    <3>1. PICK S : S = {k \in D : at[k] = i}
      OBVIOUS
    <3>2. PICK m \in Nat, x \in Nat : m = q[i].quantity /\ x = q[i].cost
      BY <2>4
    <3>3. PICK w : w = [r \in 1..m |-> x]
      OBVIOUS
    <3>4. IsFiniteSet(S)
      BY <2>14, <3>1
    <3>5. IsFiniteSet(1..m)
      <4>1. 1 \in Int /\ m \in Int
        OBVIOUS
      <4> QED BY <4>1, FS_Interval
    <3>6. \A k \in S : g[k] \in Int /\ off[k] \in 1..m /\ w[off[k]] = g[k]
      BY <2>15, <2>17, <3>1, <3>2, <3>3
    <3>7. \A k, l \in S : off[k] = off[l] => k = l
      BY <2>11, <2>13, <3>1 DEF Places
    <3>8. ASSUME NEW r \in 1..m PROVE \E k \in S : off[k] = r
      <4>1. r \in DOMAIN Q[i]
        BY <2>8, <3>2
      <4>2. PICK k \in D : at[k] = i /\ off[k] = r
        BY <2>11, <2>13, <4>1 DEF Places
      <4> QED BY <3>1, <4>2
    <3>9. Summed(g, S) = Summed(w, 1..m)
      <4>1. PICK T : T = 1..m
        OBVIOUS
      <4>2. /\ IsFiniteSet(T)
            /\ \A k \in S : g[k] \in Int /\ off[k] \in T /\ w[off[k]] = g[k]
            /\ \A r \in T : \E k \in S : off[k] = r
        BY <3>5, <3>6, <3>8, <4>1
      <4>3. Summed(g, S) = Summed(w, T)
        BY <3>4, <3>7, <4>2, SumOfImage
      <4> QED BY <4>1, <4>3
    <3>10. Summed(w, 1..m) = m * x
      <4>1. \A k \in 1..m : w[k] = x
        BY <3>3
      <4>2. x \in Int
        OBVIOUS
      <4> QED BY <4>1, <4>2, SumOfConstant
    <3> QED BY <2>19, <3>1, <3>2, <3>9, <3>10
  <2>21. Fibers(g, v, at, D, 1..n)
    BY <2>20, Zenon DEF Fibers
  <2>22. IsFiniteSet(1..n)
    <3>1. 1 \in Int /\ n \in Int
      OBVIOUS
    <3> QED BY <3>1, FS_Interval
  <2>23. Summed(g, D) = Summed(v, 1..n)
    <3>1. \A k \in D : g[k] \in Int /\ at[k] \in 1..n
      BY <2>15, <2>17
    <3> QED BY <2>14, <2>21, <2>22, <3>1, SumOfFibers
  <2>24. CostOf(F, D) = Summed(g, D)
    BY <2>14, <2>17, CostSummed
  <2>25. UnitsCost(q, 1..n) = Summed(v, 1..n)
    BY <2>19, <2>22, UnitsSummed
  <2>26. Due(c) = UnitsCost(q, DOMAIN q)
    <3>1. Due(c) = UnitsCost(Packages[c.job], DOMAIN Packages[c.job])
      BY <1>2, Zenon DEF Due, UnitsCost
    <3> QED BY <2>1, <3>1
  <2> QED BY <2>3, <2>10, <2>13, <2>23, <2>24, <2>25, <2>26
<1> QED BY <1>1, <1>2

------------------------------------------------------------------------------
(* The invariant of the files: what they ask for is what the credits are *)

\* The credit that a line is a unit of, and the units of a credit.
CreditOf(l) == [job |-> lines[l].job, owner |-> lines[l].owner, type |-> lines[l].type]
UnitsOf(c)  == {l \in DOMAIN lines : CreditOf(l) = c}

\* What a payout pays, and the lines of a batch.
PaidIn(p) == {c \in Credit : paidBy[c] = p}
IdsOf(b)  == {l \in DOMAIN lines : lines[l].payout \in batches[b].payouts}

\* A payout is of what its credits are.
Owed == \A p \in DOMAIN payouts : payouts[p].amount = MapThenSumSet(Due, PaidIn(p))

\* The units of a credit cost what it is, and have one payout.
Lined ==
  /\ \A l \in DOMAIN lines :
       /\ CreditOf(l) \in Credit /\ paidBy[CreditOf(l)] \in DOMAIN payouts
       /\ CostOf(lines, UnitsOf(CreditOf(l))) = Due(CreditOf(l))
  /\ \A l, k \in DOMAIN lines : CreditOf(l) = CreditOf(k) => lines[l].payout = lines[k].payout

\* Credits whose lines are still to be made have none, and are in no batch.
NewCredits ==
  script.pc = "scheduleLines" =>
    \A c \in script.credits : /\ \A l \in DOMAIN lines : CreditOf(l) # c
                              /\ \A b \in DOMAIN batches : paidBy[c] \notin batches[b].payouts

Batched ==
  \A b \in DOMAIN batches : /\ batches[b].payouts \subseteq DOMAIN payouts
                            /\ batches[b].total = Amount(payouts, batches[b].payouts)

\* The second script has all lines of the payouts that it loaded, and of its batch.
InMemory ==
  script.pc \in UploadPC =>
    /\ script.lines = {l \in DOMAIN lines : lines[l].payout \in DOMAIN script.loaded}
    /\ script.pc \in InBatch => script.ids = IdsOf(Len(batches))
    /\ \A p \in DOMAIN script.loaded : /\ script.loaded[p].owner = payouts[p].owner
                                       /\ script.loaded[p].amount = payouts[p].amount

\* A file says of its batch what the rows say.
WrittenFile(f) ==
  /\ f.batch \in DOMAIN batches
  /\ f.kind = "payment" => f.content = PaymentFile(batches[f.batch].payouts)
  /\ f.kind = "lines" => f.content = LinesFile(IdsOf(f.batch))
  /\ f.kind = "summary" => \A r \in f.content :
       /\ r.cost = CostOf(lines, OfJob(IdsOf(f.batch), r.job))
       /\ r.sales = PriceOf(lines, OfJob(IdsOf(f.batch), r.job)) - Promotion[r.job]

Written == \A f \in bucket : WrittenFile(f)

AgreeInv == Owed /\ Lined /\ TenantsAgree /\ NewCredits /\ Batched /\ InMemory /\ Written

------------------------------------------------------------------------------
(* What a step leaves alone of the money *)

LinesSame ==
  /\ DOMAIN lines \subseteq DOMAIN lines'
  /\ \A l \in DOMAIN lines :
       /\ lines'[l].job = lines[l].job /\ lines'[l].owner = lines[l].owner
       /\ lines'[l].type = lines[l].type /\ lines'[l].payout = lines[l].payout
       /\ lines'[l].cost = lines[l].cost /\ lines'[l].price = lines[l].price

PayoutsSame ==
  /\ DOMAIN payouts \subseteq DOMAIN payouts'
  /\ \A p \in DOMAIN payouts :
       /\ payouts'[p].owner = payouts[p].owner /\ payouts'[p].tenant = payouts[p].tenant
       /\ payouts'[p].amount = payouts[p].amount

BatchesSame ==
  /\ DOMAIN batches \subseteq DOMAIN batches'
  /\ \A b \in DOMAIN batches : /\ batches'[b].payouts = batches[b].payouts
                               /\ batches'[b].total = batches[b].total

\* Rows that do not change ask for the same.
LEMMA MoneyLeft ==
  /\ UNCHANGED lines => LinesSame
  /\ UNCHANGED payouts => PayoutsSame
  /\ UNCHANGED batches => BatchesSame
BY DEF LinesSame, PayoutsSame, BatchesSame

\* The payouts are finitely many rows, of natural amounts.
LEMMA PayoutRows ==
  ASSUME Typed
  PROVE  /\ IsFiniteSet(DOMAIN payouts) /\ DOMAIN payouts \subseteq Nat
         /\ \A P : P \subseteq DOMAIN payouts => IsFiniteSet(P)
         /\ \A p \in DOMAIN payouts : /\ payouts[p] \in PayoutRow /\ payouts[p].amount \in Nat
                                      /\ p # NotEarned /\ p # Payable
<1>1. payouts \in Seq(PayoutRow)
  BY DEF Typed, RowsTyped
<1>2. /\ IsFiniteSet(DOMAIN payouts) /\ DOMAIN payouts \subseteq Nat
      /\ \A P : P \subseteq DOMAIN payouts => IsFiniteSet(P)
  BY <1>1, TableRows
<1>3. \A p \in DOMAIN payouts : payouts[p] \in PayoutRow
  BY <1>1
<1>4. \A p \in DOMAIN payouts : payouts[p].amount \in Nat
  BY <1>3 DEF PayoutRow
<1>5. PICK n \in Nat : DOMAIN payouts = 1..n
  BY <1>1
<1>6. \A p \in DOMAIN payouts : p # NotEarned /\ p # Payable
  BY <1>5 DEF NotEarned, Payable
<1> QED BY <1>2, <1>3, <1>4, <1>6

\* Each line has its price and cost, its type, its job and its owner.
LEMMA LineRows ==
  ASSUME Typed
  PROVE  \A l \in DOMAIN lines :
           /\ lines[l].price \in Nat /\ lines[l].cost \in Nat /\ lines[l].type \in CreditType
           /\ lines[l].job \in Job /\ lines[l].owner \in Owner
<1>1. lines \in Seq(LineRow)
  BY DEF Typed, RowsTyped
<1>2. \A l \in DOMAIN lines : lines[l] \in LineRow
  BY <1>1
<1> QED BY <1>2 DEF LineRow

\* Lines that cost the same each cost the same together,
LEMMA CostsStay ==
  ASSUME Typed, LinesSame, NEW S, S \subseteq DOMAIN lines
  PROVE  CostOf(lines', S) = CostOf(lines, S) /\ PriceOf(lines', S) = PriceOf(lines, S)
<1>1. PICK a, b : a = lines /\ b = lines'
  OBVIOUS
<1>2. IsFiniteSet(S)
  BY LinesTyped
<1>3. \A i \in S : a[i].cost = b[i].cost /\ a[i].price = b[i].price
  BY <1>1 DEF LinesSame
<1>4. CostOf(a, S) = CostOf(b, S)
  BY <1>2, <1>3, CostsAgree
<1>5. PriceOf(a, S) = PriceOf(b, S)
  <2>1. PICK g : g = [i \in S |-> a[i].price]
    OBVIOUS
  <2>2. \A i \in S : g[i] = a[i].price /\ g[i] = b[i].price
    BY <1>3, <2>1
  <2>3. PriceOf(a, S) = Summed(g, S) /\ PriceOf(b, S) = Summed(g, S)
    BY <1>2, <2>2, PriceSummed
  <2> QED BY <2>3
<1> QED BY <1>1, <1>4, <1>5

\* and so do payouts,
LEMMA AmountsStay ==
  ASSUME Typed, PayoutsSame, NEW P, P \subseteq DOMAIN payouts
  PROVE  Amount(payouts', P) = Amount(payouts, P)
<1>1. PICK a, b : a = payouts /\ b = payouts'
  OBVIOUS
<1>2. IsFiniteSet(P)
  BY PayoutRows
<1>3. PICK g : g = [i \in P |-> a[i].amount]
  OBVIOUS
<1>4. \A i \in P : g[i] = a[i].amount /\ g[i] = b[i].amount
  BY <1>1, <1>3 DEF PayoutsSame
<1>5. Amount(a, P) = Summed(g, P) /\ Amount(b, P) = Summed(g, P)
  BY <1>2, <1>4, AmountSummed
<1> QED BY <1>1, <1>5

\* and a credit has the same units.
LEMMA UnitsStay ==
  ASSUME LinesSame
  PROVE  /\ \A l \in DOMAIN lines : CreditOf(l)' = CreditOf(l)
         /\ DOMAIN lines' = DOMAIN lines => \A c : UnitsOf(c)' = UnitsOf(c)
<1>1. \A l \in DOMAIN lines : CreditOf(l)' = CreditOf(l)
  BY DEF LinesSame, CreditOf
<1>2. ASSUME DOMAIN lines' = DOMAIN lines, NEW c PROVE UnitsOf(c)' = UnitsOf(c)
  BY <1>1, <1>2 DEF UnitsOf
<1> QED BY <1>1, <1>2

\* New lines are of no batch.
LEMMA IdsStay ==
  ASSUME LinesSame, BatchesSame,
         \A k \in DOMAIN lines' \ DOMAIN lines :
           \A b \in DOMAIN batches : lines'[k].payout \notin batches[b].payouts
  PROVE  \A b \in DOMAIN batches : IdsOf(b)' = IdsOf(b)
<1>1. ASSUME NEW b \in DOMAIN batches PROVE IdsOf(b)' = IdsOf(b)
  BY DEF IdsOf, LinesSame, BatchesSame
<1> QED BY <1>1

\* A file says what the rows say as long as these do not change.
LEMMA FileStays ==
  ASSUME Typed, Batched, LinesSame, PayoutsSame, BatchesSame,
         \A b \in DOMAIN batches : IdsOf(b)' = IdsOf(b), NEW f, WrittenFile(f)
  PROVE  WrittenFile(f)'
<1>1. PICK b : b = f.batch
  OBVIOUS
<1>2. PICK P : P = batches[b].payouts
  OBVIOUS
<1>3. PICK L : L = IdsOf(b)
  OBVIOUS
<1>4. b \in DOMAIN batches /\ P \subseteq DOMAIN payouts /\ L \subseteq DOMAIN lines
  BY <1>1, <1>2, <1>3 DEF WrittenFile, Batched, IdsOf
<1>5. b \in DOMAIN batches' /\ batches'[b].payouts = P /\ IdsOf(b)' = L
  BY <1>2, <1>3, <1>4 DEF BatchesSame
<1>6. PaymentFile(P)' = PaymentFile(P)
  <2>1. \A p \in P : Detail(p)' = Detail(p)
    BY <1>4 DEF Detail, PayoutsSame
  <2>2. Amount(payouts', P) = Amount(payouts, P)
    BY <1>4, AmountsStay
  <2>3. {Detail(p)' : p \in P} = {Detail(p) : p \in P}
    BY <2>1
  <2>4. Invoice(P)' = Invoice(P) /\ Trailer(P)' = Trailer(P)
    BY <2>2 DEF Invoice, Trailer
  <2> QED BY <2>3, <2>4, Zenon DEF PaymentFile
<1>7. LinesFile(L)' = LinesFile(L)
  <2>1. \A j : OfJob(L, j)' = OfJob(L, j)
    BY <1>4 DEF OfJob, LinesSame
  <2>2. ASSUME NEW l \in L PROVE LinesRow(L, l)' = LinesRow(L, l)
    <3>1. PICK j : j = lines[l].job
      OBVIOUS
    <3>2. j = lines'[l].job
      BY <1>4, <3>1 DEF LinesSame
    <3>3. {k \in OfJob(L, j)' : k <= l} = {k \in OfJob(L, j) : k <= l}
      BY <2>1
    <3>4. /\ lines'[l].owner = lines[l].owner /\ lines'[l].cost = lines[l].cost
          /\ lines'[l].price = lines[l].price
      BY <1>4 DEF LinesSame
    <3>5. LinesRow(L, l) = [job |-> j, number |-> Cardinality({k \in OfJob(L, j) : k <= l}),
             cost |-> lines[l].cost, price |-> lines[l].price, vendor |-> lines[l].owner]
      BY <3>1 DEF LinesRow
    <3>6. LinesRow(L, l)' = [job |-> j, number |-> Cardinality({k \in OfJob(L, j)' : k <= l}),
             cost |-> lines'[l].cost, price |-> lines'[l].price, vendor |-> lines'[l].owner]
      BY <3>2 DEF LinesRow
    <3> QED BY <3>3, <3>4, <3>5, <3>6
  <2> QED BY <2>2 DEF LinesFile
<1>8. ASSUME NEW j
      PROVE  /\ CostOf(lines', OfJob(L, j)') = CostOf(lines, OfJob(L, j))
             /\ PriceOf(lines', OfJob(L, j)') = PriceOf(lines, OfJob(L, j))
  <2>1. PICK S : S = OfJob(L, j)
    OBVIOUS
  <2>2. S = OfJob(L, j)' /\ S \subseteq DOMAIN lines
    BY <1>4, <2>1 DEF OfJob, LinesSame
  <2> QED BY <2>1, <2>2, CostsStay
<1>9. f.kind = "summary" => \A r \in f.content :
        /\ r.cost = CostOf(lines', OfJob(L, r.job)')
        /\ r.sales = PriceOf(lines', OfJob(L, r.job)') - Promotion[r.job]
  <2>1. f.kind = "summary" => \A r \in f.content :
          /\ r.cost = CostOf(lines, OfJob(L, r.job))
          /\ r.sales = PriceOf(lines, OfJob(L, r.job)) - Promotion[r.job]
    BY <1>1, <1>3 DEF WrittenFile
  <2>2. ASSUME f.kind = "summary", NEW r \in f.content
        PROVE  /\ r.cost = CostOf(lines', OfJob(L, r.job)')
               /\ r.sales = PriceOf(lines', OfJob(L, r.job)') - Promotion[r.job]
    <3>1. PICK j : j = r.job
      OBVIOUS
    <3>2. r.cost = CostOf(lines, OfJob(L, j)) /\ r.sales = PriceOf(lines, OfJob(L, j)) - Promotion[j]
      BY <2>1, <2>2, <3>1
    <3>3. /\ CostOf(lines', OfJob(L, j)') = CostOf(lines, OfJob(L, j))
          /\ PriceOf(lines', OfJob(L, j)') = PriceOf(lines, OfJob(L, j))
      BY <1>8
    <3> QED BY <3>1, <3>2, <3>3
  <2> QED BY <2>2
<1>10. f.kind = "payment" => f.content = PaymentFile(P)'
  BY <1>1, <1>2, <1>6 DEF WrittenFile
<1>11. f.kind = "lines" => f.content = LinesFile(L)'
  BY <1>1, <1>3, <1>7 DEF WrittenFile
<1> QED BY <1>1, <1>5, <1>9, <1>10, <1>11 DEF WrittenFile

------------------------------------------------------------------------------
(* The steps that change nothing of the money *)

\* The rows change in place, and nothing of the money in them.
Still ==
  /\ UNCHANGED paidBy /\ LinesSame /\ PayoutsSame /\ BatchesSame
  /\ DOMAIN lines' = DOMAIN lines /\ DOMAIN payouts' = DOMAIN payouts
  /\ DOMAIN batches' = DOMAIN batches

\* The same, but batches are made.
Kept ==
  /\ UNCHANGED paidBy /\ LinesSame /\ PayoutsSame /\ BatchesSame
  /\ DOMAIN lines' = DOMAIN lines /\ DOMAIN payouts' = DOMAIN payouts

\* Steps that change no row leave all of that as it is.
LEMMA StillLeft ==
  UNCHANGED rows => Still
BY MoneyLeft DEF rows, Still

\* Where no batch is added there are as many as before.
LEMMA StillLen ==
  ASSUME Typed, Typed', DOMAIN batches' = DOMAIN batches
  PROVE  Len(batches') = Len(batches)
<1>1. PICK a, d : a = batches /\ d = batches'
  OBVIOUS
<1>2. PICK R : R = BatchRow
  OBVIOUS
<1>3. a \in Seq(R) /\ d \in Seq(R)
  BY <1>1, <1>2 DEF Typed, RowsTyped
<1>4. Len(a) \in Nat /\ Len(d) \in Nat /\ DOMAIN a = 1..Len(a) /\ DOMAIN d = 1..Len(d)
  BY <1>3
<1>5. 1..Len(a) = 1..Len(d)
  BY <1>1, <1>4
<1>6. \A m, n \in Nat : 1..m = 1..n => m = n
  <2>1. ASSUME NEW m \in Nat, NEW n \in Nat, 1..m = 1..n, m < n PROVE FALSE
    <3>1. n \in 1..n /\ n \notin 1..m
      BY <2>1
    <3> QED BY <2>1, <3>1
  <2>2. ASSUME NEW m \in Nat, NEW n \in Nat, 1..m = 1..n PROVE m = n
    <3>1. ~(m < n)
      BY <2>1, <2>2
    <3>2. ~(n < m)
      BY <2>1, <2>2
    <3> QED BY <3>1, <3>2
  <2> QED BY <2>2
<1> QED BY <1>1, <1>4, <1>5, <1>6

\* What the second script has stays what it loaded.
LEMMA MemoryStays ==
  ASSUME SentApartInv, Typed, Typed', InMemory, Still, script.pc \in UploadPC,
         script'.lines = script.lines, script'.loaded = script.loaded,
         script'.pc \in InBatch => script.pc \in InBatch /\ script'.ids = script.ids
  PROVE  InMemory'
<1>1. /\ script.lines = {l \in DOMAIN lines : lines[l].payout \in DOMAIN script.loaded}
      /\ script.pc \in InBatch => script.ids = IdsOf(Len(batches))
      /\ \A p \in DOMAIN script.loaded : /\ script.loaded[p].owner = payouts[p].owner
                                         /\ script.loaded[p].amount = payouts[p].amount
  BY DEF InMemory
<1>2. script'.lines = {l \in DOMAIN lines' : lines'[l].payout \in DOMAIN script'.loaded}
  BY <1>1 DEF Still, LinesSame
<1>3. DOMAIN script.loaded \subseteq DOMAIN payouts
  BY UploadMemory DEF IsUpload
<1>4. \A p \in DOMAIN script'.loaded : /\ script'.loaded[p].owner = payouts'[p].owner
                                       /\ script'.loaded[p].amount = payouts'[p].amount
  BY <1>1, <1>3 DEF Still, PayoutsSame
<1>5. script'.pc \in InBatch => script'.ids = IdsOf(Len(batches))'
  <2>1. SUFFICES ASSUME script'.pc \in InBatch PROVE script'.ids = IdsOf(Len(batches))'
    OBVIOUS
  <2>2. PICK n : n = Len(batches)
    OBVIOUS
  <2>3. n = Len(batches')
    BY <2>2, StillLen DEF Still
  <2>4. n \in DOMAIN batches
    <3>1. Len(batches) > 0
      BY <2>1, UploadMemory
    <3>2. PICK a, R : a = batches /\ R = BatchRow
      OBVIOUS
    <3>3. a \in Seq(R)
      BY <3>2 DEF Typed, RowsTyped
    <3>4. Len(a) \in Nat /\ DOMAIN a = 1..Len(a)
      BY <3>3
    <3> QED BY <2>2, <3>1, <3>2, <3>4
  <2>5. IdsOf(n)' = IdsOf(n)
    BY <2>4, IdsStay DEF Still
  <2> QED BY <1>1, <2>1, <2>2, <2>3, <2>5
<1> QED BY <1>2, <1>4, <1>5 DEF InMemory

\* A step that keeps the money and the files, but the batches that it makes and the files
\* that it writes.
LEMMA AgreeOn ==
  ASSUME Typed, AgreeInv, Kept, InMemory', NewCredits',
         \A b \in DOMAIN batches' \ DOMAIN batches :
           /\ batches'[b].payouts \subseteq DOMAIN payouts
           /\ batches'[b].total = Amount(payouts, batches'[b].payouts),
         \A f \in bucket' : f \in bucket \/ WrittenFile(f)
  PROVE  AgreeInv'
<1>1. Owed'
  <2>1. \A p : PaidIn(p)' = PaidIn(p)
    BY DEF Kept, PaidIn
  <2>2. \A p \in DOMAIN payouts : payouts[p].amount = MapThenSumSet(Due, PaidIn(p))
    BY DEF AgreeInv, Owed
  <2>3. ASSUME NEW p \in DOMAIN payouts'
        PROVE  payouts'[p].amount = MapThenSumSet(Due, PaidIn(p)')
    <3>1. p \in DOMAIN payouts /\ payouts'[p].amount = payouts[p].amount
      BY DEF Kept, PayoutsSame
    <3> QED BY <2>1, <2>2, <3>1
  <2> QED BY <2>3 DEF Owed
<1>2. Lined'
  <2>1. /\ \A l \in DOMAIN lines : CreditOf(l)' = CreditOf(l)
        /\ \A c : UnitsOf(c)' = UnitsOf(c)
    BY UnitsStay DEF Kept
  <2>2. ASSUME NEW l \in DOMAIN lines
        PROVE  /\ CreditOf(l)' \in Credit /\ paidBy'[CreditOf(l)'] \in DOMAIN payouts'
               /\ CostOf(lines', UnitsOf(CreditOf(l))') = Due(CreditOf(l)')
    <3>1. PICK c : c = CreditOf(l)
      OBVIOUS
    <3>2. c = CreditOf(l)'
      BY <2>1, <3>1
    <3>3. PICK S : S = UnitsOf(c)
      OBVIOUS
    <3>4. S = UnitsOf(c)' /\ S \subseteq DOMAIN lines
      BY <2>1, <3>3 DEF UnitsOf
    <3>5. c \in Credit /\ paidBy[c] \in DOMAIN payouts /\ CostOf(lines, S) = Due(c)
      BY <3>1, <3>3 DEF AgreeInv, Lined
    <3>6. CostOf(lines', S) = Due(c)
      BY <3>4, <3>5, CostsStay DEF Kept
    <3>7. UnitsOf(CreditOf(l))' = S
      BY <3>2, <3>4
    <3> QED BY <3>2, <3>5, <3>6, <3>7 DEF Kept
  <2>3. \A l, k \in DOMAIN lines : CreditOf(l)' = CreditOf(k)' => lines'[l].payout = lines'[k].payout
    BY <2>1 DEF AgreeInv, Lined, Kept, LinesSame
  <2> QED BY <2>2, <2>3 DEF Lined, Kept
<1>3. TenantsAgree'
  <2>1. \A c \in Credit : paidBy'[c] \in DOMAIN payouts' =>
                         payouts'[paidBy'[c]].tenant = PrincipalGroup[c.job]
    BY DEF AgreeInv, TenantsAgree, Kept, PayoutsSame
  <2>2. \A l \in DOMAIN lines' : payouts'[lines'[l].payout].tenant = PrincipalGroup[lines'[l].job]
    BY PayoutOfLine DEF AgreeInv, TenantsAgree, Kept, PayoutsSame, LinesSame
  <2> QED BY <2>1, <2>2 DEF TenantsAgree
<1>4. Batched'
  <2>1. ASSUME NEW b \in DOMAIN batches'
        PROVE  /\ batches'[b].payouts \subseteq DOMAIN payouts'
               /\ batches'[b].total = Amount(payouts', batches'[b].payouts)
    <3>1. PICK P : P = batches'[b].payouts
      OBVIOUS
    <3>2. P \subseteq DOMAIN payouts /\ batches'[b].total = Amount(payouts, P)
      <4>1. CASE b \in DOMAIN batches
        BY <3>1, <4>1 DEF AgreeInv, Batched, Kept, BatchesSame
      <4>2. CASE b \notin DOMAIN batches
        BY <3>1, <4>2
      <4> QED BY <4>1, <4>2
    <3>3. Amount(payouts', P) = Amount(payouts, P)
      BY <3>2, AmountsStay DEF Kept
    <3> QED BY <3>1, <3>2, <3>3 DEF Kept
  <2> QED BY <2>1 DEF Batched
<1>5. Written'
  <2>1. \A b \in DOMAIN batches : IdsOf(b)' = IdsOf(b)
    BY IdsStay DEF Kept
  <2>2. \A f \in bucket' : WrittenFile(f)
    BY DEF AgreeInv, Written
  <2>3. ASSUME NEW f \in bucket' PROVE WrittenFile(f)'
    <3>1. PICK g : g = f
      OBVIOUS
    <3>2. WrittenFile(g)
      BY <2>2, <3>1
    <3>3. WrittenFile(g)'
      BY <2>1, <3>2, FileStays DEF AgreeInv, Kept
    <3> QED BY <3>1, <3>3
  <2> QED BY <2>3 DEF Written
<1> QED BY <1>1, <1>2, <1>3, <1>4, <1>5 DEF AgreeInv

\* A step that makes no batch.
LEMMA AgreeStays ==
  ASSUME Typed, AgreeInv, Still, InMemory', script'.pc # "scheduleLines" \/ UNCHANGED script,
         \A f \in bucket' : f \in bucket \/ WrittenFile(f)
  PROVE  AgreeInv'
<1>1. NewCredits'
  <2>1. CASE script'.pc # "scheduleLines"
    BY <2>1 DEF NewCredits
  <2>2. CASE UNCHANGED script
    <3>1. \A l \in DOMAIN lines : CreditOf(l)' = CreditOf(l)
      BY UnitsStay DEF Still
    <3> QED BY <2>2, <3>1 DEF AgreeInv, NewCredits, Still, BatchesSame
  <2> QED BY <2>1, <2>2
<1>2. Kept
  BY DEF Still, Kept
<1>3. \A b \in DOMAIN batches' \ DOMAIN batches :
        /\ batches'[b].payouts \subseteq DOMAIN payouts
        /\ batches'[b].total = Amount(payouts, batches'[b].payouts)
  BY DEF Still
<1> QED BY <1>1, <1>2, <1>3, AgreeOn

\* A step of SAP, of the third script or of none.
LEMMA QuietAgree ==
  ASSUME SentApartInv, Typed, Typed', AgreeInv, Still, UNCHANGED bucket,
         UNCHANGED script \/ script' = Idle
  PROVE  AgreeInv'
<1>1. InMemory'
  <2>1. CASE script'.pc \notin UploadPC
    BY <2>1 DEF InMemory
  <2>2. CASE script'.pc \in UploadPC
    <3>1. UNCHANGED script
      BY <2>2 DEF Idle, UploadPC
    <3> QED BY <2>2, <3>1, MemoryStays DEF AgreeInv
  <2> QED BY <2>1, <2>2
<1>2. script'.pc # "scheduleLines" \/ UNCHANGED script
  BY DEF Idle
<1> QED BY <1>1, <1>2, AgreeStays

\* Lines that get another status are the same lines.
LEMMA MarkedStill ==
  ASSUME Typed, NEW L, NEW status, UNCHANGED <<paidBy, payouts, batches>>,
         \/ UNCHANGED lines
         \/ lines' = [l \in DOMAIN lines |-> IF l \in L
                        THEN [lines[l] EXCEPT !.status = status] ELSE lines[l]]
  PROVE  Still
<1>1. CASE UNCHANGED lines
  BY <1>1, MoneyLeft DEF Still
<1>2. CASE lines' = [l \in DOMAIN lines |-> IF l \in L
                        THEN [lines[l] EXCEPT !.status = status] ELSE lines[l]]
  <2>1. \A x \in LineRow :
          LET y == [x EXCEPT !.status = status]
          IN  y.job = x.job /\ y.owner = x.owner /\ y.payout = x.payout /\ y.cost = x.cost
              /\ y.type = x.type /\ y.price = x.price
    BY DEF LineRow
  <2>2. \A l \in DOMAIN lines : lines[l] \in LineRow
    <3>1. lines \in Seq(LineRow)
      BY DEF Typed, RowsTyped
    <3> QED BY <3>1
  <2>3. LinesSame /\ DOMAIN lines' = DOMAIN lines
    BY <1>2, <2>1, <2>2 DEF LinesSame
  <2> QED BY <2>3, MoneyLeft DEF Still
<1> QED BY <1>1, <1>2

\* A payout that is counted or paid is of the same amount.
LEMMA PayoutStill ==
  ASSUME Typed, NEW p \in DOMAIN payouts, NEW y \in PayoutRow, y.owner = payouts[p].owner,
         y.tenant = payouts[p].tenant, y.amount = payouts[p].amount,
         UNCHANGED <<paidBy, lines, batches>>,
         payouts' = [payouts EXCEPT ![p] = y] \/ UNCHANGED payouts
  PROVE  Still
<1>1. CASE UNCHANGED payouts
  BY <1>1, MoneyLeft DEF Still
<1>2. CASE payouts' = [payouts EXCEPT ![p] = y]
  <2>1. /\ DOMAIN payouts' = DOMAIN payouts /\ payouts'[p] = y
        /\ \A i \in DOMAIN payouts : i # p => payouts'[i] = payouts[i]
    BY <1>2, PayoutChanged
  <2>2. PayoutsSame
    BY <2>1 DEF PayoutsSame
  <2> QED BY <2>1, <2>2, MoneyLeft DEF Still
<1> QED BY <1>1, <1>2

\* Marking lines as paid changes no amount,
LEMMA MarkRowAgree ==
  ASSUME SentApartInv, Typed, Typed', AgreeInv, MarkRow
  PROVE  AgreeInv'
<1>1. /\ UNCHANGED <<paidBy, payouts, batches, bucket, script>>
      /\ \E L : \/ UNCHANGED lines
                \/ lines' = [l \in DOMAIN lines |-> IF l \in L
                               THEN [lines[l] EXCEPT !.status = "PAID"] ELSE lines[l]]
  <2>1. UNCHANGED <<paidBy, payouts, batches, bucket, script>>
    BY DEF MarkRow
  <2>2. PICK L : L = Reported(Head(reader.rows))
    OBVIOUS
  <2>3. \/ UNCHANGED lines
        \/ lines' = [l \in DOMAIN lines |-> IF l \in L
                       THEN [lines[l] EXCEPT !.status = "PAID"] ELSE lines[l]]
    BY <2>2, Zenon DEF MarkRow
  <2> QED BY <2>1, <2>3
<1>2. Still
  BY <1>1, MarkedStill
<1> QED BY <1>1, <1>2, QuietAgree

\* nor does counting them,
LEMMA CountRowAgree ==
  ASSUME SentApartInv, Typed, Typed', AgreeInv, CountRow
  PROVE  AgreeInv'
<1>1. reader.pc = "count" /\ UNCHANGED <<paidBy, lines, batches, bucket, script>>
  BY DEF CountRow, Reading
<1>2. PICK p, mine : CountedFor(p, mine)
  BY CountsFor
<1>3. p \in DOMAIN payouts /\ Cost(mine) \in Nat
  <2>1. mine \subseteq DOMAIN lines
    BY <1>2 DEF CountedFor, Reported
  <2> QED BY <1>2, <2>1, LinesTyped DEF CountedFor
<1>4. PICK x, m : x = payouts[p] /\ m = Cost(mine)
  OBVIOUS
<1>5. PICK y : y = [x EXCEPT !.processed = @ + m]
  OBVIOUS
<1>6. x \in PayoutRow
  BY <1>3, <1>4, PayoutRows
<1>7. y \in PayoutRow /\ y.owner = x.owner /\ y.tenant = x.tenant /\ y.amount = x.amount
  <2>1. x.processed \in Nat /\ m \in Nat
    BY <1>3, <1>4, <1>6 DEF PayoutRow
  <2>2. PICK z \in Nat : z = x.processed + m
    BY <2>1
  <2>3. y = [x EXCEPT !.processed = z]
    BY <1>5, <2>2
  <2> QED BY <1>6, <2>3 DEF PayoutRow
<1>8. payouts' = [payouts EXCEPT ![p] = y]
  BY <1>2, <1>4, <1>5 DEF CountedFor
<1>9. Still
  BY <1>1, <1>3, <1>4, <1>7, <1>8, PayoutStill
<1> QED BY <1>1, <1>9, QuietAgree

\* nor a payout that becomes paid.
LEMMA PayRowAgree ==
  ASSUME SentApartInv, Typed, Typed', AgreeInv, PayRow
  PROVE  AgreeInv'
<1>1. reader.pc = "pay" /\ UNCHANGED <<paidBy, lines, batches, bucket, script>>
  BY DEF PayRow, Reading
<1>2. PICK p : p = reader.payout
  OBVIOUS
<1>3. p \in DOMAIN payouts
  BY <1>1, <1>2 DEF Typed, ReaderTyped
<1>4. PICK y : y = [payouts[p] EXCEPT !.status = "PAID"]
  OBVIOUS
<1>5. y \in PayoutRow /\ y.owner = payouts[p].owner /\ y.tenant = payouts[p].tenant
      /\ y.amount = payouts[p].amount
  <2>1. payouts[p] \in PayoutRow
    BY <1>3, PayoutRows
  <2> QED BY <1>4, <2>1 DEF PayoutRow, Status
<1>6. payouts' = [payouts EXCEPT ![p] = y] \/ UNCHANGED payouts
  <2>1. payouts' = IF payouts[p].processed = payouts[p].amount
                   THEN [payouts EXCEPT ![p].status = "PAID"] ELSE payouts
    BY <1>2 DEF PayRow
  <2> QED BY <1>4, <2>1
<1>7. Still
  BY <1>1, <1>3, <1>5, <1>6, PayoutStill
<1> QED BY <1>1, <1>7, QuietAgree

\* SAP, the other steps of the third script, and a process that is lost.
LEMMA OthersAgree ==
  ASSUME SentApartInv, Typed, Typed', AgreeInv,
         Report \/ List \/ Download \/ EndOfList \/ RemoveFile \/ Crash \/ UNCHANGED vars
  PROVE  AgreeInv'
<1>1. UNCHANGED rows /\ UNCHANGED bucket /\ (UNCHANGED script \/ script' = Idle)
  BY DEF Report, List, Download, EndOfList, RemoveFile, Crash, vars
<1> QED BY <1>1, StillLeft, QuietAgree

\* The second script loads payouts with all of their lines.
LEMMA UploadAgree ==
  ASSUME SentApartInv, Typed, Typed', AgreeInv, Upload
  PROVE  AgreeInv'
<1> DEFINE scheduled == {p \in DOMAIN payouts : payouts[p].status = "SCHEDULED"}
<1>1. /\ UNCHANGED rows /\ UNCHANGED bucket
      /\ script' = [pc |-> "batch", tenants |-> Tenant,
                    loaded |-> [p \in scheduled |-> payouts[p]],
                    lines |-> {l \in DOMAIN lines : lines[l].payout \in scheduled},
                    payouts |-> {}, ids |-> {}, outcome |-> "SCHEDULED", sent |-> FALSE]
  BY DEF Upload
<1>2. PICK s : s = script'
  OBVIOUS
<1>3. /\ s.pc = "batch" /\ DOMAIN s.loaded = scheduled
      /\ s.lines = {l \in DOMAIN lines : lines[l].payout \in scheduled}
      /\ \A p \in scheduled : s.loaded[p] = payouts[p]
  BY <1>1, <1>2
<1>4. UNCHANGED <<payouts, lines>>
  BY <1>1 DEF rows
<1>5. InMemory'
  <2>1. script'.pc \notin InBatch
    BY <1>2, <1>3 DEF InBatch
  <2>2. script'.lines = {l \in DOMAIN lines' : lines'[l].payout \in DOMAIN script'.loaded}
    BY <1>2, <1>3, <1>4
  <2>3. \A p \in DOMAIN script'.loaded : /\ script'.loaded[p].owner = payouts'[p].owner
                                         /\ script'.loaded[p].amount = payouts'[p].amount
    BY <1>2, <1>3, <1>4
  <2> QED BY <2>1, <2>2, <2>3 DEF InMemory
<1>6. script'.pc # "scheduleLines"
  BY <1>2, <1>3
<1> QED BY <1>1, <1>5, <1>6, StillLeft, AgreeStays

\* The upload fails, or the lines are marked: the script goes on with what it has.
LEMMA GoesOn ==
  ASSUME SentApartInv, Typed, Typed', AgreeInv, Still, script.pc \in InBatch, NEW outcome,
         NEW sent,
         \A f \in bucket' : f \in bucket \/ WrittenFile(f),
         script' = [script EXCEPT !.pc = "close", !.outcome = outcome, !.sent = sent]
  PROVE  AgreeInv'
<1>1. script.pc \in UploadPC /\ IsUpload(script)
  BY UploadMemory DEF InBatch
<1>2. PICK s, q : s = script /\ q = script'
  OBVIOUS
<1>3. s = [pc |-> s.pc, tenants |-> s.tenants, loaded |-> s.loaded, lines |-> s.lines,
               payouts |-> s.payouts, ids |-> s.ids, outcome |-> s.outcome, sent |-> s.sent]
  BY <1>1, <1>2 DEF IsUpload
<1>4. q.pc = "close" /\ q.loaded = s.loaded /\ q.lines = s.lines /\ q.ids = s.ids
  BY <1>2, <1>3
<1>5. InMemory'
  BY <1>1, <1>2, <1>4, MemoryStays DEF AgreeInv
<1>6. script'.pc # "scheduleLines"
  BY <1>2, <1>4
<1> QED BY <1>5, <1>6, AgreeStays

\* A transfer that fails adds no file.
LEMMA FailUploadAgree ==
  ASSUME SentApartInv, Typed, Typed', AgreeInv, FailUpload
  PROVE  AgreeInv'
<1>1. /\ script.pc \in {"payment", "summary", "lines"} /\ UNCHANGED rows /\ UNCHANGED bucket
      /\ script' = [script EXCEPT !.pc = "close", !.outcome = "FAILED"]
  BY DEF FailUpload
<1>2. script.pc \in InBatch /\ IsUpload(script)
  BY <1>1, UploadMemory DEF InBatch, UploadPC
<1>3. PICK s : s = script
  OBVIOUS
<1>4. [s EXCEPT !.pc = "close", !.outcome = "FAILED"]
        = [s EXCEPT !.pc = "close", !.outcome = "FAILED", !.sent = s.sent]
  <2>1. s = [pc |-> s.pc, tenants |-> s.tenants, loaded |-> s.loaded, lines |-> s.lines,
               payouts |-> s.payouts, ids |-> s.ids, outcome |-> s.outcome, sent |-> s.sent]
    BY <1>2, <1>3 DEF IsUpload
  <2> QED BY <2>1
<1>5. script' = [script EXCEPT !.pc = "close", !.outcome = "FAILED", !.sent = s.sent]
  BY <1>1, <1>3, <1>4
<1> QED BY <1>1, <1>2, <1>5, StillLeft, GoesOn

\* Marking lines as sent changes no amount,
LEMMA MarkSentAgree ==
  ASSUME SentApartInv, Typed, Typed', AgreeInv, MarkSent
  PROVE  AgreeInv'
<1>1. script.pc = "mark" /\ UNCHANGED <<paidBy, payouts, batches, bucket>>
  BY DEF MarkSent, Uploading
<1>2. script.pc \in InBatch
  BY <1>1 DEF InBatch, UploadPC
<1>3. \/ UNCHANGED lines
      \/ lines' = [l \in DOMAIN lines |-> IF l \in script.ids
                     THEN [lines[l] EXCEPT !.status = "IN_TRANSIT"] ELSE lines[l]]
  BY DEF MarkSent
<1>4. Still
  BY <1>1, <1>3, MarkedStill
<1>5. PICK outcome : script' = [script EXCEPT !.pc = "close", !.outcome = outcome, !.sent = TRUE]
  BY DEF MarkSent
<1> QED BY <1>1, <1>2, <1>4, <1>5, GoesOn

\* Payouts saved as they were loaded are of the same amounts.
LEMMA SavedSame ==
  ASSUME SentApartInv, Typed, InMemory, script.pc \in UploadPC, NEW P,
         P \subseteq DOMAIN script.loaded, NEW sent, payouts' = Saved(P, sent)
  PROVE  PayoutsSame /\ DOMAIN payouts' = DOMAIN payouts
<1>1. DOMAIN payouts' = DOMAIN payouts
  BY DEF Saved
<1>2. \A p \in DOMAIN payouts \ P : payouts'[p] = payouts[p]
  BY DEF Saved
<1>3. ASSUME NEW p \in P
      PROVE  /\ payouts'[p].owner = payouts[p].owner /\ payouts'[p].tenant = payouts[p].tenant
             /\ payouts'[p].amount = payouts[p].amount
  <2>1. /\ p \in DOMAIN script.loaded /\ p \in DOMAIN payouts
        /\ script.loaded[p].tenant = payouts[p].tenant
    BY UploadMemory DEF IsUpload
  <2>2. script.loaded[p].owner = payouts[p].owner /\ script.loaded[p].amount = payouts[p].amount
    BY <2>1 DEF InMemory
  <2>3. PICK x : x = script.loaded[p]
    OBVIOUS
  <2>4. x \in PayoutRow
    BY <2>1, <2>3 DEF Typed, ScriptTyped
  <2>5. PICK y : y = payouts'[p]
    OBVIOUS
  <2>6. y = x \/ y = [x EXCEPT !.status = "IN_TRANSIT"]
    BY <2>1, <2>3, <2>5 DEF Saved
  <2>7. y.owner = x.owner /\ y.tenant = x.tenant /\ y.amount = x.amount
    BY <2>4, <2>6 DEF PayoutRow
  <2> QED BY <2>1, <2>2, <2>3, <2>5, <2>7
<1> QED BY <1>1, <1>2, <1>3 DEF PayoutsSame

\* The batch that is being sent is the last one.
LEMMA LastBatch ==
  ASSUME SentApartInv, Typed, script.pc \in InBatch
  PROVE  Len(batches) \in DOMAIN batches /\ batches[Len(batches)].payouts = script.payouts
<1>1. Len(batches) > 0 /\ batches[Len(batches)].payouts = script.payouts
  BY DEF SentApartInv, OneBatch
<1>2. PICK a, R : a = batches /\ R = BatchRow
  OBVIOUS
<1>3. a \in Seq(R)
  BY <1>2 DEF Typed, RowsTyped
<1>4. Len(a) \in Nat /\ DOMAIN a = 1..Len(a)
  BY <1>3
<1> QED BY <1>1, <1>2, <1>4

\* nor does closing the batch.
LEMMA CloseBatchAgree ==
  ASSUME SentApartInv, Typed, Typed', AgreeInv, CloseBatch
  PROVE  AgreeInv'
<1>1. /\ script.pc = "close" /\ Continue("batch") /\ UNCHANGED <<paidBy, lines, bucket>>
      /\ batches' = [batches EXCEPT ![Batch].status = script.outcome]
      /\ payouts' = Saved(script.payouts, script.sent)
  BY DEF CloseBatch, Uploading
<1>2. script.pc \in UploadPC /\ script.pc \in InBatch /\ IsUpload(script)
  BY <1>1, UploadMemory DEF UploadPC, InBatch
<1>3. PayoutsSame /\ DOMAIN payouts' = DOMAIN payouts
  <2>1. script.payouts \subseteq DOMAIN script.loaded
    BY <1>2 DEF IsUpload
  <2> QED BY <1>1, <1>2, <2>1, SavedSame DEF AgreeInv
<1>4. BatchesSame /\ DOMAIN batches' = DOMAIN batches
  <2>1. PICK a, d, b, o : a = batches /\ d = batches' /\ b = Batch /\ o = script.outcome
    OBVIOUS
  <2>2. a \in Seq(BatchRow)
    BY <2>1 DEF Typed, RowsTyped
  <2>3. d = [a EXCEPT ![b].status = o]
    BY <1>1, <2>1
  <2>4. DOMAIN d = DOMAIN a
    BY <2>3
  <2>5. ASSUME NEW i \in DOMAIN a PROVE d[i].payouts = a[i].payouts /\ d[i].total = a[i].total
    <3>1. PICK x, y : x = a[i] /\ y = d[i]
      OBVIOUS
    <3>2. x \in BatchRow
      BY <2>2, <3>1
    <3>3. y = x \/ y = [x EXCEPT !.status = o]
      <4>1. CASE i = b
        BY <2>3, <3>1, <4>1
      <4>2. CASE i # b
        BY <2>3, <3>1, <4>2
      <4> QED BY <4>1, <4>2
    <3>4. y.payouts = x.payouts /\ y.total = x.total
      BY <3>2, <3>3 DEF BatchRow
    <3> QED BY <3>1, <3>4
  <2> QED BY <2>1, <2>4, <2>5 DEF BatchesSame
<1>5. Still
  BY <1>1, <1>3, <1>4, MoneyLeft DEF Still
<1>6. SameMemory /\ script'.pc = "batch"
  BY <1>1, <1>2, ContinueSame
<1>7. InMemory'
  BY <1>2, <1>5, <1>6, MemoryStays DEF AgreeInv, SameMemory, InBatch
<1> QED BY <1>1, <1>5, <1>6, <1>7, AgreeStays

\* A file is stored that says what the rows say.
LEMMA SendsAgree ==
  ASSUME SentApartInv, Typed, Typed', AgreeInv, UNCHANGED rows, script.pc \in InBatch,
         NEW pc \in InBatch, Continue(pc), NEW f, WrittenFile(f), bucket' = bucket \cup {f}
  PROVE  AgreeInv'
<1>1. script.pc \in UploadPC /\ IsUpload(script)
  BY UploadMemory DEF InBatch
<1>2. Still
  BY StillLeft
<1>3. SameMemory /\ script'.pc = pc
  BY <1>1, ContinueSame
<1>4. InMemory'
  BY <1>1, <1>2, <1>3, MemoryStays DEF AgreeInv, SameMemory
<1>5. script'.pc # "scheduleLines"
  BY <1>3 DEF InBatch, UploadPC
<1> QED BY <1>2, <1>4, <1>5, AgreeStays

\* The payment file says what the rows say,
LEMMA SendPaymentAgree ==
  ASSUME SentApartInv, Typed, Typed', AgreeInv, SendPayment
  PROVE  AgreeInv'
<1>1. /\ script.pc = "payment" /\ Continue("summary") /\ UNCHANGED rows
      /\ bucket' = bucket \cup {[batch |-> Batch, kind |-> "payment",
                                 content |-> PaymentFile(script.payouts)]}
  BY DEF SendPayment, Uploading, Store
<1>2. script.pc \in InBatch /\ "summary" \in InBatch
  BY <1>1 DEF InBatch, UploadPC
<1>3. PICK n, P, x : n = Len(batches) /\ P = script.payouts /\ x = PaymentFile(script.payouts)
  OBVIOUS
<1>4. n \in DOMAIN batches /\ batches[n].payouts = P
  BY <1>2, <1>3, LastBatch
<1>5. PICK f : f = [batch |-> n, kind |-> "payment", content |-> x]
  OBVIOUS
<1>6. f.batch = n /\ f.kind = "payment" /\ f.content = x
  BY <1>5
<1>7. x = PaymentFile(batches[f.batch].payouts)
  BY <1>3, <1>4, <1>6
<1>8. WrittenFile(f)
  BY <1>4, <1>6, <1>7 DEF WrittenFile
<1>9. bucket' = bucket \cup {f}
  BY <1>1, <1>3, <1>5 DEF Batch
<1> QED BY <1>1, <1>2, <1>8, <1>9, SendsAgree

\* as does the summary,
LEMMA SendSummaryAgree ==
  ASSUME SentApartInv, Typed, Typed', AgreeInv, SendSummary
  PROVE  AgreeInv'
<1>1. /\ script.pc = "summary" /\ Continue("lines") /\ UNCHANGED rows
      /\ bucket' = bucket \cup {[batch |-> Batch, kind |-> "summary",
                                 content |-> SummaryFile(script.ids)]}
  BY DEF SendSummary, Uploading, Store
<1>2. script.pc \in InBatch /\ script.pc \in UploadPC /\ "lines" \in InBatch
  BY <1>1 DEF InBatch, UploadPC
<1>3. PICK n, L, x : n = Len(batches) /\ L = script.ids /\ x = SummaryFile(script.ids)
  OBVIOUS
<1>4. n \in DOMAIN batches /\ L = IdsOf(n)
  BY <1>2, <1>3, LastBatch DEF AgreeInv, InMemory
<1>5. PICK f : f = [batch |-> n, kind |-> "summary", content |-> x]
  OBVIOUS
<1>6. f.batch = n /\ f.kind = "summary" /\ f.content = x
  BY <1>5
<1>7. ASSUME NEW r \in x
      PROVE  /\ r.cost = CostOf(lines, OfJob(L, r.job))
             /\ r.sales = PriceOf(lines, OfJob(L, r.job)) - Promotion[r.job]
  <2>1. PICK j : r = SummaryRow(j, OfJob(L, j), Price(OfJob(L, j)) - Promotion[j])
    BY <1>3 DEF SummaryFile
  <2>2. PICK mine, sales : mine = OfJob(L, j) /\ sales = Price(OfJob(L, j)) - Promotion[j]
    OBVIOUS
  <2>3. r = SummaryRow(j, mine, sales)
    BY <2>1, <2>2
  <2>4. r.job = j /\ r.cost = Cost(mine) /\ r.sales = sales
    BY <2>3 DEF SummaryRow
  <2>5. Cost(mine) = CostOf(lines, mine) /\ Price(mine) = PriceOf(lines, mine)
    BY Zenon DEF Cost, CostOf, Price, PriceOf
  <2> QED BY <2>2, <2>4, <2>5
<1>8. \A r \in f.content : /\ r.cost = CostOf(lines, OfJob(IdsOf(f.batch), r.job))
                           /\ r.sales = PriceOf(lines, OfJob(IdsOf(f.batch), r.job)) - Promotion[r.job]
  BY <1>4, <1>6, <1>7
<1>9. WrittenFile(f)
  BY <1>4, <1>6, <1>8 DEF WrittenFile
<1>10. bucket' = bucket \cup {f}
  BY <1>1, <1>3, <1>5 DEF Batch
<1> QED BY <1>1, <1>2, <1>9, <1>10, SendsAgree

\* and the file of lines.
LEMMA SendLinesAgree ==
  ASSUME SentApartInv, Typed, Typed', AgreeInv, SendLines
  PROVE  AgreeInv'
<1>1. /\ script.pc = "lines" /\ Continue("mark") /\ UNCHANGED rows
      /\ bucket' = bucket \cup {[batch |-> Batch, kind |-> "lines",
                                 content |-> LinesFile(script.ids)]}
  BY DEF SendLines, Uploading, Store
<1>2. script.pc \in InBatch /\ script.pc \in UploadPC /\ "mark" \in InBatch
  BY <1>1 DEF InBatch, UploadPC
<1>3. PICK n, L, x : n = Len(batches) /\ L = script.ids /\ x = LinesFile(script.ids)
  OBVIOUS
<1>4. n \in DOMAIN batches /\ L = IdsOf(n)
  BY <1>2, <1>3, LastBatch DEF AgreeInv, InMemory
<1>5. PICK f : f = [batch |-> n, kind |-> "lines", content |-> x]
  OBVIOUS
<1>6. f.batch = n /\ f.kind = "lines" /\ f.content = x
  BY <1>5
<1>7. x = LinesFile(IdsOf(f.batch))
  BY <1>3, <1>4, <1>6
<1>8. WrittenFile(f)
  BY <1>4, <1>6, <1>7 DEF WrittenFile
<1>9. bucket' = bucket \cup {f}
  BY <1>1, <1>3, <1>5 DEF Batch
<1> QED BY <1>1, <1>2, <1>8, <1>9, SendsAgree

------------------------------------------------------------------------------
(* A batch is made *)

\* The lines of a tenant, among those that were loaded, are those of its payouts.
LEMMA TenantLines ==
  ASSUME SentApartInv, Typed, AgreeInv, script.pc \in UploadPC, NEW t
  PROVE  LinesOf(script.lines, t)
           = {l \in DOMAIN lines : lines[l].payout \in PayoutsOf(DOMAIN script.loaded, t)}
<1>1. script.lines = {l \in DOMAIN lines : lines[l].payout \in DOMAIN script.loaded}
  BY DEF AgreeInv, InMemory
<1>2. \A l \in DOMAIN lines : payouts[lines[l].payout].tenant = PrincipalGroup[lines[l].job]
  BY DEF AgreeInv, TenantsAgree
<1> QED BY <1>1, <1>2 DEF LinesOf, PayoutsOf

\* The total of a new batch is that of its payouts.
LEMMA NextTenantAgree ==
  ASSUME SentApartInv, Typed, Typed', AgreeInv, NextTenant
  PROVE  AgreeInv'
<1>1. script.pc = "batch" /\ UNCHANGED <<paidBy, lines, bucket>>
  BY DEF NextTenant, Uploading
<1>2. script.pc \in UploadPC /\ IsUpload(script)
  BY <1>1, UploadMemory DEF UploadPC
<1>3. PICK s, q : s = script /\ q = script'
  OBVIOUS
<1>4. PICK t, P, L : /\ t = Head(s.tenants) /\ P = PayoutsOf(DOMAIN s.loaded, t)
                     /\ L = LinesOf(s.lines, t)
  OBVIOUS
<1>5. \/ q = Idle /\ UNCHANGED <<batches, payouts>>
      \/ q = [s EXCEPT !.tenants = Tail(@)] /\ UNCHANGED <<batches, payouts>>
      \/ /\ payouts' = Saved(P, FALSE)
         /\ batches' = Append(batches,
                 [tenant |-> t, payouts |-> P, total |-> Amount(payouts, P),
                  number |-> 1 + Cardinality({b \in DOMAIN batches : batches[b].tenant = t}),
                  status |-> "SCHEDULED"])
         /\ q = [s EXCEPT !.pc = "payment", !.tenants = Tail(@),
                            !.payouts = P, !.ids = L, !.outcome = "SCHEDULED", !.sent = FALSE]
  BY <1>3, <1>4, Zenon DEF NextTenant
<1>6. CASE q = Idle /\ UNCHANGED <<batches, payouts>>
  <2>1. Still
    BY <1>1, <1>6, StillLeft DEF rows
  <2> QED BY <1>1, <1>3, <1>6, <2>1, QuietAgree
<1>7. CASE q = [s EXCEPT !.tenants = Tail(@)] /\ UNCHANGED <<batches, payouts>>
  <2>1. Still
    BY <1>1, <1>7, StillLeft DEF rows
  <2>2. q.loaded = s.loaded /\ q.lines = s.lines /\ q.pc = "batch"
    BY <1>1, <1>2, <1>3, <1>7 DEF IsUpload
  <2>3. InMemory'
    BY <1>2, <1>3, <2>1, <2>2, MemoryStays DEF AgreeInv, InBatch
  <2> QED BY <1>1, <1>3, <2>1, <2>2, <2>3, AgreeStays
<1>8. CASE /\ payouts' = Saved(P, FALSE)
           /\ batches' = Append(batches,
                 [tenant |-> t, payouts |-> P, total |-> Amount(payouts, P),
                  number |-> 1 + Cardinality({b \in DOMAIN batches : batches[b].tenant = t}),
                  status |-> "SCHEDULED"])
           /\ q = [s EXCEPT !.pc = "payment", !.tenants = Tail(@),
                            !.payouts = P, !.ids = L, !.outcome = "SCHEDULED", !.sent = FALSE]
  <2>1. P \subseteq DOMAIN s.loaded /\ P \subseteq DOMAIN payouts
    BY <1>2, <1>3, <1>4 DEF PayoutsOf, IsUpload
  <2>2. PayoutsSame /\ DOMAIN payouts' = DOMAIN payouts
    BY <1>2, <1>3, <1>8, <2>1, SavedSame DEF AgreeInv
  <2>3. q.loaded = s.loaded /\ q.lines = s.lines /\ q.ids = L /\ q.pc = "payment"
    BY <1>2, <1>3, <1>8 DEF IsUpload
  <2>4. PICK x, tenant, number :
          /\ x = [tenant |-> tenant, payouts |-> P, total |-> Amount(payouts, P),
                  number |-> number, status |-> "SCHEDULED"]
          /\ batches' = Append(batches, x)
    BY <1>8
  <2>5. x.payouts = P /\ x.total = Amount(payouts, P)
    BY <2>4
  <2>6. PICK n \in Nat : /\ DOMAIN batches = 1..n /\ DOMAIN batches' = 1..(n + 1)
                         /\ Len(batches') = n + 1 /\ batches'[n + 1] = x
                         /\ \A b \in 1..n : batches'[b] = batches[b]
    <3>1. PICK R : R = BatchRow
      OBVIOUS
    <3>2. batches \in Seq(R)
      BY <3>1 DEF Typed, RowsTyped
    <3>3. PICK T : T = R \cup {x}
      OBVIOUS
    <3>4. batches \in Seq(T) /\ x \in T
      BY <3>2, <3>3
    <3>5. Len(batches) \in Nat /\ DOMAIN batches = 1..Len(batches)
      BY <3>4
    <3>6. Len(batches') = Len(batches) + 1 /\ DOMAIN batches' = 1..(Len(batches) + 1)
          /\ batches'[Len(batches) + 1] = x
          /\ \A b \in 1..Len(batches) : batches'[b] = batches[b]
      BY <2>4, <3>4
    <3> QED BY <3>5, <3>6
  <2>7. BatchesSame
    <3>1. \A b \in 1..n : b \in 1..(n + 1)
      OBVIOUS
    <3> QED BY <2>6, <3>1 DEF BatchesSame
  <2>8. LinesSame /\ DOMAIN lines' = DOMAIN lines
    BY <1>1, MoneyLeft
  <2>9. Kept
    BY <1>1, <2>2, <2>7, <2>8 DEF Kept
  <2>10. \A b \in DOMAIN batches' \ DOMAIN batches :
           /\ batches'[b].payouts \subseteq DOMAIN payouts
           /\ batches'[b].total = Amount(payouts, batches'[b].payouts)
    <3>1. \A b \in DOMAIN batches' \ DOMAIN batches : batches'[b] = x
      BY <2>6
    <3> QED BY <2>1, <2>5, <3>1
  <2>11. InMemory'
    <3>1. /\ s.lines = {l \in DOMAIN lines : lines[l].payout \in DOMAIN s.loaded}
          /\ \A p \in DOMAIN s.loaded : /\ s.loaded[p].owner = payouts[p].owner
                                        /\ s.loaded[p].amount = payouts[p].amount
      BY <1>2, <1>3 DEF AgreeInv, InMemory
    <3>2. DOMAIN s.loaded \subseteq DOMAIN payouts
      BY <1>2, <1>3 DEF IsUpload
    <3>3. script'.lines = {l \in DOMAIN lines' : lines'[l].payout \in DOMAIN script'.loaded}
      BY <1>1, <1>3, <2>3, <3>1
    <3>4. \A p \in DOMAIN script'.loaded : /\ script'.loaded[p].owner = payouts'[p].owner
                                           /\ script'.loaded[p].amount = payouts'[p].amount
      BY <1>3, <2>2, <2>3, <3>1, <3>2 DEF PayoutsSame
    <3>5. L = {l \in DOMAIN lines : lines[l].payout \in P}
      BY <1>2, <1>3, <1>4, TenantLines
    <3>6. batches'[Len(batches')].payouts = P
      BY <2>5, <2>6
    <3>7. script'.ids = IdsOf(Len(batches))'
      BY <1>1, <1>3, <2>3, <3>5, <3>6 DEF IdsOf
    <3> QED BY <3>3, <3>4, <3>7 DEF InMemory
  <2>12. NewCredits'
    BY <1>3, <2>3 DEF NewCredits
  <2>13. \A f \in bucket' : f \in bucket \/ WrittenFile(f)
    BY <1>1
  <2> QED BY <2>9, <2>10, <2>11, <2>12, <2>13, AgreeOn
<1> QED BY <1>5, <1>6, <1>7, <1>8

------------------------------------------------------------------------------
(* Credits, payouts and lines are made *)

\* What falls due was in no payout.
LEMMA EarnAgree ==
  ASSUME SentApartInv, Typed, Typed', AgreeInv, NEW c \in Credit, Earn(c)
  PROVE  AgreeInv'
<1>1. UNCHANGED <<payouts, lines, batches, bucket, script>>
  BY DEF Earn
<1>2. LinesSame /\ PayoutsSame /\ BatchesSame
  BY <1>1, MoneyLeft
<1>3. \A d \in Credit : paidBy'[d] = paidBy[d] \/ (paidBy[d] = NotEarned /\ paidBy'[d] = Payable)
  BY DEF Earn
<1>4. NotEarned \notin DOMAIN payouts /\ Payable \notin DOMAIN payouts
  BY PayoutRows
<1>5. ASSUME NEW p \in DOMAIN payouts PROVE PaidIn(p)' = PaidIn(p)
  BY <1>3, <1>4 DEF PaidIn
<1>6. \A d \in Credit : paidBy[d] \in DOMAIN payouts => paidBy'[d] = paidBy[d]
  BY <1>3, <1>4
<1>7. Owed'
  <2>1. ASSUME NEW p \in DOMAIN payouts'
        PROVE  payouts'[p].amount = MapThenSumSet(Due, PaidIn(p)')
    <3>1. p \in DOMAIN payouts /\ payouts'[p].amount = payouts[p].amount
      BY <1>1
    <3>2. payouts[p].amount = MapThenSumSet(Due, PaidIn(p))
      BY <3>1 DEF AgreeInv, Owed
    <3> QED BY <1>5, <3>1, <3>2
  <2> QED BY <2>1 DEF Owed
<1>8. Lined'
  <2>1. /\ \A l \in DOMAIN lines : CreditOf(l)' = CreditOf(l)
        /\ \A d : UnitsOf(d)' = UnitsOf(d)
    BY <1>1, <1>2, UnitsStay
  <2>2. ASSUME NEW l \in DOMAIN lines
        PROVE  /\ CreditOf(l)' \in Credit /\ paidBy'[CreditOf(l)'] \in DOMAIN payouts'
               /\ CostOf(lines', UnitsOf(CreditOf(l))') = Due(CreditOf(l)')
    <3>1. PICK d, S : d = CreditOf(l) /\ S = UnitsOf(d)
      OBVIOUS
    <3>2. d = CreditOf(l)' /\ S = UnitsOf(d)'
      BY <2>1, <3>1
    <3>3. d \in Credit /\ paidBy[d] \in DOMAIN payouts /\ CostOf(lines, S) = Due(d)
      BY <3>1 DEF AgreeInv, Lined
    <3>4. CostOf(lines', S) = Due(d) /\ UnitsOf(CreditOf(l))' = S
      BY <1>1, <3>2, <3>3
    <3> QED BY <1>1, <1>6, <3>2, <3>3, <3>4
  <2>3. \A l, k \in DOMAIN lines : CreditOf(l)' = CreditOf(k)' => lines'[l].payout = lines'[k].payout
    BY <1>1, <2>1 DEF AgreeInv, Lined
  <2> QED BY <1>1, <2>2, <2>3 DEF Lined
<1>9. TenantsAgree'
  BY <1>1, <1>3, <1>4 DEF AgreeInv, TenantsAgree
<1>10. NewCredits'
  <2>1. SUFFICES ASSUME script'.pc = "scheduleLines", NEW d \in script'.credits
                 PROVE  /\ \A l \in DOMAIN lines' : CreditOf(l)' # d
                        /\ \A b \in DOMAIN batches' : paidBy'[d] \notin batches'[b].payouts
    BY DEF NewCredits
  <2>2. d \in Credit /\ paidBy[d] \in DOMAIN payouts
    BY <1>1, <2>1 DEF Typed, ScriptTyped
  <2>3. paidBy'[d] = paidBy[d]
    BY <1>6, <2>2
  <2>4. \A l \in DOMAIN lines : CreditOf(l)' = CreditOf(l)
    BY <1>2, UnitsStay
  <2> QED BY <1>1, <2>1, <2>3, <2>4 DEF AgreeInv, NewCredits
<1>11. Batched'
  BY <1>1 DEF AgreeInv, Batched
<1>12. InMemory'
  <2>1. IdsOf(Len(batches))' = IdsOf(Len(batches))
    BY <1>1 DEF IdsOf
  <2> QED BY <1>1, <2>1 DEF AgreeInv, InMemory
<1>13. Written'
  <2>1. \A b \in DOMAIN batches : IdsOf(b)' = IdsOf(b)
    BY <1>1, <1>2, IdsStay
  <2>2. ASSUME NEW f \in bucket' PROVE WrittenFile(f)'
    <3>1. PICK g : g = f
      OBVIOUS
    <3>2. WrittenFile(g)
      BY <1>1, <3>1 DEF AgreeInv, Written
    <3>3. WrittenFile(g)'
      BY <1>2, <2>1, <3>2, FileStays DEF AgreeInv
    <3> QED BY <3>1, <3>3
  <2> QED BY <2>2 DEF Written
<1> QED BY <1>7, <1>8, <1>9, <1>10, <1>11, <1>12, <1>13 DEF AgreeInv

\* A new payout is of what its credits are.
LEMMA NewAmounts ==
  ASSUME Typed, NEW D, NEW q, ScheduledAs(D, q)
  PROVE  \A p \in DOMAIN payouts' \ DOMAIN payouts :
           payouts'[p].amount = MapThenSumSet(Due, PaidIn(p)')
<1>1. NewPayouts(q)
  BY SchedulesNew
<1>2. D = Dues /\ D \subseteq Credit
  BY DEF ScheduledAs, Dues
<1>3. /\ q \in Seq(Owner \X Range(Tenant))
      /\ \A i, k \in DOMAIN q : q[i] = q[k] => i = k
  <2>1. PICK T : T = PairsOf(D)
    OBVIOUS
  <2>2. IsFiniteSet(T)
    <3>1. IsFiniteSet(D)
      BY <1>2, FilesAssumption, FS_Subset
    <3>2. PICK f : f = [c \in D |-> PairOf(c)]
      OBVIOUS
    <3>3. f \in Surjection(D, T)
      BY <2>1, <3>2 DEF Surjection, PairsOf
    <3> QED BY <3>1, <3>3, FS_Surjection
  <2>3. q = SetToSeq(T)
    BY <2>1 DEF ScheduledAs
  <2>4. \A i, k \in DOMAIN SetToSeq(T) : SetToSeq(T)[i] = SetToSeq(T)[k] => i = k
    BY <2>2, SetToSeqLists
  <2>5. \A i, k \in DOMAIN q : q[i] = q[k] => i = k
    BY <2>3, <2>4
  <2>6. SetToSeq(PairsOf(D)) \in Seq(Owner \X Range(Tenant))
    BY <1>2, PairsListed
  <2> QED BY <2>1, <2>3, <2>5, <2>6
<1>4. PICK n \in Nat : n = Len(q) /\ DOMAIN q = 1..n
  BY <1>3
<1>5. PICK b : b = [i \in 1..n |-> [owner |-> q[i][1], tenant |-> q[i][2], processed |-> 0,
                          amount |-> MapThenSumSet(Due, Of(D, q, i)), status |-> "SCHEDULED"]]
  OBVIOUS
<1>6. payouts' = payouts \o b
  BY <1>4, <1>5 DEF ScheduledAs
<1>7. PICK a, d : a = payouts /\ d = payouts'
  OBVIOUS
<1>8. /\ Len(a) \in Nat /\ DOMAIN a = 1..Len(a) /\ DOMAIN d = 1..(Len(a) + n)
      /\ \A i \in 1..n : d[Len(a) + i] = b[i]
  <2>1. PICK S : S = PayoutRow \cup {b[i] : i \in 1..n}
    OBVIOUS
  <2>2. a \in Seq(PayoutRow)
    BY <1>7 DEF Typed, RowsTyped
  <2>3. a \in Seq(S)
    BY <2>1, <2>2
  <2>4. b = [i \in 1..n |-> b[i]]
    BY <1>5
  <2>5. b \in Seq(S) /\ Len(b) = n
    BY <2>1, <2>4
  <2>6. d = a \o b
    BY <1>6, <1>7
  <2>7. Len(a) \in Nat /\ DOMAIN a = 1..Len(a) /\ Len(d) = Len(a) + n /\ DOMAIN d = 1..(Len(a) + n)
    <3>1. Len(a) \in Nat /\ DOMAIN a = 1..Len(a)
      BY <2>3
    <3>2. a \o b \in Seq(S) /\ Len(a \o b) = Len(a) + Len(b)
      BY <2>3, <2>5
    <3>3. DOMAIN (a \o b) = 1..Len(a \o b)
      BY <3>2
    <3> QED BY <2>5, <2>6, <3>1, <3>2, <3>3
  <2>8. \A i \in 1..n : d[Len(a) + i] = b[i]
    BY <2>3, <2>5, <2>6, <2>7
  <2> QED BY <2>7, <2>8
<1>9. ASSUME NEW i \in 1..n PROVE d[Len(a) + i].amount = MapThenSumSet(Due, Of(D, q, i))
  <2>1. PICK x : x = MapThenSumSet(Due, Of(D, q, i))
    OBVIOUS
  <2>2. b[i] = [owner |-> q[i][1], tenant |-> q[i][2], processed |-> 0,
                amount |-> x, status |-> "SCHEDULED"]
    BY <1>5, <2>1, Zenon
  <2>3. b[i].amount = x
    BY <2>2
  <2> QED BY <1>8, <2>1, <2>3
<1>10. \A c \in D : \E i \in 1..n : paidBy'[c] = Len(a) + i /\ q[i] = PairOf(c)
  BY <1>1, <1>2, <1>4, <1>7 DEF NewPayouts
<1>11. \A c \in Credit \ D : paidBy'[c] = NotEarned \/ paidBy'[c] = Payable \/ paidBy'[c] \in 1..Len(a)
  <2>1. \A c \in Credit : paidBy[c] \in {NotEarned, Payable} \cup DOMAIN payouts
    BY DEF Typed, RowsTyped
  <2> QED BY <1>1, <1>2, <1>7, <1>8, <2>1 DEF NewPayouts
<1>12. ASSUME NEW i \in 1..n PROVE PaidIn(Len(a) + i)' = Of(D, q, i)
  <2>1. ASSUME NEW c \in Credit, paidBy'[c] = Len(a) + i PROVE c \in Of(D, q, i)
    <3>1. c \in D
      BY <1>8, <1>11, <2>1 DEF NotEarned, Payable
    <3>2. PICK k \in 1..n : paidBy'[c] = Len(a) + k /\ q[k] = PairOf(c)
      BY <1>10, <3>1
    <3>3. k = i
      BY <1>8, <2>1, <3>2
    <3> QED BY <3>1, <3>2, <3>3 DEF Of
  <2>2. ASSUME NEW c \in Of(D, q, i) PROVE c \in Credit /\ paidBy'[c] = Len(a) + i
    <3>1. c \in D /\ PairOf(c) = q[i]
      BY <2>2 DEF Of
    <3>2. PICK k \in 1..n : paidBy'[c] = Len(a) + k /\ q[k] = PairOf(c)
      BY <1>10, <3>1
    <3>3. k = i
      BY <1>3, <1>4, <3>1, <3>2
    <3> QED BY <1>2, <3>1, <3>2, <3>3
  <2>3. PICK y : y = Len(a) + i
    OBVIOUS
  <2>4. {c \in Credit : paidBy'[c] = y} = Of(D, q, i)
    BY <2>1, <2>2, <2>3
  <2>5. PaidIn(y)' = {c \in Credit : paidBy'[c] = y}
    BY DEF PaidIn
  <2>6. Len(a) + i = y
    BY <2>3
  <2> QED BY <2>4, <2>5, <2>6
<1>13. ASSUME NEW p \in DOMAIN d \ DOMAIN a PROVE d[p].amount = MapThenSumSet(Due, PaidIn(p)')
  <2>1. PICK i \in 1..n : p = Len(a) + i
    <3>1. p - Len(a) \in 1..n /\ p = Len(a) + (p - Len(a))
      BY <1>8
    <3> QED BY <3>1
  <2>2. PaidIn(p)' = Of(D, q, i)
    BY <1>12, <2>1
  <2> QED BY <1>9, <2>1, <2>2
<1> QED BY <1>7, <1>13

\* New payouts are of what their credits are.
LEMMA SchedulePayoutsAgree ==
  ASSUME SentApartInv, Typed, Typed', AgreeInv, SchedulePayouts
  PROVE  AgreeInv'
<1>1. PICK D, q : ScheduledAs(D, q)
  BY SchedulesAs
<1>2. NewPayouts(q)
  BY <1>1, SchedulesNew
<1>3. /\ UNCHANGED <<lines, batches, bucket>>
      /\ script' = [pc |-> "scheduleLines", credits |-> Dues]
  BY Zenon DEF SchedulePayouts, Dues
<1>4. script'.pc = "scheduleLines" /\ script'.credits = Dues
  BY <1>3
<1>5. /\ DOMAIN payouts \subseteq DOMAIN payouts'
      /\ \A p \in DOMAIN payouts : payouts'[p] = payouts[p]
      /\ \A i \in DOMAIN q : payouts'[Len(payouts) + i].tenant = q[i][2]
      /\ \A c \in Credit \ Dues : paidBy'[c] = paidBy[c]
      /\ \A c \in Dues : \E i \in DOMAIN q :
           /\ paidBy'[c] = Len(payouts) + i /\ q[i] = PairOf(c)
           /\ paidBy'[c] \in DOMAIN payouts' \ DOMAIN payouts
  BY <1>2 DEF NewPayouts
<1>6. LinesSame /\ BatchesSame /\ PayoutsSame
  BY <1>3, <1>5, MoneyLeft DEF PayoutsSame
<1>7. /\ NotEarned \notin DOMAIN payouts /\ Payable \notin DOMAIN payouts
      /\ NotEarned \notin DOMAIN payouts' /\ Payable \notin DOMAIN payouts'
  <2>1. PICK n \in Nat : DOMAIN payouts' = 1..n
    <3>1. PICK d, R : d = payouts' /\ R = PayoutRow
      OBVIOUS
    <3>2. d \in Seq(R)
      BY <1>2, <3>1 DEF NewPayouts
    <3>3. PICK n \in Nat : DOMAIN d = 1..n
      BY <3>2
    <3> QED BY <3>1, <3>3
  <2>2. NotEarned \notin DOMAIN payouts' /\ Payable \notin DOMAIN payouts'
    BY <2>1 DEF NotEarned, Payable
  <2> QED BY <2>2, PayoutRows
<1>8. \A c \in Credit : /\ c \in Dues => paidBy[c] = Payable /\ paidBy'[c] \in DOMAIN payouts' \ DOMAIN payouts
                        /\ c \notin Dues => paidBy'[c] = paidBy[c]
  <2>1. \A c \in Dues : paidBy'[c] \in DOMAIN payouts' \ DOMAIN payouts
    BY <1>5
  <2>2. \A c \in Dues : paidBy[c] = Payable
    BY DEF Dues
  <2> QED BY <1>5, <2>1, <2>2
<1>9. Owed'
  <2>1. ASSUME NEW p \in DOMAIN payouts PROVE PaidIn(p)' = PaidIn(p)
    BY <1>7, <1>8 DEF PaidIn
  <2>2. ASSUME NEW p \in DOMAIN payouts'
        PROVE  payouts'[p].amount = MapThenSumSet(Due, PaidIn(p)')
    <3>1. CASE p \in DOMAIN payouts
      <4>1. payouts[p].amount = MapThenSumSet(Due, PaidIn(p))
        BY <3>1 DEF AgreeInv, Owed
      <4> QED BY <1>5, <2>1, <3>1, <4>1
    <3>2. CASE p \notin DOMAIN payouts
      BY <1>1, <3>2, NewAmounts
    <3> QED BY <3>1, <3>2
  <2> QED BY <2>2 DEF Owed
<1>10. Lined'
  <2>1. /\ \A l \in DOMAIN lines : CreditOf(l)' = CreditOf(l)
        /\ \A d : UnitsOf(d)' = UnitsOf(d)
    BY <1>3, <1>6, UnitsStay
  <2>2. ASSUME NEW l \in DOMAIN lines
        PROVE  /\ CreditOf(l)' \in Credit /\ paidBy'[CreditOf(l)'] \in DOMAIN payouts'
               /\ CostOf(lines', UnitsOf(CreditOf(l))') = Due(CreditOf(l)')
    <3>1. PICK d, S : d = CreditOf(l) /\ S = UnitsOf(d)
      OBVIOUS
    <3>2. d = CreditOf(l)' /\ S = UnitsOf(d)'
      BY <2>1, <3>1
    <3>3. d \in Credit /\ paidBy[d] \in DOMAIN payouts /\ CostOf(lines, S) = Due(d)
      BY <3>1 DEF AgreeInv, Lined
    <3>4. CostOf(lines', S) = Due(d) /\ UnitsOf(CreditOf(l))' = S
      BY <1>3, <3>2, <3>3
    <3>5. paidBy'[d] \in DOMAIN payouts'
      BY <1>5, <1>8, <3>3
    <3> QED BY <3>2, <3>3, <3>4, <3>5
  <2>3. \A l, k \in DOMAIN lines : CreditOf(l)' = CreditOf(k)' => lines'[l].payout = lines'[k].payout
    BY <1>3, <2>1 DEF AgreeInv, Lined
  <2> QED BY <1>3, <2>2, <2>3 DEF Lined
<1>11. TenantsAgree'
  <2>1. ASSUME NEW c \in Credit, paidBy'[c] \in DOMAIN payouts'
        PROVE  payouts'[paidBy'[c]].tenant = PrincipalGroup[c.job]
    <3>1. CASE c \in Dues
      <4>1. PICK i \in DOMAIN q : paidBy'[c] = Len(payouts) + i /\ q[i] = PairOf(c)
        BY <1>5, <3>1
      <4>2. payouts'[paidBy'[c]].tenant = q[i][2]
        BY <1>5, <4>1
      <4>3. q[i][2] = PrincipalGroup[c.job]
        BY <4>1 DEF PairOf
      <4> QED BY <4>2, <4>3
    <3>2. CASE c \notin Dues
      <4>1. paidBy'[c] = paidBy[c] /\ paidBy[c] \in DOMAIN payouts
        <5>1. paidBy[c] \in {NotEarned, Payable} \cup DOMAIN payouts
          BY DEF Typed, RowsTyped
        <5> QED BY <1>7, <1>8, <2>1, <3>2, <5>1
      <4> QED BY <1>5, <4>1 DEF AgreeInv, TenantsAgree
    <3> QED BY <3>1, <3>2
  <2>2. \A l \in DOMAIN lines' : payouts'[lines'[l].payout].tenant = PrincipalGroup[lines'[l].job]
    BY <1>3, <1>5, PayoutOfLine DEF AgreeInv, TenantsAgree
  <2> QED BY <2>1, <2>2 DEF TenantsAgree
<1>12. NewCredits'
  <2>1. ASSUME NEW c \in Dues
        PROVE  /\ \A l \in DOMAIN lines : CreditOf(l) # c
               /\ \A b \in DOMAIN batches : paidBy'[c] \notin batches[b].payouts
    <3>1. c \in Credit
      BY DEF Dues
    <3>2. \A l \in DOMAIN lines : paidBy[CreditOf(l)] \in DOMAIN payouts
      BY DEF AgreeInv, Lined
    <3>3. \A b \in DOMAIN batches : batches[b].payouts \subseteq DOMAIN payouts
      BY DEF AgreeInv, Batched
    <3> QED BY <1>7, <1>8, <3>1, <3>2, <3>3
  <2>2. \A l \in DOMAIN lines : CreditOf(l)' = CreditOf(l)
    BY <1>6, UnitsStay
  <2> QED BY <1>3, <1>4, <2>1, <2>2 DEF NewCredits
<1>13. Batched'
  <2>1. ASSUME NEW b \in DOMAIN batches'
        PROVE  /\ batches'[b].payouts \subseteq DOMAIN payouts'
               /\ batches'[b].total = Amount(payouts', batches'[b].payouts)
    <3>1. PICK P : P = batches[b].payouts
      OBVIOUS
    <3>2. P \subseteq DOMAIN payouts /\ batches[b].total = Amount(payouts, P)
      BY <1>3, <3>1 DEF AgreeInv, Batched
    <3>3. Amount(payouts', P) = Amount(payouts, P)
      BY <1>6, <3>2, AmountsStay
    <3>4. batches'[b].payouts = P /\ batches'[b].total = batches[b].total
      BY <1>3, <3>1
    <3> QED BY <1>5, <3>2, <3>3, <3>4
  <2> QED BY <2>1 DEF Batched
<1>14. InMemory'
  BY <1>4 DEF InMemory, UploadPC
<1>15. Written'
  <2>1. \A b \in DOMAIN batches : IdsOf(b)' = IdsOf(b)
    BY <1>3, <1>6, IdsStay
  <2>2. ASSUME NEW f \in bucket' PROVE WrittenFile(f)'
    <3>1. PICK g : g = f
      OBVIOUS
    <3>2. WrittenFile(g)
      BY <1>3, <3>1 DEF AgreeInv, Written
    <3>3. WrittenFile(g)'
      BY <1>6, <2>1, <3>2, FileStays DEF AgreeInv
    <3> QED BY <3>1, <3>3
  <2> QED BY <2>2 DEF Written
<1> QED BY <1>9, <1>10, <1>11, <1>12, <1>13, <1>14, <1>15 DEF AgreeInv

\* The line of a unit of a credit, and those of all its units.
UnitLine(c, i, last) ==
  [job |-> c.job, owner |-> c.owner, type |-> c.type, status |-> "SCHEDULED",
   cost |-> Items(c)[i].cost, price |-> Items(c)[i].price, payout |-> paidBy[last[c.job]]]
AllUnits(last)     == {UnitLine(x[1], x[2], last) : x \in Credit \X Nat}
UnitLines(c, last) == [i \in DOMAIN Items(c) |-> UnitLine(c, i, last)]

\* The credits whose lines are to be made, incomes first.
Sorted(t)  == SetToSeq({c \in script.credits : c.type = t})
AllCredits == Sorted("INCOME") \o Sorted("RESCHEDULE_SURCHARGE_COMPENSATION")

ListsAll(q, K) ==
  /\ q \in Seq(K)
  /\ \A i, k \in DOMAIN q : q[i] = q[k] => i = k
  /\ \A c \in K : \E i \in DOMAIN q : q[i] = c

\* The credits whose lines are to be made are listed all.
LEMMA AllListed ==
  ASSUME Typed, script.pc = "scheduleLines"
  PROVE  ListsAll(AllCredits, script.credits)
<1>1. PICK K : K = script.credits
  OBVIOUS
<1>2. K \subseteq Credit
  BY <1>1 DEF Typed, ScriptTyped
<1>3. PICK A, B : /\ A = {c \in K : c.type = "INCOME"}
                  /\ B = {c \in K : c.type = "RESCHEDULE_SURCHARGE_COMPENSATION"}
  OBVIOUS
<1>4. IsFiniteSet(A) /\ IsFiniteSet(B)
  BY <1>2, <1>3, FilesAssumption, FS_Subset
<1>5. PICK r, s : r = SetToSeq(A) /\ s = SetToSeq(B)
  OBVIOUS
<1>6. r \in Seq(A) /\ ListsAll(r, A)
  BY <1>4, <1>5, SetToSeqLists DEF ListsAll
<1>7. s \in Seq(B) /\ ListsAll(s, B)
  BY <1>4, <1>5, SetToSeqLists DEF ListsAll
<1>8. r \in Seq(K) /\ s \in Seq(K)
  BY <1>3, <1>6, <1>7
<1>9. PICK q : q = r \o s
  OBVIOUS
<1>10. /\ q \in Seq(K) /\ Len(r) \in Nat /\ Len(s) \in Nat
       /\ DOMAIN r = 1..Len(r) /\ DOMAIN s = 1..Len(s) /\ DOMAIN q = 1..(Len(r) + Len(s))
       /\ DOMAIN r \subseteq DOMAIN q
       /\ \A i \in DOMAIN r : q[i] = r[i]
       /\ \A i \in DOMAIN q \ DOMAIN r : i - Len(r) \in DOMAIN s /\ q[i] = s[i - Len(r)]
  BY <1>8, <1>9, Joined
<1>11. A \cap B = {} /\ A \cup B = K
  <2>1. \A c \in K : c.type \in {"INCOME", "RESCHEDULE_SURCHARGE_COMPENSATION"}
    <3>1. \A c \in K : c \in [job : Job, owner : Owner, type : CreditType]
      BY <1>2, FilesAssumption
    <3> QED BY <3>1 DEF CreditType
  <2> QED BY <1>3, <2>1
<1>12. (\A i \in DOMAIN r : r[i] \in A) /\ (\A i \in DOMAIN s : s[i] \in B)
  BY <1>6, <1>7
<1>13. ASSUME NEW i \in DOMAIN q, NEW k \in DOMAIN q, q[i] = q[k] PROVE i = k
  <2>1. CASE i \in DOMAIN r /\ k \in DOMAIN r
    BY <1>6, <1>10, <1>13, <2>1 DEF ListsAll
  <2>2. CASE i \in DOMAIN r /\ k \notin DOMAIN r
    BY <1>10, <1>11, <1>12, <1>13, <2>2
  <2>3. CASE i \notin DOMAIN r /\ k \in DOMAIN r
    BY <1>10, <1>11, <1>12, <1>13, <2>3
  <2>4. CASE i \notin DOMAIN r /\ k \notin DOMAIN r
    <3>1. i - Len(r) = k - Len(r)
      BY <1>7, <1>10, <1>13, <2>4 DEF ListsAll
    <3> QED BY <1>10, <3>1
  <2> QED BY <2>1, <2>2, <2>3, <2>4
<1>14. ASSUME NEW c \in K PROVE \E i \in DOMAIN q : q[i] = c
  <2>1. CASE c \in A
    BY <1>6, <1>10, <2>1 DEF ListsAll
  <2>2. CASE c \in B
    <3>1. PICK i \in DOMAIN s : s[i] = c
      BY <1>7, <2>2 DEF ListsAll
    <3>2. Len(r) + i \in DOMAIN q \ DOMAIN r /\ (Len(r) + i) - Len(r) = i
      BY <1>10
    <3> QED BY <1>10, <3>1, <3>2
  <2> QED BY <1>11, <2>1, <2>2
<1>15. ListsAll(q, K)
  BY <1>10, <1>13, <1>14 DEF ListsAll
<1>16. q = AllCredits
  BY <1>1, <1>3, <1>5, <1>9 DEF AllCredits, Sorted
<1> QED BY <1>1, <1>15, <1>16

\* A line for each unit of each credit: line k is of unit off[k] of the credit at[k].
Fresh == DOMAIN lines' \ DOMAIN lines

NewUnits(last, at, off) ==
  /\ last \in [{c.job : c \in script.credits} -> script.credits]
  /\ \A j \in DOMAIN last : last[j].job = j
  /\ DOMAIN lines \subseteq DOMAIN lines' /\ \A l \in DOMAIN lines : lines'[l] = lines[l]
  /\ \A k \in Fresh : /\ at[k] \in script.credits /\ off[k] \in DOMAIN Items(at[k])
                      /\ lines'[k] = UnitLine(at[k], off[k], last)
  /\ \A k, l \in Fresh : at[k] = at[l] /\ off[k] = off[l] => k = l
  /\ \A c \in script.credits : \A r \in DOMAIN Items(c) : \E k \in Fresh : at[k] = c /\ off[k] = r

\* The new lines are the units of those credits, each at its place.
LEMMA SchedulesUnits ==
  ASSUME Typed, ScheduleLines
  PROVE  \E last, at, off : NewUnits(last, at, off)
<1>1. script.pc = "scheduleLines"
  BY DEF ScheduleLines
<1>2. PICK K, q : K = script.credits /\ q = AllCredits
  OBVIOUS
<1>3. K \subseteq Credit
  BY <1>1, <1>2 DEF Typed, ScriptTyped
<1>4. q \in Seq(K) /\ ListsAll(q, K)
  BY <1>1, <1>2, AllListed DEF ListsAll
<1>5. PICK last \in [{c.job : c \in script.credits} -> script.credits] :
        /\ \A j \in DOMAIN last : last[j].job = j
        /\ lines' = lines \o FlattenSeq([i \in DOMAIN AllCredits |-> UnitLines(AllCredits[i], last)])
  BY Zenon DEF ScheduleLines, AllCredits, Sorted, UnitLines, UnitLine
<1>6. PICK n \in Nat : n = Len(q) /\ DOMAIN q = 1..n
  BY <1>4
<1>7. PICK S : S = AllUnits(last)
  OBVIOUS
<1>8. ASSUME NEW c \in K PROVE UnitLines(c, last) \in Seq(S)
  <2>1. Items(c) \in Seq(Item) /\ c \in Credit
    BY <1>3, ItemsType
  <2>2. PICK m \in Nat : DOMAIN Items(c) = 1..m
    <3>1. PICK e, R : e = Items(c) /\ R = Item
      OBVIOUS
    <3>2. e \in Seq(R)
      BY <2>1, <3>1
    <3>3. PICK m \in Nat : DOMAIN e = 1..m
      BY <3>2
    <3> QED BY <3>1, <3>3
  <2>3. \A i \in 1..m : UnitLine(c, i, last) \in S
    <3>1. \A i \in Nat : UnitLine(c, i, last) \in AllUnits(last)
      <4>1. ASSUME NEW i \in Nat PROVE UnitLine(c, i, last) \in AllUnits(last)
        <5>1. PICK x \in Credit \X Nat : x[1] = c /\ x[2] = i
          <6>1. <<c, i>> \in Credit \X Nat /\ <<c, i>>[1] = c /\ <<c, i>>[2] = i
            BY <2>1
          <6> QED BY <6>1
        <5>2. UnitLine(c, i, last) = UnitLine(x[1], x[2], last)
          BY <5>1
        <5> QED BY <5>2, Zenon DEF AllUnits
      <4> QED BY <4>1
    <3>2. \A i \in 1..m : i \in Nat
      OBVIOUS
    <3> QED BY <1>7, <3>1, <3>2
  <2>4. UnitLines(c, last) = [i \in 1..m |-> UnitLine(c, i, last)]
    BY <2>2 DEF UnitLines
  <2> QED BY <2>3, <2>4
<1>9. PICK f : f = [i \in 1..n |-> UnitLines(q[i], last)]
  OBVIOUS
<1>10. f \in Seq(Seq(S)) /\ Len(f) = n
  <2>1. PICK T : T = Seq(S)
    OBVIOUS
  <2>2. \A i \in 1..n : UnitLines(q[i], last) \in T
    BY <1>4, <1>6, <1>8, <2>1
  <2>3. f \in Seq(T) /\ Len(f) = n
    BY <1>9, <2>2
  <2> QED BY <2>1, <2>3
<1>11. PICK F : F = FlattenSeq(f)
  OBVIOUS
<1>12. F \in Seq(S)
  BY <1>10, <1>11, FlattenType
<1>13. PICK w, o : Places(F, f, n, w, o)
  BY <1>10, <1>11, FlattenPlaces
<1>14. PICK a, d : a = lines /\ d = lines'
  OBVIOUS
<1>15. d = a \o F
  BY <1>2, <1>5, <1>6, <1>9, <1>11, <1>14
<1>16. PICK R : R = LineRow \cup S
  OBVIOUS
<1>17. a \in Seq(R) /\ F \in Seq(R)
  <2>1. a \in Seq(LineRow)
    BY <1>14 DEF Typed, RowsTyped
  <2>2. PICK Q : Q = LineRow
    OBVIOUS
  <2> QED BY <1>12, <1>16, <2>1, <2>2
<1>18. /\ Len(a) \in Nat /\ Len(F) \in Nat /\ DOMAIN F = 1..Len(F)
       /\ DOMAIN a = 1..Len(a) /\ DOMAIN d = 1..(Len(a) + Len(F))
       /\ DOMAIN a \subseteq DOMAIN d
       /\ \A i \in DOMAIN a : d[i] = a[i]
       /\ \A i \in DOMAIN d \ DOMAIN a : i - Len(a) \in DOMAIN F /\ d[i] = F[i - Len(a)]
  BY <1>15, <1>17, Joined
<1>19. PICK at : at = [k \in DOMAIN d \ DOMAIN a |-> q[w[k - Len(a)]]]
  OBVIOUS
<1>20. PICK off : off = [k \in DOMAIN d \ DOMAIN a |-> o[k - Len(a)]]
  OBVIOUS
<1>21. \A i \in 1..n : q[i] \in K /\ f[i] = UnitLines(q[i], last) /\ DOMAIN f[i] = DOMAIN Items(q[i])
  BY <1>4, <1>6, <1>9 DEF UnitLines
<1>22. \A i \in 1..n : \A r \in DOMAIN Items(q[i]) : f[i][r] = UnitLine(q[i], r, last)
  BY <1>21 DEF UnitLines
<1>23. \A p \in DOMAIN F : w[p] \in 1..n /\ o[p] \in DOMAIN f[w[p]] /\ F[p] = f[w[p]][o[p]]
  BY <1>13 DEF Places
<1>24. ASSUME NEW k \in DOMAIN d \ DOMAIN a
       PROVE  at[k] \in K /\ off[k] \in DOMAIN Items(at[k]) /\ d[k] = UnitLine(at[k], off[k], last)
  <2>1. PICK p \in DOMAIN F : p = k - Len(a) /\ d[k] = F[p]
    BY <1>18
  <2>2. at[k] = q[w[p]] /\ off[k] = o[p]
    BY <1>19, <1>20, <2>1
  <2>3. PICK i, r : i = w[p] /\ r = o[p]
    OBVIOUS
  <2>4. i \in 1..n /\ r \in DOMAIN f[i] /\ F[p] = f[i][r]
    BY <1>23, <2>3
  <2>5. q[i] \in K /\ r \in DOMAIN Items(q[i]) /\ F[p] = UnitLine(q[i], r, last)
    BY <1>21, <1>22, <2>4
  <2> QED BY <2>1, <2>2, <2>3, <2>5
<1>25. ASSUME NEW k \in DOMAIN d \ DOMAIN a, NEW l \in DOMAIN d \ DOMAIN a,
              at[k] = at[l], off[k] = off[l]
       PROVE  k = l
  <2>1. PICK p \in DOMAIN F, r \in DOMAIN F : p = k - Len(a) /\ r = l - Len(a)
    BY <1>18
  <2>2. q[w[p]] = q[w[r]] /\ o[p] = o[r]
    BY <1>19, <1>20, <1>25, <2>1
  <2>3. w[p] = w[r]
    BY <1>4, <1>6, <1>23, <2>2 DEF ListsAll
  <2>4. p = r
    BY <1>13, <2>2, <2>3 DEF Places
  <2> QED BY <1>18, <2>1, <2>4
<1>26. ASSUME NEW c \in K, NEW r \in DOMAIN Items(c)
       PROVE  \E k \in DOMAIN d \ DOMAIN a : at[k] = c /\ off[k] = r
  <2>1. PICK i \in 1..n : q[i] = c
    BY <1>4, <1>6 DEF ListsAll
  <2>2. r \in DOMAIN f[i]
    BY <1>21, <1>26, <2>1
  <2>3. PICK p \in DOMAIN F : w[p] = i /\ o[p] = r
    BY <1>13, <2>2 DEF Places
  <2>4. Len(a) + p \in DOMAIN d \ DOMAIN a /\ (Len(a) + p) - Len(a) = p
    BY <1>18
  <2> QED BY <1>19, <1>20, <2>1, <2>3, <2>4
<1>27. NewUnits(last, at, off)
  <2>1. Fresh = DOMAIN d \ DOMAIN a
    BY <1>14 DEF Fresh
  <2>2. \A k \in Fresh : /\ at[k] \in K /\ off[k] \in DOMAIN Items(at[k])
                         /\ lines'[k] = UnitLine(at[k], off[k], last)
    BY <1>14, <1>24, <2>1
  <2>3. \A k, l \in Fresh : at[k] = at[l] /\ off[k] = off[l] => k = l
    BY <1>25, <2>1
  <2>4. \A c \in K : \A r \in DOMAIN Items(c) : \E k \in Fresh : at[k] = c /\ off[k] = r
    BY <1>26, <2>1
  <2>5. DOMAIN lines \subseteq DOMAIN lines' /\ \A l \in DOMAIN lines : lines'[l] = lines[l]
    BY <1>14, <1>18
  <2> QED BY <1>2, <1>5, <2>2, <2>3, <2>4, <2>5 DEF NewUnits
<1> QED BY <1>27

\* The lines of a credit cost what it is.
LEMMA UnitsCostDue ==
  ASSUME Typed, NEW last, NEW at, NEW off, NewUnits(last, at, off), NEW c \in script.credits,
         c \in Credit, IsFiniteSet(Fresh)
  PROVE  CostOf(lines', {k \in Fresh : at[k] = c}) = Due(c)
<1>1. PICK S, T, e, d : S = {k \in Fresh : at[k] = c} /\ T = DOMAIN Items(c) /\ e = Items(c) /\ d = lines'
  OBVIOUS
<1>2. PICK R : R = Item
  OBVIOUS
<1>3. e \in Seq(R) /\ T = DOMAIN e
  BY <1>1, <1>2, ItemsType
<1>4. IsFiniteSet(S) /\ IsFiniteSet(T)
  BY <1>1, <1>3, TableRows, FS_Subset
<1>5. \A r \in T : e[r].cost \in Nat
  <2>1. \A r \in T : e[r] \in R
    BY <1>3
  <2> QED BY <1>2, <2>1 DEF Item
<1>6. \A k \in S : off[k] \in T /\ d[k].cost = e[off[k]].cost
  <2>1. ASSUME NEW k \in S PROVE off[k] \in T /\ d[k].cost = e[off[k]].cost
    <3>1. k \in Fresh /\ at[k] = c
      BY <1>1
    <3>2. off[k] \in DOMAIN Items(c) /\ lines'[k] = UnitLine(c, off[k], last)
      BY <3>1 DEF NewUnits
    <3>3. PICK r : r = off[k]
      OBVIOUS
    <3>4. d[k] = UnitLine(c, r, last)
      BY <1>1, <3>2, <3>3
    <3>5. d[k].cost = e[r].cost
      BY <1>1, <3>4 DEF UnitLine
    <3> QED BY <1>1, <3>2, <3>3, <3>5
  <2> QED BY <2>1
<1>7. PICK u, v : u = [k \in S |-> d[k].cost] /\ v = [r \in T |-> e[r].cost]
  OBVIOUS
<1>8. CostOf(d, S) = Summed(u, S) /\ CostOf(e, T) = Summed(v, T)
  BY <1>4, <1>7, CostSummed
<1>9. \A k \in S : u[k] \in Int /\ off[k] \in T /\ v[off[k]] = u[k]
  BY <1>5, <1>6, <1>7
<1>10. \A k, l \in S : off[k] = off[l] => k = l
  BY <1>1 DEF NewUnits
<1>11. \A r \in T : \E k \in S : off[k] = r
  BY <1>1 DEF NewUnits
<1>12. Summed(u, S) = Summed(v, T)
  BY <1>4, <1>9, <1>10, <1>11, SumOfImage
<1>13. CostOf(e, T) = Due(c)
  BY <1>1, ItemsCost
<1> QED BY <1>1, <1>8, <1>12, <1>13

\* So the lines of a credit cost what the credit is.
LEMMA ScheduleLinesAgree ==
  ASSUME SentApartInv, Typed, Typed', AgreeInv, ScheduleLines
  PROVE  AgreeInv'
<1>1. /\ script.pc = "scheduleLines" /\ script' = Idle
      /\ UNCHANGED <<paidBy, payouts, batches, bucket>>
  BY DEF ScheduleLines
<1>2. PICK last, at, off : NewUnits(last, at, off)
  BY SchedulesUnits
<1>3. PICK K : K = script.credits
  OBVIOUS
<1>4. K \subseteq Credit /\ \A c \in K : paidBy[c] \in DOMAIN payouts
  BY <1>1, <1>3 DEF Typed, ScriptTyped
<1>5. /\ DOMAIN lines \subseteq DOMAIN lines' /\ \A l \in DOMAIN lines : lines'[l] = lines[l]
      /\ \A k \in Fresh : at[k] \in K /\ lines'[k] = UnitLine(at[k], off[k], last)
  BY <1>2, <1>3 DEF NewUnits
<1>6. \A c \in K : last[c.job] \in K /\ last[c.job].job = c.job
  BY <1>2, <1>3 DEF NewUnits
<1>7. \A c \in K : /\ \A l \in DOMAIN lines : CreditOf(l) # c
                   /\ \A b \in DOMAIN batches : paidBy[c] \notin batches[b].payouts
  BY <1>1, <1>3 DEF AgreeInv, NewCredits
<1>8. LinesSame /\ PayoutsSame /\ BatchesSame
  BY <1>1, <1>5, MoneyLeft DEF LinesSame
<1>9. \A l \in DOMAIN lines : CreditOf(l)' = CreditOf(l)
  BY <1>8, UnitsStay
<1>10. ASSUME NEW k \in Fresh
       PROVE  /\ CreditOf(k)' = at[k] /\ lines'[k].payout = paidBy[last[at[k].job]]
              /\ lines'[k].job = at[k].job
  <2>1. PICK c, l : c = at[k] /\ l = lines'[k]
    OBVIOUS
  <2>2. c \in [job : Job, owner : Owner, type : CreditType]
    BY <1>4, <1>5, <2>1, FilesAssumption
  <2>3. l = UnitLine(c, off[k], last)
    BY <1>5, <2>1
  <2>4. l.job = c.job /\ l.owner = c.owner /\ l.type = c.type /\ l.payout = paidBy[last[c.job]]
    BY <2>3 DEF UnitLine
  <2>5. [job |-> l.job, owner |-> l.owner, type |-> l.type] = c
    BY <2>2, <2>4
  <2> QED BY <2>1, <2>4, <2>5 DEF CreditOf
<1>11. DOMAIN lines' = DOMAIN lines \cup Fresh /\ DOMAIN lines \cap Fresh = {}
  BY <1>5 DEF Fresh
<1>12. IsFiniteSet(Fresh)
  <2>1. PICK d, R : d = lines' /\ R = LineRow
    OBVIOUS
  <2>2. d \in Seq(R)
    BY <2>1 DEF Typed, RowsTyped
  <2>3. Fresh \subseteq DOMAIN d
    BY <2>1 DEF Fresh
  <2> QED BY <2>2, <2>3, TableRows
<1>13. ASSUME NEW c \in K PROVE CostOf(lines', UnitsOf(c)') = Due(c)
  <2>1. UnitsOf(c)' = {k \in Fresh : at[k] = c}
    <3>1. UnitsOf(c)' = {l \in DOMAIN lines' : CreditOf(l)' = c}
      BY DEF UnitsOf
    <3>2. \A l \in DOMAIN lines' : CreditOf(l)' = c <=> l \in Fresh /\ at[l] = c
      BY <1>7, <1>9, <1>10, <1>11
    <3> QED BY <1>11, <3>1, <3>2
  <2>2. CostOf(lines', {k \in Fresh : at[k] = c}) = Due(c)
    BY <1>2, <1>3, <1>4, <1>12, UnitsCostDue
  <2> QED BY <2>1, <2>2
<1>14. ASSUME NEW l \in DOMAIN lines
       PROVE  /\ CreditOf(l) \in Credit /\ paidBy[CreditOf(l)] \in DOMAIN payouts
              /\ CostOf(lines', UnitsOf(CreditOf(l))') = Due(CreditOf(l)) /\ CreditOf(l) \notin K
  <2>1. PICK c, S : c = CreditOf(l) /\ S = UnitsOf(c)
    OBVIOUS
  <2>2. c \in Credit /\ paidBy[c] \in DOMAIN payouts /\ CostOf(lines, S) = Due(c) /\ c \notin K
    BY <1>7, <2>1 DEF AgreeInv, Lined
  <2>3. S = UnitsOf(c)'
    <3>1. UnitsOf(c)' = {k \in DOMAIN lines' : CreditOf(k)' = c}
      BY DEF UnitsOf
    <3>2. \A k \in Fresh : CreditOf(k)' # c
      BY <1>5, <1>10, <2>2
    <3> QED BY <1>9, <1>11, <2>1, <3>1, <3>2 DEF UnitsOf
  <2>4. S \subseteq DOMAIN lines
    BY <2>1 DEF UnitsOf
  <2>5. CostOf(lines', S) = CostOf(lines, S)
    BY <1>8, <2>4, CostsStay
  <2>6. UnitsOf(CreditOf(l))' = S
    <3>1. CreditOf(l)' = c
      BY <1>9, <2>1
    <3> QED BY <2>3, <3>1
  <2> QED BY <2>1, <2>2, <2>5, <2>6
<1>15. Owed'
  <2>1. \A p : PaidIn(p)' = PaidIn(p)
    BY <1>1 DEF PaidIn
  <2>2. ASSUME NEW p \in DOMAIN payouts'
        PROVE  payouts'[p].amount = MapThenSumSet(Due, PaidIn(p)')
    <3>1. payouts[p].amount = MapThenSumSet(Due, PaidIn(p)) /\ payouts'[p].amount = payouts[p].amount
      BY <1>1 DEF AgreeInv, Owed
    <3> QED BY <2>1, <3>1
  <2> QED BY <2>2 DEF Owed
<1>16. Lined'
  <2>1. ASSUME NEW l \in DOMAIN lines'
        PROVE  /\ CreditOf(l)' \in Credit /\ paidBy'[CreditOf(l)'] \in DOMAIN payouts'
               /\ CostOf(lines', UnitsOf(CreditOf(l))') = Due(CreditOf(l)')
    <3>1. CASE l \in DOMAIN lines
      <4>1. CreditOf(l)' = CreditOf(l)
        BY <1>9, <3>1
      <4> QED BY <1>1, <1>14, <3>1, <4>1
    <3>2. CASE l \notin DOMAIN lines
      <4>1. l \in Fresh
        BY <3>2 DEF Fresh
      <4>2. PICK c \in K : c = at[l] /\ c = CreditOf(l)'
        BY <1>5, <1>10, <4>1
      <4>3. CostOf(lines', UnitsOf(c)') = Due(c)
        BY <1>13
      <4>4. UnitsOf(CreditOf(l))' = UnitsOf(c)'
        BY <4>2 DEF UnitsOf
      <4> QED BY <1>1, <1>4, <4>2, <4>3, <4>4
    <3> QED BY <3>1, <3>2
  <2>2. ASSUME NEW l \in DOMAIN lines', NEW k \in DOMAIN lines', CreditOf(l)' = CreditOf(k)'
        PROVE  lines'[l].payout = lines'[k].payout
    <3>1. CASE l \in DOMAIN lines /\ k \in DOMAIN lines
      BY <1>5, <1>9, <2>2, <3>1 DEF AgreeInv, Lined
    <3>2. CASE l \in DOMAIN lines /\ k \in Fresh
      BY <1>5, <1>9, <1>10, <1>14, <2>2, <3>2
    <3>3. CASE l \in Fresh /\ k \in DOMAIN lines
      BY <1>5, <1>9, <1>10, <1>14, <2>2, <3>3
    <3>4. CASE l \in Fresh /\ k \in Fresh
      BY <1>10, <2>2, <3>4
    <3> QED BY <1>11, <3>1, <3>2, <3>3, <3>4
  <2> QED BY <2>1, <2>2 DEF Lined
<1>17. TenantsAgree'
  <2>1. ASSUME NEW l \in DOMAIN lines'
        PROVE  payouts[lines'[l].payout].tenant = PrincipalGroup[lines'[l].job]
    <3>1. CASE l \in DOMAIN lines
      BY <1>5, <3>1 DEF AgreeInv, TenantsAgree
    <3>2. CASE l \in Fresh
      <4>1. PICK c \in K : lines'[l].payout = paidBy[last[c.job]] /\ lines'[l].job = c.job
        BY <1>5, <1>10, <3>2
      <4>2. PICK d \in K : d = last[c.job] /\ d.job = c.job
        BY <1>6
      <4>3. payouts[paidBy[d]].tenant = PrincipalGroup[d.job]
        BY <1>4 DEF AgreeInv, TenantsAgree
      <4> QED BY <4>1, <4>2, <4>3
    <3> QED BY <1>11, <3>1, <3>2
  <2>2. \A c \in Credit : paidBy'[c] \in DOMAIN payouts' =>
                       payouts'[paidBy'[c]].tenant = PrincipalGroup[c.job]
    BY <1>1 DEF AgreeInv, TenantsAgree
  <2> QED BY <1>1, <2>1, <2>2 DEF TenantsAgree
<1>18. NewCredits' /\ InMemory'
  BY <1>1 DEF NewCredits, InMemory, Idle, UploadPC
<1>19. Batched'
  BY <1>1 DEF AgreeInv, Batched
<1>20. Written'
  <2>1. \A k \in DOMAIN lines' \ DOMAIN lines :
          \A b \in DOMAIN batches : lines'[k].payout \notin batches[b].payouts
    <3>1. ASSUME NEW k \in Fresh, NEW b \in DOMAIN batches
          PROVE  lines'[k].payout \notin batches[b].payouts
      <4>1. PICK d \in K : lines'[k].payout = paidBy[d]
        BY <1>5, <1>6, <1>10
      <4> QED BY <1>7, <4>1
    <3> QED BY <3>1 DEF Fresh
  <2>2. \A b \in DOMAIN batches : IdsOf(b)' = IdsOf(b)
    BY <1>8, <2>1, IdsStay
  <2>3. ASSUME NEW f \in bucket' PROVE WrittenFile(f)'
    <3>1. PICK g : g = f
      OBVIOUS
    <3>2. WrittenFile(g)
      BY <1>1, <3>1 DEF AgreeInv, Written
    <3>3. WrittenFile(g)'
      BY <1>8, <2>2, <3>2, FileStays DEF AgreeInv
    <3> QED BY <3>1, <3>3
  <2> QED BY <2>3 DEF Written
<1> QED BY <1>15, <1>16, <1>17, <1>18, <1>19, <1>20 DEF AgreeInv

\* Every step keeps rows and files in agreement.
LEMMA NextAgree ==
  ASSUME SentApartInv, Typed, Typed', AgreeInv, [Next]_vars
  PROVE  AgreeInv'
<1>1. ASSUME NEW c \in Credit, Earn(c) PROVE AgreeInv'
  BY <1>1, EarnAgree
<1>2. CASE Schedule
  BY <1>2, SchedulePayoutsAgree, ScheduleLinesAgree DEF Schedule
<1>3. CASE Upload
  BY <1>3, UploadAgree
<1>4. CASE Transfer
  BY <1>4, NextTenantAgree, SendPaymentAgree, SendSummaryAgree, SendLinesAgree,
     FailUploadAgree, MarkSentAgree, CloseBatchAgree DEF Transfer
<1>5. CASE Read
  BY <1>5, OthersAgree, MarkRowAgree, CountRowAgree, PayRowAgree DEF Read
<1>6. CASE Report \/ Crash \/ UNCHANGED vars
  BY <1>6, OthersAgree
<1> QED BY <1>1, <1>2, <1>3, <1>4, <1>5, <1>6 DEF Next

\* At the start there is neither.
LEMMA InitAgree ==
  ASSUME Init
  PROVE  AgreeInv
<1>1. /\ payouts = <<>> /\ lines = <<>> /\ batches = <<>> /\ bucket = {}
      /\ script.pc = "idle" /\ paidBy = [c \in Credit |-> NotEarned]
  BY DEF Init, Idle
<1>2. DOMAIN payouts = {} /\ DOMAIN lines = {} /\ DOMAIN batches = {}
  BY <1>1
<1> QED BY <1>1, <1>2 DEF AgreeInv, Owed, Lined, TenantsAgree, NewCredits, Batched, InMemory,
                       Written, UploadPC

------------------------------------------------------------------------------
(* What the invariant says of the three files of a batch *)

RecordsOf(P) == {Detail(p) : p \in P}

\* The payment file has a record for each payout, which asks for its amount.
LEMMA RecordsAsk ==
  ASSUME Typed, NEW P, P \subseteq DOMAIN payouts
  PROVE  /\ AmountsIn(RecordsOf(P)) = Amount(payouts, P)
         /\ Cardinality(RecordsOf(P)) = Cardinality(P)
<1>1. PICK D : D = RecordsOf(P)
  OBVIOUS
<1>2. IsFiniteSet(P) /\ \A p \in P : payouts[p].amount \in Nat
  BY PayoutRows
<1>3. \A p \in P : Detail(p).reference = p /\ Detail(p).amount = payouts[p].amount
  BY DEF Detail
<1>4. PICK h : h = [p \in P |-> Detail(p)]
  OBVIOUS
<1>5. \A p \in P : h[p] \in D /\ h[p].reference = p /\ h[p].amount = payouts[p].amount
  BY <1>1, <1>3, <1>4 DEF RecordsOf
<1>6. \A y \in D : \E p \in P : h[p] = y
  BY <1>1, <1>4 DEF RecordsOf
<1>7. h \in [P -> D]
  BY <1>1, <1>4 DEF RecordsOf
<1>8. h \in Surjection(P, D)
  BY <1>6, <1>7 DEF Surjection
<1>9. \A p, q \in P : h[p] = h[q] => p = q
  BY <1>5
<1>10. h \in Injection(P, D)
  BY <1>7, <1>9 DEF Injection, IsInjective
<1>11. IsFiniteSet(D) /\ Cardinality(D) = Cardinality(P)
  BY <1>2, <1>8, <1>10, FS_Surjection
<1>12. PICK u, v : u = [p \in P |-> payouts[p].amount] /\ v = [d \in D |-> d.amount]
  OBVIOUS
<1>13. \A p \in P : u[p] \in Int /\ h[p] \in D /\ v[h[p]] = u[p]
  BY <1>2, <1>5, <1>12
<1>14. Summed(u, P) = Summed(v, D)
  <2>1. IsFiniteSet(P) /\ IsFiniteSet(D)
    BY <1>2, <1>11
  <2> QED BY <1>6, <1>9, <1>13, <2>1, SumOfImage
<1>15. Amount(payouts, P) = Summed(u, P)
  BY <1>2, <1>12, AmountSummed
<1>16. AmountsIn(D) = Summed(v, D)
  BY <1>11, <1>12, AmountsInSummed
<1> QED BY <1>1, <1>11, <1>14, <1>15, <1>16

\* The lines of a whole batch cost what its payouts pay.
LEMMA BatchCost ==
  ASSUME Typed, AgreeInv, NEW b \in DOMAIN batches, Whole(b)
  PROVE  CostOf(lines, IdsOf(b)) = batches[b].total
<1>1. PICK P, L, C : /\ P = batches[b].payouts /\ L = IdsOf(b)
                     /\ C = {c \in Credit : paidBy[c] \in P}
  OBVIOUS
<1>2. P \subseteq DOMAIN payouts /\ batches[b].total = Amount(payouts, P)
  BY <1>1 DEF AgreeInv, Batched
<1>3. L \subseteq DOMAIN lines /\ \A l \in DOMAIN lines : l \in L <=> lines[l].payout \in P
  BY <1>1 DEF IdsOf
<1>4. C = {CreditOf(l) : l \in L}
  BY <1>1, Zenon DEF Whole, CreditOf, IdsOf
<1>5. C \subseteq Credit /\ IsFiniteSet(C)
  <2>1. C \subseteq Credit
    BY <1>1
  <2> QED BY <2>1, FilesAssumption, FS_Subset
<1>6. IsFiniteSet(P) /\ IsFiniteSet(L)
  <2>1. PICK d, R : d = lines /\ R = LineRow
    OBVIOUS
  <2>2. d \in Seq(R) /\ L \subseteq DOMAIN d
    BY <1>3, <2>1 DEF Typed, RowsTyped
  <2> QED BY <1>2, <2>2, PayoutRows, TableRows
<1>7. PICK u, w, x : /\ u = [l \in L |-> lines[l].cost] /\ w = [c \in C |-> Due(c)]
                     /\ x = [p \in P |-> payouts[p].amount]
  OBVIOUS
<1>8. PICK h : h = [l \in L |-> CreditOf(l)]
  OBVIOUS
<1>9. CostOf(lines, L) = Summed(u, L)
  BY <1>6, <1>7, CostSummed
<1>10. Amount(payouts, P) = Summed(x, P)
  BY <1>6, <1>7, AmountSummed
<1>11. Summed(u, L) = Summed(w, C)
  <2>1. ASSUME NEW c \in C PROVE w[c] = Summed(u, {l \in L : h[l] = c})
    <3>1. PICK k \in L : CreditOf(k) = c
      BY <1>4
    <3>2. k \in DOMAIN lines /\ lines[k].payout \in P
      BY <1>3
    <3>3. CostOf(lines, UnitsOf(c)) = Due(c)
      BY <3>1, <3>2 DEF AgreeInv, Lined
    <3>4. \A l \in DOMAIN lines : CreditOf(l) = c => lines[l].payout \in P
      BY <3>1, <3>2 DEF AgreeInv, Lined
    <3>5. PICK M : M = {l \in L : h[l] = c}
      OBVIOUS
    <3>6. M = UnitsOf(c)
      BY <1>3, <1>8, <3>4, <3>5 DEF UnitsOf
    <3>7. IsFiniteSet(M) /\ M \subseteq L
      BY <1>6, <3>5, FS_Subset
    <3>8. CostOf(lines, M) = Summed(u, M)
      BY <1>7, <3>7, CostSummed
    <3> QED BY <1>7, <3>3, <3>5, <3>6, <3>8
  <2>2. Fibers(u, w, h, L, C)
    BY <2>1, Zenon DEF Fibers
  <2>3. \A l \in L : u[l] \in Int /\ h[l] \in C
    <3>1. \A l \in L : h[l] \in C
      BY <1>4, <1>8
    <3>2. \A l \in L : u[l] \in Int
      BY <1>3, <1>7, LineRows
    <3> QED BY <3>1, <3>2
  <2> QED BY <1>5, <1>6, <2>2, <2>3, SumOfFibers
<1>12. Summed(w, C) = Summed(x, P)
  <2>1. PICK g : g = [c \in C |-> paidBy[c]]
    OBVIOUS
  <2>2. ASSUME NEW p \in P PROVE x[p] = Summed(w, {c \in C : g[c] = p})
    <3>1. PICK M : M = {c \in C : g[c] = p}
      OBVIOUS
    <3>2. M = PaidIn(p)
      BY <1>1, <2>1, <3>1 DEF PaidIn
    <3>3. payouts[p].amount = MapThenSumSet(Due, PaidIn(p))
      BY <1>2 DEF AgreeInv, Owed
    <3>4. M \subseteq C /\ IsFiniteSet(M)
      BY <1>5, <3>1, FS_Subset
    <3>5. \A c \in M : w[c] = Due(c)
      BY <1>7, <3>4
    <3>6. MapThenSumSet(Due, M) = Summed(w, M)
      BY <3>4, <3>5, DuesSummed
    <3> QED BY <1>7, <3>1, <3>2, <3>3, <3>6
  <2>3. Fibers(w, x, g, C, P)
    BY <2>2, Zenon DEF Fibers
  <2>4. \A c \in C : w[c] \in Int /\ g[c] \in P
    BY <1>1, <1>5, <1>7, <2>1, DueIsNatural
  <2> QED BY <1>5, <1>6, <2>3, <2>4, SumOfFibers
<1> QED BY <1>1, <1>2, <1>9, <1>10, <1>11, <1>12

RowsOf(L, M) == {LinesRow(L, l) : l \in M}
Before(S, l) == {k \in S : k <= l}

\* Counted up to two numbers of a set, the smaller comes first.
LEMMA CountsApart ==
  ASSUME NEW S, IsFiniteSet(S), S \subseteq Nat, NEW l \in S, NEW k \in S, l < k
  PROVE  Cardinality(Before(S, l)) # Cardinality(Before(S, k))
<1>1. PICK A, B : A = Before(S, l) /\ B = Before(S, k)
  OBVIOUS
<1>2. A \subseteq B /\ B \subseteq S /\ k \in B /\ k \notin A
  <2>1. l \in Nat /\ k \in Nat /\ \A x \in S : x \in Nat
    OBVIOUS
  <2>2. \A x \in S : x <= l => x <= k
    BY <2>1
  <2>3. k <= k /\ ~(k <= l)
    BY <2>1
  <2> QED BY <1>1, <2>2, <2>3 DEF Before
<1>3. IsFiniteSet(B)
  BY <1>2, FS_Subset
<1>4. Cardinality(A) = Cardinality(B) => B = A
  BY <1>2, <1>3, FS_Subset
<1> QED BY <1>1, <1>2, <1>4

\* The file of lines has a row for each line.
LEMMA LineRowsApart ==
  ASSUME Typed, NEW L, L \subseteq DOMAIN lines, NEW l \in L, NEW k \in L,
         LinesRow(L, l) = LinesRow(L, k)
  PROVE  l = k
<1>1. PICK j, i, m, n : /\ j = lines[l].job /\ i = lines[k].job
                        /\ m = Cardinality(Before(OfJob(L, j), l))
                        /\ n = Cardinality(Before(OfJob(L, i), k))
  OBVIOUS
<1>2. LinesRow(L, l).job = j /\ LinesRow(L, l).number = m
  BY <1>1 DEF LinesRow, Before
<1>3. LinesRow(L, k).job = i /\ LinesRow(L, k).number = n
  BY <1>1 DEF LinesRow, Before
<1>4. j = i /\ m = n
  BY <1>2, <1>3
<1>5. PICK S : S = OfJob(L, j)
  OBVIOUS
<1>6. l \in S /\ k \in S /\ S \subseteq DOMAIN lines
  BY <1>1, <1>4, <1>5 DEF OfJob
<1>7. IsFiniteSet(S) /\ S \subseteq Nat
  <2>1. PICK d, R : d = lines /\ R = LineRow
    OBVIOUS
  <2>2. d \in Seq(R) /\ S \subseteq DOMAIN d
    BY <1>6, <2>1 DEF Typed, RowsTyped
  <2>3. DOMAIN d \subseteq Nat
    BY <2>2
  <2> QED BY <2>2, <2>3, TableRows
<1>8. Cardinality(Before(S, l)) = Cardinality(Before(S, k))
  BY <1>1, <1>4, <1>5
<1>9. ~(l < k) /\ ~(k < l)
  BY <1>6, <1>7, <1>8, CountsApart
<1> QED BY <1>6, <1>7, <1>9

\* The rows of lines cost what the lines do, and sell for what they do.
LEMMA RowsAsk ==
  ASSUME Typed, NEW L, L \subseteq DOMAIN lines, NEW M, M \subseteq L
  PROVE  /\ CostsIn(RowsOf(L, M)) = CostOf(lines, M)
         /\ PricesIn(RowsOf(L, M)) = PriceOf(lines, M)
<1>1. PICK D : D = RowsOf(L, M)
  OBVIOUS
<1>2. PICK h : h = [l \in M |-> LinesRow(L, l)]
  OBVIOUS
<1>3. \A l \in M : LinesRow(L, l).cost = lines[l].cost /\ LinesRow(L, l).price = lines[l].price
  BY DEF LinesRow
<1>4. \A l \in M : h[l] \in D /\ h[l].cost = lines[l].cost /\ h[l].price = lines[l].price
  BY <1>1, <1>2, <1>3 DEF RowsOf
<1>5. \A y \in D : \E l \in M : h[l] = y
  BY <1>1, <1>2 DEF RowsOf
<1>6. \A l, k \in M : h[l] = h[k] => l = k
  BY <1>2, LineRowsApart
<1>7. h \in Surjection(M, D)
  BY <1>1, <1>2, <1>5 DEF Surjection, RowsOf
<1>8. IsFiniteSet(M)
  <2>1. PICK d, R : d = lines /\ R = LineRow
    OBVIOUS
  <2>2. d \in Seq(R) /\ M \subseteq DOMAIN d
    BY <2>1 DEF Typed, RowsTyped
  <2> QED BY <2>2, TableRows
<1>9. IsFiniteSet(D)
  BY <1>7, <1>8, FS_Surjection
<1>10. \A l \in M : lines[l].cost \in Int /\ lines[l].price \in Int
  BY LineRows
<1>11. CostsIn(D) = CostOf(lines, M)
  <2>1. PICK u, v : u = [l \in M |-> lines[l].cost] /\ v = [d \in D |-> d.cost]
    OBVIOUS
  <2>2. \A l \in M : u[l] \in Int /\ h[l] \in D /\ v[h[l]] = u[l]
    BY <1>4, <1>10, <2>1
  <2>3. Summed(u, M) = Summed(v, D)
    BY <1>5, <1>6, <1>8, <1>9, <2>2, SumOfImage
  <2>4. CostOf(lines, M) = Summed(u, M)
    BY <1>8, <2>1, CostSummed
  <2>5. CostsIn(D) = Summed(v, D)
    BY <1>9, <2>1, CostsInSummed
  <2> QED BY <2>3, <2>4, <2>5
<1>12. PricesIn(D) = PriceOf(lines, M)
  <2>1. PICK u, v : u = [l \in M |-> lines[l].price] /\ v = [d \in D |-> d.price]
    OBVIOUS
  <2>2. \A l \in M : u[l] \in Int /\ h[l] \in D /\ v[h[l]] = u[l]
    BY <1>4, <1>10, <2>1
  <2>3. Summed(u, M) = Summed(v, D)
    BY <1>5, <1>6, <1>8, <1>9, <2>2, SumOfImage
  <2>4. PriceOf(lines, M) = Summed(u, M)
    BY <1>8, <2>1, PriceSummed
  <2>5. PricesIn(D) = Summed(v, D)
    BY <1>9, <2>1, PricesInSummed
  <2> QED BY <2>3, <2>4, <2>5
<1> QED BY <1>1, <1>11, <1>12

\* What FilesAgree says of the files of a batch.
FilesOf(b) ==
  /\ \A file \in Content(b, "payment") :
       /\ AmountsIn(file.details) = batches[b].total
       /\ file.invoice = batches[b].total
       /\ file.trailer = [records |-> Cardinality(file.details), total |-> batches[b].total]
  /\ \A file \in Content(b, "lines") : CostsIn(file) = batches[b].total
  /\ \A file \in Content(b, "summary"), detail \in Content(b, "lines") :
       \A r \in file :
         /\ r.cost = CostsIn({d \in detail : d.job = r.job})
         /\ r.sales = PricesIn({d \in detail : d.job = r.job}) - Promotion[r.job]

\* The files of a whole batch ask for what its rows say.
LEMMA WholeFiles ==
  ASSUME Typed, AgreeInv, NEW b \in DOMAIN batches, Whole(b)
  PROVE  FilesOf(b)
<1>1. PICK P, L : P = batches[b].payouts /\ L = IdsOf(b)
  OBVIOUS
<1>2. P \subseteq DOMAIN payouts /\ batches[b].total = Amount(payouts, P)
  BY <1>1 DEF AgreeInv, Batched
<1>3. L \subseteq DOMAIN lines
  BY <1>1 DEF IdsOf
<1>4. CostOf(lines, L) = batches[b].total
  BY <1>1, BatchCost
<1>5. ASSUME NEW kind, NEW file \in Content(b, kind)
      PROVE  /\ kind = "payment" => file = PaymentFile(P)
             /\ kind = "lines" => file = RowsOf(L, L)
             /\ kind = "summary" => \A r \in file :
                  /\ r.cost = CostOf(lines, OfJob(L, r.job))
                  /\ r.sales = PriceOf(lines, OfJob(L, r.job)) - Promotion[r.job]
  <2>1. PICK f \in bucket : f.batch = b /\ f.kind = kind /\ f.content = file
    BY DEF Content
  <2>2. WrittenFile(f)
    BY DEF AgreeInv, Written
  <2>3. RowsOf(L, L) = LinesFile(L)
    BY DEF RowsOf, LinesFile
  <2> QED BY <1>1, <2>1, <2>2, <2>3 DEF WrittenFile
<1>6. ASSUME NEW file \in Content(b, "payment")
      PROVE  /\ AmountsIn(file.details) = batches[b].total
             /\ file.invoice = batches[b].total
             /\ file.trailer = [records |-> Cardinality(file.details), total |-> batches[b].total]
  <2>1. PICK D : D = RecordsOf(P)
    OBVIOUS
  <2>2. file = [details |-> D, invoice |-> Invoice(P), trailer |-> Trailer(P)]
    BY <1>5, <2>1 DEF PaymentFile, RecordsOf
  <2>3. AmountsIn(D) = batches[b].total /\ Cardinality(D) = Cardinality(P)
    BY <1>2, <2>1, RecordsAsk
  <2>4. Invoice(P) = batches[b].total /\ Trailer(P) = [records |-> Cardinality(P), total |-> batches[b].total]
    BY <1>2 DEF Invoice, Trailer
  <2> QED BY <2>2, <2>3, <2>4
<1>7. ASSUME NEW file \in Content(b, "lines") PROVE CostsIn(file) = batches[b].total
  BY <1>3, <1>4, <1>5, RowsAsk
<1>8. ASSUME NEW file \in Content(b, "summary"), NEW detail \in Content(b, "lines"), NEW r \in file
      PROVE  /\ r.cost = CostsIn({d \in detail : d.job = r.job})
             /\ r.sales = PricesIn({d \in detail : d.job = r.job}) - Promotion[r.job]
  <2>1. detail = RowsOf(L, L)
    BY <1>5
  <2>2. PICK M : M = OfJob(L, r.job)
    OBVIOUS
  <2>3. r.cost = CostOf(lines, M) /\ r.sales = PriceOf(lines, M) - Promotion[r.job]
    BY <1>5, <2>2
  <2>4. M \subseteq L /\ \A l \in L : l \in M <=> lines[l].job = r.job
    BY <2>2 DEF OfJob
  <2>5. \A l \in L : LinesRow(L, l).job = lines[l].job
    BY DEF LinesRow
  <2>6. {d \in detail : d.job = r.job} = RowsOf(L, M)
    BY <2>1, <2>4, <2>5 DEF RowsOf
  <2>7. CostsIn(RowsOf(L, M)) = CostOf(lines, M) /\ PricesIn(RowsOf(L, M)) = PriceOf(lines, M)
    BY <1>3, <2>4, RowsAsk
  <2> QED BY <2>3, <2>6, <2>7
<1> QED BY <1>6, <1>7, <1>8 DEF FilesOf

\* So they ask for the same.
LEMMA AgreeImplies ==
  ASSUME Typed, AgreeInv
  PROVE  FilesAgree
<1>1. \A b \in DOMAIN batches : Whole(b) => FilesOf(b)
  BY WholeFiles
<1> QED
  BY <1>1, Zenon DEF FilesAgree, FilesOf, SumOver, AmountsIn, CostsIn, PricesIn

\* What SCB is told to pay out, what SAP is told that the jobs and their lines cost, and
\* the total of the batch are the same money, whatever fails and whenever a process is
\* lost (the three file builders, from payouts and lines that were made at different times).
THEOREM FilesAskForTheSame == Spec => []FilesAgree
<1> DEFINE Inv == SentApartInv /\ Typed /\ AgreeInv
<1>1. Init => Inv
  BY InitApart, InitTyped, InitAgree
<1>2. Inv /\ [Next]_vars => Inv'
  <2>1. SUFFICES ASSUME Inv, [Next]_vars PROVE Inv'
    OBVIOUS
  <2>2. SentApartInv' /\ Typed'
    BY <2>1, NextApart, NextTyped
  <2>3. AgreeInv'
    BY <2>1, <2>2, NextAgree
  <2> QED BY <2>2, <2>3
<1>3. Inv => FilesAgree
  BY AgreeImplies
<1> QED BY <1>1, <1>2, <1>3, PTL DEF Spec
==============================================================================
