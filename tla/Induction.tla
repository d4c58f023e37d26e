----------------------------- MODULE Induction ------------------------------
(***************************************************************************)
(* Induction and recursion over numbers and finite sets, for sets instead  *)
(* of predicates: what is to be shown of every number is that it is in a   *)
(* given set.  All of it comes from the theorem that strict inclusion of   *)
(* finite sets is well-founded.                                            *)
(***************************************************************************)
EXTENDS Integers, Functions, FiniteSetTheorems, TLAPS

(* A non-empty set of finite sets has a smallest one.                      *)
LEMMA SmallestSet ==
    ASSUME NEW U, NEW C \in SUBSET FiniteSubsetsOf(U), C # {}
    PROVE  \E T \in C : \A R \in C : R \subseteq T => R = T
<1>1. IsWellFoundedOn(StrictSubsetOrdering(U), FiniteSubsetsOf(U))
  BY FS_StrictSubsetOrderingWellFounded
<1>2. PICK T \in C : \A R \in C : <<R, T>> \notin StrictSubsetOrdering(U)
  BY <1>1, WFMin
<1>3. \A R \in C : R \in SUBSET U
  BY DEF FiniteSubsetsOf
<1> QED BY <1>2, <1>3 DEF StrictSubsetOrdering

(* Every set of numbers that is not empty has a least one.                 *)
LEMMA LeastNumber ==
    ASSUME NEW S \in SUBSET Nat, S # {}
    PROVE  \E n \in S : \A m \in S : n <= m
<1> DEFINE C == {1 .. n : n \in S}
<1>1. C # {} /\ C \in SUBSET FiniteSubsetsOf(Nat)
  <2>1. \A n \in S : 1 .. n \subseteq Nat /\ IsFiniteSet(1 .. n)
    BY FS_Interval
  <2> QED BY <2>1 DEF FiniteSubsetsOf
<1>2. PICK T \in C : \A R \in C : R \subseteq T => R = T
  <2> HIDE DEF C
  <2> QED BY <1>1, SmallestSet
<1>3. PICK n \in S : T = 1 .. n
  OBVIOUS
<1>4. ASSUME NEW m \in S, m < n PROVE FALSE
  <2>1. 1 .. m \in C /\ 1 .. m \subseteq 1 .. n /\ n \in 1 .. n /\ n \notin 1 .. m
    BY <1>4
  <2> QED BY <1>2, <1>3, <2>1
<1> QED BY <1>4

(* Induction over numbers.                                                 *)
LEMMA NumberInduction ==
    ASSUME NEW S, 0 \in S, \A n \in Nat : n \in S => n + 1 \in S
    PROVE  Nat \subseteq S
<1> SUFFICES ASSUME Nat \ S # {} PROVE FALSE
  OBVIOUS
<1>1. PICK n \in Nat \ S : \A m \in Nat \ S : n <= m
  BY LeastNumber
<1>2. n - 1 \in Nat /\ n = (n - 1) + 1 /\ ~(n <= n - 1)
  OBVIOUS
<1> QED BY <1>1, <1>2

(* Induction over finite sets.                                             *)
LEMMA FiniteInduction ==
    ASSUME NEW S, IsFiniteSet(S), NEW C, {} \in C,
           \A T \in SUBSET S, x \in S : x \notin T /\ T \in C => T \cup {x} \in C
    PROVE  S \in C
<1> SUFFICES ASSUME S \notin C PROVE FALSE
  OBVIOUS
<1> DEFINE B == (SUBSET S) \ C
<1>1. PICK T \in B : \A R \in B : R \subseteq T => R = T
  <2>1. B \in SUBSET FiniteSubsetsOf(S)
    BY FS_FiniteSubsetsOfFinite
  <2>2. B # {}
    OBVIOUS
  <2> HIDE DEF B
  <2> QED BY <2>1, <2>2, SmallestSet
<1>2. PICK x : x \in T
  <2>1. T # {}
    OBVIOUS
  <2> QED BY <2>1
<1>3. T \ {x} \in SUBSET S /\ T \ {x} # T /\ x \notin T \ {x} /\ (T \ {x}) \cup {x} = T /\ x \in S
  BY <1>2
<1>4. T \ {x} \in C
  <2>1. T \ {x} \subseteq T
    OBVIOUS
  <2> QED BY <1>1, <1>3, <2>1
<1> QED BY <1>3, <1>4

-----------------------------------------------------------------------------
(***************************************************************************)
(* Recursion: a first value and, for each number, the function that takes  *)
(* its value to the next one's.                                            *)
(***************************************************************************)
Follows(f, G, n) == \A k \in 0 .. n - 1 : f[k + 1] = G[k][f[k]]

LEMMA SameValues ==
    ASSUME NEW G, NEW n \in Nat, NEW f, NEW g, f[0] = g[0], Follows(f, G, n), Follows(g, G, n)
    PROVE  \A k \in 0 .. n : f[k] = g[k]
<1> DEFINE S == {k \in Nat : k <= n => f[k] = g[k]}
<1>1. 0 \in S
  OBVIOUS
<1>2. ASSUME NEW k \in Nat, k \in S PROVE k + 1 \in S
  <2> SUFFICES ASSUME k + 1 <= n PROVE f[k + 1] = g[k + 1]
    OBVIOUS
  <2>1. k \in 0 .. n - 1 /\ f[k] = g[k]
    BY <1>2
  <2> QED BY <2>1 DEF Follows
<1>3. Nat \subseteq S
  <2> HIDE DEF S
  <2> QED BY <1>1, <1>2, NumberInduction
<1> QED BY <1>3

LEMMA RecursionUpTo ==
    ASSUME NEW T, NEW a \in T, NEW G \in [Nat -> [T -> T]], NEW n \in Nat
    PROVE  \E f \in [0 .. n -> T] : f[0] = a /\ Follows(f, G, n)
<1> DEFINE S == {m \in Nat : \E f \in [0 .. m -> T] : f[0] = a /\ Follows(f, G, m)}
<1>1. 0 \in S
  <2>1. [k \in 0 .. 0 |-> a] \in [0 .. 0 -> T] /\ [k \in 0 .. 0 |-> a][0] = a
    OBVIOUS
  <2>2. 0 .. 0 - 1 = {}
    OBVIOUS
  <2>3. Follows([k \in 0 .. 0 |-> a], G, 0)
    BY <2>2 DEF Follows
  <2> QED BY <2>1, <2>3
<1>2. ASSUME NEW m \in Nat, m \in S PROVE m + 1 \in S
  <2>1. PICK f \in [0 .. m -> T] : f[0] = a /\ Follows(f, G, m)
    BY <1>2
  <2> DEFINE g == [k \in 0 .. m + 1 |-> IF k <= m THEN f[k] ELSE G[m][f[m]]]
  <2>2. f[m] \in T /\ G[m][f[m]] \in T
    OBVIOUS
  <2>3. g \in [0 .. m + 1 -> T] /\ g[0] = a
    BY <2>1, <2>2
  <2>4. Follows(g, G, m + 1)
    <3> SUFFICES ASSUME NEW k \in 0 .. (m + 1) - 1 PROVE g[k + 1] = G[k][g[k]]
      BY DEF Follows
    <3>1. CASE k < m
      <4>1. k \in 0 .. m - 1 /\ k + 1 \in 0 .. m + 1 /\ k \in 0 .. m + 1 /\ k + 1 <= m
        BY <3>1
      <4>2. g[k + 1] = f[k + 1] /\ g[k] = f[k]
        BY <4>1
      <4> QED BY <2>1, <4>1, <4>2 DEF Follows
    <3>2. CASE k = m
      <4>1. g[k + 1] = G[m][f[m]] /\ g[k] = f[m]
        BY <3>2
      <4> QED BY <3>2, <4>1
    <3> QED BY <3>1, <3>2
  <2> HIDE DEF g
  <2> QED BY <2>3, <2>4
<1>3. Nat \subseteq S
  <2> HIDE DEF S
  <2> QED BY <1>1, <1>2, NumberInduction
<1> QED BY <1>3

Steps(G, T)         == G \in [Nat -> [T -> T]]
Iterates(f, a, G, T) == /\ f \in [Nat -> T] /\ f[0] = a
                        /\ \A n \in Nat : f[n + 1] = G[n][f[n]]

(* A function that recursion over the numbers defines exists and has its   *)
(* values in the set the steps stay in.                                    *)
LEMMA Recursion ==
    ASSUME NEW T, NEW a, NEW G, a \in T, Steps(G, T)
    PROVE  \E f : Iterates(f, a, G, T)
<1> DEFINE Good(g, n) == g \in [0 .. n -> T] /\ g[0] = a /\ Follows(g, G, n)
           part(n)    == CHOOSE g : Good(g, n)
           f          == [n \in Nat |-> part(n)[n]]
<1>1. \A n \in Nat : Good(part(n), n)
  <2> SUFFICES ASSUME NEW n \in Nat PROVE Good(part(n), n)
    OBVIOUS
  <2>1. \E g : Good(g, n)
    BY RecursionUpTo DEF Steps
  <2> HIDE DEF Good
  <2> QED BY <2>1
<1> HIDE DEF part
<1>2. f \in [Nat -> T] /\ f[0] = a
  BY <1>1
<1>3. ASSUME NEW n \in Nat PROVE f[n + 1] = G[n][f[n]]
  <2>1. Good(part(n), n) /\ Good(part(n + 1), n + 1)
    BY <1>1
  <2>2. Follows(part(n + 1), G, n) /\ n \in 0 .. (n + 1) - 1
    BY <2>1 DEF Follows
  <2>3. part(n + 1)[n] = part(n)[n]
    BY <2>1, <2>2, SameValues
  <2>4. part(n + 1)[n + 1] = G[n][part(n + 1)[n]]
    BY <2>1, <2>2 DEF Follows
  <2> QED BY <2>3, <2>4
<1> HIDE DEF f
<1>4. Iterates(f, a, G, T)
  BY <1>2, <1>3 DEF Iterates
<1> QED BY <1>4

(* Recursion over the numbers up to n: a value outright for those in B,    *)
(* and for any other number u one that G[u] makes of the value of a        *)
(* smaller number, d[u].                                                   *)
Unfolds(f, B, a, d, G, u) == f[u] = IF u \in B THEN a[u] ELSE G[u][f[d[u]]]

StepsBelow(B, a, d, G, T, n) ==
    \A u \in 0 .. n : IF u \in B THEN a[u] \in T
                      ELSE d[u] \in 0 .. u - 1 /\ \A x \in T : G[u][x] \in T
IteratesBelow(f, B, a, d, G, T, n) ==
    f \in [0 .. n -> T] /\ \A u \in 0 .. n : Unfolds(f, B, a, d, G, u)

(* The same for recursion over the numbers up to n, which may go back by   *)
(* more than one.                                                          *)
LEMMA RecursionBelow ==
    ASSUME NEW T, NEW n \in Nat, NEW B, NEW a, NEW d, NEW G, StepsBelow(B, a, d, G, T, n)
    PROVE  \E f : IteratesBelow(f, B, a, d, G, T, n)
<1>0. /\ \A u \in 0 .. n : u \in B => a[u] \in T
      /\ \A u \in 0 .. n : u \notin B => d[u] \in 0 .. u - 1
      /\ \A u \in 0 .. n : u \notin B => \A x \in T : G[u][x] \in T
  BY DEF StepsBelow
<1> DEFINE Good(f, m) == \A u \in 0 .. m : Unfolds(f, B, a, d, G, u)
           S == {m \in Nat : m <= n => \E f \in [0 .. m -> T] : Good(f, m)}
<1>1. 0 \in S
  <2> DEFINE f == [u \in 0 .. 0 |-> a[0]]
  <2>1. 0 \in B /\ a[0] \in T
    <3>1. 0 \in 0 .. n /\ 0 .. 0 - 1 = {}
      OBVIOUS
    <3> QED BY <1>0, <3>1
  <2>2. f \in [0 .. 0 -> T] /\ f[0] = a[0]
    BY <2>1
  <2>3. Good(f, 0)
    BY <2>1, <2>2 DEF Unfolds
  <2> HIDE DEF f
  <2> QED BY <2>2, <2>3
<1>2. ASSUME NEW m \in Nat, m \in S PROVE m + 1 \in S
  <2> SUFFICES ASSUME m + 1 <= n PROVE \E f \in [0 .. m + 1 -> T] : Good(f, m + 1)
    OBVIOUS
  <2>1. PICK f \in [0 .. m -> T] : Good(f, m)
    BY <1>2
  <2> DEFINE u == m + 1
             v == IF u \in B THEN a[u] ELSE G[u][f[d[u]]]
             g == [k \in 0 .. m + 1 |-> IF k <= m THEN f[k] ELSE v]
  <2>2. u \in 0 .. n /\ u \in 0 .. m + 1 /\ ~(u <= m) /\ 0 .. u - 1 = 0 .. m
    OBVIOUS
  <2>3. v \in T
    <3>1. CASE u \in B
      BY <1>0, <2>2, <3>1
    <3>2. CASE u \notin B
      <4>1. d[u] \in 0 .. m
        BY <1>0, <2>2, <3>2
      <4>2. f[d[u]] \in T
        BY <4>1
      <4> QED BY <1>0, <2>2, <3>2, <4>2
    <3> QED BY <3>1, <3>2
  <2> HIDE DEF v
  <2>4. g \in [0 .. m + 1 -> T] /\ g[u] = v /\ \A k \in 0 .. m : g[k] = f[k]
    BY <2>2, <2>3
  <2> HIDE DEF g
  <2>5. \A k \in 0 .. m + 1 : k \notin B => d[k] \in 0 .. m
    <3> SUFFICES ASSUME NEW k \in 0 .. m + 1, k \notin B PROVE d[k] \in 0 .. m
      OBVIOUS
    <3>1. k \in 0 .. n /\ k \in Nat /\ k <= m + 1
      OBVIOUS
    <3>2. d[k] \in 0 .. k - 1
      BY <1>0, <3>1
    <3> QED BY <3>1, <3>2
  <2>6. ASSUME NEW k \in 0 .. m + 1 PROVE Unfolds(g, B, a, d, G, k)
    <3>1. CASE k \in 0 .. m
      <4>1. Unfolds(f, B, a, d, G, k)
        BY <2>1, <3>1
      <4>2. g[k] = f[k]
        BY <2>4, <3>1
      <4>3. k \notin B => g[d[k]] = f[d[k]]
        BY <2>4, <2>5
      <4> QED BY <4>1, <4>2, <4>3 DEF Unfolds
    <3>2. CASE k = u
      <4>1. u \notin B => g[d[u]] = f[d[u]]
        BY <2>2, <2>4, <2>5
      <4>2. g[u] = IF u \in B THEN a[u] ELSE G[u][f[d[u]]]
        BY <2>4 DEF v
      <4> HIDE DEF u
      <4> QED BY <3>2, <4>1, <4>2 DEF Unfolds
    <3> QED BY <3>1, <3>2
  <2> QED BY <2>4, <2>6
<1>3. Nat \subseteq S
  <2> HIDE DEF S
  <2> QED BY <1>1, <1>2, NumberInduction
<1>4. \E f \in [0 .. n -> T] : Good(f, n)
  <2> HIDE DEF Good
  <2> QED BY <1>3
<1>5. PICK f \in [0 .. n -> T] : Good(f, n)
  BY <1>4
<1>6. IteratesBelow(f, B, a, d, G, T, n)
  BY <1>5 DEF IteratesBelow
<1> QED BY <1>6

-----------------------------------------------------------------------------
(***************************************************************************)
(* Sums over finite sets: a sum of numbers is as large as a set that has   *)
(* as many elements for each of them.                                      *)
(***************************************************************************)
Units(f, S) == {u \in S \X Nat : u[2] \in 1 .. f[u[1]]}

LEMMA ApartUnion ==
    ASSUME NEW A, NEW B, IsFiniteSet(A), IsFiniteSet(B), A \cap B = {}
    PROVE  /\ IsFiniteSet(A \cup B) /\ Cardinality(A) \in Nat /\ Cardinality(B) \in Nat
           /\ Cardinality(A \cup B) = Cardinality(A) + Cardinality(B)
<1>1. Cardinality(A) \in Nat /\ Cardinality(B) \in Nat /\ Cardinality({}) = 0
  BY FS_EmptySet, FS_CardinalityType
<1>2. /\ IsFiniteSet(A \cup B)
      /\ Cardinality(A \cup B) = Cardinality(A) + Cardinality(B) - Cardinality(A \cap B)
  BY FS_Union
<1>3. Cardinality(A \cap B) = 0
  BY <1>1, Zenon
<1> QED BY <1>1, <1>2, <1>3

LEMMA UnitsAdded ==
    ASSUME NEW f, NEW S, NEW x, x \notin S, f[x] \in Nat, IsFiniteSet(Units(f, S))
    PROVE  /\ IsFiniteSet(Units(f, S \cup {x}))
           /\ Cardinality(Units(f, S \cup {x})) = f[x] + Cardinality(Units(f, S))
<1> DEFINE new == {x} \X (1 .. f[x])
<1>1. IsFiniteSet({x}) /\ Cardinality({x}) = 1
  BY FS_Singleton
<1>2. IsFiniteSet(1 .. f[x]) /\ Cardinality(1 .. f[x]) = f[x]
  BY FS_Interval
<1>3. IsFiniteSet(new) /\ Cardinality(new) = f[x]
  <2>1. IsFiniteSet(new) /\ Cardinality(new) = Cardinality({x}) * Cardinality(1 .. f[x])
    BY <1>1, <1>2, FS_Product
  <2> HIDE DEF new
  <2> QED BY <1>1, <1>2, <2>1
<1>4. Units(f, S \cup {x}) = Units(f, S) \cup new /\ Units(f, S) \cap new = {}
  BY DEF Units
<1> HIDE DEF new
<1>5. /\ IsFiniteSet(Units(f, S) \cup new) /\ Cardinality(Units(f, S)) \in Nat
      /\ Cardinality(Units(f, S) \cup new) = Cardinality(Units(f, S)) + Cardinality(new)
  BY <1>3, <1>4, ApartUnion
<1>6. /\ IsFiniteSet(Units(f, S \cup {x}))
      /\ Cardinality(Units(f, S \cup {x})) = Cardinality(Units(f, S) \cup new)
  BY <1>4, <1>5, Zenon
<1> QED BY <1>3, <1>5, <1>6

LEMMA UnitsFinite ==
    ASSUME NEW S, IsFiniteSet(S), NEW f \in [S -> Nat]
    PROVE  IsFiniteSet(Units(f, S))
<1> DEFINE C == {T \in SUBSET S : IsFiniteSet(Units(f, T))}
<1>1. {} \in C
  <2>1. Units(f, {}) = {}
    BY DEF Units
  <2> QED BY <2>1, FS_EmptySet
<1>2. ASSUME NEW T \in SUBSET S, NEW x \in S, x \notin T /\ T \in C PROVE T \cup {x} \in C
  BY <1>2, UnitsAdded
<1>3. S \in C
  <2> HIDE DEF C
  <2> QED BY <1>1, <1>2, FiniteInduction
<1> QED BY <1>3

(* A function that satisfies the recursion of SumFunction.                 *)
SumsUp(it, f, S) ==
    it = [s \in SUBSET S |->
             IF s = {} THEN 0
             ELSE f[CHOOSE x \in s : TRUE] + it[s \ {CHOOSE x \in s : TRUE}]]

LEMMA SumsUpUnits ==
    ASSUME NEW S, IsFiniteSet(S), NEW f \in [S -> Nat], NEW it, SumsUp(it, f, S)
    PROVE  it[S] = Cardinality(Units(f, S))
<1> DEFINE C == {T \in SUBSET S : it[T] # Cardinality(Units(f, T))}
<1> SUFFICES ASSUME C # {} PROVE FALSE
  OBVIOUS
<1>1. PICK T \in C : \A R \in C : R \subseteq T => R = T
  <2>1. C \in SUBSET FiniteSubsetsOf(S)
    BY FS_FiniteSubsetsOfFinite
  <2> HIDE DEF C
  <2> QED BY <2>1, SmallestSet
<1>2. T # {}
  <2>1. it[{}] = 0
    BY DEF SumsUp
  <2>2. Units(f, {}) = {} /\ Cardinality({}) = 0
    BY FS_EmptySet DEF Units
  <2> QED BY <2>1, <2>2
<1> DEFINE x == CHOOSE x \in T : TRUE
           R == T \ {x}
<1>3. x \in T
  BY <1>2
<1>4. it[T] = f[x] + it[R]
  BY <1>2 DEF SumsUp
<1> HIDE DEF x
<1>5. R \in SUBSET S /\ R \subseteq T /\ R # T /\ x \notin R /\ R \cup {x} = T /\ f[x] \in Nat
  BY <1>3
<1>6. it[R] = Cardinality(Units(f, R))
  BY <1>1, <1>5
<1>7. IsFiniteSet(Units(f, R))
  <2>1. IsFiniteSet(R)
    BY <1>5, FS_Subset
  <2>2. Units([y \in R |-> f[y]], R) = Units(f, R)
    BY DEF Units
  <2>3. [y \in R |-> f[y]] \in [R -> Nat]
    BY <1>5
  <2> HIDE DEF R
  <2> QED BY <2>1, <2>2, <2>3, UnitsFinite
<1> HIDE DEF R
<1>8. Cardinality(Units(f, R \cup {x})) = f[x] + Cardinality(Units(f, R))
  BY <1>5, <1>7, UnitsAdded
<1> QED BY <1>4, <1>5, <1>6, <1>8

LEMMA SumsUpExists ==
    ASSUME NEW S, IsFiniteSet(S), NEW f \in [S -> Nat]
    PROVE  \E it : SumsUp(it, f, S)
<1> DEFINE it == [s \in SUBSET S |-> Cardinality(Units(f, s))]
<1>1. ASSUME NEW s \in SUBSET S
      PROVE  it[s] = IF s = {} THEN 0
                     ELSE f[CHOOSE x \in s : TRUE] + it[s \ {CHOOSE x \in s : TRUE}]
  <2>1. CASE s = {}
    <3>1. Units(f, {}) = {} /\ Cardinality({}) = 0
      BY FS_EmptySet DEF Units
    <3> QED BY <2>1, <3>1
  <2>2. CASE s # {}
    <3> DEFINE x == CHOOSE x \in s : TRUE
               R == s \ {x}
    <3>1. x \in s
      BY <2>2
    <3> HIDE DEF x
    <3>2. R \in SUBSET S /\ x \notin R /\ R \cup {x} = s /\ f[x] \in Nat
      BY <3>1
    <3>3. IsFiniteSet(Units(f, R))
      <4>1. IsFiniteSet(R)
        BY <3>2, FS_Subset
      <4>2. Units([y \in R |-> f[y]], R) = Units(f, R)
        BY DEF Units
      <4>3. [y \in R |-> f[y]] \in [R -> Nat]
        BY <3>2
      <4> HIDE DEF R
      <4> QED BY <4>1, <4>2, <4>3, UnitsFinite
    <3> HIDE DEF R
    <3>4. Cardinality(Units(f, R \cup {x})) = f[x] + Cardinality(Units(f, R))
      BY <3>2, <3>3, UnitsAdded
    <3>5. it[s] = f[x] + it[R]
      BY <3>2, <3>4
    <3> QED BY <2>2, <3>5 DEF x, R
  <2> QED BY <2>1, <2>2
<1> HIDE DEF it
<1>2. it = [s \in SUBSET S |-> it[s]]
  BY DEF it
<1>3. SumsUp(it, f, S)
  BY <1>1, <1>2 DEF SumsUp
<1> QED BY <1>3

(* SumFunction, which folds + over a set in an order of its choosing,      *)
(* counts the units: the sum does not depend on the order.                 *)
LEMMA SumIs ==
    ASSUME NEW S, IsFiniteSet(S), NEW f \in [S -> Nat]
    PROVE  /\ SumFunction(f) = Cardinality(Units(f, S))
           /\ IsFiniteSet(Units(f, S)) /\ SumFunction(f) \in Nat
<1>1. SumFunction(f) = (CHOOSE it : SumsUp(it, f, S))[S]
  <2>1. DOMAIN f = S
    OBVIOUS
  <2> QED BY <2>1 DEF SumFunction, SumFunctionOnSet, FoldFunctionOnSet, MapThenFoldSet, SumsUp
<1>2. SumsUp(CHOOSE it : SumsUp(it, f, S), f, S)
  BY SumsUpExists
<1>3. (CHOOSE it : SumsUp(it, f, S))[S] = Cardinality(Units(f, S))
  BY <1>2, SumsUpUnits
<1> QED BY <1>1, <1>3, UnitsFinite, FS_CardinalityType

(* The sum over two sets apart.                                            *)
LEMMA SumOfTwo ==
    ASSUME NEW A, NEW B, IsFiniteSet(A), IsFiniteSet(B), A \cap B = {},
           NEW f \in [A \cup B -> Nat], NEW g \in [A -> Nat], NEW h \in [B -> Nat],
           \A x \in A : g[x] = f[x], \A x \in B : h[x] = f[x]
    PROVE  SumFunction(f) = SumFunction(g) + SumFunction(h)
<1>1. IsFiniteSet(A \cup B)
  BY FS_Union
<1>2. /\ SumFunction(f) = Cardinality(Units(f, A \cup B))
      /\ SumFunction(g) = Cardinality(Units(g, A)) /\ IsFiniteSet(Units(g, A))
      /\ SumFunction(h) = Cardinality(Units(h, B)) /\ IsFiniteSet(Units(h, B))
  BY <1>1, SumIs
<1>3. Units(f, A \cup B) = Units(g, A) \cup Units(h, B) /\ Units(g, A) \cap Units(h, B) = {}
  BY DEF Units
<1>4. Cardinality(Units(g, A) \cup Units(h, B)) = Cardinality(Units(g, A)) + Cardinality(Units(h, B))
  BY <1>2, <1>3, ApartUnion
<1> QED BY <1>2, <1>3, <1>4

(* The sum over no element is 0.                                           *)
LEMMA SumOfNone ==
    ASSUME NEW f \in [{} -> Nat]
    PROVE  SumFunction(f) = 0
<1>1. Units(f, {}) = {} /\ Cardinality({}) = 0 /\ IsFiniteSet({})
  BY FS_EmptySet DEF Units
<1> QED BY <1>1, SumIs

(* The sum over one element is the number it has.                          *)
LEMMA SumOfOne ==
    ASSUME NEW a, NEW f \in [{a} -> Nat]
    PROVE  SumFunction(f) = f[a]
<1> DEFINE v == f[a]
<1>1. IsFiniteSet({a}) /\ v \in Nat
  BY FS_Singleton
<1>2. Units(f, {}) = {} /\ IsFiniteSet({}) /\ Cardinality({}) = 0
  BY FS_EmptySet DEF Units
<1>3. {} \cup {a} = {a} /\ a \notin {}
  OBVIOUS
<1>4. Cardinality(Units(f, {a})) = v + 0
  BY <1>1, <1>2, <1>3, UnitsAdded
<1> QED BY <1>1, <1>4, SumIs

(* The same numbers under other names have the same sum.                   *)
SameNumbers(f, S, g, T) ==
    \E p \in [S -> T] : /\ \A x \in S : g[p[x]] = f[x]
                        /\ \A x, y \in S : p[x] = p[y] => x = y
                        /\ \A y \in T : \E x \in S : p[x] = y

(* A bijection that keeps the numbers keeps their sum.                     *)
LEMMA SumRenamed ==
    ASSUME NEW S, NEW T, IsFiniteSet(S), NEW f \in [S -> Nat], NEW g \in [T -> Nat],
           SameNumbers(f, S, g, T)
    PROVE  SumFunction(f) = SumFunction(g)
<1>0. PICK p \in [S -> T] : /\ \A x \in S : g[p[x]] = f[x]
                            /\ \A x, y \in S : p[x] = p[y] => x = y
                            /\ \A y \in T : \E x \in S : p[x] = y
  BY DEF SameNumbers
<1>1. p \in Bijection(S, T)
  BY <1>0 DEF Bijection, Injection, IsInjective, Surjection
<1>2. IsFiniteSet(T)
  BY <1>1, FS_Bijection DEF ExistsBijection
<1> DEFINE q == [u \in Units(f, S) |-> <<p[u[1]], u[2]>>]
<1>3. q \in [Units(f, S) -> Units(g, T)]
  BY <1>0 DEF Units
<1>4. \A u, w \in Units(f, S) : q[u] = q[w] => u = w
  BY <1>0 DEF Units
<1>5. ASSUME NEW w \in Units(g, T) PROVE \E u \in Units(f, S) : q[u] = w
  <2>1. w = <<w[1], w[2]>> /\ w[1] \in T /\ w[2] \in Nat /\ w[2] \in 1 .. g[w[1]]
    BY DEF Units
  <2>2. PICK x \in S : p[x] = w[1]
    BY <1>0, <2>1
  <2>3. <<x, w[2]>> \in Units(f, S)
    BY <1>0, <2>1, <2>2 DEF Units
  <2>4. q[<<x, w[2]>>] = w
    BY <2>1, <2>2, <2>3
  <2> QED BY <2>3, <2>4
<1>6. q \in Bijection(Units(f, S), Units(g, T))
  <2> HIDE DEF q
  <2> QED BY <1>3, <1>4, <1>5 DEF Bijection, Injection, IsInjective, Surjection
<1>7. Cardinality(Units(g, T)) = Cardinality(Units(f, S))
  BY <1>6, UnitsFinite, FS_Bijection DEF ExistsBijection
<1> QED BY <1>2, <1>7, SumIs
=============================================================================
