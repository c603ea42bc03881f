---------------------------- MODULE InductionProofs ----------------------------
(***************************************************************************)
(* Induction over numbers and over finite sets, a set at a time: instead   *)
(* of a predicate a lemma takes the set of the numbers, or of the sets, it *)
(* holds of.  On these rests what the folds of the model compute: a sum    *)
(* over a finite set does not depend on the order it is taken in.  And     *)
(* what one sequence after another is, at every place.                     *)
(***************************************************************************)
EXTENDS Sequences, FiniteSetsExt, FiniteSetTheorems, WellFoundedInduction, TLAPS

-----------------------------------------------------------------------------
(* Numbers.                                                                *)

\* A set of numbers has a least one.
LEMMA LeastNumber ==
  ASSUME NEW T \in SUBSET Nat, T # {}
  PROVE  \E n \in T : \A m \in T : n <= m
<1> DEFINE R == {p \in Nat \X Nat : p[1] < p[2]}
<1>1. IsWellFoundedOn(R, Nat)
  BY NatLessThanWellFounded DEF OpToRel
<1>2. \A m, n \in Nat : m < n => <<m, n>> \in R
  OBVIOUS
<1> HIDE DEF R
<1>3. PICK n \in T : \A m \in T : <<m, n>> \notin R
  BY <1>1, WFMin
<1>4. ASSUME NEW m \in T PROVE n <= m
  <2>1. m \in Nat /\ n \in Nat
    OBVIOUS
  <2>2. ~(m < n)
    BY <1>2, <1>3, <2>1
  <2> QED
    BY <2>1, <2>2
<1> QED
  BY <1>4

\* A set that has 0 and with every number the next one has them all.
LEMMA AllNumbers ==
  ASSUME NEW T, 0 \in T, \A n \in Nat : n \in T => n + 1 \in T
  PROVE  Nat \subseteq T
<1> SUFFICES ASSUME Nat \ T # {} PROVE FALSE
  OBVIOUS
<1>1. PICK n \in Nat \ T : \A m \in Nat \ T : n <= m
  BY LeastNumber
<1>2. n # 0 /\ n - 1 \in Nat /\ n - 1 \notin Nat \ T
  BY <1>1
<1> QED
  BY <1>1, <1>2

\* The same up to a bound.
LEMMA NumbersUpTo ==
  ASSUME NEW b \in Nat, NEW T, 0 \in T, \A n \in 0..(b - 1) : n \in T => n + 1 \in T
  PROVE  0..b \subseteq T
<1> DEFINE U == T \cup {n \in Nat : n > b}
<1>1. Nat \subseteq U
  <2>1. \A n \in Nat : n \in U => n + 1 \in U
    OBVIOUS
  <2> HIDE DEF U
  <2>2. 0 \in U
    BY DEF U
  <2> QED
    BY <2>1, <2>2, AllNumbers
<1> QED
  BY <1>1

-----------------------------------------------------------------------------
(* Finite sets.                                                            *)

\* F has the empty set, and every other subset of S if it has that subset without one of
\* its elements.
Grows(F, S) ==
  /\ {} \in F
  /\ \A U \in SUBSET S : U # {} => \E x \in U : U \ {x} \in F => U \in F

\* A family that grows so has every subset of a finite S.
LEMMA AllFinite ==
  ASSUME NEW S, IsFiniteSet(S), NEW F, Grows(F, S)
  PROVE  \A U \in SUBSET S : U \in F
<1> DEFINE T == {n \in Nat : \A U \in SUBSET S : Cardinality(U) = n => U \in F}
<1>1. \A U \in SUBSET S : IsFiniteSet(U) /\ Cardinality(U) \in Nat
  BY FS_Subset, FS_CardinalityType
<1>2. 0 \in T
  BY <1>1, FS_EmptySet DEF Grows
<1>3. ASSUME NEW n \in Nat, n \in T PROVE n + 1 \in T
  <2> SUFFICES ASSUME NEW U \in SUBSET S, Cardinality(U) = n + 1 PROVE U \in F
    OBVIOUS
  <2>1. U # {}
    <3>1. n + 1 # 0
      OBVIOUS
    <3> QED
      BY <3>1, FS_EmptySet
  <2>2. PICK x \in U : U \ {x} \in F => U \in F
    BY <2>1 DEF Grows
  <2>3. U \ {x} \in SUBSET S /\ Cardinality(U \ {x}) = n
    <3>1. IsFiniteSet(U) /\ Cardinality(U \ {x}) \in Nat
      BY <1>1
    <3>2. Cardinality(U \ {x}) = IF x \in U THEN Cardinality(U) - 1 ELSE Cardinality(U)
      BY <3>1, FS_RemoveElement
    <3> QED
      BY <3>1, <3>2
  <2> QED
    BY <1>3, <2>2, <2>3
<1>4. Nat \subseteq T
  <2> HIDE DEF T
  <2> QED
    BY <1>2, <1>3, AllNumbers
<1> QED
  BY <1>1, <1>4

\* A set of numbers that is finite and not empty has a greatest one, and Max is that one.
LEMMA MaxOfFinite ==
  ASSUME NEW S, IsFiniteSet(S), S # {}, S \subseteq Nat
  PROVE  Max(S) \in S /\ \A n \in S : n <= Max(S)
<1> DEFINE F == {U \in SUBSET S : U = {} \/ \E n \in U : \A m \in U : m <= n}
<1>1. ASSUME NEW U \in SUBSET S, NEW x \in U, U \ {x} \in F PROVE U \in F
  <2>1. CASE U \ {x} = {}
    BY <2>1
  <2>2. ASSUME NEW n \in U \ {x}, \A m \in U \ {x} : m <= n PROVE U \in F
    <3>1. CASE x <= n
      BY <2>2, <3>1
    <3>2. CASE n <= x
      <4>1. \A m \in U : m <= x
        BY <2>2, <3>2
      <4> QED
        BY <4>1
    <3> QED
      BY <3>1, <3>2
  <2> QED
    BY <1>1, <2>1, <2>2
<1>2. S \in F
  <2>1. {} \in F
    OBVIOUS
  <2> HIDE DEF F
  <2>2. ASSUME NEW U \in SUBSET S, U # {} PROVE \E x \in U : U \ {x} \in F => U \in F
    BY <1>1, <2>2
  <2>3. Grows(F, S) /\ S \in SUBSET S
    BY <2>1, <2>2 DEF Grows
  <2> QED
    BY <2>3, AllFinite
<1>3. \E n \in S : \A m \in S : n >= m
  BY <1>2
<1> QED
  BY <1>3 DEF Max

-----------------------------------------------------------------------------
(* Order.                                                                  *)

\* What rises from each place to the next rises from each to every later one.
LEMMA Rising ==
  ASSUME NEW n \in Nat, NEW v \in [1..n -> Nat], \A i \in 2..n : v[i - 1] < v[i],
         NEW i \in 1..n, NEW j \in 1..n, i < j
  PROVE  v[i] < v[j]
<1> DEFINE T == {k \in Nat : i + 1 + k \in 1..n => v[i] < v[i + 1 + k]}
<1>1. 0 \in T
  <2> SUFFICES ASSUME i + 1 \in 1..n PROVE v[i] < v[i + 1]
    OBVIOUS
  <2>1. i + 1 \in 2..n /\ (i + 1) - 1 = i
    OBVIOUS
  <2> QED
    BY <2>1
<1>2. ASSUME NEW k \in Nat, k \in T PROVE k + 1 \in T
  <2> SUFFICES ASSUME i + 1 + (k + 1) \in 1..n PROVE v[i] < v[i + 1 + (k + 1)]
    OBVIOUS
  <2>1. /\ i + 1 + (k + 1) \in 2..n
        /\ (i + 1 + (k + 1)) - 1 = i + 1 + k /\ i + 1 + k \in 1..n
    OBVIOUS
  <2>2. v[i] < v[i + 1 + k] /\ v[i + 1 + k] < v[i + 1 + (k + 1)]
    BY <1>2, <2>1
  <2>3. v[i] \in Nat /\ v[i + 1 + k] \in Nat /\ v[i + 1 + (k + 1)] \in Nat
    BY <2>1
  <2> QED
    BY <2>2, <2>3
<1>3. Nat \subseteq T
  <2> HIDE DEF T
  <2> QED
    BY <1>1, <1>2, AllNumbers
<1>4. j - i - 1 \in Nat /\ i + 1 + (j - i - 1) = j
  OBVIOUS
<1> QED
  BY <1>3, <1>4

\* q lists S in the order of the keys.
Lists(q, S, key) ==
  /\ q \in [1..Cardinality(S) -> S]
  /\ \A x \in S : \E i \in 1..Cardinality(S) : q[i] = x
  /\ \A i, j \in 1..Cardinality(S) : i < j => key[q[i]] < key[q[j]]

\* A finite set can be listed in the order of keys no two of its elements share.
LEMMA ListExists ==
  ASSUME NEW S, IsFiniteSet(S), NEW key \in [S -> Nat],
         \A x, y \in S : key[x] = key[y] => x = y
  PROVE  \E q : Lists(q, S, key)
<1> DEFINE F == {U \in SUBSET S : \E q : Lists(q, U, key)}
<1>1. {} \in F
  <2>1. Cardinality({}) = 0
    BY FS_EmptySet
  <2>2. Lists(<<>>, {}, key)
    BY <2>1 DEF Lists
  <2> QED
    BY <2>2
<1>2. ASSUME NEW U \in SUBSET S, U # {} PROVE \E x \in U : U \ {x} \in F => U \in F
  <2>1. IsFiniteSet(U)
    BY FS_Subset
  <2>2. PICK x \in U : \A y \in U : key[y] <= key[x]
    <3> DEFINE g == [y \in U |-> key[y]]
               K == {key[y] : y \in U}
    <3>1. g \in Surjection(U, K)
      BY DEF Surjection
    <3>2. IsFiniteSet(K)
      BY <2>1, <3>1, FS_Surjection
    <3>3. K # {} /\ K \subseteq Nat
      BY <1>2
    <3>4. Max(K) \in K /\ \A k \in K : k <= Max(K)
      <4> HIDE DEF K
      <4> QED
        BY <3>2, <3>3, MaxOfFinite
    <3> QED
      BY <3>4
  <2> SUFFICES ASSUME NEW q, Lists(q, U \ {x}, key) PROVE \E r : Lists(r, U, key)
    OBVIOUS
  <2>3. PICK n : n = Cardinality(U \ {x}) /\ n \in Nat /\ n + 1 = Cardinality(U)
    <3>1. IsFiniteSet(U \ {x}) /\ Cardinality(U \ {x}) = Cardinality(U) - 1
      BY <2>1, FS_RemoveElement
    <3>2. Cardinality(U \ {x}) \in Nat /\ Cardinality(U) \in Nat
      BY <2>1, <3>1, FS_CardinalityType
    <3> QED
      BY <3>1, <3>2
  <2>4. /\ q \in [1..n -> U \ {x}]
        /\ \A y \in U \ {x} : \E i \in 1..n : q[i] = y
        /\ \A i, j \in 1..n : i < j => key[q[i]] < key[q[j]]
    BY <2>3 DEF Lists
  <2> DEFINE r == [i \in 1..(n + 1) |-> IF i = n + 1 THEN x ELSE q[i]]
  <2>5. \A i \in 1..(n + 1) : i = n + 1 \/ i \in 1..n
    BY <2>3
  <2>6. r \in [1..(n + 1) -> U]
    BY <2>4, <2>5
  <2>7. \A y \in U : \E i \in 1..(n + 1) : r[i] = y
    <3> SUFFICES ASSUME NEW y \in U PROVE \E i \in 1..(n + 1) : r[i] = y
      OBVIOUS
    <3>1. n + 1 \in 1..(n + 1) /\ \A i \in 1..n : i \in 1..(n + 1) /\ i # n + 1
      BY <2>3
    <3>2. CASE y = x
      BY <3>1, <3>2
    <3>3. CASE y # x
      BY <2>4, <3>1, <3>3
    <3> QED
      BY <3>2, <3>3
  <2>8. ASSUME NEW i \in 1..(n + 1), NEW j \in 1..(n + 1), i < j
        PROVE  key[r[i]] < key[r[j]]
    <3>1. i \in 1..n /\ r[i] = q[i] /\ q[i] \in U \ {x}
      <4>1. i \in 1..n /\ i # n + 1
        BY <2>3, <2>8
      <4>2. r[i] = q[i]
        BY <4>1
      <4> HIDE DEF r
      <4> QED
        BY <2>4, <4>1, <4>2
    <3>2. CASE j \in 1..n
      <4>1. r[j] = q[j]
        BY <2>3, <3>2
      <4> QED
        BY <2>4, <2>8, <3>1, <3>2, <4>1
    <3>3. CASE j = n + 1
      <4>1. key[q[i]] <= key[x] /\ key[q[i]] # key[x]
        BY <2>2, <3>1
      <4>2. key[q[i]] \in Nat /\ key[x] \in Nat
        BY <3>1
      <4> QED
        BY <3>1, <3>3, <4>1, <4>2
    <3> QED
      BY <2>5, <3>2, <3>3
  <2>9. Lists(r, U, key)
    <3> HIDE DEF r
    <3> QED
      BY <2>3, <2>6, <2>7, <2>8 DEF Lists
  <2> QED
    BY <2>9
<1>3. S \in F
  <2> HIDE DEF F
  <2>1. Grows(F, S) /\ S \in SUBSET S
    BY <1>1, <1>2 DEF Grows
  <2> QED
    BY <2>1, AllFinite
<1> QED
  BY <1>3

\* A list in the order of the keys that is as long as the set has every element of it.
LEMMA ListIsWhole ==
  ASSUME NEW S, IsFiniteSet(S), NEW q \in [1..Cardinality(S) -> S],
         \A i, j \in 1..Cardinality(S) : q[i] = q[j] => i = j
  PROVE  {q[i] : i \in 1..Cardinality(S)} = S
<1>1. Cardinality(S) \in Nat
  BY FS_CardinalityType
<1>2. q \in Injection(1..Cardinality(S), S)
  BY DEF Injection, IsInjective
<1>3. Cardinality(1..Cardinality(S)) = Cardinality(S)
  BY <1>1, FS_Interval
<1>4. q \in Surjection(1..Cardinality(S), S)
  BY <1>2, <1>3, FS_Injection
<1> QED
  BY <1>4 DEF Surjection

-----------------------------------------------------------------------------
(* Remainders.                                                             *)

LEMMA Remainder ==
  ASSUME NEW d \in Nat \ {0}, NEW q \in Nat, NEW r \in 0..(d - 1)
  PROVE  (d * q + r) % d = r
  OBVIOUS

LEMMA Division ==
  ASSUME NEW a \in Nat, NEW d \in Nat \ {0}
  PROVE  a % d \in 0..(d - 1) /\ a \div d \in Nat /\ a = (d * (a \div d)) + (a % d)
  OBVIOUS

\* A summand may be reduced before the sum is.
LEMMA ReducedAnywhere ==
  ASSUME NEW a \in Nat, NEW c \in Nat, NEW d \in Nat \ {0}
  PROVE  ((a % d) + c) % d = (a + c) % d
<1>1. a % d \in 0..(d - 1) /\ a \div d \in Nat /\ a = (d * (a \div d)) + (a % d)
  BY Division
<1>2. PICK q \in Nat, r \in 0..(d - 1) : r = ((a % d) + c) % d /\ (a % d) + c = (d * q) + r
  <2>1. (a % d) + c \in Nat
    BY <1>1
  <2> QED
    BY <2>1, Division
<1>3. PICK p \in Nat : p = a \div d
  BY <1>1
<1>4. a + c = (d * (p + q)) + r
  <2>1. d * (p + q) = (d * p) + (d * q)
    OBVIOUS
  <2>2. d * p \in Nat /\ d * q \in Nat /\ a % d \in Nat
    BY <1>1
  <2> QED
    BY <1>1, <1>2, <1>3, <2>1, <2>2
<1>5. p + q \in Nat
  OBVIOUS
<1> QED
  BY <1>2, <1>4, <1>5, Remainder

-----------------------------------------------------------------------------
(* Sums.                                                                   *)

\* `sum` is the sum of f over each subset of S.
Adds(sum, f, S) ==
  /\ sum \in [SUBSET S -> Nat]
  /\ sum[{}] = 0
  /\ \A T \in SUBSET S : \A x \in T : sum[T] = sum[T \ {x}] + f[x]

\* There are sums over a finite set.
LEMMA SumsExist ==
  ASSUME NEW S, IsFiniteSet(S), NEW f \in [S -> Nat]
  PROVE  \E sum : Adds(sum, f, S)
<1> DEFINE F == {U \in SUBSET S : \E sum : Adds(sum, f, U)}
<1>1. {} \in F
  <2> DEFINE sum == [T \in {{}} |-> 0]
  <2>1. SUBSET {} = {{}} /\ sum \in [SUBSET {} -> Nat]
    OBVIOUS
  <2>2. Adds(sum, f, {})
    BY <2>1 DEF Adds
  <2> QED
    BY <2>2
<1>2. ASSUME NEW U \in SUBSET S, NEW x \in S \ U, U \in F PROVE U \cup {x} \in F
  <2>1. PICK sum : Adds(sum, f, U)
    BY <1>2
  <2> DEFINE more == [T \in SUBSET (U \cup {x}) |->
                        IF x \in T THEN sum[T \ {x}] + f[x] ELSE sum[T]]
  <2>2. \A T \in SUBSET (U \cup {x}) : T \ {x} \in SUBSET U /\ (x \notin T => T \in SUBSET U)
    OBVIOUS
  <2>3. more \in [SUBSET (U \cup {x}) -> Nat]
    BY <2>1, <2>2 DEF Adds
  <2>4. more[{}] = 0
    BY <2>1 DEF Adds
  <2>5. ASSUME NEW T \in SUBSET (U \cup {x}), NEW y \in T
        PROVE  more[T] = more[T \ {y}] + f[y]
    <3>1. CASE y = x
      <4>1. x \in T /\ x \notin T \ {y} /\ T \ {y} = T \ {x}
        BY <3>1
      <4>2. more[T] = sum[T \ {x}] + f[x]
        BY <4>1
      <4>3. more[T \ {y}] = sum[T \ {x}]
        BY <4>1
      <4> QED
        BY <3>1, <4>2, <4>3
    <3>2. CASE y # x /\ x \in T
      <4>1. y \in T \ {x} /\ (T \ {x}) \ {y} = (T \ {y}) \ {x} /\ x \in T \ {y}
        BY <3>2
      <4>2. sum[T \ {x}] = sum[(T \ {y}) \ {x}] + f[y]
        BY <2>1, <2>2, <4>1 DEF Adds
      <4>3. more[T] = sum[T \ {x}] + f[x]
        BY <3>2
      <4>4. more[T \ {y}] = sum[(T \ {y}) \ {x}] + f[x]
        BY <4>1
      <4>5. sum[(T \ {y}) \ {x}] \in Nat /\ f[x] \in Nat /\ f[y] \in Nat
        BY <2>1, <2>2, <3>2 DEF Adds
      <4> QED
        BY <4>2, <4>3, <4>4, <4>5
    <3>3. CASE x \notin T
      <4>1. T \in SUBSET U /\ x \notin T \ {y}
        BY <3>3
      <4> QED
        BY <2>1, <4>1 DEF Adds
    <3> QED
      BY <3>1, <3>2, <3>3
  <2>6. Adds(more, f, U \cup {x})
    <3> HIDE DEF more
    <3> QED
      BY <2>3, <2>4, <2>5 DEF Adds
  <2> QED
    BY <2>6
<1>3. S \in F
  <2>1. ASSUME NEW U \in SUBSET S, NEW x \in U, U \ {x} \in F PROVE U \in F
    <3>1. U \ {x} \in SUBSET S /\ x \in S \ (U \ {x}) /\ (U \ {x}) \cup {x} = U
      OBVIOUS
    <3> HIDE DEF F
    <3>2. (U \ {x}) \cup {x} \in F
      BY <1>2, <2>1, <3>1
    <3> QED
      BY <3>1, <3>2
  <2> HIDE DEF F
  <2>2. ASSUME NEW U \in SUBSET S, U # {} PROVE \E x \in U : U \ {x} \in F => U \in F
    BY <2>1, <2>2
  <2>3. Grows(F, S) /\ S \in SUBSET S
    BY <1>1, <2>2 DEF Grows
  <2> QED
    BY <2>3, AllFinite
<1> QED
  BY <1>3

\* h takes an element off a set, adds up the rest, and adds f of the element.
AddsUp(h, f, S) ==
  /\ h[{}] = 0
  /\ \A T \in SUBSET S : T # {} => \E x \in T : \/ h[T] = h[T \ {x}] + f[x]
                                                \/ h[T] = f[x] + h[T \ {x}]

\* The same where the sum is reduced at each step.
AddsUpModulo(h, f, S, d) ==
  /\ h[{}] = 0
  /\ \A T \in SUBSET S : T # {} => \E x \in T : h[T] = (h[T \ {x}] + f[x]) % d

\* Whatever element is taken off, what comes out is the sum.
LEMMA SumOfAny ==
  ASSUME NEW S, IsFiniteSet(S), NEW f \in [S -> Nat], NEW sum, Adds(sum, f, S),
         NEW h, AddsUp(h, f, S)
  PROVE  \A T \in SUBSET S : h[T] = sum[T]
<1> DEFINE F == {T \in SUBSET S : h[T] = sum[T]}
<1>1. {} \in F
  BY DEF Adds, AddsUp
<1>2. ASSUME NEW T \in SUBSET S, T # {} PROVE \E x \in T : T \ {x} \in F => T \in F
  <2>1. PICK x \in T : h[T] = h[T \ {x}] + f[x] \/ h[T] = f[x] + h[T \ {x}]
    BY <1>2 DEF AddsUp
  <2>2. sum[T] = sum[T \ {x}] + f[x] /\ sum[T \ {x}] \in Nat /\ f[x] \in Nat
    BY DEF Adds
  <2>3. ASSUME h[T \ {x}] = sum[T \ {x}] PROVE h[T] = sum[T]
    BY <2>1, <2>2, <2>3
  <2> QED
    BY <2>3
<1>3. \A T \in SUBSET S : T \in F
  <2> HIDE DEF F
  <2>1. Grows(F, S)
    BY <1>1, <1>2 DEF Grows
  <2> QED
    BY <2>1, AllFinite
<1> QED
  BY <1>3

\* A sum reduced at each step is the sum, reduced.
LEMMA SumModulo ==
  ASSUME NEW S, IsFiniteSet(S), NEW f \in [S -> Nat], NEW sum, Adds(sum, f, S),
         NEW d \in Nat \ {0}, NEW h, AddsUpModulo(h, f, S, d)
  PROVE  \A T \in SUBSET S : h[T] = sum[T] % d
<1> DEFINE F == {T \in SUBSET S : h[T] = sum[T] % d}
<1>1. {} \in F
  BY DEF Adds, AddsUpModulo
<1>2. ASSUME NEW T \in SUBSET S, T # {} PROVE \E x \in T : T \ {x} \in F => T \in F
  <2>1. PICK x \in T : h[T] = (h[T \ {x}] + f[x]) % d
    BY <1>2 DEF AddsUpModulo
  <2>2. sum[T] = sum[T \ {x}] + f[x] /\ sum[T \ {x}] \in Nat /\ f[x] \in Nat
    BY DEF Adds
  <2>3. ((sum[T \ {x}] % d) + f[x]) % d = (sum[T \ {x}] + f[x]) % d
    BY <2>2, ReducedAnywhere
  <2> QED
    BY <2>1, <2>2, <2>3
<1>3. \A T \in SUBSET S : T \in F
  <2> HIDE DEF F
  <2>1. Grows(F, S)
    BY <1>1, <1>2 DEF Grows
  <2> QED
    BY <2>1, AllFinite
<1> QED
  BY <1>3

\* A sum of more is no less, and is more if what comes to it is positive.
LEMMA SumOfAll ==
  ASSUME NEW S, IsFiniteSet(S), NEW f \in [S -> Nat \ {0}], NEW sum, Adds(sum, f, S)
  PROVE  \A T \in SUBSET S : sum[T] = sum[S] => T = S
<1> DEFINE less(D) == \A T \in SUBSET S :
                         D = S \ T => sum[S] >= sum[T] /\ (D # {} => sum[S] > sum[T])
           F == {D \in SUBSET S : less(D)}
<1>1. \A T \in SUBSET S : sum[T] \in Nat
  BY DEF Adds
<1>2. less({})
  <2> SUFFICES ASSUME NEW T \in SUBSET S, {} = S \ T PROVE sum[S] >= sum[T]
    OBVIOUS
  <2>1. T = S
    OBVIOUS
  <2> QED
    BY <1>1, <2>1
<1>3. ASSUME NEW D \in SUBSET S, NEW x \in D, less(D \ {x}) PROVE less(D)
  <2> SUFFICES ASSUME NEW T \in SUBSET S, D = S \ T
               PROVE  sum[S] > sum[T] /\ sum[S] >= sum[T]
    OBVIOUS
  <2>1. T \cup {x} \in SUBSET S /\ D \ {x} = S \ (T \cup {x}) /\ (T \cup {x}) \ {x} = T
    OBVIOUS
  <2>2. sum[S] >= sum[T \cup {x}]
    BY <1>3, <2>1
  <2>3. sum[T \cup {x}] = sum[T] + f[x]
    BY <2>1 DEF Adds
  <2>4. sum[S] \in Nat /\ sum[T] \in Nat /\ f[x] \in Nat /\ f[x] > 0
    BY <1>1
  <2> QED
    BY <2>2, <2>3, <2>4
<1>4. \A D \in SUBSET S : less(D)
  <2>1. {} \in F
    BY <1>2
  <2>2. ASSUME NEW D \in SUBSET S, D # {} PROVE \E x \in D : D \ {x} \in F => D \in F
    <3>1. PICK x : x \in D
      BY <2>2
    <3> QED
      BY <1>3, <3>1
  <2>3. \A D \in SUBSET S : D \in F
    <3> HIDE DEF F
    <3>1. Grows(F, S)
      BY <2>1, <2>2 DEF Grows
    <3> QED
      BY <3>1, AllFinite
  <2> QED
    BY <2>3
<1>5. ASSUME NEW T \in SUBSET S, sum[T] = sum[S] PROVE T = S
  <2>1. S \ T # {} => sum[S] > sum[T]
    BY <1>4
  <2>2. S \ T = {}
    BY <1>1, <1>5, <2>1
  <2> QED
    BY <2>2
<1> QED
  BY <1>5

\* The sum over the elements that a set of numbers stands for, and what f makes of one.
SumOver(sum, b, I) == [T \in SUBSET I |-> sum[{b[i] : i \in T}]]
At(f, b, I) == [i \in I |-> f[b[i]]]

\* What is added up may be numbered.
LEMMA SumOfImage ==
  ASSUME NEW S, NEW f \in [S -> Nat], NEW sum, Adds(sum, f, S), NEW I, NEW b \in Injection(I, S)
  PROVE  Adds(SumOver(sum, b, I), At(f, b, I), I)
<1> DEFINE over == SumOver(sum, b, I)
           g == At(f, b, I)
<1> USE DEF Injection, IsInjective, SumOver, At
<1> DEFINE image(T) == {b[i] : i \in T}
<1>1. \A T \in SUBSET I : image(T) \in SUBSET S
  OBVIOUS
<1>2. over \in [SUBSET I -> Nat]
  BY <1>1 DEF Adds
<1>3. over[{}] = 0
  <2>1. image({}) = {}
    OBVIOUS
  <2> QED
    BY <2>1 DEF Adds
<1>4. ASSUME NEW T \in SUBSET I, NEW i \in T PROVE over[T] = over[T \ {i}] + g[i]
  <2>1. image(T) \ {b[i]} = image(T \ {i}) /\ b[i] \in image(T)
    OBVIOUS
  <2>2. sum[image(T)] = sum[image(T) \ {b[i]}] + f[b[i]]
    BY <1>1, <2>1 DEF Adds
  <2> QED
    BY <2>1, <2>2
<1> QED
  BY <1>2, <1>3, <1>4 DEF Adds

-----------------------------------------------------------------------------
(* Recursion that goes down.                                              *)

\* What a recursion that goes down from a number to smaller ones is made of: the numbers it
\* ends at, what it gives there, where it goes to from the others, and what it makes of the
\* value it finds there.
GoesDown(base, a, d, h, V) ==
  /\ base \in SUBSET Nat /\ a \in [Nat -> V] /\ d \in [Nat -> Nat] /\ h \in [Nat \X V -> V]
  /\ \A n \in Nat \ base : d[n] < n

\* f is what it says, up to b.
DefinedTo(f, b, base, a, d, h, V) ==
  /\ f \in [0..b -> V]
  /\ \A n \in 0..b : f[n] = IF n \in base THEN a[n] ELSE h[<<n, f[d[n]]>>]

\* There is no other.
LEMMA DefinedOnce ==
  ASSUME NEW base, NEW a, NEW d, NEW h, NEW V, GoesDown(base, a, d, h, V),
         NEW b \in Nat, NEW f, DefinedTo(f, b, base, a, d, h, V),
         NEW c \in Nat, NEW g, DefinedTo(g, c, base, a, d, h, V)
  PROVE  \A n \in Nat : n <= b /\ n <= c => f[n] = g[n]
<1> DEFINE T == {n \in Nat : n <= b /\ n <= c /\ f[n] # g[n]}
<1> SUFFICES ASSUME T # {} PROVE FALSE
  OBVIOUS
<1>1. PICK n \in T : \A m \in T : n <= m
  <2>1. T \in SUBSET Nat
    OBVIOUS
  <2> HIDE DEF T
  <2> QED
    BY <2>1, LeastNumber
<1>2. n \in 0..b /\ n \in 0..c /\ n \in Nat
  BY <1>1
<1>3. /\ f[n] = IF n \in base THEN a[n] ELSE h[<<n, f[d[n]]>>]
      /\ g[n] = IF n \in base THEN a[n] ELSE h[<<n, g[d[n]]>>]
  BY <1>2 DEF DefinedTo
<1>4. n \notin base /\ f[d[n]] # g[d[n]]
  BY <1>1, <1>3
<1>5. d[n] \in Nat /\ d[n] < n
  BY <1>2, <1>4 DEF GoesDown
<1>6. d[n] \in T
  BY <1>2, <1>4, <1>5
<1> QED
  BY <1>1, <1>2, <1>5, <1>6

LEMMA DefinedToAny ==
  ASSUME NEW base, NEW a, NEW d, NEW h, NEW V, GoesDown(base, a, d, h, V)
  PROVE  \A b \in Nat : \E f : DefinedTo(f, b, base, a, d, h, V)
<1> DEFINE T == {b \in Nat : \E f : DefinedTo(f, b, base, a, d, h, V)}
<1>1. 0 \in T
  <2> DEFINE f == [n \in 0..0 |-> a[n]]
  <2>1. 0 \in base
    BY DEF GoesDown
  <2>2. DefinedTo(f, 0, base, a, d, h, V)
    BY <2>1 DEF DefinedTo, GoesDown
  <2> QED
    BY <2>2
<1>2. ASSUME NEW b \in Nat, b \in T PROVE b + 1 \in T
  <2>1. PICK f : DefinedTo(f, b, base, a, d, h, V)
    BY <1>2
  <2> DEFINE new == IF b + 1 \in base THEN a[b + 1] ELSE h[<<b + 1, f[d[b + 1]]>>]
             g == [n \in 0..(b + 1) |-> IF n = b + 1 THEN new ELSE f[n]]
  <2>2. b + 1 \in base \/ d[b + 1] \in 0..b
    BY DEF GoesDown
  <2>3. new \in V
    <3>1. CASE b + 1 \in base
      BY <3>1 DEF GoesDown
    <3>2. CASE b + 1 \notin base
      <4>1. f[d[b + 1]] \in V
        BY <2>1, <2>2, <3>2 DEF DefinedTo
      <4>2. <<b + 1, f[d[b + 1]]>> \in Nat \X V /\ h \in [Nat \X V -> V]
        BY <4>1 DEF GoesDown
      <4> QED
        BY <3>2, <4>2
    <3> QED
      BY <3>1, <3>2
  <2>4. \A n \in 0..b : n \in 0..(b + 1) /\ n # b + 1 /\ (n \in base \/ d[n] \in 0..b)
    BY DEF GoesDown
  <2>5. g \in [0..(b + 1) -> V]
    BY <2>1, <2>3 DEF DefinedTo
  <2>6. \A n \in 0..b : g[n] = f[n]
    BY <2>4
  <2>7. g[b + 1] = new
    OBVIOUS
  <2>8. ASSUME NEW n \in 0..(b + 1)
        PROVE  g[n] = IF n \in base THEN a[n] ELSE h[<<n, g[d[n]]>>]
    <3> HIDE DEF g
    <3>1. CASE n = b + 1
      BY <2>2, <2>6, <2>7, <3>1
    <3>2. CASE n \in 0..b
      <4>1. n \in base \/ g[d[n]] = f[d[n]]
        BY <2>4, <2>6, <3>2
      <4> QED
        BY <2>1, <2>6, <3>2, <4>1 DEF DefinedTo
    <3> QED
      BY <3>1, <3>2
  <2>9. DefinedTo(g, b + 1, base, a, d, h, V)
    BY <2>5, <2>8 DEF DefinedTo
  <2> QED
    BY <2>9
<1> HIDE DEF T
<1>3. Nat \subseteq T
  BY <1>1, <1>2, AllNumbers
<1> QED
  BY <1>3 DEF T

\* Such a recursion defines a function on the numbers.
LEMMA DefinedDownwards ==
  ASSUME NEW base, NEW a, NEW d, NEW h, NEW V, GoesDown(base, a, d, h, V)
  PROVE  \E f : /\ f \in [Nat -> V]
                /\ \A n \in Nat : f[n] = IF n \in base THEN a[n] ELSE h[<<n, f[d[n]]>>]
<1> DEFINE to(b) == CHOOSE f : DefinedTo(f, b, base, a, d, h, V)
           f == [n \in Nat |-> to(n)[n]]
<1>1. \A b \in Nat : DefinedTo(to(b), b, base, a, d, h, V)
  BY DefinedToAny
<1> HIDE DEF to
<1>2. f \in [Nat -> V]
  BY <1>1 DEF DefinedTo
<1>3. ASSUME NEW n \in Nat PROVE f[n] = IF n \in base THEN a[n] ELSE h[<<n, f[d[n]]>>]
  <2>1. to(n)[n] = IF n \in base THEN a[n] ELSE h[<<n, to(n)[d[n]]>>]
    BY <1>1 DEF DefinedTo
  <2>2. ASSUME n \notin base PROVE to(n)[d[n]] = f[d[n]]
    <3>1. d[n] \in Nat /\ d[n] <= n
      BY <2>2 DEF GoesDown
    <3>2. to(n)[d[n]] = to(d[n])[d[n]]
      BY <1>1, <3>1, DefinedOnce
    <3> QED
      BY <3>1, <3>2
  <2> QED
    BY <2>1, <2>2
<1> QED
  BY <1>2, <1>3


-----------------------------------------------------------------------------
(* Sequences.                                                              *)

\* One sequence after another.
LEMMA Joined ==
  ASSUME NEW T, NEW a \in Seq(T), NEW b \in Seq(T)
  PROVE  /\ a \o b \in Seq(T) /\ Len(a \o b) = Len(a) + Len(b)
         /\ \A j \in 1..(Len(a) + Len(b)) : (a \o b)[j] = IF j <= Len(a) THEN a[j] ELSE b[j - Len(a)]
  OBVIOUS

=============================================================================
