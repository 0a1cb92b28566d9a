------------------------------- MODULE Induction -------------------------------
(***************************************************************************)
(* Induction on the natural numbers for proofs that cannot use an operator *)
(* as a parameter: a set of numbers that is not empty has a least member,  *)
(* so a property fails, if at all, at a first place.  From this, a         *)
(* function that is defined by recursion on its predecessor exists, and    *)
(* stays in the set its steps stay in; so does one on 1..n whose value at  *)
(* a place depends on its values after that place.  At the end, what       *)
(* sorting a finite set yields.                                            *)
(***************************************************************************)
EXTENDS Integers, FiniteSets, FiniteSetTheorems, WellFoundedInduction, TLAPS

LessPairs == {p \in Nat \X Nat : p[1] < p[2]}

LEMMA LessWellFounded == IsWellFoundedOn(LessPairs, Nat)
<1>1. OpToRel(<, Nat) = LessPairs
  BY DEF OpToRel, LessPairs
<1> QED
  BY <1>1, NatLessThanWellFounded

(* A set of natural numbers has a least member. *)
LEMMA LeastMember ==
  ASSUME NEW T, T \subseteq Nat, T # {}
  PROVE  \E x \in T : \A y \in T : x <= y
<1>1. PICK x \in T : \A y \in T : <<y, x>> \notin LessPairs
  BY LessWellFounded, WFMin
<1>2. ASSUME NEW y \in T PROVE x <= y
  <2>1. x \in Nat /\ y \in Nat
    OBVIOUS
  <2>2. ~(y < x)
    BY <1>1, <2>1 DEF LessPairs
  <2> QED
    BY <2>1, <2>2
<1> QED
  BY <1>2

(* Induction up to n, for a set: it contains 0, and with i also i + 1.     *)
LEMMA UpTo ==
  ASSUME NEW n \in Nat, NEW T, 0 \in T, \A i \in 0..(n - 1) : i \in T => i + 1 \in T
  PROVE  0..n \subseteq T
<1> DEFINE Bad == (0..n) \ T
<1> SUFFICES ASSUME Bad # {} PROVE FALSE
  OBVIOUS
<1>0. Bad \subseteq Nat
  OBVIOUS
<1>1. PICK x \in Bad : \A y \in Bad : x <= y
  <2> HIDE DEF Bad
  <2> QED
    BY <1>0, LeastMember
<1>2. x \in Nat /\ x # 0 /\ x <= n /\ x \notin T
  OBVIOUS
<1>3. x - 1 \in 0..(n - 1) /\ x - 1 \in 0..n /\ x - 1 < x
  BY <1>2
<1>4. x - 1 \in T
  BY <1>1, <1>2, <1>3
<1> QED
  BY <1>2, <1>3, <1>4

(* f starts with a, and G[i] takes its value at i - 1 to its value at i. *)
DefinedBy(f, n, a, G) == f[0] = a /\ \A i \in 1..n : f[i] = G[i][f[i - 1]]

(* Such a function exists. *)
LEMMA Recursion ==
  ASSUME NEW n \in Nat, NEW S, NEW a \in S, NEW G \in [1..n -> [S -> S]]
  PROVE  \E f \in [0..n -> S] : DefinedBy(f, n, a, G)
<1> DEFINE Rec(f, m) == f[0] = a /\ \A i \in 1..m : f[i] = G[i][f[i - 1]]
           T == {m \in 0..n : \E f \in [0..m -> S] : Rec(f, m)}
<1>1. 0 \in T
  <2> DEFINE f == [i \in 0..0 |-> a]
  <2>1. f \in [0..0 -> S] /\ f[0] = a
    OBVIOUS
  <2> HIDE DEF f
  <2>2. Rec(f, 0)
    BY <2>1
  <2> QED
    BY <2>1, <2>2
<1>2. ASSUME NEW m \in 0..(n - 1), m \in T PROVE m + 1 \in T
  <2>1. PICK f \in [0..m -> S] : Rec(f, m)
    BY <1>2
  <2> DEFINE v == G[m + 1][f[m]]
             g == [i \in 0..(m + 1) |-> IF i = m + 1 THEN v ELSE f[i]]
  <2>2. v \in S
    BY <1>2
  <2> HIDE DEF v
  <2>3. g \in [0..(m + 1) -> S]
    BY <1>2, <2>2
  <2>4. \A i \in 0..m : g[i] = f[i]
    BY <1>2
  <2>5. g[m + 1] = v
    BY <1>2
  <2> HIDE DEF g
  <2>6. ASSUME NEW i \in 1..(m + 1) PROVE g[i] = G[i][g[i - 1]]
    <3>1. CASE i = m + 1
      BY <1>2, <2>4, <2>5, <3>1 DEF v
    <3>2. CASE i # m + 1
      <4>1. i \in 0..m /\ i - 1 \in 0..m /\ i \in 1..m
        BY <1>2, <3>2
      <4> QED
        BY <2>1, <2>4, <4>1
    <3> QED
      BY <3>1, <3>2
  <2>7. g[0] = a
    BY <1>2, <2>1, <2>4
  <2>8. Rec(g, m + 1)
    BY <2>6, <2>7
  <2>9. m + 1 \in 0..n
    BY <1>2
  <2> HIDE DEF Rec
  <2> QED
    BY <2>3, <2>8, <2>9
<1>3. n \in T
  <2> HIDE DEF T
  <2>1. 0..n \subseteq T
    BY <1>1, <1>2, UpTo
  <2> QED
    BY <2>1
<1> QED
  BY <1>3 DEF DefinedBy

(* A function whose steps stay in S, and which starts there, stays there.  *)
LEMMA StaysIn ==
  ASSUME NEW n \in Nat, NEW S, NEW f, f[0] \in S,
         \A i \in 1..n : f[i - 1] \in S => f[i] \in S
  PROVE  \A i \in 0..n : f[i] \in S
<1> DEFINE T == {i \in 0..n : f[i] \in S}
<1>1. 0 \in T
  OBVIOUS
<1>2. ASSUME NEW i \in 0..(n - 1), i \in T PROVE i + 1 \in T
  <2>1. i + 1 \in 1..n /\ (i + 1) - 1 = i
    OBVIOUS
  <2> QED
    BY <1>2, <2>1
<1> HIDE DEF T
<1>3. 0..n \subseteq T
  BY <1>1, <1>2, UpTo
<1> QED
  BY <1>3 DEF T

(* Induction down from n: a place is in T if all later ones are.           *)
LEMMA DownTo ==
  ASSUME NEW n \in Nat, NEW T, \A i \in 1..n : (\A j \in (i + 1)..n : j \in T) => i \in T
  PROVE  1..n \subseteq T
<1> DEFINE Bad == {k \in 0..(n - 1) : n - k \notin T}
<1> SUFFICES ASSUME NEW x \in 1..n, x \notin T PROVE FALSE
  OBVIOUS
<1>1. Bad \subseteq Nat /\ n - x \in Bad
  OBVIOUS
<1>2. PICK k \in Bad : \A y \in Bad : k <= y
  <2> HIDE DEF Bad
  <2> QED
    BY <1>1, LeastMember
<1>3. n - k \in 1..n /\ n - k \notin T
  OBVIOUS
<1>4. ASSUME NEW j \in ((n - k) + 1)..n PROVE j \in T
  <2>1. n - j \in 0..(n - 1) /\ n - (n - j) = j /\ n - j < k
    OBVIOUS
  <2> QED
    BY <1>2, <2>1
<1> QED
  BY <1>3, <1>4

(* G[i] takes a function to a value at i, and looks at it only after i.    *)
LooksAhead(G, n, S) ==
  /\ G \in [1..n -> [[1..n -> S] -> S]]
  /\ \A i \in 1..n : \A g, h \in [1..n -> S] :
       (\A j \in (i + 1)..n : g[j] = h[j]) => G[i][g] = G[i][h]

(* The values of f are those that G gives it. *)
FixedBy(f, n, G) == \A i \in 1..n : f[i] = G[i][f]

(* Such a function exists. *)
LEMMA Descending ==
  ASSUME NEW n \in Nat, NEW S, S # {}, NEW G, LooksAhead(G, n, S)
  PROVE  \E f \in [1..n -> S] : FixedBy(f, n, G)
<1>0. /\ G \in [1..n -> [[1..n -> S] -> S]]
      /\ \A i \in 1..n : \A g, h \in [1..n -> S] :
           (\A j \in (i + 1)..n : g[j] = h[j]) => G[i][g] = G[i][h]
  BY DEF LooksAhead
<1> DEFINE Tables == [1..n -> S]
           Put(g, i) == [g EXCEPT ![i] = G[i][g]]
           H == [k \in 1..n |-> [g \in Tables |-> Put(g, (n + 1) - k)]]
<1>1. PICK a \in S : TRUE
  OBVIOUS
<1>2. PICK start \in Tables : TRUE
  <2>1. [i \in 1..n |-> a] \in Tables
    OBVIOUS
  <2> QED
    BY <2>1
<1>3. ASSUME NEW g \in Tables, NEW i \in 1..n
      PROVE  /\ Put(g, i) \in Tables
             /\ Put(g, i)[i] = G[i][g]
             /\ \A j \in 1..n : j # i => Put(g, i)[j] = g[j]
  <2>1. G[i][g] \in S
    BY <1>0
  <2> QED
    BY <2>1
<1>4. H \in [1..n -> [Tables -> Tables]]
  <2>1. \A k \in 1..n : (n + 1) - k \in 1..n
    OBVIOUS
  <2>2. \A k \in 1..n : \A g \in Tables : Put(g, (n + 1) - k) \in Tables
    BY <1>3, <2>1
  <2> HIDE DEF Put, Tables
  <2> QED
    BY <2>2
<1>5. \A k \in 1..n : \A g \in Tables : H[k][g] = Put(g, (n + 1) - k)
  <2> HIDE DEF Put, Tables
  <2> QED
    OBVIOUS
<1> HIDE DEF Put, Tables, H
<1>6. PICK F \in [0..n -> Tables] : DefinedBy(F, n, start, H)
  BY <1>2, <1>4, Recursion, Zenon
<1> DEFINE T == {k \in 0..n : \A i \in 1..n : i > n - k => F[k][i] = G[i][F[k]]}
<1>7. 0 \in T
  OBVIOUS
<1>8. ASSUME NEW k \in 0..(n - 1), k \in T PROVE k + 1 \in T
  <2> DEFINE g == F[k]
             h == F[k + 1]
             b == n - k
  <2>1. g \in Tables /\ h \in Tables /\ b \in 1..n
    OBVIOUS
  <2>2. h = Put(g, b)
    <3>1. k + 1 \in 1..n /\ (k + 1) - 1 = k /\ (n + 1) - (k + 1) = b
      OBVIOUS
    <3>2. F[k + 1] = H[k + 1][F[k]]
      BY <1>6, <3>1 DEF DefinedBy
    <3> QED
      BY <1>5, <2>1, <3>1, <3>2
  <2>3. h[b] = G[b][g] /\ \A j \in 1..n : j # b => h[j] = g[j]
    <3> HIDE DEF g, h, b
    <3> QED
      BY <1>3, <2>1, <2>2
  <2>4. \A i \in 1..n : i > b => g[i] = G[i][g]
    BY <1>8
  <2>5. b \in Nat /\ k + 1 \in 0..n /\ n - (k + 1) = b - 1
    OBVIOUS
  <2> HIDE DEF g, h, b
  <2>6. ASSUME NEW i \in 1..n, i > b - 1 PROVE h[i] = G[i][h]
    <3>1. \A j \in (i + 1)..n : j \in 1..n /\ j # b
      BY <2>5, <2>6
    <3>2. \A j \in (i + 1)..n : g[j] = h[j]
      BY <2>3, <3>1
    <3>3. G[i][g] = G[i][h]
      BY <1>0, <2>1, <3>2 DEF Tables
    <3>4. CASE i = b
      BY <2>3, <3>3, <3>4
    <3>5. CASE i # b
      <4>1. i > b
        BY <2>5, <2>6, <3>5
      <4> QED
        BY <2>3, <2>4, <3>3, <3>5, <4>1
    <3> QED
      BY <3>4, <3>5
  <2> QED
    BY <2>5, <2>6 DEF h
<1>9. n \in T
  <2> HIDE DEF T
  <2>1. 0..n \subseteq T
    BY <1>7, <1>8, UpTo
  <2> QED
    BY <2>1
<1>10. F[n] \in [1..n -> S] /\ \A i \in 1..n : F[n][i] = G[i][F[n]]
  BY <1>9 DEF Tables
<1> QED
  BY <1>10 DEF FixedBy

-----------------------------------------------------------------------------
(* Sorting: what precedes s in S, in the order R, decides where s goes.    *)

Above(s, S, R) == {t \in S : <<t, s>> \in R}

StrictOrder(S, R) ==
  /\ \A s \in S : <<s, s>> \notin R
  /\ \A s, t, u \in S : <<s, t>> \in R /\ <<t, u>> \in R => <<s, u>> \in R
  /\ \A s, t \in S : s = t \/ <<s, t>> \in R \/ <<t, s>> \in R

(* f lists S in the order R. *)
Lists(f, S, R) ==
  /\ Cardinality(S) \in Nat
  /\ f \in [1..Cardinality(S) -> S]
  /\ \A s \in S : \E i \in 1..Cardinality(S) : f[i] = s
  /\ \A i, j \in 1..Cardinality(S) : i < j => <<f[i], f[j]>> \in R

LEMMA CountTo ==
  ASSUME NEW n \in Nat PROVE IsFiniteSet(0..(n - 1)) /\ Cardinality(0..(n - 1)) = n
BY FS_Interval

LEMMA Sorting ==
  ASSUME NEW S, IsFiniteSet(S), NEW R, StrictOrder(S, R), NEW f,
         f = [i \in 1..Cardinality(S) |-> f[i]],
         \A i \in 1..Cardinality(S) :
           (\E s \in S : Cardinality(Above(s, S, R)) = i - 1) =>
             f[i] \in S /\ Cardinality(Above(f[i], S, R)) = i - 1
  PROVE  /\ Lists(f, S, R)
         /\ \A i \in 1..Cardinality(S) : Cardinality(Above(f[i], S, R)) = i - 1
<1> DEFINE n == Cardinality(S)
           P(s) == Cardinality(Above(s, S, R))
           g == [s \in S |-> P(s)]
           N == 0..(n - 1)
<1>1. n \in Nat
  BY FS_CardinalityType
<1>2. ASSUME NEW s \in S PROVE IsFiniteSet(Above(s, S, R)) /\ P(s) \in N
  <2>1. Above(s, S, R) \in SUBSET (S \ {s})
    BY DEF Above, StrictOrder
  <2>2. IsFiniteSet(S \ {s}) /\ Cardinality(S \ {s}) = n - 1
    BY FS_RemoveElement
  <2>3. IsFiniteSet(Above(s, S, R)) /\ P(s) <= n - 1
    BY <2>1, <2>2, FS_Subset
  <2>4. P(s) \in Nat
    BY <2>3, FS_CardinalityType
  <2> QED
    BY <1>1, <2>3, <2>4
<1>3. ASSUME NEW s \in S, NEW t \in S, <<s, t>> \in R PROVE P(s) < P(t)
  <2>1. Above(s, S, R) \cup {s} \in SUBSET Above(t, S, R)
    BY <1>3 DEF Above, StrictOrder
  <2>2. s \notin Above(s, S, R)
    BY DEF Above, StrictOrder
  <2>3. Cardinality(Above(s, S, R) \cup {s}) = P(s) + 1
    BY <1>2, <2>2, FS_AddElement
  <2>4. P(s) + 1 <= P(t)
    BY <1>2, <2>1, <2>3, FS_Subset
  <2>5. P(s) \in N /\ P(t) \in N
    BY <1>2
  <2> QED
    BY <1>1, <2>4, <2>5
<1>4. ASSUME NEW s \in S, NEW t \in S, P(s) = P(t) PROVE s = t
  <2>1. P(s) \in Int /\ P(t) \in Int
    BY <1>1, <1>2
  <2>2. ~(P(s) < P(t)) /\ ~(P(t) < P(s))
    BY <1>4, <2>1
  <2> QED
    BY <1>3, <2>2 DEF StrictOrder
<1> HIDE DEF P
<1>5. IsFiniteSet(N) /\ Cardinality(N) = n
  <2> HIDE DEF n
  <2> QED
    BY <1>1, CountTo
<1>6. g \in Injection(S, N)
  <2>1. g \in [S -> N]
    BY <1>2
  <2>2. \A s, t \in S : g[s] = g[t] => s = t
    BY <1>4
  <2> QED
    BY <2>1, <2>2 DEF Injection, IsInjective
<1>7. g \in Surjection(S, N)
  <2> HIDE DEF g, N
  <2> QED
    BY <1>5, <1>6, FS_Injection DEF n
<1>8. ASSUME NEW i \in 1..n PROVE \E s \in S : P(s) = i - 1
  <2>1. i - 1 \in N
    BY <1>1
  <2> QED
    BY <1>7, <2>1 DEF Surjection
<1>9. ASSUME NEW i \in 1..n PROVE f[i] \in S /\ P(f[i]) = i - 1
  BY <1>8 DEF P
<1>10. f \in [1..n -> S]
  BY <1>9
<1>11. ASSUME NEW s \in S PROVE \E i \in 1..n : f[i] = s
  <2>1. P(s) + 1 \in 1..n /\ (P(s) + 1) - 1 = P(s)
    BY <1>1, <1>2
  <2>2. f[P(s) + 1] \in S /\ P(f[P(s) + 1]) = P(s)
    BY <1>9, <2>1
  <2>3. f[P(s) + 1] = s
    BY <1>4, <2>2
  <2> QED
    BY <2>1, <2>3
<1>12. ASSUME NEW i \in 1..n, NEW j \in 1..n, i < j PROVE <<f[i], f[j]>> \in R
  <2>1. f[i] \in S /\ P(f[i]) = i - 1 /\ f[j] \in S /\ P(f[j]) = j - 1
    BY <1>9
  <2>2. ~(P(f[j]) < P(f[i])) /\ P(f[i]) # P(f[j])
    BY <1>1, <1>12, <2>1
  <2>3. f[i] # f[j] /\ <<f[j], f[i]>> \notin R
    BY <1>3, <2>1, <2>2
  <2> QED
    BY <2>1, <2>3 DEF StrictOrder
<1> QED
  BY <1>1, <1>9, <1>10, <1>11, <1>12 DEF Lists, P

(* Every place is taken, and by one member only. *)
LEMMA Places ==
  ASSUME NEW S, IsFiniteSet(S), NEW R, StrictOrder(S, R)
  PROVE  /\ Cardinality(S) \in Nat
         /\ \A i \in 1..Cardinality(S) : \E s \in S : Cardinality(Above(s, S, R)) = i - 1
         /\ \A s, t \in S : Cardinality(Above(s, S, R)) = Cardinality(Above(t, S, R)) => s = t
<1> DEFINE n == Cardinality(S)
           P(i, s) == Cardinality(Above(s, S, R)) = i - 1
           f == [i \in 1..n |-> CHOOSE s \in S : P(i, s)]
<1>1. f = [i \in 1..n |-> f[i]]
  OBVIOUS
<1>2. ASSUME NEW i \in 1..n, NEW s \in S, P(i, s) PROVE f[i] \in S /\ P(i, f[i])
  <2>1. f[i] = CHOOSE t \in S : P(i, t)
    OBVIOUS
  <2> HIDE DEF f, P
  <2> QED
    BY <1>2, <2>1
<1> HIDE DEF f
<1>3. /\ Lists(f, S, R)
      /\ \A i \in 1..n : Cardinality(Above(f[i], S, R)) = i - 1
  <2>1. \A i \in 1..n :
          (\E s \in S : Cardinality(Above(s, S, R)) = i - 1) =>
            f[i] \in S /\ Cardinality(Above(f[i], S, R)) = i - 1
    BY <1>2
  <2> QED
    BY <1>1, <2>1, Sorting, Zenon
<1>4. n \in Nat /\ (\A i \in 1..n : f[i] \in S) /\ \A s \in S : \E i \in 1..n : f[i] = s
  BY <1>3 DEF Lists
<1>5. ASSUME NEW s \in S, NEW t \in S, Cardinality(Above(s, S, R)) = Cardinality(Above(t, S, R))
      PROVE  s = t
  <2>1. PICK i \in 1..n : f[i] = s
    BY <1>4
  <2>2. PICK j \in 1..n : f[j] = t
    BY <1>4
  <2>3. i - 1 = j - 1
    BY <1>3, <1>5, <2>1, <2>2
  <2> QED
    BY <1>4, <2>1, <2>2, <2>3
<1> QED
  BY <1>3, <1>4, <1>5
=============================================================================
