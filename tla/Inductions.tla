----------------------------- MODULE Inductions -----------------------------
(***************************************************************************)
(* Induction and recursion over the numbers, stated with sets and          *)
(* functions in the place of operators, so that first-order provers can    *)
(* use them: a property is the set of numbers that have it, a step of a    *)
(* recursion is a function.                                                *)
(***************************************************************************)
EXTENDS Integers, Sequences, FiniteSets, SequencesExt, FiniteSetsExt, FiniteSetTheorems,
        WellFoundedInduction, TLAPS

(* Every set of numbers that is not empty has a least one.                  *)
LEMMA LeastNumber ==
  ASSUME NEW S \in SUBSET Nat, S # {}
  PROVE  \E m \in S : \A k \in S : m <= k
<1> DEFINE R == OpToRel(<, Nat)
<1>1. IsWellFoundedOn(R, Nat)
  BY NatLessThanWellFounded
<1>2. \A x, y \in Nat : x < y => <<x, y>> \in R
  BY DEF OpToRel
<1> HIDE DEF R
<1>3. PICK x \in S : \A y \in S : <<y, x>> \notin R
  BY <1>1, WFMin
<1>4. \A y \in S : ~(y < x)
  BY <1>2, <1>3
<1>5. QED BY <1>4

(* Induction, for a property given as the set of numbers that have it.      *)
LEMMA SetInduction ==
  ASSUME NEW S, 0 \in S, \A n \in Nat : n \in S => n + 1 \in S
  PROVE  Nat \subseteq S
<1> SUFFICES ASSUME Nat \ S # {} PROVE FALSE
  OBVIOUS
<1>1. PICK m \in Nat \ S : \A k \in Nat \ S : m <= k
  BY LeastNumber
<1>2. m - 1 \in Nat /\ m - 1 \in S
  BY <1>1
<1>3. QED BY <1>1, <1>2

(* f is the function on 0..n whose first value is c and whose each other    *)
(* value F computes from the one before and its place.                      *)
Iterates(f, c, n, F) == f[0] = c /\ \A i \in 1 .. n : f[i] = F[<<f[i - 1], i>>]

(* A step function with values in a set has such a function.                *)
LEMMA Recursion ==
  ASSUME NEW X, NEW c \in X, NEW n \in Nat, NEW F \in [X \X (1 .. n) -> X]
  PROVE  \E f \in [0 .. n -> X] : Iterates(f, c, n, F)
<1> DEFINE Upto(f, m) == f[0] = c /\ \A i \in 1 .. m : f[i] = F[<<f[i - 1], i>>]
           S == {m \in Nat : m <= n => \E f \in [0 .. m -> X] : Upto(f, m)}
<1>1. 0 \in S
  <2>1. [i \in 0 .. 0 |-> c] \in [0 .. 0 -> X] /\ Upto([i \in 0 .. 0 |-> c], 0)
    OBVIOUS
  <2>2. QED BY <2>1
<1>2. ASSUME NEW m \in Nat, m \in S
      PROVE  m + 1 \in S
  <2>1. SUFFICES ASSUME m + 1 <= n
                 PROVE  \E f \in [0 .. m + 1 -> X] : Upto(f, m + 1)
    OBVIOUS
  <2>2. PICK f \in [0 .. m -> X] : Upto(f, m)
    BY <1>2, <2>1
  <2> DEFINE g == [i \in 0 .. m + 1 |-> IF i = m + 1 THEN F[<<f[m], m + 1>>] ELSE f[i]]
  <2>3. f[m] \in X /\ F[<<f[m], m + 1>>] \in X
    BY <2>1
  <2>4. g \in [0 .. m + 1 -> X]
    BY <2>3
  <2>5. g[0] = c
    <3>1. 0 \in 0 .. m + 1 /\ 0 # m + 1
      BY <1>2
    <3>2. QED BY <2>2, <3>1
  <2>6. ASSUME NEW i \in 1 .. m + 1
        PROVE  g[i] = F[<<g[i - 1], i>>]
    <3>1. i \in 0 .. m + 1 /\ i - 1 \in 0 .. m + 1 /\ i - 1 # m + 1 /\ g[i - 1] = f[i - 1]
      BY <1>2
    <3>2. CASE i = m + 1
      BY <3>1, <3>2
    <3>3. CASE i # m + 1
      <4>1. i \in 1 .. m /\ g[i] = f[i]
        BY <3>1, <3>3
      <4>2. QED BY <2>2, <3>1, <4>1
    <3>4. QED BY <3>2, <3>3
  <2>7. QED BY <2>4, <2>5, <2>6
<1> HIDE DEF S
<1>3. n \in S
  BY <1>1, <1>2, SetInduction
<1>4. QED BY <1>3 DEF S, Iterates

----------------------------------------------------------------------------
(* Counting, and places in an order.                                        *)

(* The first n numbers.                                                     *)
LEMMA FirstNumbers ==
  ASSUME NEW n \in Nat
  PROVE  IsFiniteSet(1 .. n) /\ Cardinality(1 .. n) = n
<1>1. 1 \in Int /\ n \in Int
  OBVIOUS
<1>2. IsFiniteSet(1 .. n) /\ Cardinality(1 .. n) = IF 1 > n THEN 0 ELSE n - 1 + 1
  BY <1>1, FS_Interval, Zenon
<1>3. (IF 1 > n THEN 0 ELSE n - 1 + 1) = n
  OBVIOUS
<1>4. QED BY <1>2, <1>3

(* R puts the elements of S in a row.                                       *)
Preceding(R, S, x) == {y \in S : <<y, x>> \in R}
Rows(R, S) ==
  /\ \A x \in S : <<x, x>> \notin R
  /\ \A x, y, z \in S : <<x, y>> \in R /\ <<y, z>> \in R => <<x, z>> \in R
  /\ \A x, y \in S : x = y \/ <<x, y>> \in R \/ <<y, x>> \in R

(* Then every number of elements is that of those before one of them, and   *)
(* who is later has more before it.                                         *)
LEMMA RankFacts ==
  ASSUME NEW S, IsFiniteSet(S), NEW R, Rows(R, S)
  PROVE  /\ \A k \in 1 .. Cardinality(S) : \E x \in S : Cardinality(Preceding(R, S, x)) = k - 1
         /\ \A x \in S : Cardinality(Preceding(R, S, x)) \in 0 .. Cardinality(S) - 1
         /\ \A x, y \in S : <<x, y>> \in R =>
              Cardinality(Preceding(R, S, x)) < Cardinality(Preceding(R, S, y))
<1> DEFINE n == Cardinality(S)
           r == [x \in S |-> Cardinality(Preceding(R, S, x)) + 1]
<1>1. n \in Nat
  BY FS_CardinalityType
<1>2. ASSUME NEW x \in S
      PROVE  /\ IsFiniteSet(Preceding(R, S, x))
             /\ Cardinality(Preceding(R, S, x)) \in 0 .. n - 1
  <2>1. Preceding(R, S, x) \in SUBSET S /\ Preceding(R, S, x) # S
    BY DEF Preceding, Rows
  <2>2. /\ IsFiniteSet(Preceding(R, S, x)) /\ Cardinality(Preceding(R, S, x)) <= n
        /\ Cardinality(Preceding(R, S, x)) # n
    BY <2>1, FS_Subset
  <2>3. Cardinality(Preceding(R, S, x)) \in Nat
    BY <2>2, FS_CardinalityType
  <2> HIDE DEF n
  <2>4. QED BY <1>1, <2>2, <2>3
<1>3. ASSUME NEW x \in S, NEW y \in S, <<x, y>> \in R
      PROVE  Cardinality(Preceding(R, S, x)) < Cardinality(Preceding(R, S, y))
  <2>1. Preceding(R, S, x) \in SUBSET Preceding(R, S, y) /\ Preceding(R, S, x) # Preceding(R, S, y)
    BY <1>3 DEF Preceding, Rows
  <2>2. /\ Cardinality(Preceding(R, S, x)) <= Cardinality(Preceding(R, S, y))
        /\ Cardinality(Preceding(R, S, x)) # Cardinality(Preceding(R, S, y))
    BY <1>2, <2>1, FS_Subset
  <2>3. Cardinality(Preceding(R, S, x)) \in Int /\ Cardinality(Preceding(R, S, y)) \in Int
    BY <1>2
  <2>4. QED BY <2>2, <2>3
<1>4. r \in Injection(S, 1 .. n)
  <2>1. r \in [S -> 1 .. n]
    <3>1. \A x \in S : Cardinality(Preceding(R, S, x)) + 1 \in 1 .. n
      <4> HIDE DEF n
      <4>1. QED BY <1>1, <1>2
    <3>2. QED BY <3>1
  <2>2. ASSUME NEW x \in S, NEW y \in S, r[x] = r[y] PROVE x = y
    <3>1. Cardinality(Preceding(R, S, x)) = Cardinality(Preceding(R, S, y))
      BY <1>2, <2>2
    <3>2. <<x, y>> \notin R /\ <<y, x>> \notin R
      BY <1>2, <1>3, <3>1
    <3>3. QED BY <3>2 DEF Rows
  <2>3. QED BY <2>1, <2>2 DEF Injection, IsInjective
<1>5. IsFiniteSet(1 .. n) /\ Cardinality(1 .. n) = n
  <2> HIDE DEF n
  <2>1. 0 + 1 \in Int /\ n \in Int /\ 1 \in Int
    BY <1>1
  <2>2. IsFiniteSet(1 .. n) /\ Cardinality(1 .. n) = n
    BY <1>1, FirstNumbers
  <2>3. QED BY <1>1, <2>2
<1>6. r \in Surjection(S, 1 .. n)
  BY <1>4, <1>5, FS_Injection
<1>7. ASSUME NEW k \in 1 .. n PROVE \E x \in S : Cardinality(Preceding(R, S, x)) = k - 1
  <2>1. PICK x \in S : r[x] = k
    BY <1>6 DEF Surjection
  <2>2. Cardinality(Preceding(R, S, x)) \in Int /\ k \in Int
    BY <1>2
  <2>3. QED BY <2>1, <2>2
<1>8. QED BY <1>2, <1>3, <1>7

(* s lists each element of S once.                                          *)
Enumerates(s, S) ==
  /\ s \in [1 .. Cardinality(S) -> S] /\ s \in Seq(S) /\ Len(s) = Cardinality(S)
  /\ \A i, j \in 1 .. Cardinality(S) : i # j => s[i] # s[j]
  /\ \A x \in S : \E i \in 1 .. Cardinality(S) : s[i] = x

(* Who is chosen by rank is a list of S in its order.                       *)
LEMMA RankedLists ==
  ASSUME NEW S, IsFiniteSet(S), NEW R, Rows(R, S), NEW s,
         DOMAIN s = 1 .. Cardinality(S), s = [k \in DOMAIN s |-> s[k]],
         \A k \in 1 .. Cardinality(S) : s[k] \in S /\ Cardinality(Preceding(R, S, s[k])) = k - 1
  PROVE  /\ Enumerates(s, S)
         /\ \A i, j \in 1 .. Cardinality(S) : i < j => <<s[i], s[j]>> \in R
<1>1. Cardinality(S) \in Nat
  BY FS_CardinalityType
<1>2. s \in [1 .. Cardinality(S) -> S]
  OBVIOUS
<1>3. s \in Seq(S) /\ Len(s) = Cardinality(S)
  BY <1>1, <1>2
<1>4. ASSUME NEW i \in 1 .. Cardinality(S), NEW j \in 1 .. Cardinality(S), i < j
      PROVE  s[i] # s[j] /\ <<s[i], s[j]>> \in R
  <2>1. Cardinality(Preceding(R, S, s[i])) = i - 1 /\ Cardinality(Preceding(R, S, s[j])) = j - 1
    OBVIOUS
  <2>2. i \in Int /\ j \in Int
    OBVIOUS
  <2>3. s[i] # s[j]
    BY <1>4, <2>1, <2>2
  <2>4. <<s[j], s[i]>> \in R => j - 1 < i - 1
    BY <2>1, RankFacts
  <2>5. QED BY <1>4, <2>2, <2>3, <2>4 DEF Rows
<1>5. ASSUME NEW i \in 1 .. Cardinality(S), NEW j \in 1 .. Cardinality(S), i # j
      PROVE  s[i] # s[j]
  <2>1. i < j \/ j < i
    BY <1>5
  <2>2. QED BY <1>4, <2>1
<1>6. ASSUME NEW x \in S PROVE \E i \in 1 .. Cardinality(S) : s[i] = x
  <2>1. Cardinality(Preceding(R, S, x)) \in 0 .. Cardinality(S) - 1
    BY RankFacts
  <2> DEFINE k == Cardinality(Preceding(R, S, x)) + 1
  <2>2. k \in 1 .. Cardinality(S) /\ k - 1 = Cardinality(Preceding(R, S, x))
    BY <1>1, <2>1
  <2>3. s[k] \in S /\ Cardinality(Preceding(R, S, s[k])) = Cardinality(Preceding(R, S, x))
    BY <2>2
  <2>4. Cardinality(Preceding(R, S, x)) \in Int
    BY <2>1
  <2>5. <<s[k], x>> \notin R /\ <<x, s[k]>> \notin R
    BY <2>3, <2>4, RankFacts
  <2>6. s[k] = x
    BY <2>3, <2>5 DEF Rows
  <2>7. QED BY <2>2, <2>6
<1>7. QED BY <1>2, <1>3, <1>4, <1>5, <1>6 DEF Enumerates

----------------------------------------------------------------------------
(* Sequences put one after the other.                                       *)

(* Two sequences put one after the other.                                   *)
LEMMA ConcatFacts ==
  ASSUME NEW T, NEW u \in Seq(T), NEW v \in Seq(T)
  PROVE  /\ u \o v \in Seq(T) /\ Len(u \o v) = Len(u) + Len(v)
         /\ Len(u) \in Nat /\ Len(v) \in Nat
         /\ \A i \in 1 .. Len(u) : (u \o v)[i] = u[i] /\ i \in 1 .. Len(u) + Len(v)
         /\ \A i \in 1 .. Len(v) :
              (u \o v)[Len(u) + i] = v[i] /\ Len(u) + i \in 1 .. Len(u) + Len(v)
OBVIOUS

(* f adds the sequences of q up from the first one.                         *)
IsFlat(f, q) == f = [i \in 1 .. Len(q) |-> IF i = 1 THEN q[i] ELSE f[i - 1] \o q[i]]

(* The flattened sequence is the last value of such a function.             *)
LEMMA FlattenIs ==
  ASSUME NEW q
  PROVE  FlattenSeq(q) = IF Len(q) = 0 THEN q ELSE (CHOOSE f : IsFlat(f, q))[Len(q)]
BY DEF FlattenSeq, IsFlat

(* There is one.                                                            *)
LEMMA FlatExists ==
  ASSUME NEW T, NEW q \in Seq(Seq(T))
  PROVE  \E f : IsFlat(f, q)
<1> DEFINE n == Len(q)
           X == Seq(T)
           F == [p \in X \X (1 .. n) |-> p[1] \o q[p[2]]]
<1>1. n \in Nat /\ \A i \in 1 .. n : q[i] \in X
  OBVIOUS
<1>2. F \in [X \X (1 .. n) -> X]
  BY <1>1
<1>3. \A a \in X : \A i \in 1 .. n : F[<<a, i>>] = a \o q[i]
  OBVIOUS
<1>4. <<>> \in X
  OBVIOUS
<1> HIDE DEF F, X
<1>5. PICK f \in [0 .. n -> X] : Iterates(f, <<>>, n, F)
  BY <1>1, <1>2, <1>4, Recursion
<1> DEFINE g == [i \in 1 .. n |-> f[i]]
<1>6. ASSUME NEW i \in 1 .. n PROVE g[i] = IF i = 1 THEN q[i] ELSE g[i - 1] \o q[i]
  <2>1. f[i] = F[<<f[i - 1], i>>] /\ i - 1 \in 0 .. n
    <3>1. f[i] = F[<<f[i - 1], i>>]
      BY <1>5 DEF Iterates
    <3>2. QED BY <1>1, <3>1
  <2>2. f[i] = f[i - 1] \o q[i]
    <3>1. f[i - 1] \in X
      BY <1>5, <2>1
    <3>2. QED BY <1>3, <2>1, <3>1, Zenon
  <2>3. CASE i = 1
    <3>1. f[i - 1] = <<>> /\ q[i] \in Seq(T)
      BY <1>1, <1>5, <2>3 DEF Iterates, X
    <3>2. <<>> \o q[i] = q[i]
      BY <3>1
    <3>3. QED BY <2>2, <2>3, <3>1, <3>2
  <2>4. CASE i # 1
    <3>1. i - 1 \in 1 .. n
      BY <1>1, <2>4
    <3>2. QED BY <2>2, <2>4, <3>1
  <2>5. QED BY <2>3, <2>4
<1>7. g = [i \in 1 .. n |-> IF i = 1 THEN q[i] ELSE g[i - 1] \o q[i]]
  BY <1>6
<1> HIDE DEF g
<1>8. QED BY <1>7 DEF IsFlat

(* s is the sequences of q in turn, the k-th behind its first start[k].     *)
Flattened(s, q, start, T) ==
  /\ s \in Seq(T) /\ start \in [1 .. Len(q) + 1 -> Nat]
  /\ start[1] = 0 /\ \A k \in 1 .. Len(q) : start[k + 1] = start[k] + Len(q[k])
  /\ Len(s) = start[Len(q) + 1]
  /\ \A k \in 1 .. Len(q) : \A t \in 1 .. Len(q[k]) : s[start[k] + t] = q[k][t]

(* That is what flattening does.                                            *)
LEMMA FlattenFacts ==
  ASSUME NEW T, NEW q \in Seq(Seq(T))
  PROVE  \E start : Flattened(FlattenSeq(q), q, start, T)
<1> DEFINE n == Len(q)
           h == CHOOSE f : IsFlat(f, q)
<1>1. n \in Nat /\ \A i \in 1 .. n : q[i] \in Seq(T) /\ Len(q[i]) \in Nat
  OBVIOUS
<1>2. CASE n = 0
  <2>1. FlattenSeq(q) = q /\ q = <<>>
    BY <1>2, FlattenIs
  <2>2. Flattened(<<>>, <<>>, [k \in 1 .. 1 |-> 0], T)
    BY DEF Flattened
  <2>3. QED BY <2>1, <2>2
<1>3. CASE n # 0
  <2>1. IsFlat(h, q)
    BY FlatExists
  <2> HIDE DEF h
  <2>2. h = [i \in 1 .. n |-> IF i = 1 THEN q[i] ELSE h[i - 1] \o q[i]]
    BY <2>1 DEF IsFlat
  <2>3. h[1] = q[1] /\ \A i \in 1 .. n : i # 1 => h[i] = h[i - 1] \o q[i]
    <3>1. 1 \in 1 .. n
      BY <1>1, <1>3
    <3>2. QED BY <2>2, <3>1
  <2> DEFINE start == [k \in 1 .. n + 1 |-> IF k = 1 THEN 0 ELSE Len(h[k - 1])]
             Good(m) == /\ h[m] \in Seq(T) /\ start[m + 1] = start[m] + Len(q[m])
                        /\ Len(h[m]) = start[m + 1] /\ start[m] \in Nat
                        /\ \A k \in 1 .. m : \A t \in 1 .. Len(q[k]) :
                             start[k] + t \in 1 .. start[m + 1] /\ h[m][start[k] + t] = q[k][t]
             P == {m \in Nat : m + 1 <= n => Good(m + 1)}
  <2>4. start[1] = 0 /\ \A m \in 1 .. n : start[m + 1] = Len(h[m])
    <3>1. 1 \in 1 .. n + 1 /\ \A m \in 1 .. n : m + 1 \in 1 .. n + 1 /\ m + 1 # 1 /\ m + 1 - 1 = m
      BY <1>1
    <3>2. QED BY <3>1
  <2>5. DOMAIN start = 1 .. n + 1
    OBVIOUS
  <2> HIDE DEF start
  <2>6. 0 \in P
    <3>1. 1 \in 1 .. n /\ q[1] \in Seq(T) /\ Len(q[1]) \in Nat
      BY <1>1, <1>3
    <3>2. h[1] \in Seq(T) /\ start[1 + 1] = Len(q[1]) /\ Len(h[1]) = Len(q[1]) /\ start[1] = 0
      BY <2>3, <2>4, <3>1
    <3>3. ASSUME NEW k \in 1 .. 1, NEW t \in 1 .. Len(q[k])
          PROVE  start[k] + t \in 1 .. start[1 + 1] /\ h[1][start[k] + t] = q[k][t]
      <4>1. k = 1 /\ start[k] + t = t
        BY <3>1, <3>2
      <4>2. QED BY <2>3, <3>2, <4>1
    <3>4. Good(1)
      BY <3>1, <3>2, <3>3
    <3> HIDE DEF Good
    <3>5. 0 + 1 = 1
      OBVIOUS
    <3>6. QED BY <3>4, <3>5
  <2>7. ASSUME NEW a \in 1 .. n, NEW b \in 1 .. n, b = a + 1, Good(a) PROVE Good(b)
    <3>1. b # 1 /\ b - 1 = a /\ a \in Nat
      BY <2>7
    <3>2. h[b] = h[a] \o q[b] /\ q[b] \in Seq(T) /\ Len(q[b]) \in Nat
      BY <1>1, <2>3, <3>1
    <3>3. h[a] \in Seq(T) /\ Len(h[a]) = start[b] /\ start[b] \in Nat
      <4>1. start[a + 1] \in Nat
        BY <2>7, <1>1
      <4>2. QED BY <2>7, <4>1
    <3> DEFINE u == h[a]
               v == q[b]
    <3> HIDE DEF u, v
    <3>a. u \in Seq(T) /\ v \in Seq(T) /\ Len(u) = start[b] /\ h[b] = u \o v
      BY <3>2, <3>3 DEF u, v
    <3>b. /\ u \o v \in Seq(T) /\ Len(u \o v) = start[b] + Len(v)
          /\ \A i \in 1 .. start[b] : (u \o v)[i] = u[i] /\ i \in 1 .. start[b] + Len(v)
          /\ \A i \in 1 .. Len(v) :
               (u \o v)[start[b] + i] = v[i] /\ start[b] + i \in 1 .. start[b] + Len(v)
      <4>1. u \in Seq(T) /\ v \in Seq(T)
        BY <3>a
      <4>2. /\ u \o v \in Seq(T) /\ Len(u \o v) = Len(u) + Len(v)
            /\ \A i \in 1 .. Len(u) : (u \o v)[i] = u[i] /\ i \in 1 .. Len(u) + Len(v)
            /\ \A i \in 1 .. Len(v) :
                 (u \o v)[Len(u) + i] = v[i] /\ Len(u) + i \in 1 .. Len(u) + Len(v)
        BY <4>1, ConcatFacts
      <4>3. Len(u) = start[b]
        BY <3>a
      <4>4. QED BY <4>2, <4>3, Zenon
    <3>4. h[b] \in Seq(T) /\ Len(h[b]) = start[b] + Len(q[b])
      BY <3>a, <3>b, Zenon DEF v
    <3>5. start[b + 1] = Len(h[b])
      BY <2>4
    <3>6. ASSUME NEW k \in 1 .. b, NEW t \in 1 .. Len(q[k])
          PROVE  start[k] + t \in 1 .. start[b] + Len(q[b]) /\ h[b][start[k] + t] = q[k][t]
      <4>1. CASE k = b
        BY <3>a, <3>b, <4>1, Zenon DEF v
      <4>2. CASE k # b
        <5>1. k \in 1 .. a
          BY <2>7, <3>1, <4>2
        <5>2. start[k] + t \in 1 .. start[b] /\ u[start[k] + t] = q[k][t]
          BY <2>7, <5>1 DEF u
        <5>3. QED BY <3>a, <3>b, <5>2, Zenon DEF v
      <4>3. QED BY <4>1, <4>2
    <3>7. start[b + 1] = start[b] + Len(q[b])
      BY <3>4, <3>5
    <3>8. \A k \in 1 .. b : \A t \in 1 .. Len(q[k]) :
            start[k] + t \in 1 .. start[b + 1] /\ h[b][start[k] + t] = q[k][t]
      BY <3>6, <3>7
    <3>9. QED BY <3>3, <3>4, <3>5, <3>7, <3>8
  <2>8. ASSUME NEW m \in 1 .. n PROVE Good(m)
    <3> HIDE DEF Good
    <3>1. ASSUME NEW x \in Nat, x \in P PROVE x + 1 \in P
      <4>1. SUFFICES ASSUME x + 1 + 1 <= n PROVE Good(x + 1 + 1)
        OBVIOUS
      <4>2. x + 1 \in 1 .. n /\ x + 1 + 1 \in 1 .. n /\ x + 1 <= n
        BY <1>1, <4>1
      <4>3. Good(x + 1)
        BY <3>1, <4>2
      <4> HIDE DEF P
      <4>4. QED BY <2>7, <4>2, <4>3
    <3>2. Nat \subseteq P
      <4> HIDE DEF P
      <4>1. QED BY <2>6, <3>1, SetInduction
    <3>3. m - 1 \in Nat /\ m - 1 + 1 = m /\ m <= n
      BY <1>1
    <3>4. m - 1 + 1 <= n => Good(m - 1 + 1)
      BY <3>2, <3>3
    <3>5. QED BY <3>3, <3>4
  <2>9. FlattenSeq(q) = h[n]
    BY <1>3, FlattenIs DEF h
  <2>10. n \in 1 .. n
    BY <1>1, <1>3
  <2>11. start \in [1 .. n + 1 -> Nat]
    <3>1. ASSUME NEW k \in 1 .. n + 1 PROVE start[k] \in Nat
      <4>1. CASE k = n + 1
        <5>1. start[n + 1] = Len(h[n]) /\ h[n] \in Seq(T)
          BY <2>4, <2>8, <2>10
        <5>2. QED BY <4>1, <5>1
      <4>2. CASE k # n + 1
        <5>1. k \in 1 .. n
          BY <1>1, <4>2
        <5>2. QED BY <2>8, <5>1
      <4>3. QED BY <4>1, <4>2
    <3>2. start = [k \in 1 .. n + 1 |-> start[k]]
      BY DEF start
    <3>3. QED BY <3>1, <3>2
  <2>12. Flattened(h[n], q, start, T)
    <3>1. h[n] \in Seq(T) /\ Len(h[n]) = start[n + 1]
      BY <2>8, <2>10
    <3>2. \A k \in 1 .. n : start[k + 1] = start[k] + Len(q[k])
      BY <2>8
    <3>3. \A k \in 1 .. n : \A t \in 1 .. Len(q[k]) : h[n][start[k] + t] = q[k][t]
      BY <2>8, <2>10
    <3>4. QED BY <2>4, <2>11, <3>1, <3>2, <3>3 DEF Flattened
  <2>13. QED BY <2>9, <2>12
<1>4. QED BY <1>2, <1>3

----------------------------------------------------------------------------
(* Folds.                                                                   *)

(* The highest of the first places.                                         *)
LEMMA HighestOfFirst ==
  ASSUME NEW n \in Nat
  PROVE  /\ Max(1 .. n + 1) = n + 1
         /\ \A S \in SUBSET (1 .. n + 1) : n + 1 \in S => Max(S) = n + 1
         /\ \A S \in SUBSET (1 .. n) : S # {} => Max(S) \in S
<1>1. \A S \in SUBSET (1 .. n + 1) : n + 1 \in S => Max(S) = n + 1
  <2>1. SUFFICES ASSUME NEW S \in SUBSET (1 .. n + 1), n + 1 \in S PROVE Max(S) = n + 1
    OBVIOUS
  <2>2. n + 1 \in S /\ \A y \in S : n + 1 >= y
    BY <2>1
  <2>3. Max(S) \in S /\ \A y \in S : Max(S) >= y
    BY <2>2 DEF Max
  <2>4. Max(S) \in 1 .. n + 1 /\ Max(S) >= n + 1
    BY <2>1, <2>3
  <2>5. QED BY <2>4
<1>2. ASSUME NEW S \in SUBSET (1 .. n), S # {}
      PROVE  Max(S) \in S
  <2>1. IsFiniteSet(1 .. n)
    BY FirstNumbers
  <2> DEFINE R == {n - x : x \in S}
  <2>6. \A m \in Nat : \A z \in 1 .. m : z \in Nat /\ m - z \in Nat
    OBVIOUS
  <2>7. \A z \in S : z \in Nat /\ n - z \in Nat
    BY <1>2, <2>6, Zenon
  <2>2. R \in SUBSET Nat /\ R # {}
    BY <1>2, <2>7, Zenon
  <2>3. PICK m \in R : \A k \in R : m <= k
    BY <2>2, LeastNumber
  <2>4. PICK x \in S : m = n - x
    BY <2>3
  <2>5. \A y \in S : x >= y
    <3>1. SUFFICES ASSUME NEW y \in S PROVE x >= y
      OBVIOUS
    <3>2. n - x <= n - y
      BY <2>3, <2>4
    <3>3. x \in Nat /\ y \in Nat
      BY <2>7, Zenon
    <3>4. QED BY <3>2, <3>3
  <2>8. QED BY <2>5 DEF Max
<1>3. n + 1 \in 1 .. n + 1
  OBVIOUS
<1>4. QED BY <1>1, <1>2, <1>3

(* The values of a function on a finite set.                                *)
LEMMA FiniteRange ==
  ASSUME NEW f, IsFiniteSet(DOMAIN f), f = [x \in DOMAIN f |-> f[x]]
  PROVE  IsFiniteSet({f[x] : x \in DOMAIN f})
<1> DEFINE T == {f[x] : x \in DOMAIN f}
<1>1. f \in Surjection(DOMAIN f, T)
  BY DEF Surjection
<1>2. QED BY <1>1, FS_Surjection

(* f folds n places with the steps of F, the highest place last: a function *)
(* of sets of places, as the community modules fold.                        *)
Unfolds(f, c, n, F) ==
  f = [S \in SUBSET (1 .. n) |-> IF S = {} THEN c ELSE F[<<f[S \ {Max(S)}], Max(S)>>]]

(* A step function with values in a set has such a function.                *)
LEMMA FoldMade ==
  ASSUME NEW X, NEW c \in X, NEW n \in Nat, NEW F \in [X \X (1 .. n) -> X]
  PROVE  \E f \in [SUBSET (1 .. n) -> X] : Unfolds(f, c, n, F)
<1> DEFINE D(f, S) == IF S = {} THEN c ELSE F[<<f[S \ {Max(S)}], Max(S)>>]
           Has(m) == \E f \in [SUBSET (1 .. m) -> X] : Unfolds(f, c, m, F)
           T == {m \in Nat : m <= n => Has(m)}
<1>1. 0 \in T
  <2>1. SUBSET (1 .. 0) = {{}}
    OBVIOUS
  <2>2. [S \in SUBSET (1 .. 0) |-> c]
          = [S \in SUBSET (1 .. 0) |-> D([Z \in SUBSET (1 .. 0) |-> c], S)]
    BY <2>1
  <2>3. Unfolds([S \in SUBSET (1 .. 0) |-> c], c, 0, F)
    BY <2>2 DEF Unfolds
  <2>4. [S \in SUBSET (1 .. 0) |-> c] \in [SUBSET (1 .. 0) -> X]
    OBVIOUS
  <2>5. Has(0)
    BY <2>3, <2>4
  <2> HIDE DEF Has
  <2>6. QED BY <2>5
<1>2. ASSUME NEW m \in Nat, m \in T PROVE m + 1 \in T
  <2>1. SUFFICES ASSUME m + 1 <= n, Has(m) PROVE Has(m + 1)
    <3> HIDE DEF Has
    <3>1. QED BY <1>2
  <2>2. PICK f \in [SUBSET (1 .. m) -> X] : Unfolds(f, c, m, F)
    BY <2>1
  <2> DEFINE g == [S \in SUBSET (1 .. m + 1) |->
                     IF m + 1 \in S THEN F[<<f[S \ {m + 1}], m + 1>>] ELSE f[S]]
  <2>3. f = [S \in SUBSET (1 .. m) |-> D(f, S)]
    BY <2>2 DEF Unfolds
  <2>4. \A S \in SUBSET (1 .. m + 1) : S \ {m + 1} \in SUBSET (1 .. m)
    <3>1. 1 .. m + 1 = (1 .. m) \cup {m + 1}
      OBVIOUS
    <3>2. QED BY <3>1
  <2>5. m + 1 \notin 1 .. m /\ 1 .. m \subseteq 1 .. m + 1 /\ m + 1 \in 1 .. n
    BY <2>1
  <2>6. ASSUME NEW S \in SUBSET (1 .. m + 1) PROVE g[S] = D(g, S) /\ g[S] \in X
    <3>1. CASE m + 1 \in S
      <4>1. Max(S) = m + 1 /\ S # {}
        BY <3>1, HighestOfFirst
      <4>2. S \ {m + 1} \in SUBSET (1 .. m + 1) /\ m + 1 \notin S \ {m + 1}
        OBVIOUS
      <4>3. g[S \ {m + 1}] = f[S \ {m + 1}]
        BY <4>2
      <4>4. g[S] = F[<<f[S \ {m + 1}], m + 1>>]
        BY <3>1
      <4>5. F[<<f[S \ {m + 1}], m + 1>>] \in X
        BY <2>4, <2>5
      <4> HIDE DEF g
      <4>6. QED BY <4>1, <4>3, <4>4, <4>5
    <3>2. CASE m + 1 \notin S
      <4>1. S \in SUBSET (1 .. m) /\ g[S] = f[S] /\ f[S] \in X
        <5>1. S \ {m + 1} = S
          BY <3>2
        <5>2. QED BY <2>4, <3>2, <5>1
      <4>2. f[S] = D(f, S)
        BY <2>3, <4>1
      <4>3. CASE S = {}
        BY <4>1, <4>2, <4>3
      <4>4. CASE S # {}
        <5>1. Max(S) \in S
          BY <4>1, <4>4, HighestOfFirst
        <5>2. S \ {Max(S)} \in SUBSET (1 .. m + 1) /\ m + 1 \notin S \ {Max(S)}
          BY <3>2
        <5>3. g[S \ {Max(S)}] = f[S \ {Max(S)}]
          BY <5>2
        <5> HIDE DEF g
        <5>4. QED BY <4>1, <4>2, <4>4, <5>3
      <4>5. QED BY <4>3, <4>4
    <3>3. QED BY <3>1, <3>2
  <2>7. g = [S \in SUBSET (1 .. m + 1) |-> g[S]] /\ g \in [SUBSET (1 .. m + 1) -> X]
    <3>1. g = [S \in SUBSET (1 .. m + 1) |-> g[S]]
      OBVIOUS
    <3> HIDE DEF g
    <3>2. QED BY <2>6, <3>1
  <2> HIDE DEF g
  <2>8. Unfolds(g, c, m + 1, F)
    BY <2>6, <2>7 DEF Unfolds
  <2>9. QED BY <2>7, <2>8
<1> HIDE DEF T
<1>3. n \in T
  BY <1>1, <1>2, SetInduction
<1>4. Has(n)
  <2> HIDE DEF Has
  <2>1. QED BY <1>3 DEF T
<1>5. QED BY <1>4

(* A fold that starts in a set and does not leave it ends in it.            *)
Keeps(f, n, X) ==
  /\ f[{}] \in X
  /\ \A S \in SUBSET (1 .. n) : S # {} /\ f[S \ {Max(S)}] \in X => f[S] \in X

(* The fold that keeps to a set ends in it.                                 *)
LEMMA FoldStays ==
  ASSUME NEW n \in Nat, NEW X, NEW f, Keeps(f, n, X)
  PROVE  f[1 .. n] \in X
<1> DEFINE T == {m \in Nat : m <= n => f[1 .. m] \in X}
<1>1. 0 \in T
  <2>1. 1 .. 0 = {}
    OBVIOUS
  <2>2. QED BY <2>1 DEF Keeps
<1>2. ASSUME NEW m \in Nat, m \in T PROVE m + 1 \in T
  <2>1. SUFFICES ASSUME m + 1 <= n PROVE f[1 .. m + 1] \in X
    OBVIOUS
  <2>2. /\ 1 .. m + 1 \in SUBSET (1 .. n) /\ 1 .. m + 1 # {}
        /\ (1 .. m + 1) \ {m + 1} = 1 .. m
    <3>1. (1 .. m + 1) \ {m + 1} = 1 .. m /\ 1 \in 1 .. m + 1
      OBVIOUS
    <3>2. 1 .. m + 1 \in SUBSET (1 .. n)
      BY <2>1
    <3>3. QED BY <3>1, <3>2
  <2>3. Max(1 .. m + 1) = m + 1
    BY HighestOfFirst
  <2>4. f[1 .. m] \in X
    BY <1>2, <2>1
  <2>5. QED BY <2>2, <2>3, <2>4 DEF Keeps
<1> HIDE DEF T
<1>3. n \in T
  BY <1>1, <1>2, SetInduction
<1>4. QED BY <1>3 DEF T

(* A fold follows the steps of F as long as it is in a set, so it stays     *)
(* there.                                                                   *)
LEMMA FoldFollows ==
  ASSUME NEW X, NEW c \in X, NEW n \in Nat, NEW F \in [X \X (1 .. n) -> X], NEW g, g[{}] = c,
         \A S \in SUBSET (1 .. n) : S # {} /\ g[S \ {Max(S)}] \in X =>
           g[S] = F[<<g[S \ {Max(S)}], Max(S)>>]
  PROVE  g[1 .. n] \in X
<1>1. ASSUME NEW S \in SUBSET (1 .. n), S # {}, g[S \ {Max(S)}] \in X PROVE g[S] \in X
  <2>1. Max(S) \in 1 .. n
    BY <1>1, HighestOfFirst
  <2>2. g[S] = F[<<g[S \ {Max(S)}], Max(S)>>]
    BY <1>1
  <2>3. QED BY <1>1, <2>1, <2>2
<1>2. Keeps(g, n, X)
  BY <1>1 DEF Keeps
<1>3. QED BY <1>2, FoldStays

(* The highest place is one, and leaves places.                             *)
LEMMA HighestPlace ==
  ASSUME NEW n \in Nat, NEW S \in SUBSET (1 .. n), S # {}
  PROVE  Max(S) \in 1 .. n /\ S \ {Max(S)} \in SUBSET (1 .. n)
<1>1. Max(S) \in S
  BY HighestOfFirst
<1>2. QED BY <1>1

(* And where each step leads from one set into the next, it ends in the     *)
(* last of them.                                                            *)
LEMMA FoldReaches ==
  ASSUME NEW X, NEW c \in X, NEW n \in Nat, NEW F \in [X \X (1 .. n) -> X], NEW g, g[{}] = c,
         \A S \in SUBSET (1 .. n) : S # {} /\ g[S \ {Max(S)}] \in X =>
           g[S] = F[<<g[S \ {Max(S)}], Max(S)>>],
         NEW T \in [0 .. n -> SUBSET X], c \in T[0],
         \A i \in 1 .. n : \A x \in T[i - 1] : F[<<x, i>>] \in T[i]
  PROVE  g[1 .. n] \in T[n]
<1> DEFINE P == {m \in Nat : m <= n => g[1 .. m] \in T[m]}
<1>1. 0 \in P
  <2>1. 1 .. 0 = {}
    OBVIOUS
  <2>2. QED BY <2>1
<1>2. ASSUME NEW m \in Nat, m \in P PROVE m + 1 \in P
  <2>1. SUFFICES ASSUME m + 1 <= n PROVE g[1 .. m + 1] \in T[m + 1]
    OBVIOUS
  <2>2. m + 1 \in 1 .. n /\ m \in 0 .. n /\ (m + 1) - 1 = m
    BY <2>1
  <2>3. /\ 1 .. m + 1 \in SUBSET (1 .. n) /\ 1 .. m + 1 # {}
        /\ (1 .. m + 1) \ {m + 1} = 1 .. m
    <3>1. (1 .. m + 1) \ {m + 1} = 1 .. m /\ 1 \in 1 .. m + 1
      OBVIOUS
    <3>2. 1 .. m + 1 \in SUBSET (1 .. n)
      BY <2>1
    <3>3. QED BY <3>1, <3>2
  <2>4. Max(1 .. m + 1) = m + 1
    BY HighestOfFirst
  <2>5. g[1 .. m] \in T[m] /\ g[1 .. m] \in X
    <3>1. g[1 .. m] \in T[m]
      BY <1>2, <2>1
    <3>2. T[m] \in SUBSET X
      BY <2>2
    <3>3. QED BY <3>1, <3>2
  <2>6. g[1 .. m + 1] = F[<<g[1 .. m], m + 1>>]
    <3> DEFINE S == 1 .. m + 1
    <3>1. S \in SUBSET (1 .. n) /\ S # {} /\ Max(S) = m + 1 /\ S \ {m + 1} = 1 .. m
      BY <2>3, <2>4
    <3> HIDE DEF S
    <3>2. g[S] = F[<<g[S \ {Max(S)}], Max(S)>>]
      BY <2>5, <3>1
    <3>3. QED BY <3>1, <3>2 DEF S
  <2>7. F[<<g[1 .. m], m + 1>>] \in T[m + 1]
    BY <2>2, <2>5
  <2>8. QED BY <2>6, <2>7
<1> HIDE DEF P
<1>3. n \in P
  BY <1>1, <1>2, SetInduction
<1>4. QED BY <1>3 DEF P

(* The list of S in which everyone has the place his order gives him.       *)
ByPlace(S, R) ==
  [i \in 1 .. Cardinality(S) |->
     CHOOSE x \in S : [y \in S |-> 1 + Cardinality(Preceding(R, S, y))][x] = i]

(* The list that puts each member of a finite set at its place has them     *)
(* all, in order.                                                           *)
LEMMA PlacesList ==
  ASSUME NEW S, IsFiniteSet(S), NEW R, Rows(R, S)
  PROVE  /\ Enumerates(ByPlace(S, R), S)
         /\ \A i, j \in 1 .. Cardinality(S) : i < j => <<ByPlace(S, R)[i], ByPlace(S, R)[j]>> \in R
<1> DEFINE s == ByPlace(S, R)
           place == [y \in S |-> 1 + Cardinality(Preceding(R, S, y))]
<1>1. s = [i \in 1 .. Cardinality(S) |-> CHOOSE x \in S : place[x] = i]
  BY DEF ByPlace
<1>2. DOMAIN s = 1 .. Cardinality(S) /\ s = [k \in DOMAIN s |-> s[k]]
  BY <1>1
<1>3. ASSUME NEW k \in 1 .. Cardinality(S)
      PROVE  s[k] \in S /\ Cardinality(Preceding(R, S, s[k])) = k - 1
  <2>1. PICK x \in S : Cardinality(Preceding(R, S, x)) = k - 1
    BY RankFacts
  <2>2. place[x] = k
    BY <2>1
  <2> HIDE DEF place
  <2>3. s[k] = CHOOSE y \in S : place[y] = k
    BY <1>1
  <2>4. s[k] \in S /\ place[s[k]] = k
    BY <2>2, <2>3
  <2>5. Cardinality(Preceding(R, S, s[k])) \in 0 .. Cardinality(S) - 1
    BY <2>4, RankFacts
  <2>6. 1 + Cardinality(Preceding(R, S, s[k])) = k
    BY <2>4 DEF place
  <2>7. Cardinality(S) \in Nat
    BY FS_CardinalityType
  <2>8. QED BY <2>4, <2>5, <2>6, <2>7
<1> HIDE DEF s
<1>4. Enumerates(s, S) /\ \A i, j \in 1 .. Cardinality(S) : i < j => <<s[i], s[j]>> \in R
  BY <1>2, <1>3, RankedLists
<1>5. QED BY <1>4 DEF s

(* A partial order on finitely many has one that nobody is before.          *)
LEMMA FirstExists ==
  ASSUME NEW S, IsFiniteSet(S), S # {}, NEW R,
         \A x \in S : <<x, x>> \notin R,
         \A x, y, z \in S : <<x, y>> \in R /\ <<y, z>> \in R => <<x, z>> \in R
  PROVE  \E x \in S : \A y \in S : <<y, x>> \notin R
<1> DEFINE n(x) == Cardinality(Preceding(R, S, x))
           N == {n(x) : x \in S}
<1>1. \A x \in S : IsFiniteSet(Preceding(R, S, x)) /\ n(x) \in Nat
  <2>1. \A x \in S : Preceding(R, S, x) \in SUBSET S
    BY DEF Preceding
  <2>2. QED BY <2>1, FS_Subset, FS_CardinalityType
<1>2. N \in SUBSET Nat /\ N # {}
  BY <1>1
<1>3. PICK k \in N : \A j \in N : k <= j
  BY <1>2, LeastNumber
<1>4. PICK x \in S : k = n(x)
  OBVIOUS
<1>5. ASSUME NEW y \in S, <<y, x>> \in R PROVE FALSE
  <2>1. Preceding(R, S, y) \in SUBSET Preceding(R, S, x) /\ Preceding(R, S, y) # Preceding(R, S, x)
    <3>1. y \in Preceding(R, S, x) /\ y \notin Preceding(R, S, y)
      BY <1>5 DEF Preceding
    <3>2. QED BY <1>5, <3>1 DEF Preceding
  <2>2. n(y) <= n(x) /\ n(y) # n(x)
    BY <1>1, <2>1, FS_Subset
  <2>3. n(x) <= n(y)
    BY <1>3, <1>4
  <2>4. n(x) \in Nat /\ n(y) \in Nat
    BY <1>1
  <2> HIDE DEF n
  <2>5. QED BY <2>2, <2>3, <2>4
<1>6. QED BY <1>5

(* The greatest of finitely many numbers.                                   *)
LEMMA MaxFacts ==
  ASSUME NEW S \in SUBSET Int, IsFiniteSet(S), S # {}
  PROVE  Max(S) \in S /\ \A y \in S : y <= Max(S)
<1> DEFINE R == {p \in S \X S : p[1] > p[2]}
<1>1. \A x, y \in S : <<x, y>> \in R <=> x > y
  OBVIOUS
<1> HIDE DEF R
<1>2. /\ \A x \in S : <<x, x>> \notin R
      /\ \A x, y, z \in S : <<x, y>> \in R /\ <<y, z>> \in R => <<x, z>> \in R
  BY <1>1
<1>3. PICK x \in S : \A y \in S : <<y, x>> \notin R
  BY <1>2, FirstExists
<1>4. ASSUME NEW y \in S PROVE x >= y
  <2>1. x \in Int /\ y \in Int
    OBVIOUS
  <2>2. ~(y > x)
    BY <1>1, <1>3
  <2>3. QED BY <2>1, <2>2
<1>5. Max(S) \in S /\ \A y \in S : Max(S) >= y
  BY <1>4 DEF Max
<1>6. QED BY <1>5

(* A sequence, given place by place.                                        *)
LEMMA PlaceByPlace ==
  ASSUME NEW T, NEW n \in Nat, NEW f, DOMAIN f = 1 .. n, f = [i \in DOMAIN f |-> f[i]],
         \A i \in 1 .. n : f[i] \in T
  PROVE  f \in Seq(T) /\ Len(f) = n
<1>1. f \in [1 .. n -> T]
  <2>1. f = [i \in 1 .. n |-> f[i]]
    OBVIOUS
  <2>2. QED BY <2>1
<1>2. QED BY <1>1

(* What a sequence holds is finitely much.                                  *)
LEMMA RangeFinite ==
  ASSUME NEW T, NEW q \in Seq(T)
  PROVE  IsFiniteSet(Range(q)) /\ Range(q) \subseteq T /\ Len(q) \in Nat
<1>1. DOMAIN q = 1 .. Len(q) /\ Len(q) \in Nat /\ q = [i \in DOMAIN q |-> q[i]]
  OBVIOUS
<1>2. IsFiniteSet({q[i] : i \in DOMAIN q})
  BY <1>1, FirstNumbers, FiniteRange
<1>3. \A i \in DOMAIN q : q[i] \in T
  OBVIOUS
<1>4. QED BY <1>1, <1>2, <1>3 DEF Range

(* Positive numbers have a positive product.                                *)
LEMMA PositiveProduct ==
  ASSUME NEW x \in Nat \ {0}, NEW y \in Nat \ {0}
  PROVE  x * y \in Nat \ {0}
OBVIOUS

(* The least of finitely many numbers.                                      *)
LEMMA LeastOf ==
  ASSUME NEW S \in SUBSET Int, IsFiniteSet(S), S # {}
  PROVE  Min(S) \in S /\ \A y \in S : Min(S) <= y
<1> DEFINE R == {p \in S \X S : p[1] < p[2]}
<1>1. PICK m \in S : \A y \in S : <<y, m>> \notin R
  <2>1. /\ \A x \in S : <<x, x>> \notin R
        /\ \A x, y, z \in S : <<x, y>> \in R /\ <<y, z>> \in R => <<x, z>> \in R
    OBVIOUS
  <2> HIDE DEF R
  <2>2. QED BY <2>1, FirstExists
<1>2. \A y \in S : y < m => <<y, m>> \in R
  OBVIOUS
<1>3. \A y \in S : m <= y
  <2> HIDE DEF R
  <2>1. \A y \in S : ~(y < m)
    BY <1>1, <1>2
  <2>2. QED BY <2>1
<1>4. QED BY <1>3 DEF Min
=============================================================================
