---------------------------- MODULE Listing_proofs ----------------------------
(***************************************************************************)
(* What the operators of Listing return.  All of them sort by counting: the *)
(* place of an element is the number of elements before it.                *)
(***************************************************************************)
EXTENDS Listing, FiniteSetsExt, FiniteSetTheorems, FunctionTheorems, SequenceTheorems, TLAPS

\* The relation R orders the elements of S.
Orders(R, S) ==
  /\ \A x \in S : <<x, x>> \notin R
  /\ \A x, y, z \in S : <<x, y>> \in R /\ <<y, z>> \in R => <<x, z>> \in R
  /\ \A x, y \in S : x = y \/ <<x, y>> \in R \/ <<y, x>> \in R

\* The elements of S in the order R.
Arranged(S, R) ==
  [k \in 1..Cardinality(S) |->
     CHOOSE x \in S : Cardinality({y \in S : <<y, x>> \in R}) = k - 1]

\* Computed returns the sequence itself.
LEMMA ComputedProperties ==
  ASSUME NEW T, NEW s \in Seq(T)
  PROVE  Computed(s) = s
BY DEF Computed

\* What Arranged returns: each element of S once, in the order R.
LEMMA ArrangedProperties ==
  ASSUME NEW S, NEW R, IsFiniteSet(S), Orders(R, S)
  PROVE  LET a == Arranged(S, R)
         IN  /\ a \in [1..Cardinality(S) -> S]
             /\ \A x \in S : \E k \in 1..Cardinality(S) : a[k] = x
             /\ \A i, j \in 1..Cardinality(S) : i < j <=> <<a[i], a[j]>> \in R
<1> DEFINE n == Cardinality(S)
           below(x) == {y \in S : <<y, x>> \in R}
           f == [x \in S |-> Cardinality(below(x)) + 1]
           pick(k) == CHOOSE x \in S : Cardinality({y \in S : <<y, x>> \in R}) = k - 1
           a == Arranged(S, R)
<1>0. a = [k \in 1..n |-> pick(k)]
  BY DEF Arranged
<1>1. n \in Nat
  BY FS_CardinalityType
<1>2. ASSUME NEW x \in S
      PROVE  /\ IsFiniteSet(below(x))
             /\ Cardinality(below(x)) \in Nat
             /\ Cardinality(below(x)) < n
  <2>1. below(x) \in SUBSET S /\ below(x) # S
    BY DEF Orders
  <2>2. /\ IsFiniteSet(below(x)) /\ Cardinality(below(x)) <= n
        /\ Cardinality(S) = Cardinality(below(x)) => S = below(x)
    BY <2>1, FS_Subset
  <2>3. Cardinality(below(x)) \in Nat
    BY <2>2, FS_CardinalityType
  <2> HIDE DEF below
  <2> QED BY <2>1, <2>2, <2>3, <1>1
<1>3. ASSUME NEW x \in S, NEW y \in S, <<x, y>> \in R
      PROVE  Cardinality(below(x)) < Cardinality(below(y))
  <2>1. below(x) \in SUBSET below(y) /\ x \in below(y) /\ x \notin below(x)
    BY <1>3 DEF Orders
  <2>2. IsFiniteSet(below(x)) /\ IsFiniteSet(below(y))
    BY <1>2
  <2> HIDE DEF below
  <2>3. Cardinality(below(x)) <= Cardinality(below(y)) /\
        (Cardinality(below(y)) = Cardinality(below(x)) => below(y) = below(x))
    BY <2>1, <2>2, FS_Subset
  <2>4. Cardinality(below(x)) \in Nat /\ Cardinality(below(y)) \in Nat
    BY <2>2, FS_CardinalityType
  <2> QED BY <2>1, <2>3, <2>4
<1> HIDE DEF below
<1>4. f \in [S -> 1..n]
  BY <1>1, <1>2
<1>5. \A x, y \in S : f[x] = f[y] => x = y
  <2> SUFFICES ASSUME NEW x \in S, NEW y \in S, x # y PROVE f[x] # f[y]
    OBVIOUS
  <2>1. <<x, y>> \in R \/ <<y, x>> \in R
    BY DEF Orders
  <2>2. Cardinality(below(x)) # Cardinality(below(y))
    BY <2>1, <1>2, <1>3
  <2> QED BY <2>2, <1>2
<1>6. \A k \in 1..n : \E x \in S : f[x] = k
  <2> HIDE DEF f
  <2>1. f \in Injection(S, 1..n)
    BY <1>4, <1>5, Fun_IsInj
  <2>2. IsFiniteSet(1..n) /\ Cardinality(1..n) = n
    BY <1>1, FS_Interval
  <2>3. f \in Surjection(S, 1..n)
    BY <2>1, <2>2, FS_Injection
  <2> QED BY <2>3, Fun_SurjectionProperties
<1>7. ASSUME NEW k \in 1..n
      PROVE  pick(k) \in S /\ f[pick(k)] = k
  <2>1. \E x \in S : Cardinality(below(x)) = k - 1
    BY <1>6, <1>2
  <2>2. pick(k) = CHOOSE x \in S : Cardinality(below(x)) = k - 1
    BY DEF below
  <2> HIDE DEF pick
  <2>3. pick(k) \in S /\ Cardinality(below(pick(k))) = k - 1
    BY <2>1, <2>2
  <2> QED BY <2>3
<1> HIDE DEF pick, a
<1>8. \A k \in 1..n : a[k] \in S /\ f[a[k]] = k
  BY <1>0, <1>7
<1>9. \A x, y \in S : f[x] < f[y] <=> <<x, y>> \in R
  <2> SUFFICES ASSUME NEW x \in S, NEW y \in S PROVE f[x] < f[y] <=> <<x, y>> \in R
    OBVIOUS
  <2>1. x = y \/ <<x, y>> \in R \/ <<y, x>> \in R
    BY DEF Orders
  <2>2. x = y => <<x, y>> \notin R
    BY DEF Orders
  <2>3. /\ f[x] = Cardinality(below(x)) + 1 /\ f[y] = Cardinality(below(y)) + 1
        /\ f[x] \in Nat /\ f[y] \in Nat
        /\ Cardinality(below(x)) \in Nat /\ Cardinality(below(y)) \in Nat
    BY <1>2
  <2>4. <<x, y>> \in R => f[x] < f[y]
    <3>1. <<x, y>> \in R => Cardinality(below(x)) < Cardinality(below(y))
      BY <1>3
    <3> HIDE DEF f
    <3> QED BY <2>3, <3>1
  <2>5. <<y, x>> \in R => f[y] < f[x]
    <3>1. <<y, x>> \in R => Cardinality(below(y)) < Cardinality(below(x))
      BY <1>3
    <3> HIDE DEF f
    <3> QED BY <2>3, <3>1
  <2> HIDE DEF f
  <2> QED BY <2>1, <2>2, <2>3, <2>4, <2>5
<1> HIDE DEF f, n
<1>10. a \in [1..n -> S]
  BY <1>0, <1>7
<1>11. \A x \in S : \E k \in 1..n : a[k] = x
  BY <1>4, <1>5, <1>8
<1>12. \A i, j \in 1..n : i < j <=> <<a[i], a[j]>> \in R
  BY <1>8, <1>9, <1>10
<1> QED BY <1>10, <1>11, <1>12 DEF n, a

\* Counting the smaller ones finds each number of a finite set at one place.
LEMMA NthProperties ==
  ASSUME NEW S \in SUBSET Int, IsFiniteSet(S)
  PROVE  /\ Cardinality(S) \in Nat
         /\ \A k \in 1..Cardinality(S) : Nth(S, k) \in S
         /\ \A x \in S : \E k \in 1..Cardinality(S) : Nth(S, k) = x
         /\ \A i, j \in 1..Cardinality(S) : i < j <=> Nth(S, i) < Nth(S, j)
<1> DEFINE R == {p \in S \X S : p[1] < p[2]}
           a == Arranged(S, R)
<1>1. \A x, y \in S : <<x, y>> \in R <=> x < y
  OBVIOUS
<1>2. \A x \in S : {y \in S : <<y, x>> \in R} = {y \in S : y < x}
  BY <1>1
<1> HIDE DEF R
<1>3. Orders(R, S)
  BY <1>1 DEF Orders
<1>4. /\ a \in [1..Cardinality(S) -> S]
      /\ \A x \in S : \E k \in 1..Cardinality(S) : a[k] = x
      /\ \A i, j \in 1..Cardinality(S) : i < j <=> <<a[i], a[j]>> \in R
  BY <1>3, ArrangedProperties
<1>5. ASSUME NEW k \in 1..Cardinality(S) PROVE a[k] = Nth(S, k)
  <2> DEFINE P(x) == Cardinality({y \in S : <<y, x>> \in R}) = k - 1
             Q(x) == Cardinality({y \in S : y < x}) = k - 1
  <2>1. \A x \in S : P(x) <=> Q(x)
    BY <1>2
  <2>2. a[k] = CHOOSE x \in S : P(x)
    BY DEF Arranged
  <2>3. Nth(S, k) = CHOOSE x \in S : Q(x)
    BY DEF Nth
  <2> HIDE DEF P, Q, a
  <2>4. (CHOOSE x \in S : P(x)) = (CHOOSE x \in S : Q(x))
    BY <2>1
  <2> QED BY <2>2, <2>3, <2>4
<1> HIDE DEF a
<1>6. \A i, j \in 1..Cardinality(S) : <<a[i], a[j]>> \in R <=> a[i] < a[j]
  BY <1>1, <1>4
<1> DEFINE n == Cardinality(S)
<1>7. n \in Nat
  BY FS_CardinalityType
<1>8. \A k \in 1..n : Nth(S, k) = a[k]
  BY <1>5
<1> HIDE DEF n
<1>9. \A i, j \in 1..n : i < j <=> a[i] < a[j]
  BY <1>4, <1>6 DEF n
<1>10. a \in [1..n -> S] /\ \A x \in S : \E k \in 1..n : a[k] = x
  BY <1>4 DEF n
<1> QED BY <1>7, <1>8, <1>9, <1>10 DEF n

\* What Ascending returns for a finite set of numbers.
LEMMA AscendingProperties ==
  ASSUME NEW S \in SUBSET Int, IsFiniteSet(S)
  PROVE  LET a == Ascending(S)
         IN  /\ Cardinality(S) \in Nat
             /\ a \in [1..Cardinality(S) -> S]
             /\ \A x \in S : \E k \in 1..Cardinality(S) : a[k] = x
             /\ \A i, j \in 1..Cardinality(S) : i < j <=> a[i] < a[j]
<1> DEFINE f == [k \in 1..Cardinality(S) |-> Nth(S, k)]
<1>1. /\ Cardinality(S) \in Nat
      /\ \A k \in 1..Cardinality(S) : Nth(S, k) \in S
      /\ \A x \in S : \E k \in 1..Cardinality(S) : Nth(S, k) = x
      /\ \A i, j \in 1..Cardinality(S) : i < j <=> Nth(S, i) < Nth(S, j)
  BY NthProperties
<1>2. f \in Seq(S)
  BY <1>1
<1>3. Ascending(S) = f
  BY <1>2, ComputedProperties DEF Ascending
<1> QED BY <1>1, <1>3

\* What Kept returns: a sequence of the elements that are in S, and of no others,
\* each place taken from a later one than the place before it.
LEMMA KeptProperties ==
  ASSUME NEW T, NEW s \in Seq(T), NEW S
  PROVE  LET k == Kept(s, S)
         IN  /\ k \in Seq(T) /\ k \in Seq(S)
             /\ \E at \in [DOMAIN k -> DOMAIN s] :
                  /\ \A i \in DOMAIN k : k[i] = s[at[i]] /\ s[at[i]] \in S
                  /\ \A i \in DOMAIN s : s[i] \in S => \E j \in DOMAIN k : at[j] = i
                  /\ \A i, j \in DOMAIN k : i < j => at[i] < at[j]
<1> DEFINE P == {i \in DOMAIN s : s[i] \in S}
           n == Cardinality(P)
           at == [i \in 1..n |-> Nth(P, i)]
           k == [i \in 1..n |-> s[Nth(P, i)]]
<1>1. P \in SUBSET (1..Len(s)) /\ Len(s) \in Nat
  OBVIOUS
<1>2. IsFiniteSet(P) /\ P \in SUBSET Int
  <2>1. IsFiniteSet(1..Len(s))
    BY <1>1, FS_Interval
  <2> HIDE DEF P
  <2>2. IsFiniteSet(P)
    BY <1>1, <2>1, FS_Subset
  <2>3. P \in SUBSET Int
    BY <1>1
  <2> QED BY <2>2, <2>3
<1>3. /\ n \in Nat
      /\ at \in [1..n -> P]
      /\ \A x \in P : \E i \in 1..n : at[i] = x
      /\ \A i, j \in 1..n : i < j <=> at[i] < at[j]
  <2> HIDE DEF P
  <2> QED BY <1>2, NthProperties
<1>4. k = [i \in 1..n |-> s[at[i]]]
  OBVIOUS
<1> HIDE DEF at, n, k
<1>5. DOMAIN k = 1..n /\ \A i \in 1..n : k[i] = s[at[i]] /\ s[at[i]] \in S /\ s[at[i]] \in T
  BY <1>3, <1>4
<1>6. k \in Seq(T) /\ k \in Seq(S)
  BY <1>3, <1>5, <1>4
<1>7. at \in [DOMAIN k -> DOMAIN s]
  BY <1>3, <1>5
<1>8. \A i \in DOMAIN s : s[i] \in S => \E j \in DOMAIN k : at[j] = i
  BY <1>3, <1>5
<1>9. \A i, j \in DOMAIN k : i < j => at[i] < at[j]
  BY <1>3, <1>5
<1>10. Kept(s, S) = k
  <2>1. Kept(s, S) = Computed(k)
    BY DEF Kept, k, n
  <2> QED BY <2>1, <1>6, ComputedProperties
<1> QED BY <1>5, <1>6, <1>7, <1>8, <1>9, <1>10

\* What Sorted returns: the places of the sequence, each once, in the order R.
LEMMA SortedProperties ==
  ASSUME NEW T, NEW s \in Seq(T), NEW R, Orders(R, DOMAIN s)
  PROVE  /\ Sorted(s, R) \in Seq(T)
         /\ Len(Sorted(s, R)) = Len(s)
         /\ \E at \in [DOMAIN s -> DOMAIN s] :
              /\ \A i \in DOMAIN s : Sorted(s, R)[i] = s[at[i]]
              /\ \A i \in DOMAIN s : \E j \in DOMAIN s : at[j] = i
              /\ \A i, j \in DOMAIN s : i < j <=> <<at[i], at[j]>> \in R
<1> DEFINE D == DOMAIN s
           at == Arranged(D, R)
           pick(k) == CHOOSE i \in D : Cardinality({j \in D : <<j, i>> \in R}) = k - 1
           r == [k \in D |-> s[pick(k)]]
<1>1. D = 1..Len(s) /\ Len(s) \in Nat
  OBVIOUS
<1>2. Sorted(s, R) = Computed(r)
  BY DEF Sorted
<1> HIDE DEF D, at, pick, r
<1>3. IsFiniteSet(D) /\ 1..Cardinality(D) = D
  <2>1. IsFiniteSet(1..Len(s)) /\ Cardinality(1..Len(s)) = Len(s)
    BY <1>1, FS_Interval
  <2> QED BY <1>1, <2>1
<1>4. /\ at \in [D -> D]
      /\ \A x \in D : \E k \in D : at[k] = x
      /\ \A i, j \in D : i < j <=> <<at[i], at[j]>> \in R
  <2>1. LET a == Arranged(D, R)
        IN  /\ a \in [1..Cardinality(D) -> D]
            /\ \A x \in D : \E k \in 1..Cardinality(D) : a[k] = x
            /\ \A i, j \in 1..Cardinality(D) : i < j <=> <<a[i], a[j]>> \in R
    <3>1. Orders(R, D)
      BY DEF D
    <3> QED BY <1>3, <3>1, ArrangedProperties
  <2> QED BY <1>3, <2>1 DEF at
<1>5. \A k \in D : at[k] = pick(k)
  BY <1>3 DEF Arranged, at, pick
<1>6. r = [k \in D |-> s[at[k]]]
  BY <1>5 DEF r
<1>7. r \in Seq(T) /\ Len(r) = Len(s)
  BY <1>1, <1>4, <1>6 DEF D
<1>8. Sorted(s, R) = r
  BY <1>2, <1>7, ComputedProperties
<1>9. \A i \in D : Sorted(s, R)[i] = s[at[i]]
  BY <1>6, <1>8
<1> QED BY <1>4, <1>7, <1>8, <1>9 DEF D

\* What SortedBy returns: the places of the sequence, each once, so that K never
\* falls, and places of equal K in their order.
LEMMA SortedByProperties ==
  ASSUME NEW T, NEW s \in Seq(T), NEW K \in [DOMAIN s -> Int]
  PROVE  /\ SortedBy(s, K) \in Seq(T)
         /\ Len(SortedBy(s, K)) = Len(s)
         /\ \E at \in [DOMAIN s -> DOMAIN s] :
              /\ \A i \in DOMAIN s : SortedBy(s, K)[i] = s[at[i]]
              /\ \A i \in DOMAIN s : \E j \in DOMAIN s : at[j] = i
              /\ \A i, j \in DOMAIN s : i < j <=> SortsBefore(K, at[i], at[j])
<1> DEFINE D == DOMAIN s
           R == {p \in D \X D : SortsBefore(K, p[1], p[2])}
<1>1. D = 1..Len(s) /\ SortedBy(s, K) = Sorted(s, R)
  BY DEF SortedBy
<1> HIDE DEF D
<1>2. \A i, j \in D : <<i, j>> \in R <=> SortsBefore(K, i, j)
  OBVIOUS
<1> HIDE DEF R
<1>3. Orders(R, D)
  <2>1. \A i \in D : K[i] \in Int /\ i \in Int
    BY <1>1 DEF D
  <2>2. \A x \in D : <<x, x>> \notin R
    BY <1>2, <2>1 DEF SortsBefore
  <2>3. \A x, y, z \in D : <<x, y>> \in R /\ <<y, z>> \in R => <<x, z>> \in R
    BY <1>2, <2>1 DEF SortsBefore
  <2>4. \A x, y \in D : x = y \/ <<x, y>> \in R \/ <<y, x>> \in R
    <3> SUFFICES ASSUME NEW x \in D, NEW y \in D
                 PROVE  x = y \/ SortsBefore(K, x, y) \/ SortsBefore(K, y, x)
      BY <1>2
    <3> QED BY <2>1 DEF SortsBefore
  <2> QED BY <2>2, <2>3, <2>4 DEF Orders
<1>4. /\ Sorted(s, R) \in Seq(T)
      /\ Len(Sorted(s, R)) = Len(s)
      /\ \E at \in [D -> D] :
              /\ \A i \in D : Sorted(s, R)[i] = s[at[i]]
              /\ \A i \in D : \E j \in D : at[j] = i
              /\ \A i, j \in D : i < j <=> <<at[i], at[j]>> \in R
  BY <1>3, SortedProperties DEF D
<1>5. PICK at \in [D -> D] :
        /\ \A i \in D : Sorted(s, R)[i] = s[at[i]]
        /\ \A i \in D : \E j \in D : at[j] = i
        /\ \A i, j \in D : i < j <=> <<at[i], at[j]>> \in R
  BY <1>4
<1>6. \A i, j \in D : i < j <=> SortsBefore(K, at[i], at[j])
  BY <1>2, <1>5
<1> QED BY <1>1, <1>4, <1>5, <1>6 DEF D

\* A finite set of numbers has a largest and a smallest element.
LEMMA MaxMin ==
  ASSUME NEW S \in SUBSET Int, IsFiniteSet(S), S # {}
  PROVE  /\ Max(S) \in S /\ \A x \in S : Max(S) >= x
         /\ Min(S) \in S /\ \A x \in S : Min(S) <= x
<1> DEFINE n == Cardinality(S)
<1>1. /\ n \in Nat
      /\ \A k \in 1..n : Nth(S, k) \in S
      /\ \A x \in S : \E k \in 1..n : Nth(S, k) = x
      /\ \A i, j \in 1..n : i < j <=> Nth(S, i) < Nth(S, j)
  BY NthProperties
<1>2. n >= 1
  <2>1. PICK x \in S : TRUE
    OBVIOUS
  <2> QED BY <1>1, <2>1
<1> HIDE DEF n
<1>0. Nth(S, 1) \in S /\ Nth(S, n) \in S /\ \A x \in S : x \in Int
  BY <1>1, <1>2
<1>3. Nth(S, n) \in S /\ \A x \in S : Nth(S, n) >= x
  <2> SUFFICES ASSUME NEW x \in S PROVE Nth(S, n) >= x
    BY <1>1, <1>2
  <2>1. PICK k \in 1..n : Nth(S, k) = x
    BY <1>1
  <2>2. k = n \/ Nth(S, k) < Nth(S, n)
    BY <1>1, <1>2
  <2>3. x \in Int /\ Nth(S, n) \in Int
    BY <1>0
  <2> QED BY <2>1, <2>2, <2>3
<1>4. Nth(S, 1) \in S /\ \A x \in S : Nth(S, 1) <= x
  <2> SUFFICES ASSUME NEW x \in S PROVE Nth(S, 1) <= x
    BY <1>1, <1>2
  <2>1. PICK k \in 1..n : Nth(S, k) = x
    BY <1>1
  <2>2. k = 1 \/ Nth(S, 1) < Nth(S, k)
    BY <1>1, <1>2
  <2>3. x \in Int /\ Nth(S, 1) \in Int
    BY <1>0
  <2> QED BY <2>1, <2>2, <2>3
<1>5. Max(S) \in S /\ \A x \in S : Max(S) >= x
  BY <1>3 DEF Max
<1>6. Min(S) \in S /\ \A x \in S : Min(S) <= x
  BY <1>4 DEF Min
<1> QED BY <1>5, <1>6

LEMMA PairMaxMin ==
  ASSUME NEW a \in Int, NEW b \in Int
  PROVE  /\ Max({a, b}) = IF a >= b THEN a ELSE b
         /\ Min({a, b}) = IF a <= b THEN a ELSE b
<1>1. \A x \in {a, b} : x \in Int
  OBVIOUS
<1>2. Max({a, b}) \in {a, b} /\ \A x \in {a, b} : Max({a, b}) >= x
  <2>1. \E x \in {a, b} : \A y \in {a, b} : x >= y
    OBVIOUS
  <2> QED BY <2>1 DEF Max
<1>3. Min({a, b}) \in {a, b} /\ \A x \in {a, b} : Min({a, b}) <= x
  <2>1. \E x \in {a, b} : \A y \in {a, b} : x <= y
    OBVIOUS
  <2> QED BY <2>1 DEF Min
<1> QED BY <1>1, <1>2, <1>3

-----------------------------------------------------------------------------
(***************************************************************************)
(* Folds.  FoldLeft is a function on the sets of places, the last place of *)
(* a set taken first; it exists, and on the prefixes it goes from place to *)
(* place.                                                                  *)
(***************************************************************************)
LEMMA PrefixMax ==
  ASSUME NEW k \in Nat \ {0}
  PROVE  /\ Max(1..k) = k
         /\ (1..k) \ {k} = 1..(k - 1)
         /\ 1..k # {}
<1>1. /\ k \in 1..k
      /\ \A x \in 1..k : k >= x
  OBVIOUS
<1>2. Max(1..k) \in 1..k /\ \A x \in 1..k : Max(1..k) >= x
  <2>1. \E x \in 1..k : \A y \in 1..k : x >= y
    BY <1>1
  <2> QED BY <2>1 DEF Max
<1> QED BY <1>1, <1>2

\* The place of a set that a fold takes first.
LEMMA FoldPlaces ==
  ASSUME NEW n \in Nat, NEW S \in SUBSET (1..n), S # {}
  PROVE  Max(S) \in S /\ Max(S) \in 1..n
<1>1. IsFiniteSet(1..n)
  BY FS_Interval
<1>2. IsFiniteSet(S)
  BY <1>1, FS_Subset
<1>3. S \in SUBSET Int
  OBVIOUS
<1> QED BY <1>2, <1>3, MaxMin

\* Induction on the places of a sequence, over the set of those where a fact holds.
LEMMA PrefixInduction ==
  ASSUME NEW n \in Nat, NEW G, 0 \in G, \A k \in 1..n : k - 1 \in G => k \in G
  PROVE  \A k \in 0..n : k \in G
<1> SUFFICES ASSUME NEW k0 \in 0..n, k0 \notin G PROVE FALSE
  OBVIOUS
<1> DEFINE T == {k \in 0..n : k \notin G}
           m == Min(T)
<1>1. T \in SUBSET Int /\ T # {} /\ IsFiniteSet(T)
  <2>1. T \in SUBSET (0..n) /\ IsFiniteSet(0..n)
    BY FS_Interval
  <2>2. IsFiniteSet(T)
    BY <2>1, FS_Subset
  <2> QED BY <2>2
<1>2. m \in T /\ \A k \in T : m <= k
  <2> HIDE DEF T
  <2> QED BY <1>1, MaxMin
<1>3. m \in 1..n /\ m - 1 \notin T
  <2>1. m \in 0..n /\ m # 0
    BY <1>2
  <2> HIDE DEF m
  <2>2. m - 1 \notin T
    BY <1>2, <2>1
  <2> QED BY <2>1, <2>2
<1> HIDE DEF m
<1>4. m - 1 \in G
  BY <1>3
<1> QED BY <1>2, <1>3, <1>4

\* One step of a fold for each place: g[k] takes what was made of the places before.
IsFold(it, n, D, base, g) ==
  /\ it \in [SUBSET (1..n) -> D]
  /\ \A S \in SUBSET (1..n) :
       it[S] = IF S = {} THEN base ELSE g[Max(S)][it[S \ {Max(S)}]]

LEMMA FoldExists ==
  ASSUME NEW n \in Nat, NEW D, NEW base \in D, NEW g \in [1..n -> [D -> D]]
  PROVE  \E it : IsFold(it, n, D, base, g)
<1> DEFINE Fold(it, m) ==
             /\ it \in [SUBSET (1..m) -> D]
             /\ \A S \in SUBSET (1..m) :
                  it[S] = IF S = {} THEN base ELSE g[Max(S)][it[S \ {Max(S)}]]
           G == {m \in 0..n : \E it : Fold(it, m)}
<1>1. 0 \in G
  <2>1. SUBSET (1..0) = {{}}
    OBVIOUS
  <2>2. Fold([S \in SUBSET (1..0) |-> base], 0)
    BY <2>1
  <2> HIDE DEF Fold
  <2> QED BY <2>2
<1>2. ASSUME NEW k \in 1..n, k - 1 \in G PROVE k \in G
  <2>1. PICK it : Fold(it, k - 1)
    BY <1>2
  <2> DEFINE jt == [S \in SUBSET (1..k) |->
                      IF k \in S THEN g[k][it[S \ {k}]] ELSE it[S]]
  <2>2. /\ k \in Nat \ {0} /\ g[k] \in [D -> D]
        /\ \A S \in SUBSET (1..k) : S \ {k} \in SUBSET (1..(k - 1))
    OBVIOUS
  <2>3. \A S \in SUBSET (1..k) : k \notin S => S \in SUBSET (1..(k - 1))
    OBVIOUS
  <2>4. jt \in [SUBSET (1..k) -> D]
    BY <2>1, <2>2, <2>3
  <2>5. ASSUME NEW S \in SUBSET (1..k)
        PROVE  jt[S] = IF S = {} THEN base ELSE g[Max(S)][jt[S \ {Max(S)}]]
    <3>1. CASE k \in S
      <4>1. Max(S) = k
        <5>1. k \in S /\ \A x \in S : k >= x
          BY <3>1, <2>2
        <5>2. Max(S) \in S /\ \A x \in S : Max(S) >= x
          <6>1. \E x \in S : \A y \in S : x >= y
            BY <5>1
          <6> QED BY <6>1 DEF Max
        <5> HIDE DEF jt, Fold, G
        <5>3. Max(S) \in Int
          <6>1. S \in SUBSET Int
            OBVIOUS
          <6>2. Max(S) \in S
            BY <5>2
          <6> QED BY <6>1, <6>2
        <5>4. Max(S) >= k /\ k >= Max(S)
          BY <5>1, <5>2
        <5> QED BY <5>3, <5>4
      <4>2. jt[S] = g[k][it[S \ {k}]]
        BY <3>1
      <4>3. jt[S \ {k}] = it[S \ {k}]
        BY <2>2
      <4> HIDE DEF jt
      <4> QED BY <3>1, <4>1, <4>2, <4>3
    <3>2. CASE k \notin S /\ S # {}
      <4>1. S \in SUBSET (1..(k - 1))
        BY <2>3, <3>2
      <4>2. it[S] = g[Max(S)][it[S \ {Max(S)}]]
        BY <2>1, <3>2, <4>1
      <4>3. jt[S] = it[S] /\ jt[S \ {Max(S)}] = it[S \ {Max(S)}]
        BY <3>2
      <4> HIDE DEF jt
      <4> QED BY <3>2, <4>2, <4>3
    <3>3. CASE S = {}
      BY <2>1, <3>3
    <3> QED BY <3>1, <3>2, <3>3
  <2>6. Fold(jt, k)
    BY <2>4, <2>5
  <2> HIDE DEF Fold, jt
  <2> QED BY <2>6
<1>3. n \in G
  <2> HIDE DEF G
  <2>1. \A k \in 1..n : k - 1 \in G => k \in G
    BY <1>2
  <2>2. \A k \in 0..n : k \in G
    BY <1>1, <2>1, PrefixInduction
  <2> QED BY <2>2
<1>4. PICK it : Fold(it, n)
  BY <1>3
<1> QED BY <1>4 DEF IsFold

\* A function that is defined from its value at the number before.
IsRecursion(f, n, D, base, g) ==
  /\ f \in [0..n -> D]
  /\ f[0] = base
  /\ \A k \in 1..n : f[k] = g[k][f[k - 1]]

LEMMA RecursionExists ==
  ASSUME NEW n \in Nat, NEW D, NEW base \in D, NEW g \in [1..n -> [D -> D]]
  PROVE  \E f : IsRecursion(f, n, D, base, g)
<1>0. PICK it : IsFold(it, n, D, base, g)
  BY FoldExists
<1>1. /\ it \in [SUBSET (1..n) -> D]
      /\ \A S \in SUBSET (1..n) :
           it[S] = IF S = {} THEN base ELSE g[Max(S)][it[S \ {Max(S)}]]
  BY <1>0 DEF IsFold
<1> DEFINE f == [k \in 0..n |-> it[1..k]]
<1>2. \A k \in 0..n : 1..k \in SUBSET (1..n)
  OBVIOUS
<1>3. f \in [0..n -> D]
  <2>1. \A k \in 0..n : it[1..k] \in D
    BY <1>1, <1>2
  <2> QED BY <2>1
<1>4. f[0] = base
  <2>1. 1..0 = {}
    OBVIOUS
  <2>2. it[{}] = base
    BY <1>1
  <2> QED BY <2>1, <2>2
<1>5. ASSUME NEW k \in 1..n PROVE f[k] = g[k][f[k - 1]]
  <2>1. Max(1..k) = k /\ (1..k) \ {k} = 1..(k - 1) /\ 1..k # {}
    <3>1. k \in Nat \ {0}
      OBVIOUS
    <3> HIDE DEF f
    <3> QED BY <3>1, PrefixMax
  <2>2. it[1..k] = g[Max(1..k)][it[(1..k) \ {Max(1..k)}]]
    BY <1>1, <1>2, <2>1
  <2>3. f[k] = it[1..k] /\ f[k - 1] = it[1..(k - 1)]
    OBVIOUS
  <2> HIDE DEF f
  <2> QED BY <2>1, <2>2, <2>3
<1> HIDE DEF f
<1> QED BY <1>3, <1>4, <1>5 DEF IsRecursion

\* The sums of the beginnings of a sequence.
LEMMA TotalProperties ==
  ASSUME NEW s \in Seq(Int)
  PROVE  \E sums \in [0..Len(s) -> Int] :
           /\ sums[0] = 0
           /\ \A k \in 1..Len(s) : sums[k] = sums[k - 1] + s[k]
           /\ Total(s) = sums[Len(s)]
<1> DEFINE n == Len(s)
           g == [k \in 1..n |-> [d \in Int |-> d + s[k]]]
           R(f) == f = [k \in 0..n |-> IF k = 0 THEN 0 ELSE f[k - 1] + s[k]]
<1>1. n \in Nat /\ \A k \in 1..n : s[k] \in Int
  OBVIOUS
<1> HIDE DEF n
<1>2. g \in [1..n -> [Int -> Int]]
  BY <1>1
<1>3. ASSUME NEW f \in [0..n -> Int], NEW k \in 1..n
      PROVE  g[k][f[k - 1]] = f[k - 1] + s[k]
  <2>1. f[k - 1] \in Int
    BY <1>1
  <2> QED BY <2>1
<1> HIDE DEF g
<1>4. PICK f \in [0..n -> Int] :
        /\ f[0] = 0
        /\ \A k \in 1..n : f[k] = g[k][f[k - 1]]
  <2>1. 0 \in Int
    OBVIOUS
  <2>2. \E f : IsRecursion(f, n, Int, 0, g)
    BY <1>1, <1>2, <2>1, RecursionExists
  <2> QED BY <2>2 DEF IsRecursion
<1>5. R(f)
  <2>1. \A k \in 0..n : k # 0 => k \in 1..n
    BY <1>1
  <2> QED BY <1>3, <1>4, <2>1
<1>6. Total(s) = (CHOOSE f1 : R(f1))[n]
  BY DEF Total, n
<1> HIDE DEF R
<1> DEFINE t == CHOOSE f1 : R(f1)
<1>7. R(t)
  BY <1>5
<1> HIDE DEF t
<1>8. DOMAIN t = 0..n /\ t[0] = 0 /\ \A k \in 1..n : t[k] = t[k - 1] + s[k]
  BY <1>1, <1>7 DEF R
<1>9. \A k \in 0..n : t[k] \in Int
  <2> DEFINE G == {k \in 0..n : t[k] \in Int}
  <2>1. 0 \in G
    BY <1>1, <1>8
  <2>2. ASSUME NEW k \in 1..n, k - 1 \in G PROVE k \in G
    <3>1. t[k] = t[k - 1] + s[k] /\ s[k] \in Int /\ t[k - 1] \in Int /\ k \in 0..n
      BY <1>1, <1>8, <2>2
    <3> QED BY <3>1
  <2> HIDE DEF G
  <2>3. \A k \in 0..n : k \in G
    BY <1>1, <2>1, <2>2, PrefixInduction
  <2> QED BY <2>3 DEF G
<1>10. t \in [0..n -> Int]
  BY <1>7, <1>9 DEF R
<1> QED BY <1>6, <1>8, <1>10 DEF n, t

\* A sum of numbers is a number.
LEMMA TotalIsInt ==
  ASSUME NEW s \in Seq(Int)
  PROVE  Total(s) \in Int
BY TotalProperties

\* The sum of nothing, and of a sequence that is one longer.
LEMMA TotalOfNone == Total(<<>>) = 0
<1>1. <<>> \in Seq(Int) /\ Len(<<>>) = 0
  OBVIOUS
<1> QED BY <1>1, TotalProperties

LEMMA TotalOfMore ==
  ASSUME NEW s \in Seq(Int), NEW x \in Int
  PROVE  Total(Append(s, x)) = Total(s) + x
<1> DEFINE n == Len(s)
           r == Append(s, x)
<1>1. /\ n \in Nat /\ r \in Seq(Int) /\ Len(r) = n + 1 /\ r[n + 1] = x
      /\ \A k \in 1..n : r[k] = s[k]
  OBVIOUS
<1>2. PICK f \in [0..n -> Int] :
        /\ f[0] = 0
        /\ \A k \in 1..n : f[k] = f[k - 1] + s[k]
        /\ Total(s) = f[n]
  BY TotalProperties
<1> HIDE DEF n, r
<1>3. PICK g \in [0..(n + 1) -> Int] :
        /\ g[0] = 0
        /\ \A k \in 1..(n + 1) : g[k] = g[k - 1] + r[k]
        /\ Total(r) = g[n + 1]
  BY <1>1, TotalProperties
<1>4. \A k \in 0..n : g[k] = f[k]
  <2> DEFINE G == {k \in 0..n : g[k] = f[k]}
  <2>1. 0 \in G
    BY <1>1, <1>2, <1>3
  <2>2. \A k \in 1..n : k - 1 \in G => k \in G
    BY <1>1, <1>2, <1>3
  <2> HIDE DEF G
  <2>3. \A k \in 0..n : k \in G
    BY <1>1, <2>1, <2>2, PrefixInduction
  <2> QED BY <2>3 DEF G
<1>5. g[n + 1] = g[n] + x
  BY <1>1, <1>3
<1> QED BY <1>1, <1>2, <1>3, <1>4, <1>5 DEF r

\* The sum of two sequences, place by place.
LEMMA TotalOfBoth ==
  ASSUME NEW s \in Seq(Int), NEW t \in Seq(Int), NEW u \in Seq(Int),
         Len(t) = Len(s), Len(u) = Len(s), \A k \in 1..Len(s) : u[k] = s[k] + t[k]
  PROVE  Total(u) = Total(s) + Total(t)
<1> DEFINE n == Len(s)
<1>1. n \in Nat
  OBVIOUS
<1>2. PICK f \in [0..n -> Int] :
        f[0] = 0 /\ (\A k \in 1..n : f[k] = f[k - 1] + s[k]) /\ Total(s) = f[n]
  BY TotalProperties
<1>3. PICK g \in [0..n -> Int] :
        g[0] = 0 /\ (\A k \in 1..n : g[k] = g[k - 1] + t[k]) /\ Total(t) = g[n]
  BY TotalProperties
<1>4. PICK h \in [0..n -> Int] :
        h[0] = 0 /\ (\A k \in 1..n : h[k] = h[k - 1] + u[k]) /\ Total(u) = h[n]
  BY TotalProperties
<1>5. \A k \in 1..n : s[k] \in Int /\ t[k] \in Int /\ u[k] = s[k] + t[k]
  OBVIOUS
<1> HIDE DEF n
<1> DEFINE G == {k \in 0..n : h[k] = f[k] + g[k]}
<1>6. 0 \in G
  BY <1>1, <1>2, <1>3, <1>4
<1>7. ASSUME NEW k \in 1..n, k - 1 \in G PROVE k \in G
  <2>1. /\ f[k - 1] \in Int /\ g[k - 1] \in Int /\ h[k - 1] = f[k - 1] + g[k - 1]
        /\ s[k] \in Int /\ t[k] \in Int /\ u[k] = s[k] + t[k]
    BY <1>1, <1>5, <1>7
  <2>2. /\ f[k] = f[k - 1] + s[k] /\ g[k] = g[k - 1] + t[k] /\ h[k] = h[k - 1] + u[k]
    BY <1>2, <1>3, <1>4
  <2>3. h[k] = f[k] + g[k]
    BY <2>1, <2>2
  <2> QED BY <1>1, <2>3
<1> HIDE DEF G
<1>8. n \in G
  <2>1. \A k \in 0..n : k \in G
    BY <1>1, <1>6, <1>7, PrefixInduction
  <2> QED BY <1>1, <2>1
<1> QED BY <1>2, <1>3, <1>4, <1>8 DEF G

\* A sum of naturals is one.
LEMMA TotalIsNat ==
  ASSUME NEW s \in Seq(Int), \A k \in 1..Len(s) : s[k] >= 0
  PROVE  Total(s) \in Nat
<1> DEFINE n == Len(s)
<1>1. n \in Nat
  OBVIOUS
<1>2. PICK f \in [0..n -> Int] :
        f[0] = 0 /\ (\A k \in 1..n : f[k] = f[k - 1] + s[k]) /\ Total(s) = f[n]
  BY TotalProperties
<1>3. \A k \in 1..n : s[k] \in Int /\ s[k] >= 0
  OBVIOUS
<1> HIDE DEF n
<1> DEFINE G == {k \in 0..n : f[k] >= 0}
<1>4. 0 \in G
  BY <1>1, <1>2
<1>5. \A k \in 1..n : k - 1 \in G => k \in G
  BY <1>1, <1>2, <1>3
<1> HIDE DEF G
<1>6. n \in G
  <2>1. \A k \in 0..n : k \in G
    BY <1>1, <1>4, <1>5, PrefixInduction
  <2> QED BY <1>1, <2>1
<1>7. f[n] \in Int /\ f[n] >= 0
  BY <1>1, <1>2, <1>6 DEF G
<1> QED BY <1>2, <1>7

\* Numbers that are listed in their order are listed as Ascending does.
LEMMA AscendingIs ==
  ASSUME NEW S \in SUBSET Int, NEW m \in Nat, NEW e \in [1..m -> S],
         \A x \in S : \E k \in 1..m : e[k] = x,
         \A i, j \in 1..m : i < j => e[i] < e[j]
  PROVE  /\ Ascending(S) \in [1..m -> S] /\ Len(Ascending(S)) = m
         /\ \A k \in 1..m : Ascending(S)[k] = e[k]
<1> DEFINE a == Ascending(S)
<1>1. IsFiniteSet(S) /\ Cardinality(S) = m
  <2>1. IsFiniteSet(1..m) /\ Cardinality(1..m) = m
    BY FS_Interval
  <2>2. e \in Surjection(1..m, S)
    BY DEF Surjection
  <2>3. ASSUME NEW i \in 1..m, NEW j \in 1..m, e[i] = e[j] PROVE i = j
    <3>0. e[i] \in Int /\ e[j] \in Int
      OBVIOUS
    <3>1. ~(e[i] < e[j]) /\ ~(e[j] < e[i])
      BY <2>3, <3>0
    <3>2. ~(i < j) /\ ~(j < i)
      BY <3>1
    <3> QED BY <3>2
  <2>4. e \in Injection(1..m, S)
    BY <2>3 DEF Injection, IsInjective
  <2> QED BY <2>1, <2>2, <2>4, FS_Surjection
<1>2. /\ a \in [1..m -> S]
      /\ \A x \in S : \E k \in 1..m : a[k] = x
      /\ \A i, j \in 1..m : i < j <=> a[i] < a[j]
  BY <1>1, AscendingProperties
<1> HIDE DEF a
<1>3. a \in Seq(S) /\ Len(a) = m
  BY <1>2
<1>4. \A k \in 1..m : e[k] \in Int /\ a[k] \in Int
  BY <1>2
<1> DEFINE G == {k \in 0..m : \A j \in 1..k : a[j] = e[j]}
<1>5. 0 \in G
  OBVIOUS
<1>6. ASSUME NEW k \in 1..m, k - 1 \in G PROVE k \in G
  <2>1. \A j \in 1..m : j < k => a[j] = e[j]
    BY <1>6
  <2>2. ~(a[k] < e[k])
    <3> SUFFICES ASSUME a[k] < e[k] PROVE FALSE
      OBVIOUS
    <3>1. PICK j \in 1..m : e[j] = a[k]
      BY <1>2
    <3>2. CASE j < k
      <4>1. a[j] = a[k] /\ a[j] < a[k]
        BY <1>2, <2>1, <3>1, <3>2
      <4> QED BY <1>4, <4>1
    <3>3. CASE ~(j < k)
      <4>1. j = k \/ e[k] < e[j]
        BY <3>3
      <4> QED BY <1>4, <3>1, <4>1
    <3> QED BY <3>2, <3>3
  <2>3. ~(e[k] < a[k])
    <3> SUFFICES ASSUME e[k] < a[k] PROVE FALSE
      OBVIOUS
    <3>1. PICK j \in 1..m : a[j] = e[k]
      BY <1>2
    <3>2. CASE j < k
      <4>1. e[j] = e[k] /\ e[j] < e[k]
        BY <2>1, <3>1, <3>2
      <4> QED BY <1>4, <4>1
    <3>3. CASE ~(j < k)
      <4>1. j = k \/ a[k] < a[j]
        BY <1>2, <3>3
      <4> QED BY <1>4, <3>1, <4>1
    <3> QED BY <3>2, <3>3
  <2>4. a[k] = e[k]
    BY <1>4, <2>2, <2>3
  <2>5. \A j \in 1..k : a[j] = e[j]
    BY <2>1, <2>4
  <2> QED BY <2>5
<1> HIDE DEF G
<1>7. \A k \in 0..m : k \in G
  BY <1>5, <1>6, PrefixInduction
<1>8. \A j \in 1..m : a[j] = e[j]
  BY <1>7 DEF G
<1> QED BY <1>2, <1>3, <1>8 DEF a

\* Numbers of a range that are listed in their order stand at their own places.
LEMMA OntoIsIdentity ==
  ASSUME NEW n \in Nat, NEW at \in [1..n -> 1..n],
         \A x \in 1..n : \E k \in 1..n : at[k] = x,
         \A i, j \in 1..n : i < j => at[i] < at[j]
  PROVE  \A k \in 1..n : at[k] = k
<1> DEFINE e == [k \in 1..n |-> k]
<1>1. 1..n \in SUBSET Int
  OBVIOUS
<1>2. \A k \in 1..n : Ascending(1..n)[k] = at[k]
  BY <1>1, AscendingIs
<1>3. /\ e \in [1..n -> 1..n]
      /\ \A x \in 1..n : \E k \in 1..n : e[k] = x
      /\ \A i, j \in 1..n : i < j => e[i] < e[j]
  OBVIOUS
<1>4. \A k \in 1..n : e[k] = k
  OBVIOUS
<1> HIDE DEF e
<1>5. \A k \in 1..n : Ascending(1..n)[k] = e[k]
  BY <1>1, <1>3, AscendingIs
<1> QED BY <1>2, <1>4, <1>5

\* Keeping everything changes nothing.
LEMMA KeptOfAll ==
  ASSUME NEW T, NEW s \in Seq(T), NEW S, \A i \in 1..Len(s) : s[i] \in S
  PROVE  Kept(s, S) = s
<1> DEFINE k == Kept(s, S)
           n == Len(s)
           m == Len(k)
<1>1. n \in Nat /\ DOMAIN s = 1..n
  OBVIOUS
<1>2. k \in Seq(T)
  BY KeptProperties
<1>3. m \in Nat /\ DOMAIN k = 1..m
  BY <1>2
<1>4. PICK at \in [DOMAIN k -> DOMAIN s] :
        /\ \A i \in DOMAIN k : k[i] = s[at[i]] /\ s[at[i]] \in S
        /\ \A i \in DOMAIN s : s[i] \in S => \E j \in DOMAIN k : at[j] = i
        /\ \A i, j \in DOMAIN k : i < j => at[i] < at[j]
  BY KeptProperties
<1> HIDE DEF k, m
<1>5. /\ at \in [1..m -> 1..n]
      /\ \A x \in 1..n : \E j \in 1..m : at[j] = x
      /\ \A i, j \in 1..m : i < j => at[i] < at[j]
      /\ \A i \in 1..m : k[i] = s[at[i]]
  BY <1>1, <1>3, <1>4
<1> HIDE DEF n
<1>6. m = n
  <2>1. /\ IsFiniteSet(1..m) /\ Cardinality(1..m) = m
        /\ IsFiniteSet(1..n) /\ Cardinality(1..n) = n
    BY <1>1, <1>3, FS_Interval
  <2>2. at \in Surjection(1..m, 1..n)
    BY <1>5 DEF Surjection
  <2>3. ASSUME NEW i \in 1..m, NEW j \in 1..m, at[i] = at[j] PROVE i = j
    <3>1. at[i] \in 1..n /\ at[j] \in 1..n
      BY <1>5
    <3>2. ~(at[i] < at[j]) /\ ~(at[j] < at[i])
      BY <1>1, <2>3, <3>1
    <3>3. ~(i < j) /\ ~(j < i)
      BY <1>5, <3>2
    <3> QED BY <1>3, <3>3
  <2>4. at \in Injection(1..m, 1..n)
    BY <1>5, <2>3 DEF Injection, IsInjective
  <2> QED BY <2>1, <2>2, <2>4, FS_Surjection
<1>7. \A i \in 1..n : at[i] = i
  <2>1. /\ at \in [1..n -> 1..n]
        /\ \A x \in 1..n : \E j \in 1..n : at[j] = x
        /\ \A i, j \in 1..n : i < j => at[i] < at[j]
    BY <1>5, <1>6
  <2> QED BY <1>1, <2>1, OntoIsIdentity
<1>8. \A i \in 1..n : k[i] = s[i]
  BY <1>5, <1>6, <1>7
<1> QED BY <1>2, <1>6, <1>8, SeqEqual DEF k, m, n

\* The sum of a sequence that is changed at one place.
LEMMA TotalOfChanged ==
  ASSUME NEW s \in Seq(Int), NEW i \in 1..Len(s), NEW x \in Int
  PROVE  Total([s EXCEPT ![i] = x]) = Total(s) - s[i] + x
<1> DEFINE n == Len(s)
           r == [s EXCEPT ![i] = x]
<1>1. n \in Nat /\ i \in 1..n /\ s[i] \in Int /\ x \in Int
  OBVIOUS
<1>2. r \in Seq(Int) /\ Len(r) = n
  OBVIOUS
<1>3. \A k \in 1..n : s[k] \in Int /\ r[k] = IF k = i THEN x ELSE s[k]
  OBVIOUS
<1>4. PICK f \in [0..n -> Int] :
        f[0] = 0 /\ (\A k \in 1..n : f[k] = f[k - 1] + s[k]) /\ Total(s) = f[n]
  BY TotalProperties
<1> DEFINE old == s[i]
           d == x - old
<1>4a. d \in Int /\ old \in Int /\ x = old + d /\ s[i] = old
  BY <1>1
<1> HIDE DEF n, r, old, d
<1>5. PICK g \in [0..n -> Int] :
        g[0] = 0 /\ (\A k \in 1..n : g[k] = g[k - 1] + r[k]) /\ Total(r) = g[n]
  BY <1>2, TotalProperties
<1> DEFINE G == {k \in 0..n : /\ k < i => g[k] = f[k]
                              /\ k >= i => g[k] = f[k] + d}
<1>6. 0 \in G
  BY <1>1, <1>4, <1>5
<1>7. ASSUME NEW k \in 1..n, k - 1 \in G PROVE k \in G
  <2>1. /\ k - 1 < i => g[k - 1] = f[k - 1]
        /\ k - 1 >= i => g[k - 1] = f[k - 1] + d
    BY <1>7
  <2> HIDE DEF G
  <2>2. /\ f[k - 1] \in Int /\ g[k - 1] \in Int
        /\ f[k] = f[k - 1] + s[k] /\ g[k] = g[k - 1] + r[k]
    <3>1. k - 1 \in 0..n
      BY <1>1
    <3> QED BY <1>4, <1>5, <3>1
  <2>3. s[k] \in Int /\ r[k] = IF k = i THEN x ELSE s[k]
    BY <1>3
  <2>4. k \in Int /\ i \in Int /\ k \in 0..n
    BY <1>1
  <2>5. CASE k < i
    <3>1. r[k] = s[k] /\ k - 1 < i
      BY <2>3, <2>4, <2>5
    <3>2. g[k] = f[k]
      BY <2>1, <2>2, <3>1
    <3> QED BY <2>4, <2>5, <3>2 DEF G
  <2>6. CASE k = i
    <3>1. r[k] = x /\ k - 1 < i /\ s[k] = s[i]
      BY <2>3, <2>4, <2>6
    <3>2. g[k] = f[k - 1] + x /\ f[k] = f[k - 1] + old
      BY <1>4a, <2>1, <2>2, <3>1
    <3>3. g[k] = f[k] + d
      BY <1>4a, <2>2, <3>2
    <3> QED BY <2>4, <2>6, <3>3 DEF G
  <2>7. CASE k > i
    <3>1. r[k] = s[k] /\ k - 1 >= i
      BY <2>3, <2>4, <2>7
    <3>2. g[k] = f[k] + d
      BY <1>4a, <2>1, <2>2, <2>3, <3>1
    <3> QED BY <2>4, <2>7, <3>2 DEF G
  <2> QED BY <2>4, <2>5, <2>6, <2>7
<1> HIDE DEF G
<1>8. n \in G
  <2>1. \A k \in 0..n : k \in G
    BY <1>1, <1>6, <1>7, PrefixInduction
  <2> QED BY <1>1, <2>1
<1>9. g[n] = f[n] + d /\ f[n] \in Int
  BY <1>1, <1>4, <1>8 DEF G
<1>10. Total(r) = Total(s) - s[i] + x
  <2>1. Total(r) = f[n] + d /\ Total(s) = f[n]
    BY <1>4, <1>5, <1>9
  <2>2. Total(r) = Total(s) - old + x
    BY <1>4a, <1>9, <2>1
  <2> QED BY <1>4a, <2>2
<1> QED BY <1>10 DEF r

\* The numbers up to n, in any order.
Permutes(p, n) ==
  /\ p \in [1..n -> 1..n]
  /\ \A x \in 1..n : \E k \in 1..n : p[k] = x
  /\ \A i, j \in 1..n : p[i] = p[j] => i = j

Upto(n) == [k \in 1..n |-> k]

LEMMA TotalOfPermutation ==
  ASSUME NEW n \in Nat, NEW p, Permutes(p, n)
  PROVE  Total(p) = Total(Upto(n))
<1> DEFINE G == {m \in 0..n : \A q : Permutes(q, m) => Total(q) = Total(Upto(m))}
<1>1. 0 \in G
  <2> SUFFICES ASSUME NEW q, Permutes(q, 0) PROVE Total(q) = Total(Upto(0))
    OBVIOUS
  <2>1. 1..0 = {}
    OBVIOUS
  <2>2. q = Upto(0)
    BY <2>1 DEF Permutes, Upto
  <2> QED BY <2>2
<1>2. ASSUME NEW m \in 1..n, m - 1 \in G PROVE m \in G
  <2>1. \A q : Permutes(q, m - 1) => Total(q) = Total(Upto(m - 1))
    BY <1>2
  <2> HIDE DEF G
  <2>2. m \in Nat /\ m > 0 /\ m \in 0..n /\ m - 1 \in Nat /\ m \in 1..m
    OBVIOUS
  <2>3. ASSUME NEW q, Permutes(q, m) PROVE Total(q) = Total(Upto(m))
    <3>1. /\ q \in [1..m -> 1..m]
          /\ \A x \in 1..m : \E k \in 1..m : q[k] = x
          /\ \A i, j \in 1..m : q[i] = q[j] => i = j
      BY <2>3 DEF Permutes
    <3>2. PICK i \in 1..m : q[i] = m
      BY <2>2, <3>1
    <3> DEFINE r == [q EXCEPT ![i] = q[m]]
               t == [k \in 1..(m - 1) |-> r[k]]
    <3>3. q \in Seq(Int) /\ Len(q) = m
      <4>1. q \in [1..m -> Int]
        BY <2>2, <3>1
      <4> QED BY <2>2, <4>1
    <3>4. q[m] \in Int /\ r \in Seq(Int) /\ Len(r) = m
      <4>1. q[m] \in Int
        BY <2>2, <3>3
      <4> QED BY <3>3, <4>1
    <3>5. Total(r) = Total(q) - m + q[m] /\ Total(q) \in Int
      <4>1. i \in 1..Len(q) /\ q[i] = m
        BY <3>2, <3>3
      <4>2. Total(r) = Total(q) - q[i] + q[m]
        BY <3>3, <3>4, <4>1, TotalOfChanged
      <4> QED BY <3>3, <4>1, <4>2, TotalIsInt
    <3>6. \A k \in 1..m : r[k] = IF k = i THEN q[m] ELSE q[k]
      BY <3>1
    <3> HIDE DEF r
    <3>7. r[m] = q[m]
      BY <2>2, <3>6
    <3>8. t \in Seq(Int) /\ Len(t) = m - 1 /\ \A k \in 1..(m - 1) : t[k] = r[k]
      <4>1. \A k \in 1..(m - 1) : r[k] \in Int
        BY <2>2, <3>4
      <4> QED BY <2>2, <4>1
    <3> HIDE DEF t
    <3>9. r = Append(t, q[m])
      <4>1. Append(t, q[m]) \in Seq(Int) /\ Len(Append(t, q[m])) = m
        BY <2>2, <3>4, <3>8
      <4>2. \A k \in 1..m : Append(t, q[m])[k] = r[k]
        BY <2>2, <3>4, <3>7, <3>8
      <4> QED BY <3>4, <4>1, <4>2, SeqEqual
    <3>10. Total(r) = Total(t) + q[m]
      BY <3>4, <3>8, <3>9, TotalOfMore
    <3>11. Permutes(t, m - 1)
      <4>1. ASSUME NEW k \in 1..(m - 1)
            PROVE  /\ t[k] = IF k = i THEN q[m] ELSE q[k]
                   /\ t[k] \in 1..(m - 1)
        <5>1. k \in 1..m /\ k # m
          BY <2>2
        <5>2. t[k] = IF k = i THEN q[m] ELSE q[k]
          BY <3>6, <3>8, <5>1
        <5>3. CASE k = i
          <6>1. q[m] # m /\ q[m] \in 1..m
            BY <2>2, <3>1, <3>2, <5>1, <5>3
          <6> QED BY <2>2, <5>2, <5>3, <6>1
        <5>4. CASE k # i
          <6>1. q[k] # m /\ q[k] \in 1..m
            BY <2>2, <3>1, <3>2, <5>1, <5>4
          <6> QED BY <2>2, <5>2, <5>4, <6>1
        <5> QED BY <5>3, <5>4
      <4>2. t \in [1..(m - 1) -> 1..(m - 1)]
        <5>1. t \in [1..(m - 1) -> Int]
          BY <3>8
        <5> QED BY <4>1, <5>1
      <4>3. ASSUME NEW x \in 1..(m - 1) PROVE \E k \in 1..(m - 1) : t[k] = x
        <5>1. x \in 1..m /\ x # m
          BY <2>2
        <5>2. PICK k \in 1..m : q[k] = x
          BY <3>1, <5>1
        <5>3. k # i
          BY <3>2, <5>1, <5>2
        <5>4. CASE k = m
          <6>1. i \in 1..(m - 1)
            BY <2>2, <5>3, <5>4
          <6> QED BY <4>1, <5>2, <5>4, <6>1
        <5>5. CASE k # m
          <6>1. k \in 1..(m - 1)
            BY <2>2, <5>5
          <6> QED BY <4>1, <5>2, <5>3, <6>1
        <5> QED BY <5>4, <5>5
      <4>4. ASSUME NEW a \in 1..(m - 1), NEW b \in 1..(m - 1), t[a] = t[b] PROVE a = b
        <5>1. a \in 1..m /\ b \in 1..m /\ a # m /\ b # m
          BY <2>2
        <5>2. /\ t[a] = IF a = i THEN q[m] ELSE q[a]
              /\ t[b] = IF b = i THEN q[m] ELSE q[b]
          BY <4>1
        <5> QED BY <2>2, <3>1, <4>4, <5>1, <5>2
      <4> QED BY <4>2, <4>3, <4>4 DEF Permutes
    <3>12. Total(t) = Total(Upto(m - 1)) /\ Total(t) \in Int
      BY <2>1, <3>8, <3>11, TotalIsInt
    <3>13. Upto(m - 1) \in Seq(Int) /\ Upto(m) = Append(Upto(m - 1), m)
      <4>1. Upto(m - 1) \in Seq(Int) /\ Len(Upto(m - 1)) = m - 1
        BY <2>2 DEF Upto
      <4>2. Upto(m) \in Seq(Int) /\ Len(Upto(m)) = m
        BY <2>2 DEF Upto
      <4>3. /\ \A k \in 1..(m - 1) : Upto(m - 1)[k] = k
            /\ \A k \in 1..m : Upto(m)[k] = k
        BY <2>2 DEF Upto
      <4>4. Append(Upto(m - 1), m) \in Seq(Int) /\ Len(Append(Upto(m - 1), m)) = m
        BY <2>2, <4>1
      <4>5. \A k \in 1..m : Append(Upto(m - 1), m)[k] = Upto(m)[k]
        BY <2>2, <4>1, <4>3
      <4> QED BY <4>1, <4>2, <4>4, <4>5, SeqEqual
    <3>14. Total(Upto(m)) = Total(Upto(m - 1)) + m
      BY <2>2, <3>13, TotalOfMore
    <3> QED BY <2>2, <3>4, <3>5, <3>10, <3>12, <3>14
  <2> QED BY <2>2, <2>3 DEF G
<1> HIDE DEF G
<1>3. \A m \in 0..n : m \in G
  BY <1>1, <1>2, PrefixInduction
<1>4. n \in G
  BY <1>3
<1> QED BY <1>4 DEF G

\* Places that are all different are not more than there are.
LEMMA FewPlaces ==
  ASSUME NEW m \in Nat, NEW n \in Nat, NEW at \in [1..m -> 1..n],
         \A i, j \in 1..m : at[i] = at[j] => i = j
  PROVE  m <= n
<1>1. at \in Injection(1..m, 1..n)
  BY DEF Injection, IsInjective
<1>3. /\ IsFiniteSet(1..m) /\ Cardinality(1..m) = m
      /\ IsFiniteSet(1..n) /\ Cardinality(1..n) = n
  <2>1. \A k \in Nat : IsFiniteSet(1..k) /\ Cardinality(1..k) = k
    <3> SUFFICES ASSUME NEW k \in Nat PROVE IsFiniteSet(1..k) /\ Cardinality(1..k) = k
      OBVIOUS
    <3>1. IsFiniteSet(1..k) /\ Cardinality(1..k) = IF 1 > k THEN 0 ELSE k - 1 + 1
      BY FS_Interval
    <3> QED BY <3>1
  <2> QED BY <2>1
<1>4. Cardinality(1..m) <= Cardinality(1..n)
  BY <1>1, <1>3, FS_Injection
<1> QED BY <1>3, <1>4

\* What is kept is not longer than what it is kept of.
LEMMA KeptIsShorter ==
  ASSUME NEW T, NEW s \in Seq(T), NEW S
  PROVE  Len(Kept(s, S)) \in Nat /\ Len(Kept(s, S)) <= Len(s)
<1> DEFINE k == Kept(s, S)
           m == Len(k)
           n == Len(s)
<1>1. /\ k \in Seq(T)
      /\ \E at \in [DOMAIN k -> DOMAIN s] :
           \A i, j \in DOMAIN k : i < j => at[i] < at[j]
  BY KeptProperties
<1> HIDE DEF k
<1>2. m \in Nat /\ n \in Nat /\ DOMAIN k = 1..m /\ DOMAIN s = 1..n
  BY <1>1
<1>3. PICK at \in [1..m -> 1..n] : \A i, j \in 1..m : i < j => at[i] < at[j]
  BY <1>1, <1>2
<1>4. ASSUME NEW i \in 1..m, NEW j \in 1..m, at[i] = at[j] PROVE i = j
  <2>1. at[i] \in Int /\ at[j] \in Int
    BY <1>2, <1>3
  <2>2. ~(i < j) /\ ~(j < i)
    BY <1>3, <1>4, <2>1
  <2> QED BY <1>2, <2>2
<1>5. m <= n
  BY <1>2, <1>4, FewPlaces
<1> QED BY <1>2, <1>5 DEF k

\* The sum of zeros.
LEMMA TotalOfZeros ==
  ASSUME NEW s \in Seq(Int), \A k \in 1..Len(s) : s[k] = 0
  PROVE  Total(s) = 0
<1>1. Total(s) = Total(s) + Total(s)
  BY TotalOfBoth
<1>2. Total(s) \in Int
  BY TotalIsInt
<1> QED BY <1>1, <1>2

\* What a fold makes of the beginnings of a sequence is a recursion.
LEMMA FoldIsRecursion ==
  ASSUME NEW n \in Nat, NEW D, NEW base \in D, NEW g \in [1..n -> [D -> D]],
         NEW it, it[{}] = base,
         \A k \in 1..n : it[1..(k - 1)] \in D => it[1..k] = g[k][it[1..(k - 1)]]
  PROVE  IsRecursion([k \in 0..n |-> it[1..k]], n, D, base, g)
<1> DEFINE f == [k \in 0..n |-> it[1..k]]
           G == {k \in 0..n : f[k] \in D}
<1>1. \A k \in 0..n : f[k] = it[1..k]
  OBVIOUS
<1>2. f[0] = base
  <2>1. 1..0 = {} /\ 0 \in 0..n
    OBVIOUS
  <2> QED BY <1>1, <2>1
<1>3. ASSUME NEW k \in 1..n, f[k - 1] \in D PROVE f[k] = g[k][f[k - 1]] /\ f[k] \in D
  <2>1. k \in 0..n /\ k - 1 \in 0..n
    OBVIOUS
  <2>2. f[k] = it[1..k] /\ f[k - 1] = it[1..(k - 1)]
    BY <1>1, <2>1
  <2>3. f[k] = g[k][f[k - 1]]
    BY <1>3, <2>2
  <2> HIDE DEF f
  <2> QED BY <1>3, <2>3
<1>4. \A k \in 0..n : k \in G
  <2>1. 0 \in G
    BY <1>2
  <2>2. ASSUME NEW k \in 1..n, k - 1 \in G PROVE k \in G
    BY <1>3, <2>2
  <2> HIDE DEF G
  <2> QED BY <2>1, <2>2, PrefixInduction
<1>5. \A k \in 0..n : f[k] \in D
  BY <1>4
<1>6. f \in [0..n -> D]
  BY <1>1, <1>5
<1>7. \A k \in 1..n : f[k] = g[k][f[k - 1]]
  <2> SUFFICES ASSUME NEW k \in 1..n PROVE f[k] = g[k][f[k - 1]]
    OBVIOUS
  <2>1. k - 1 \in 0..n
    OBVIOUS
  <2> QED BY <1>3, <1>5, <2>1
<1> QED BY <1>2, <1>6, <1>7 DEF IsRecursion

\* A sequence that is in the order of its keys is left as it is.
LEMMA SortedByOfOrdered ==
  ASSUME NEW T, NEW s \in Seq(T), NEW K \in [DOMAIN s -> Int],
         \A i, j \in 1..Len(s) : i < j => K[i] <= K[j]
  PROVE  SortedBy(s, K) = s
<1> DEFINE n == Len(s)
           r == SortedBy(s, K)
<1>1. n \in Nat /\ DOMAIN s = 1..n /\ \A i \in 1..n : K[i] \in Int
  OBVIOUS
<1>2. \A i, j \in 1..n : SortsBefore(K, i, j) => i < j
  <2> SUFFICES ASSUME NEW i \in 1..n, NEW j \in 1..n, SortsBefore(K, i, j), ~(i < j)
               PROVE  FALSE
    OBVIOUS
  <2>1. K[i] < K[j]
    BY DEF SortsBefore
  <2>2. i # j
    BY <1>1, <2>1
  <2>3. j < i
    BY <1>1, <2>2
  <2> QED BY <1>1, <2>1, <2>3
<1>3. r \in Seq(T) /\ Len(r) = n
  BY SortedByProperties
<1>4. PICK at \in [DOMAIN s -> DOMAIN s] :
        /\ \A i \in DOMAIN s : r[i] = s[at[i]]
        /\ \A i \in DOMAIN s : \E j \in DOMAIN s : at[j] = i
        /\ \A i, j \in DOMAIN s : i < j <=> SortsBefore(K, at[i], at[j])
  <2> HIDE DEF n
  <2> QED BY SortedByProperties
<1> HIDE DEF n, r
<1>5. /\ at \in [1..n -> 1..n]
      /\ \A x \in 1..n : \E k \in 1..n : at[k] = x
      /\ \A i, j \in 1..n : i < j => at[i] < at[j]
  BY <1>1, <1>2, <1>4
<1>6. \A k \in 1..n : at[k] = k
  BY <1>1, <1>5, OntoIsIdentity
<1>7. \A k \in 1..n : r[k] = s[k]
  BY <1>1, <1>4, <1>6
<1> QED BY <1>3, <1>7, SeqEqual DEF n, r

\* The sum of a sequence that begins with one more value.
LEMMA TotalOfFirst ==
  ASSUME NEW x \in Int, NEW s \in Seq(Int)
  PROVE  Total(<<x>> \o s) = x + Total(s)
<1> DEFINE n == Len(s)
           r == <<x>> \o s
<1>1. n \in Nat /\ r \in Seq(Int) /\ Len(r) = n + 1 /\ r[1] = x
      /\ \A k \in 1..n : r[k + 1] = s[k] /\ s[k] \in Int
  OBVIOUS
<1>2. PICK f \in [0..n -> Int] :
        f[0] = 0 /\ (\A k \in 1..n : f[k] = f[k - 1] + s[k]) /\ Total(s) = f[n]
  BY TotalProperties
<1> HIDE DEF r
<1>3. PICK h \in [0..(n + 1) -> Int] :
        h[0] = 0 /\ (\A k \in 1..(n + 1) : h[k] = h[k - 1] + r[k]) /\ Total(r) = h[n + 1]
  <2>1. Len(r) = n + 1
    BY <1>1
  <2> QED BY <1>1, <2>1, TotalProperties
<1> DEFINE G == {k \in 0..n : h[k + 1] = x + f[k]}
<1> HIDE DEF n
<1>4. 0 \in G
  <2>1. 1 \in 1..(n + 1) /\ 1 - 1 = 0
    BY <1>1
  <2>2. h[1] = h[0] + r[1]
    BY <1>3, <2>1
  <2> QED BY <1>1, <1>2, <1>3, <2>2
<1>5. ASSUME NEW k \in 1..n, k - 1 \in G PROVE k \in G
  <2>1. k + 1 \in 1..(n + 1) /\ (k + 1) - 1 = k /\ (k - 1) + 1 = k /\ k \in 0..n /\ k - 1 \in 0..n
    BY <1>1
  <2>2. h[k + 1] = h[k] + s[k] /\ h[k] = x + f[k - 1] /\ f[k] = f[k - 1] + s[k]
        /\ f[k - 1] \in Int /\ s[k] \in Int
    BY <1>1, <1>2, <1>3, <1>5, <2>1
  <2> QED BY <2>1, <2>2
<1> HIDE DEF G
<1>6. \A k \in 0..n : k \in G
  BY <1>1, <1>4, <1>5, PrefixInduction
<1> QED BY <1>1, <1>2, <1>3, <1>6 DEF G, r

=============================================================================
