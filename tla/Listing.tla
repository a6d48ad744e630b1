-------------------------------- MODULE Listing --------------------------------
(***************************************************************************)
(* Sequences that are made by sorting and by filtering, and functions that *)
(* are made by overriding one with another.  They take sets and functions  *)
(* where the operators of Sequences, TLC and SequencesExt take operators,  *)
(* so that Listing_proofs can state once what they return.                 *)
(***************************************************************************)
EXTENDS Integers, Sequences, FiniteSets

\* The sequence s itself.  TLC computes it once, and not at every application.
Computed(s) == s \o <<>>

\* The k-th of a set of numbers, the smallest first.
Nth(S, k) == CHOOSE x \in S : Cardinality({y \in S : y < x}) = k - 1
Ascending(S) == Computed([k \in 1..Cardinality(S) |-> Nth(S, k)])

\* The elements of a sequence that are in S, in their order.
Kept(s, S) ==
  LET places == {i \in DOMAIN s : s[i] \in S}
  IN  Computed([k \in 1..Cardinality(places) |-> s[Nth(places, k)]])

\* A sequence in the order R of its places: the place of an element is the number
\* of those that R puts before it.
Sorted(s, R) ==
  Computed([k \in DOMAIN s |->
    s[CHOOSE i \in DOMAIN s : Cardinality({j \in DOMAIN s : <<j, i>> \in R}) = k - 1]])

\* A sequence sorted by the numbers K[i] of its places, equals in their order.
SortsBefore(K, j, i) == K[j] < K[i] \/ (K[j] = K[i] /\ j < i)
SortedBy(s, K) ==
  Sorted(s, {p \in (DOMAIN s) \X (DOMAIN s) : SortsBefore(K, p[1], p[2])})

\* The sum of a sequence of numbers.
Total(s) ==
  LET total[k \in 0..Len(s)] == IF k = 0 THEN 0 ELSE total[k - 1] + s[k]
  IN  total[Len(s)]

\* The function f, and g where f is not defined.
Over(f, g) == [x \in DOMAIN f \cup DOMAIN g |-> IF x \in DOMAIN f THEN f[x] ELSE g[x]]

=============================================================================
