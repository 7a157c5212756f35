--------------------------- MODULE DataInduction ---------------------------
(***************************************************************************)
(* Induction and primitive recursion for the proofs of this project.  The  *)
(* provers cannot instantiate the induction theorems of the library, which *)
(* take a predicate as parameter; the forms here take a set or a function. *)
(* They rest on the finite sets being well founded under inclusion.        *)
(***************************************************************************)
EXTENDS Sifting, SequencesExt, FiniteSetTheorems, SequenceTheorems, TLAPS

(* A set with zero and every successor of its numbers holds every natural  *)
(* number.  A proof by induction names the set of the numbers for which    *)
(* its claim holds.                                                        *)
LEMMA InductionBySet ==
  ASSUME NEW T, 0 \in T, \A n \in Nat : n \in T => n + 1 \in T
  PROVE  \A n \in Nat : n \in T
<1> DEFINE below == {0..n : n \in Nat \ T}
           smaller == StrictSubsetOrdering(Nat)
<1>1. SUFFICES ASSUME NEW m \in Nat, m \notin T PROVE FALSE
  OBVIOUS
<1>2. \A n \in Nat : 0..n \in FiniteSubsetsOf(Nat)
  <2>1. \A n \in Nat : IsFiniteSet(0..n)
    BY FS_Interval
  <2>2. \A n \in Nat : 0..n \in SUBSET Nat
    OBVIOUS
  <2> QED
    BY <2>1, <2>2 DEF FiniteSubsetsOf
<1>3. below \subseteq FiniteSubsetsOf(Nat) /\ 0..m \in below
  BY <1>1, <1>2
<1>4. \E x \in below : \A y \in below : ~(<<y, x>> \in smaller)
  <2>1. IsWellFoundedOn(smaller, FiniteSubsetsOf(Nat))
    BY FS_StrictSubsetOrderingWellFounded
  <2> HIDE DEF smaller, below
  <2> QED
    BY <1>3, <2>1, WFMin
<1>5. PICK n \in Nat \ T : \A k \in Nat \ T : ~(<<0..k, 0..n>> \in smaller)
  BY <1>4
<1>6. n # 0 /\ n - 1 \in Nat
  BY <1>5
<1>7. n - 1 \in T
  <2>1. /\ 0..(n - 1) \subseteq 0..n /\ 0..(n - 1) # 0..n
        /\ 0..(n - 1) \subseteq Nat /\ 0..n \subseteq Nat
    BY <1>6
  <2>2. <<0..(n - 1), 0..n>> \in smaller
    BY <2>1 DEF StrictSubsetOrdering
  <2> QED
    BY <2>2, <1>5, <1>6
<1> QED
  BY <1>5, <1>6, <1>7

(* The same up to a bound.                                                 *)
LEMMA InductionUpTo ==
  ASSUME NEW N \in Nat, NEW T, 0 \in T, \A n \in 1..N : n - 1 \in T => n \in T
  PROVE  \A n \in 0..N : n \in T
<1> DEFINE U == {n \in Nat : n <= N => n \in T}
<1>1. 0 \in U
  OBVIOUS
<1>2. ASSUME NEW n \in Nat, n \in U PROVE n + 1 \in U
  <2>1. CASE n + 1 <= N
    <3>1. n + 1 \in 1..N /\ (n + 1) - 1 = n /\ n \in T
      BY <1>2, <2>1
    <3> QED
      BY <3>1
  <2>2. CASE ~(n + 1 <= N)
    BY <2>2
  <2> QED
    BY <2>1, <2>2
<1>3. \A n \in Nat : n \in U
  <2> HIDE DEF U
  <2> QED
    BY <1>1, <1>2, InductionBySet
<1> QED
  BY <1>3

(* Two functions on 0..N that start alike and go on alike are alike.       *)
GoAlike(f, g, N) ==
  /\ f[0] = g[0]
  /\ \A n \in 1..N : f[n - 1] = g[n - 1] => f[n] = g[n]

LEMMA SameRecursion ==
  ASSUME NEW N \in Nat, NEW f, NEW g, GoAlike(f, g, N)
  PROVE  \A n \in 0..N : f[n] = g[n]
<1> DEFINE T == {n \in 0..N : f[n] = g[n]}
<1>1. 0 \in T
  BY DEF GoAlike
<1>2. \A n \in 1..N : n - 1 \in T => n \in T
  BY DEF GoAlike
<1>3. \A n \in 0..N : n \in T
  <2> HIDE DEF T
  <2> QED
    BY <1>1, <1>2, InductionUpTo
<1> QED
  BY <1>3

(* f starts at base and takes step n with the function next[n].            *)
Recursion(f, N, base, next) ==
  /\ f[0] = base
  /\ \A n \in 1..N : f[n] = next[n][f[n - 1]]

LEMMA RecursionExists ==
  ASSUME NEW X, NEW N \in Nat, NEW base \in X, NEW next \in [1..N -> [X -> X]]
  PROVE  \E f \in [0..N -> X] : Recursion(f, N, base, next)
<1> USE DEF Recursion
<1> DEFINE Runs(m) == {f \in [0..m -> X] : Recursion(f, m, base, next)}
           T == {m \in Nat : m <= N => Runs(m) # {}}
<1>1. 0 \in T
  <2>1. [n \in 0..0 |-> base] \in Runs(0)
    OBVIOUS
  <2> QED
    BY <2>1
<1>2. ASSUME NEW m \in Nat, m \in T PROVE m + 1 \in T
  <2>1. SUFFICES ASSUME m + 1 <= N PROVE Runs(m + 1) # {}
    OBVIOUS
  <2>2. PICK f \in Runs(m) : TRUE
    BY <1>2, <2>1
  <2> DEFINE g == [n \in 0..(m + 1) |-> IF n = m + 1 THEN next[m + 1][f[m]] ELSE f[n]]
  <2>3. f[m] \in X /\ next[m + 1] \in [X -> X]
    BY <2>1, <2>2
  <2>4. g \in [0..(m + 1) -> X]
    BY <2>2, <2>3
  <2>5. ASSUME NEW n \in 1..(m + 1) PROVE g[n] = next[n][g[n - 1]]
    <3>1. g[n - 1] = f[n - 1]
      OBVIOUS
    <3>2. CASE n = m + 1
      <4>1. n - 1 = m /\ g[n] = next[m + 1][f[m]]
        BY <3>2
      <4>2. g[n - 1] = f[m]
        BY <3>1, <4>1
      <4> HIDE DEF g
      <4> QED
        BY <3>2, <4>1, <4>2
    <3>3. CASE n # m + 1
      <4>1. n \in 1..m /\ g[n] = f[n]
        BY <3>3
      <4> QED
        BY <2>2, <3>1, <4>1
    <3> QED
      BY <3>2, <3>3
  <2>6. g[0] = base
    BY <2>2
  <2> HIDE DEF g
  <2>7. g \in Runs(m + 1)
    BY <2>4, <2>5, <2>6
  <2> QED
    BY <2>7
<1>3. N \in T
  <2> HIDE DEF T
  <2> QED
    BY <1>1, <1>2, InductionBySet
<1> QED
  BY <1>3

-----------------------------------------------------------------------------
(* Sift                                                                    *)

(* The function Kept satisfies its recursion and keeps the type.           *)
LEMMA KeptRuns ==
  ASSUME NEW X, NEW seq \in Seq(X), NEW gone
  PROVE  /\ Kept(seq, gone) \in [0..Len(seq) -> Seq(X)]
         /\ Kept(seq, gone)[0] = <<>>
         /\ \A n \in 1..Len(seq) :
              Kept(seq, gone)[n] = IF seq[n] \in gone THEN Kept(seq, gone)[n - 1]
                                   ELSE Append(Kept(seq, gone)[n - 1], seq[n])
<1> DEFINE N == Len(seq)
           S == Seq(X)
           Go(k, n) == IF seq[n] \in gone THEN k ELSE Append(k, seq[n])
           Is(f) == f = [n \in 0..N |-> IF n = 0 THEN <<>> ELSE Go(f[n - 1], n)]
           next == [n \in 1..N |-> [k \in S |-> Go(k, n)]]
           kept == Kept(seq, gone)
<1>1. N \in Nat /\ \A n \in 1..N : seq[n] \in X
  BY LenProperties, ElementOfSeq
<1>2. \A k \in S, n \in 1..N : Go(k, n) \in S
  BY <1>1, AppendProperties
<1>3. kept = CHOOSE g : Is(g)
  BY DEF Kept
<1>4. <<>> \in S
  BY EmptySeq
<1> HIDE DEF N, S, Go, kept
<1>5. next \in [1..N -> [S -> S]]
  BY <1>2
<1>6. \A k \in S, n \in 1..N : next[n][k] = Go(k, n)
  OBVIOUS
<1> HIDE DEF next
<1>7. \E f \in [0..N -> S] : Recursion(f, N, <<>>, next)
  BY <1>1, <1>4, <1>5, RecursionExists
<1>8. PICK f \in [0..N -> S] : /\ f[0] = <<>>
                               /\ \A n \in 1..N : f[n] = next[n][f[n - 1]]
  BY <1>7 DEF Recursion
<1>9. \A n \in 1..N : n - 1 \in 0..N /\ f[n - 1] \in S /\ f[n] = Go(f[n - 1], n)
  BY <1>1, <1>6, <1>8
<1>10. Is(f)
  BY <1>1, <1>8, <1>9
<1>11. Is(kept)
  <2> HIDE DEF Is
  <2> QED
    BY <1>3, <1>10
<1>12. kept[0] = <<>> /\ \A n \in 1..N : kept[n] = Go(kept[n - 1], n)
  BY <1>1, <1>11
<1>13. \A n \in 0..N : kept[n] = f[n]
  <2>1. GoAlike(kept, f, N)
    BY <1>8, <1>9, <1>12 DEF GoAlike
  <2> QED
    BY <1>1, <2>1, SameRecursion
<1>14. kept = f
  BY <1>1, <1>8, <1>11, <1>13
<1> QED
  BY <1>8, <1>12, <1>14 DEF kept, N, S, Go

LEMMA AppendRange ==
  ASSUME NEW X, NEW seq \in Seq(X), NEW x \in X
  PROVE  ToSet(Append(seq, x)) = ToSet(seq) \cup {x}
<1>1. /\ Len(seq) \in Nat /\ DOMAIN seq = 1..Len(seq)
      /\ DOMAIN Append(seq, x) = 1..(Len(seq) + 1)
      /\ \A i \in 1..Len(seq) : Append(seq, x)[i] = seq[i]
      /\ Append(seq, x)[Len(seq) + 1] = x
  BY AppendProperties, LenProperties
<1> QED
  BY <1>1 DEF ToSet

(* What is true of <<>>, and after each entry taken in or left out, is     *)
(* true of the sifted sequence: the forms this takes below.                *)
LEMMA SiftType ==
  ASSUME NEW X, NEW seq \in Seq(X), NEW gone
  PROVE  Sift(seq, gone) \in Seq(X)
<1>1. Len(seq) \in Nat
  BY LenProperties
<1>2. Kept(seq, gone) \in [0..Len(seq) -> Seq(X)]
  BY KeptRuns
<1> QED
  BY <1>1, <1>2 DEF Sift

LEMMA SiftEmpty ==
  ASSUME NEW gone
  PROVE  Sift(<<>>, gone) = <<>>
<1> DEFINE none == <<>>
           S == Seq({})
<1>1. none \in S /\ Len(none) = 0
  BY EmptySeq
<1>2. \A seq \in S : Kept(seq, gone)[0] = <<>>
  BY KeptRuns
<1> HIDE DEF none, S
<1>3. Sift(none, gone) = <<>>
  BY <1>1, <1>2 DEF Sift
<1> QED
  BY <1>3 DEF none

(* Sifting takes away exactly the entries in gone.                         *)
LEMMA SiftRange ==
  ASSUME NEW X, NEW seq \in Seq(X), NEW gone
  PROVE  ToSet(Sift(seq, gone)) = ToSet(seq) \ gone
<1> DEFINE N == Len(seq)
           K == Kept(seq, gone)
           T == {n \in 0..N : ToSet(K[n]) = {seq[i] : i \in 1..n} \ gone}
<1>1. N \in Nat /\ DOMAIN seq = 1..N /\ \A n \in 1..N : seq[n] \in X
  BY LenProperties, ElementOfSeq
<1>2. /\ K \in [0..N -> Seq(X)] /\ K[0] = <<>>
      /\ \A n \in 1..N : K[n] = IF seq[n] \in gone THEN K[n - 1]
                               ELSE Append(K[n - 1], seq[n])
  BY KeptRuns
<1> HIDE DEF N, K
<1>3. 0 \in T
  BY <1>1, <1>2 DEF ToSet
<1>4. ASSUME NEW n \in 1..N, n - 1 \in T PROVE n \in T
  <2>1. K[n - 1] \in Seq(X) /\ seq[n] \in X
    BY <1>1, <1>2
  <2>2. {seq[i] : i \in 1..n} = {seq[i] : i \in 1..(n - 1)} \cup {seq[n]}
    BY <1>1
  <2>3. CASE seq[n] \in gone
    BY <1>1, <1>2, <1>4, <2>2, <2>3
  <2>4. CASE seq[n] \notin gone
    <3>1. ToSet(Append(K[n - 1], seq[n])) = ToSet(K[n - 1]) \cup {seq[n]}
      BY <2>1, AppendRange
    <3>2. K[n] = Append(K[n - 1], seq[n])
      BY <1>2, <2>4
    <3>3. ToSet(K[n - 1]) = {seq[i] : i \in 1..(n - 1)} \ gone
      BY <1>4
    <3>4. ToSet(K[n]) = {seq[i] : i \in 1..n} \ gone
      BY <2>2, <2>4, <3>1, <3>2, <3>3
    <3> QED
      BY <1>1, <3>4
  <2> QED
    BY <2>3, <2>4
<1>5. N \in T
  <2> HIDE DEF T
  <2> QED
    BY <1>1, <1>3, <1>4, InductionUpTo
<1> QED
  BY <1>1, <1>5 DEF N, K, Sift, ToSet

(* A sifted sequence is no longer, and shorter if there was anything to    *)
(* take away.                                                              *)
LEMMA SiftLength ==
  ASSUME NEW X, NEW seq \in Seq(X), NEW gone
  PROVE  /\ Len(Sift(seq, gone)) <= Len(seq)
         /\ ToSet(seq) \cap gone # {} => Len(Sift(seq, gone)) < Len(seq)
<1> DEFINE N == Len(seq)
           K == Kept(seq, gone)
           T == {n \in 0..N : /\ Len(K[n]) <= n
                              /\ \A i \in 1..n : seq[i] \in gone => Len(K[n]) < n}
<1>1. N \in Nat /\ DOMAIN seq = 1..N /\ \A n \in 1..N : seq[n] \in X
  BY LenProperties, ElementOfSeq
<1>2. /\ K \in [0..N -> Seq(X)] /\ K[0] = <<>>
      /\ \A n \in 1..N : K[n] = IF seq[n] \in gone THEN K[n - 1]
                               ELSE Append(K[n - 1], seq[n])
  BY KeptRuns
<1> HIDE DEF N, K
<1>3. 0 \in T
  BY <1>1, <1>2, EmptySeq
<1>4. ASSUME NEW n \in 1..N, n - 1 \in T PROVE n \in T
  <2>1. K[n - 1] \in Seq(X) /\ seq[n] \in X
    BY <1>1, <1>2
  <2>2. Len(K[n - 1]) \in Nat /\ Len(Append(K[n - 1], seq[n])) = Len(K[n - 1]) + 1
    BY <2>1, LenProperties, AppendProperties
  <2>3. CASE seq[n] \in gone
    BY <1>1, <1>2, <1>4, <2>2, <2>3
  <2>4. CASE seq[n] \notin gone
    <3>1. Len(K[n]) = Len(K[n - 1]) + 1 /\ Len(K[n - 1]) <= n - 1
      BY <1>2, <1>4, <2>2, <2>4
    <3>2. ASSUME NEW i \in 1..n, seq[i] \in gone PROVE Len(K[n]) < n
      <4>1. i \in 1..(n - 1)
        BY <1>1, <2>4, <3>2
      <4> QED
        BY <1>1, <1>4, <2>2, <3>1, <3>2, <4>1
    <3> QED
      BY <1>1, <2>2, <3>1, <3>2
  <2> QED
    BY <2>3, <2>4
<1>5. N \in T
  <2> HIDE DEF T
  <2> QED
    BY <1>1, <1>3, <1>4, InductionUpTo
<1> QED
  BY <1>1, <1>5 DEF N, K, Sift, ToSet

(* A list in which nobody is twice stays one.                              *)
Distinct(seq) == \A i, j \in DOMAIN seq : seq[i] = seq[j] => i = j

LEMMA AppendDistinct ==
  ASSUME NEW X, NEW seq \in Seq(X), Distinct(seq), NEW x \in X, x \notin ToSet(seq)
  PROVE  Distinct(Append(seq, x))
<1>1. /\ Len(seq) \in Nat /\ DOMAIN seq = 1..Len(seq)
      /\ DOMAIN Append(seq, x) = 1..(Len(seq) + 1)
      /\ \A i \in 1..Len(seq) : Append(seq, x)[i] = seq[i]
      /\ Append(seq, x)[Len(seq) + 1] = x
  BY AppendProperties, LenProperties
<1>2. \A i \in 1..Len(seq) : seq[i] # x
  BY <1>1 DEF ToSet
<1> QED
  BY <1>1, <1>2 DEF Distinct

LEMMA SiftDistinct ==
  ASSUME NEW X, NEW seq \in Seq(X), NEW gone, Distinct(seq)
  PROVE  Distinct(Sift(seq, gone))
<1> DEFINE N == Len(seq)
           K == Kept(seq, gone)
           T == {n \in 0..N : /\ Distinct(K[n])
                              /\ ToSet(K[n]) \subseteq {seq[i] : i \in 1..n}}
<1>1. N \in Nat /\ DOMAIN seq = 1..N /\ \A n \in 1..N : seq[n] \in X
  BY LenProperties, ElementOfSeq
<1>2. /\ K \in [0..N -> Seq(X)] /\ K[0] = <<>>
      /\ \A n \in 1..N : K[n] = IF seq[n] \in gone THEN K[n - 1]
                               ELSE Append(K[n - 1], seq[n])
  BY KeptRuns
<1> HIDE DEF N, K
<1>3. 0 \in T
  BY <1>1, <1>2 DEF ToSet, Distinct
<1>4. ASSUME NEW n \in 1..N, n - 1 \in T PROVE n \in T
  <2>1. K[n - 1] \in Seq(X) /\ seq[n] \in X
    BY <1>1, <1>2
  <2>2. {seq[i] : i \in 1..n} = {seq[i] : i \in 1..(n - 1)} \cup {seq[n]}
    BY <1>1
  <2>3. Distinct(K[n - 1]) /\ ToSet(K[n - 1]) \subseteq {seq[i] : i \in 1..(n - 1)}
    BY <1>4
  <2>4. CASE seq[n] \in gone
    <3>1. K[n] = K[n - 1]
      BY <1>2, <2>4
    <3> QED
      BY <1>1, <2>2, <2>3, <3>1
  <2>5. CASE seq[n] \notin gone
    <3>1. K[n] = Append(K[n - 1], seq[n])
      BY <1>2, <2>5
    <3>2. seq[n] \notin {seq[i] : i \in 1..(n - 1)}
      BY <1>1 DEF Distinct
    <3>3. Distinct(K[n])
      BY <2>1, <2>3, <3>1, <3>2, AppendDistinct
    <3>4. ToSet(K[n]) = ToSet(K[n - 1]) \cup {seq[n]}
      BY <2>1, <3>1, AppendRange
    <3> QED
      BY <1>1, <2>2, <2>3, <3>3, <3>4
  <2> QED
    BY <2>4, <2>5
<1>5. N \in T
  <2> HIDE DEF T
  <2> QED
    BY <1>1, <1>3, <1>4, InductionUpTo
<1> QED
  BY <1>5 DEF N, K, Sift

(* Such a list is as long as the set of its entries is large.              *)
LEMMA DistinctLength ==
  ASSUME NEW X, NEW seq \in Seq(X), Distinct(seq)
  PROVE  IsFiniteSet(ToSet(seq)) /\ Cardinality(ToSet(seq)) = Len(seq)
<1>1. Len(seq) \in Nat /\ DOMAIN seq = 1..Len(seq) /\ seq \in [1..Len(seq) -> X]
  BY LenProperties
<1>2. seq \in Bijection(1..Len(seq), ToSet(seq))
  BY <1>1 DEF Bijection, Injection, IsInjective, Surjection, ToSet, Distinct
<1>3. ExistsBijection(1..Len(seq), ToSet(seq))
  BY <1>2 DEF ExistsBijection
<1> QED
  BY <1>1, <1>3, FS_CountingElements, FS_NatBijection
=============================================================================
