-------------------------- MODULE MixLayoutProofs --------------------------
(***************************************************************************)
(* Proofs about MixLayout, for any set of sessions and users, either order *)
(* of promise reactions and all bounds.  What Outlook computes, and how    *)
(* often a user is left in what Sift returns, is established by induction  *)
(* over the sequences they run through.                                    *)
(***************************************************************************)
EXTENDS MixLayout, RecorderServiceProofs, DataInduction

USE DEF onCleanup

-----------------------------------------------------------------------------
(* Counting                                                                *)

(* How often u occurs in a sequence.                                       *)
Count(seq, u) == Cardinality({i \in DOMAIN seq : seq[i] = u})

LEMMA CountType ==
  ASSUME NEW X, NEW seq \in Seq(X), NEW u
  PROVE  /\ IsFiniteSet({i \in DOMAIN seq : seq[i] = u})
         /\ Count(seq, u) \in Nat
         /\ u \in ToSet(seq) <=> Count(seq, u) > 0
         /\ u \notin ToSet(seq) => Count(seq, u) = 0
<1> DEFINE places == {i \in DOMAIN seq : seq[i] = u}
<1>1. DOMAIN seq = 1..Len(seq) /\ Len(seq) \in Nat
  BY LenProperties
<1>2. IsFiniteSet(DOMAIN seq)
  BY <1>1, FS_Interval
<1>3. IsFiniteSet(places)
  BY <1>2, FS_Subset
<1>4. u \notin ToSet(seq) <=> places = {}
  BY DEF ToSet
<1> HIDE DEF places
<1>5. Cardinality(places) \in Nat /\ (Cardinality(places) = 0 <=> places = {})
  BY <1>3, FS_CardinalityType, FS_EmptySet
<1>6. Count(seq, u) = Cardinality(places)
  BY DEF Count, places
<1> QED
  BY <1>3, <1>4, <1>5, <1>6 DEF places

LEMMA CountAppend ==
  ASSUME NEW X, NEW seq \in Seq(X), NEW x \in X, NEW u
  PROVE  Count(Append(seq, x), u) = IF x = u THEN Count(seq, u) + 1 ELSE Count(seq, u)
<1> DEFINE old == {i \in DOMAIN seq : seq[i] = u}
           new == {i \in DOMAIN Append(seq, x) : Append(seq, x)[i] = u}
<1>1. /\ Len(seq) \in Nat /\ DOMAIN seq = 1..Len(seq)
      /\ DOMAIN Append(seq, x) = 1..(Len(seq) + 1)
      /\ \A i \in 1..Len(seq) : Append(seq, x)[i] = seq[i]
      /\ Append(seq, x)[Len(seq) + 1] = x
  BY AppendProperties, LenProperties
<1>2. IsFiniteSet(old) /\ Len(seq) + 1 \notin old
  <2>1. Len(seq) + 1 \notin old
    BY <1>1
  <2>2. IsFiniteSet(old)
    BY CountType
  <2> QED
    BY <2>1, <2>2
<1>3. CASE x = u
  <2>1. new = old \cup {Len(seq) + 1}
    BY <1>1, <1>3
  <2> HIDE DEF old, new
  <2>2. Cardinality(new) = Cardinality(old) + 1
    BY <1>2, <2>1, FS_AddElement
  <2> QED
    BY <1>3, <2>2 DEF Count, old, new
<1>4. CASE x # u
  <2>1. new = old
    BY <1>1, <1>4
  <2> QED
    BY <1>4, <2>1 DEF Count
<1> QED
  BY <1>3, <1>4

(* An entry occurs as often in the sifted sequence, or not at all.         *)
LEMMA SiftCount ==
  ASSUME NEW X, NEW seq \in Seq(X), NEW gone, NEW u
  PROVE  Count(Sift(seq, gone), u) = IF u \in gone THEN 0 ELSE Count(seq, u)
<1>1. CASE u \in gone
  <2>1. Sift(seq, gone) \in Seq(X) /\ u \notin ToSet(Sift(seq, gone))
    BY <1>1, SiftType, SiftRange
  <2> QED
    BY <1>1, <2>1, CountType
<1>2. CASE u \notin gone
  <2> DEFINE N == Len(seq)
             K == Kept(seq, gone)
             places(n) == {i \in 1..n : seq[i] = u}
             T == {n \in 0..N : Count(K[n], u) = Cardinality(places(n))}
  <2>1. N \in Nat /\ DOMAIN seq = 1..N /\ \A n \in 1..N : seq[n] \in X
    BY LenProperties, ElementOfSeq
  <2>2. /\ K \in [0..N -> Seq(X)] /\ K[0] = <<>>
        /\ \A n \in 1..N : K[n] = IF seq[n] \in gone THEN K[n - 1]
                                 ELSE Append(K[n - 1], seq[n])
    BY KeptRuns
  <2> HIDE DEF N, K
  <2>3. \A n \in 0..N : IsFiniteSet(places(n)) /\ Cardinality(places(n)) \in Nat
    <3>1. TAKE n \in 0..N
    <3>2. IsFiniteSet(1..n) /\ places(n) \in SUBSET (1..n)
      BY <2>1, FS_Interval
    <3> HIDE DEF places
    <3>3. IsFiniteSet(places(n))
      BY <3>2, FS_Subset
    <3> QED
      BY <3>3, FS_CardinalityType
  <2>4. 0 \in T
    <3>1. K[0] \in Seq(X) /\ u \notin ToSet(K[0])
      BY <2>1, <2>2 DEF ToSet
    <3>2. Count(K[0], u) = 0
      BY <3>1, CountType
    <3>3. places(0) = {}
      BY <2>1
    <3>4. Cardinality(places(0)) = 0
      BY ONLY <3>3, FS_EmptySet
    <3>5. 0 \in 0..N
      BY <2>1
    <3> HIDE DEF places
    <3> QED
      BY <3>2, <3>4, <3>5
  <2>5. ASSUME NEW n \in 1..N, n - 1 \in T PROVE n \in T
    <3>1. n \in Nat /\ n - 1 \in 0..N /\ n \in 0..N
      BY <2>1
    <3>2. K[n - 1] \in Seq(X) /\ seq[n] \in X
      BY <2>1, <2>2, <3>1
    <3>3. Count(K[n - 1], u) = Cardinality(places(n - 1))
      BY <2>5
    <3>4. CASE seq[n] = u
      <4>1. places(n) = places(n - 1) \cup {n} /\ n \notin places(n - 1)
        BY <3>1, <3>4
      <4>2. K[n] = Append(K[n - 1], seq[n])
        BY <1>2, <2>2, <3>4
      <4>3. Count(K[n], u) = Count(K[n - 1], u) + 1
        BY <3>2, <3>4, <4>2, CountAppend
      <4> HIDE DEF places
      <4>4. Cardinality(places(n)) = Cardinality(places(n - 1)) + 1
        BY <2>3, <3>1, <4>1, FS_AddElement
      <4> QED
        BY <3>1, <3>3, <4>3, <4>4
    <3>5. CASE seq[n] # u
      <4>1. places(n) = places(n - 1)
        BY <3>1, <3>5
      <4>2. Count(K[n], u) = Count(K[n - 1], u)
        <5>1. CASE seq[n] \in gone
          BY <2>2, <5>1
        <5>2. CASE seq[n] \notin gone
          <6>1. K[n] = Append(K[n - 1], seq[n])
            BY <2>2, <5>2
          <6> QED
            BY <3>2, <3>5, <6>1, CountAppend
        <5> QED
          BY <5>1, <5>2
      <4> HIDE DEF places
      <4> QED
        BY <3>1, <3>3, <4>1, <4>2
    <3> QED
      BY <3>4, <3>5
  <2>6. N \in T
    <3> HIDE DEF T
    <3> QED
      BY <2>1, <2>4, <2>5, InductionUpTo
  <2>7. places(N) = {i \in DOMAIN seq : seq[i] = u}
    BY <2>1
  <2>8. Count(K[N], u) = Count(seq, u)
    BY <2>6, <2>7 DEF Count
  <2> QED
    BY <1>2, <2>8 DEF N, K, Sift
<1> QED
  BY <1>1, <1>2

-----------------------------------------------------------------------------
(* Regions                                                                 *)

LEMMA UidsType ==
  ASSUME NEW regions \in Seq(Region)
  PROVE  /\ Uids(regions) \in Seq(Users)
         /\ Len(Uids(regions)) = Len(regions)
         /\ DOMAIN regions = 1..Len(regions)
         /\ \A i \in 1..Len(regions) : regions[i] \in Region /\ Uids(regions)[i] = regions[i].uid
<1>1. /\ DOMAIN regions = 1..Len(regions) /\ Len(regions) \in Nat
      /\ \A i \in 1..Len(regions) : regions[i] \in Region
  BY LenProperties, ElementOfSeq
<1>2. \A i \in 1..Len(regions) : regions[i].uid \in Users
  BY <1>1 DEF Region
<1>3. Uids(regions) = [i \in 1..Len(regions) |-> regions[i].uid]
  BY <1>1 DEF Uids
<1>4. Uids(regions) \in [1..Len(regions) -> Users]
  BY <1>2, <1>3
<1>5. Uids(regions) \in Seq(Users)
  BY <1>1, <1>4, SeqDef
<1>6. Len(Uids(regions)) = Len(regions)
  BY <1>1, <1>4, <1>5, LenProperties
<1> QED
  BY <1>1, <1>3, <1>5, <1>6

LEMMA UidsAppend ==
  ASSUME NEW regions \in Seq(Region), NEW r \in Region
  PROVE  Uids(Append(regions, r)) = Append(Uids(regions), r.uid)
<1> DEFINE added == Uids(Append(regions, r))
           wanted == Append(Uids(regions), r.uid)
<1>0. r.uid \in Users
  BY DEF Region
<1>1. /\ Uids(regions) \in Seq(Users) /\ Len(Uids(regions)) = Len(regions)
      /\ Len(regions) \in Nat
      /\ \A i \in 1..Len(regions) : Uids(regions)[i] = regions[i].uid
  BY UidsType, LenProperties
<1>2. /\ Append(regions, r) \in Seq(Region) /\ Len(Append(regions, r)) = Len(regions) + 1
      /\ \A i \in 1..Len(regions) : Append(regions, r)[i] = regions[i]
      /\ Append(regions, r)[Len(regions) + 1] = r
  BY AppendProperties
<1>3. /\ wanted \in Seq(Users) /\ Len(wanted) = Len(regions) + 1
      /\ \A i \in 1..Len(regions) : wanted[i] = regions[i].uid
      /\ wanted[Len(regions) + 1] = r.uid
  BY <1>0, <1>1, AppendProperties
<1>4. /\ added \in Seq(Users) /\ Len(added) = Len(regions) + 1
      /\ \A i \in 1..(Len(regions) + 1) : added[i] = Append(regions, r)[i].uid
  BY <1>2, UidsType
<1> HIDE DEF added, wanted
<1>5. ASSUME NEW i \in 1..(Len(regions) + 1) PROVE added[i] = wanted[i]
  <2>1. CASE i \in 1..Len(regions)
    BY <1>2, <1>3, <1>4, <2>1
  <2>2. CASE i = Len(regions) + 1
    BY <1>2, <1>3, <1>4, <2>2
  <2> QED
    BY <1>1, <2>1, <2>2
<1>6. added = wanted
  BY <1>3, <1>4, <1>5, SeqEqual
<1> QED
  BY <1>6 DEF added, wanted

(* The region that is added has its type, and the uid of its user.         *)
LEMMA AddRegionType ==
  ASSUME NEW regions \in Seq(Region), NEW u \in Users
  PROVE  /\ AddRegion(regions, u) \in Seq(Region)
         /\ Uids(AddRegion(regions, u)) = Append(Uids(regions), u)
<1> DEFINE r == [uid |-> u, x |-> Corner(Len(regions)).x,
                 y |-> Corner(Len(regions)).y, width |-> 640, height |-> 480]
<1>1. Corner(Len(regions)).x \in {0, 320} /\ Corner(Len(regions)).y \in {0, 240}
  BY DEF Corner
<1>2. r \in Region /\ r.uid = u
  BY <1>1 DEF Region
<1>3. AddRegion(regions, u) = Append(regions, r)
  BY DEF AddRegion
<1> HIDE DEF r
<1> QED
  BY <1>2, <1>3, AppendProperties, UidsAppend

(* What the filter of JavaScript leaves is what the native erase leaves of *)
(* the uids.                                                               *)
LEMMA WithoutType ==
  ASSUME NEW regions \in Seq(Region), NEW u
  PROVE  /\ Without(regions, u) \in Seq(Region)
         /\ Uids(Without(regions, u)) = Sift(Uids(regions), {u})
<1> DEFINE gone == {r \in ToSet(regions) : r.uid = u}
           N == Len(regions)
           K == Kept(regions, gone)
           L == Kept(Uids(regions), {u})
           f == [n \in 0..N |-> Uids(K[n])]
<1>1. /\ N \in Nat /\ Uids(regions) \in Seq(Users) /\ Len(Uids(regions)) = N
      /\ \A n \in 1..N : regions[n] \in Region /\ Uids(regions)[n] = regions[n].uid
      /\ DOMAIN regions = 1..N
  BY UidsType, LenProperties
<1>2. \A n \in 1..N : regions[n] \in gone <=> Uids(regions)[n] = u
  BY <1>1 DEF ToSet
<1>3. /\ K \in [0..N -> Seq(Region)] /\ K[0] = <<>>
      /\ \A n \in 1..N : K[n] = IF regions[n] \in gone THEN K[n - 1]
                               ELSE Append(K[n - 1], regions[n])
  BY KeptRuns
<1>4. /\ L[0] = <<>>
      /\ \A n \in 1..N : L[n] = IF Uids(regions)[n] \in {u} THEN L[n - 1]
                               ELSE Append(L[n - 1], Uids(regions)[n])
  BY <1>1, KeptRuns
<1> HIDE DEF K, L, gone, N
<1>5. ASSUME NEW seq \in Seq(Region), NEW r \in Region
      PROVE  Uids(Append(seq, r)) = Append(Uids(seq), r.uid)
  BY UidsAppend
<1>6. GoAlike(f, L, N)
  <2>1. f[0] = L[0]
    <3>1. Uids(<<>>) = <<>>
      BY DEF Uids
    <3> QED
      BY <1>1, <1>3, <1>4, <3>1
  <2>2. ASSUME NEW n \in 1..N, f[n - 1] = L[n - 1] PROVE f[n] = L[n]
    <3>0. n \in 0..N /\ n - 1 \in 0..N
      BY <1>1
    <3>1. f[n] = Uids(K[n]) /\ f[n - 1] = Uids(K[n - 1]) /\ K[n - 1] \in Seq(Region)
      BY <1>3, <3>0
    <3>2. CASE regions[n] \in gone
      BY <1>2, <1>3, <1>4, <2>2, <3>1, <3>2
    <3>3. CASE regions[n] \notin gone
      <4>1. f[n] = Append(Uids(K[n - 1]), regions[n].uid)
        BY <1>1, <1>3, <1>5, <3>1, <3>3
      <4>2. L[n] = Append(L[n - 1], regions[n].uid)
        BY <1>1, <1>2, <1>4, <3>3
      <4> QED
        BY <2>2, <3>1, <4>1, <4>2
    <3> QED
      BY <3>2, <3>3
  <2> HIDE DEF f
  <2> QED
    BY <2>1, <2>2 DEF GoAlike
<1>7. f[N] = L[N]
  <2> HIDE DEF f
  <2>1. \A n \in 0..N : f[n] = L[n]
    BY <1>1, <1>6, SameRecursion
  <2> QED
    BY <1>1, <2>1
<1>8. K[N] = Without(regions, u) /\ L[N] = Sift(Uids(regions), {u})
  BY <1>1 DEF K, L, gone, N, Without, Sift
<1>9. f[N] = Uids(K[N]) /\ K[N] \in Seq(Region)
  BY <1>1, <1>3
<1> QED
  BY <1>7, <1>8, <1>9

-----------------------------------------------------------------------------
(* Outlook                                                                 *)

(* The uids events carry: leavechannel and the like name nobody.           *)
Names == Users \cup {Nobody}

LEMMA HandledType ==
  ASSUME NEW s, NEW uids \in Seq(Names), NEW e \in Event
  PROVE  Handled(s, uids, e) \in Seq(Names)
<1>1. e.uid \in Names
  BY DEF Event, Names
<1>2. Append(uids, e.uid) \in Seq(Names) /\ Sift(uids, {e.uid}) \in Seq(Names)
  BY <1>1, AppendProperties, SiftType
<1> QED
  BY <1>2 DEF Handled

(* The recursion an outlook satisfies.                                     *)
Unfolds(f, s, uids, line) ==
  /\ f \in [0..Len(line) -> Seq(Names)]
  /\ f[0] = uids
  /\ \A n \in 1..Len(line) : f[n] = Handled(s, f[n - 1], line[n])

LEMMA OutlookUnfolds ==
  ASSUME NEW s, NEW uids \in Seq(Names), NEW line \in Seq(Event)
  PROVE  Unfolds(Outlook(s, uids, line), s, uids, line)
<1> DEFINE N == Len(line)
           S == Seq(Names)
           Go(k, n) == Handled(s, k, line[n])
           Is(f) == f = [n \in 0..N |-> IF n = 0 THEN uids ELSE Go(f[n - 1], n)]
           next == [n \in 1..N |-> [k \in S |-> Go(k, n)]]
           after == Outlook(s, uids, line)
<1>1. N \in Nat /\ \A n \in 1..N : line[n] \in Event
  BY LenProperties, ElementOfSeq
<1>2. \A k \in S, n \in 1..N : Go(k, n) \in S
  BY <1>1, HandledType
<1>3. after = CHOOSE g : Is(g)
  BY DEF Outlook
<1>4. uids \in S
  OBVIOUS
<1> HIDE DEF N, S, Go, after
<1>5. next \in [1..N -> [S -> S]]
  BY <1>2
<1>6. \A k \in S, n \in 1..N : next[n][k] = Go(k, n)
  OBVIOUS
<1> HIDE DEF next
<1>7. \E f \in [0..N -> S] : Recursion(f, N, uids, next)
  BY <1>1, <1>4, <1>5, RecursionExists
<1>8. PICK f \in [0..N -> S] : /\ f[0] = uids
                               /\ \A n \in 1..N : f[n] = next[n][f[n - 1]]
  BY <1>7 DEF Recursion
<1>9. \A n \in 1..N : n - 1 \in 0..N /\ f[n - 1] \in S /\ f[n] = Go(f[n - 1], n)
  BY <1>1, <1>6, <1>8
<1>10. Is(f)
  BY <1>1, <1>8, <1>9
<1>11. Is(after)
  <2> HIDE DEF Is
  <2> QED
    BY <1>3, <1>10
<1>12. after[0] = uids /\ \A n \in 1..N : after[n] = Go(after[n - 1], n)
  BY <1>1, <1>11
<1>13. \A n \in 0..N : after[n] = f[n]
  <2>1. GoAlike(after, f, N)
    BY <1>8, <1>9, <1>12 DEF GoAlike
  <2> QED
    BY <1>1, <2>1, SameRecursion
<1>14. after = f
  BY <1>1, <1>8, <1>11, <1>13
<1> QED
  BY <1>8, <1>12, <1>14 DEF Unfolds, after, N, S, Go

(* An event at the end of the line adds a last outlook.                    *)
LEMMA OutlookAppend ==
  ASSUME NEW s, NEW uids \in Seq(Names), NEW line \in Seq(Event), NEW e \in Event
  PROVE  LET old == Outlook(s, uids, line)
             new == Outlook(s, uids, Append(line, e))
         IN  /\ \A n \in 0..Len(line) : new[n] = old[n]
             /\ new[Len(line) + 1] = Handled(s, old[Len(line)], e)
<1> DEFINE old == Outlook(s, uids, line)
           new == Outlook(s, uids, Append(line, e))
           N == Len(line)
           longer == Append(line, e)
<1>1. /\ longer \in Seq(Event) /\ Len(longer) = N + 1 /\ N \in Nat
      /\ \A n \in 1..N : longer[n] = line[n]
      /\ longer[N + 1] = e
  BY AppendProperties, LenProperties
<1>2. old[0] = uids /\ \A n \in 1..N : old[n] = Handled(s, old[n - 1], line[n])
  <2>1. Unfolds(old, s, uids, line)
    BY OutlookUnfolds
  <2> QED
    BY <2>1 DEF Unfolds
<1>3. new[0] = uids /\ \A n \in 1..(N + 1) : new[n] = Handled(s, new[n - 1], longer[n])
  <2>1. Unfolds(new, s, uids, longer)
    BY <1>1, OutlookUnfolds
  <2> HIDE DEF new, longer
  <2> QED
    BY <1>1, <2>1 DEF Unfolds
<1> HIDE DEF old, new, N, longer
<1>4. GoAlike(new, old, N)
  BY <1>1, <1>2, <1>3 DEF GoAlike
<1>5. \A n \in 0..N : new[n] = old[n]
  BY <1>1, <1>4, SameRecursion
<1>6. N + 1 \in 1..(N + 1) /\ (N + 1) - 1 = N /\ N \in 0..N
  BY <1>1
<1>7. new[N + 1] = Handled(s, new[N], e)
  BY <1>1, <1>3, <1>6
<1> QED
  BY <1>5, <1>6, <1>7 DEF old, new, N

(* The outlooks after the first event are those of the rest of the line    *)
(* from what the first event leaves.                                       *)
LagsBehind(f, g, N) == \A n \in 0..N : f[n] = g[n + 1]

LEMMA OutlookHead ==
  ASSUME NEW s, NEW uids \in Seq(Names), NEW new, NEW old, Shorter(new, old, 1),
         NEW base, base = Handled(s, uids, old[1])
  PROVE  /\ Len(old) \in Nat /\ Len(new) = Len(old) - 1
         /\ base \in Seq(Names)
         /\ LagsBehind(Outlook(s, base, new), Outlook(s, uids, old), Len(new))
<1>1. /\ new \in Seq(Event) /\ old \in Seq(Event) /\ Len(old) \in Nat /\ 1 \in 1..Len(old)
      /\ Len(new) = Len(old) - 1 /\ \A i \in 1..Len(new) : new[i] = old[i + 1]
      /\ old[1] \in Event
  <2>1. new \in Seq(Event) /\ old \in Seq(Event) /\ 1 \in 1..Len(old)
    BY DEF Shorter
  <2>2. /\ Len(old) \in Nat /\ Len(new) \in Nat /\ DOMAIN new = 1..Len(new)
        /\ old[1] \in Event
    BY <2>1, LenProperties, ElementOfSeq
  <2>3. 1..Len(new) = 1..(Len(old) - 1)
    BY <2>2 DEF Shorter
  <2>4. Len(new) = Len(old) - 1
    BY <2>1, <2>2, <2>3
  <2>5. \A i \in 1..Len(new) : new[i] = old[IF i < 1 THEN i ELSE i + 1]
    BY <2>2 DEF Shorter
  <2>6. \A i \in 1..Len(new) : new[i] = old[i + 1]
    BY <2>2, <2>5
  <2> QED
    BY <2>1, <2>2, <2>4, <2>6
<1>2. base \in Seq(Names)
  BY <1>1, HandledType
<1> DEFINE a == Outlook(s, base, new)
           b == Outlook(s, uids, old)
           f == [n \in 0..Len(new) |-> b[n + 1]]
<1>3. a[0] = base /\ \A n \in 1..Len(new) : a[n] = Handled(s, a[n - 1], new[n])
  <2>1. Unfolds(a, s, base, new)
    BY <1>1, <1>2, OutlookUnfolds
  <2> QED
    BY <2>1 DEF Unfolds
<1>4. b[0] = uids /\ \A n \in 1..Len(old) : b[n] = Handled(s, b[n - 1], old[n])
  <2>1. Unfolds(b, s, uids, old)
    BY <1>1, OutlookUnfolds
  <2> QED
    BY <2>1 DEF Unfolds
<1> HIDE DEF a, b
<1>5. f[0] = base
  BY <1>1, <1>4
<1>6. \A n \in 1..Len(new) : f[n] = Handled(s, f[n - 1], new[n])
  <2>1. TAKE n \in 1..Len(new)
  <2>2. n + 1 \in 1..Len(old) /\ (n + 1) - 1 = n /\ n - 1 \in 0..Len(new) /\ n \in 0..Len(new)
    BY <1>1
  <2>3. b[n + 1] = Handled(s, b[n], old[n + 1]) /\ new[n] = old[n + 1]
    BY <1>1, <1>4, <2>2
  <2>4. f[n - 1] = b[n] /\ f[n] = b[n + 1]
    BY <2>2
  <2> QED
    BY <2>3, <2>4
<1> HIDE DEF f
<1>7. GoAlike(a, f, Len(new))
  BY <1>3, <1>5, <1>6 DEF GoAlike
<1>8. Len(new) \in Nat
  BY <1>1
<1>9. \A n \in 0..Len(new) : a[n] = f[n]
  BY <1>7, <1>8, SameRecursion
<1> QED
  BY <1>1, <1>2, <1>9 DEF a, b, f, LagsBehind

(* An event that means nothing for the regions of s can leave the line     *)
(* anywhere.                                                               *)
Idle(s, e) == \A uids : Handled(s, uids, e) = uids

Skips(f, g, N, r) == \A n \in 0..N : f[n] = g[IF n < r THEN n ELSE n + 1]

LEMMA OutlookDrop ==
  ASSUME NEW s, NEW uids \in Seq(Names), NEW new, NEW old, NEW r, Shorter(new, old, r),
         Idle(s, old[r])
  PROVE  /\ Len(old) \in Nat /\ Len(new) = Len(old) - 1
         /\ Skips(Outlook(s, uids, new), Outlook(s, uids, old), Len(new), r)
<1>1. /\ new \in Seq(Event) /\ old \in Seq(Event) /\ Len(old) \in Nat /\ r \in 1..Len(old)
      /\ Len(new) = Len(old) - 1
      /\ \A i \in 1..Len(new) : new[i] = old[IF i < r THEN i ELSE i + 1]
  <2>1. new \in Seq(Event) /\ old \in Seq(Event) /\ r \in 1..Len(old)
    BY DEF Shorter
  <2>2. Len(old) \in Nat /\ Len(new) \in Nat /\ DOMAIN new = 1..Len(new)
    BY <2>1, LenProperties
  <2>3. 1..Len(new) = 1..(Len(old) - 1)
    BY <2>2 DEF Shorter
  <2>4. Len(new) = Len(old) - 1
    BY <2>1, <2>2, <2>3
  <2>5. \A i \in 1..Len(new) : new[i] = old[IF i < r THEN i ELSE i + 1]
    BY <2>2 DEF Shorter
  <2> QED
    BY <2>1, <2>2, <2>4, <2>5
<1> DEFINE a == Outlook(s, uids, new)
           b == Outlook(s, uids, old)
           f == [n \in 0..Len(new) |-> b[IF n < r THEN n ELSE n + 1]]
<1>2. a[0] = uids /\ \A n \in 1..Len(new) : a[n] = Handled(s, a[n - 1], new[n])
  <2>1. Unfolds(a, s, uids, new)
    BY <1>1, OutlookUnfolds
  <2> QED
    BY <2>1 DEF Unfolds
<1>3. b[0] = uids /\ \A n \in 1..Len(old) : b[n] = Handled(s, b[n - 1], old[n])
  <2>1. Unfolds(b, s, uids, old)
    BY <1>1, OutlookUnfolds
  <2> QED
    BY <2>1 DEF Unfolds
<1> HIDE DEF a, b
<1>4. b[r] = b[r - 1]
  BY <1>1, <1>3 DEF Idle
<1>5. f[0] = uids
  BY <1>1, <1>3
<1>6. \A n \in 1..Len(new) : f[n] = Handled(s, f[n - 1], new[n])
  <2>1. TAKE n \in 1..Len(new)
  <2>2. /\ n \in 1..Len(old) /\ n + 1 \in 1..Len(old) /\ (n + 1) - 1 = n
        /\ n - 1 \in 0..Len(new) /\ n \in 0..Len(new)
    BY <1>1
  <2>3. f[n - 1] = b[IF n - 1 < r THEN n - 1 ELSE n] /\ f[n] = b[IF n < r THEN n ELSE n + 1]
    BY <2>2
  <2> HIDE DEF f
  <2>4. CASE n < r
    <3>1. f[n - 1] = b[n - 1] /\ f[n] = b[n] /\ new[n] = old[n]
      BY <1>1, <2>2, <2>3, <2>4
    <3> QED
      BY <1>3, <2>2, <3>1
  <2>5. CASE n = r
    <3>1. f[n - 1] = b[n] /\ f[n] = b[n + 1] /\ new[n] = old[n + 1]
      BY <1>1, <1>4, <2>2, <2>3, <2>5
    <3> QED
      BY <1>3, <2>2, <3>1
  <2>6. CASE n > r
    <3>1. f[n - 1] = b[n] /\ f[n] = b[n + 1] /\ new[n] = old[n + 1]
      BY <1>1, <2>2, <2>3, <2>6
    <3> QED
      BY <1>3, <2>2, <3>1
  <2> QED
    BY <1>1, <2>4, <2>5, <2>6
<1> HIDE DEF f
<1>7. GoAlike(a, f, Len(new))
  BY <1>2, <1>5, <1>6 DEF GoAlike
<1>8. Len(new) \in Nat
  BY <1>1
<1>9. \A n \in 0..Len(new) : a[n] = f[n]
  BY <1>7, <1>8, SameRecursion
<1> QED
  BY <1>1, <1>9 DEF a, b, f, Skips

(* Fewer users to begin with are fewer users in every outlook.             *)
FewerUsers(a, b) == \A u : Count(a, u) <= Count(b, u)

LEMMA HandledMonotonic ==
  ASSUME NEW s, NEW a \in Seq(Names), NEW b \in Seq(Names), FewerUsers(a, b),
         NEW e \in Event
  PROVE  FewerUsers(Handled(s, a, e), Handled(s, b, e))
<1> SUFFICES ASSUME NEW u PROVE Count(Handled(s, a, e), u) <= Count(Handled(s, b, e), u)
  BY DEF FewerUsers
<1>1. e.uid \in Names
  BY DEF Event, Names
<1>2. Count(a, u) <= Count(b, u) /\ Count(a, u) \in Nat /\ Count(b, u) \in Nat
  BY CountType DEF FewerUsers
<1>3. \A c \in Seq(Names) :
        Count(Append(c, e.uid), u) = IF e.uid = u THEN Count(c, u) + 1 ELSE Count(c, u)
  BY <1>1, CountAppend
<1>4. CASE e.sid = s /\ e.kind = "userjoin"
  <2>1. Handled(s, a, e) = Append(a, e.uid) /\ Handled(s, b, e) = Append(b, e.uid)
    BY <1>4 DEF Handled
  <2> QED
    BY <1>2, <1>3, <2>1
<1>5. CASE e.sid = s /\ e.kind = "userleave"
  <2>1. Handled(s, a, e) = Sift(a, {e.uid}) /\ Handled(s, b, e) = Sift(b, {e.uid})
    BY <1>5 DEF Handled
  <2>2. /\ Count(Sift(a, {e.uid}), u) = IF u \in {e.uid} THEN 0 ELSE Count(a, u)
        /\ Count(Sift(b, {e.uid}), u) = IF u \in {e.uid} THEN 0 ELSE Count(b, u)
    BY SiftCount
  <2> QED
    BY <1>2, <2>1, <2>2
<1>6. CASE ~(e.sid = s /\ e.kind \in {"userjoin", "userleave"})
  BY <1>2, <1>6 DEF Handled
<1> QED
  BY <1>4, <1>5, <1>6

LEMMA OutlookMonotonic ==
  ASSUME NEW s, NEW a \in Seq(Names), NEW b \in Seq(Names), FewerUsers(a, b),
         NEW line \in Seq(Event)
  PROVE  \A n \in 0..Len(line) :
           FewerUsers(Outlook(s, a, line)[n], Outlook(s, b, line)[n])
<1> DEFINE N == Len(line)
           f == Outlook(s, a, line)
           g == Outlook(s, b, line)
           T == {n \in 0..N : FewerUsers(f[n], g[n])}
<1>1. /\ N \in Nat /\ f \in [0..N -> Seq(Names)] /\ f[0] = a
      /\ \A n \in 1..N : f[n] = Handled(s, f[n - 1], line[n])
  <2>1. Unfolds(f, s, a, line)
    BY OutlookUnfolds
  <2> QED
    BY <2>1, LenProperties DEF Unfolds
<1>2. /\ g \in [0..N -> Seq(Names)] /\ g[0] = b
      /\ \A n \in 1..N : g[n] = Handled(s, g[n - 1], line[n])
  <2>1. Unfolds(g, s, b, line)
    BY OutlookUnfolds
  <2> QED
    BY <2>1 DEF Unfolds
<1>3. \A n \in 1..N : line[n] \in Event
  BY LenProperties, ElementOfSeq
<1> HIDE DEF N, f, g
<1>4. 0 \in T
  BY <1>1, <1>2
<1>5. ASSUME NEW n \in 1..N, n - 1 \in T PROVE n \in T
  <2>1. n - 1 \in 0..N /\ n \in 0..N /\ FewerUsers(f[n - 1], g[n - 1])
    BY <1>1, <1>5
  <2>2. f[n - 1] \in Seq(Names) /\ g[n - 1] \in Seq(Names)
    BY <1>1, <1>2, <2>1
  <2>3. FewerUsers(f[n], g[n])
    BY <1>1, <1>2, <1>3, <2>1, <2>2, HandledMonotonic
  <2> QED
    BY <2>1, <2>3
<1>6. \A n \in 0..N : n \in T
  <2> HIDE DEF T
  <2> QED
    BY <1>1, <1>4, <1>5, InductionUpTo
<1> QED
  BY <1>6 DEF N, f, g

(* Who is shown is a user, and nobody is somebody events may name.         *)
LEMMA UidsNames ==
  ASSUME NEW regions \in Seq(Region)
  PROVE  Uids(regions) \in Seq(Names)
<1>1. /\ Uids(regions) \in Seq(Users) /\ Len(Uids(regions)) \in Nat
      /\ Uids(regions) \in [1..Len(Uids(regions)) -> Users]
  BY UidsType, LenProperties
<1>2. Uids(regions) \in [1..Len(Uids(regions)) -> Names]
  BY <1>1 DEF Names
<1> QED
  BY <1>1, <1>2, SeqDef

(* The fractions of the canvas the native object makes of the regions.     *)
LEMMA NativeType ==
  ASSUME NEW regions \in Seq(Region)
  PROVE  /\ NativeRegions(regions) \in Seq(RelativeRegion)
         /\ NativeRegions(regions) = <<>> <=> regions = <<>>
<1>1. /\ DOMAIN regions = 1..Len(regions) /\ Len(regions) \in Nat
      /\ \A i \in 1..Len(regions) : regions[i] \in Region
  BY UidsType, LenProperties
<1>2. \A r \in Region : Relative(r) \in RelativeRegion
  <2>1. Canvas[1] = 640 /\ Canvas[2] = 480
    BY DEF Canvas
  <2>2. ASSUME NEW r \in Region PROVE Relative(r) \in RelativeRegion
    <3>1. /\ r.uid \in Users /\ r.x \in {0, 320} /\ r.y \in {0, 240}
          /\ r.width = 640 /\ r.height = 480
      BY DEF Region
    <3>2. (100 * r.x) \div 640 \in {0, 50} /\ (100 * r.y) \div 480 \in {0, 50}
      BY <3>1
    <3>3. (100 * r.width) \div 640 = 100 /\ (100 * r.height) \div 480 = 100
      BY <3>1
    <3> QED
      BY <2>1, <3>1, <3>2, <3>3 DEF Relative, RelativeRegion
  <2> QED
    BY <2>2
<1> DEFINE native == [i \in 1..Len(regions) |-> Relative(regions[i])]
<1>3. NativeRegions(regions) = native
  BY <1>1 DEF NativeRegions
<1>4. native \in [1..Len(regions) -> RelativeRegion]
  BY <1>1, <1>2
<1>5. native \in Seq(RelativeRegion)
  BY <1>1, <1>4, SeqDef
<1>6. Len(native) = Len(regions)
  BY <1>1, <1>4, <1>5, LenProperties
<1> HIDE DEF native
<1>7. native = <<>> <=> regions = <<>>
  BY <1>1, <1>5, <1>6, EmptySeq
<1> QED
  BY <1>3, <1>5, <1>7

(* Nobody is in the empty sequence.                                        *)
LEMMA FewestUsers ==
  ASSUME NEW b \in Seq(Names)
  PROVE  <<>> \in Seq(Names) /\ FewerUsers(<<>>, b)
<1> DEFINE none == <<>>
<1>1. none \in Seq(Names) /\ ToSet(none) = {}
  BY EmptySeq DEF ToSet
<1> HIDE DEF none
<1>2. \A u : Count(none, u) = 0
  BY <1>1, CountType
<1>3. \A u : Count(b, u) \in Nat
  BY CountType
<1>4. FewerUsers(none, b)
  BY <1>2, <1>3 DEF FewerUsers
<1> QED
  BY <1>1, <1>4 DEF none

LEMMA NativeOfNothing == NativeRegions(<<>>) = <<>> /\ Uids(<<>>) = <<>>
  BY DEF NativeRegions, Uids

-----------------------------------------------------------------------------
(***************************************************************************)
(* The inductive invariant                                                 *)
(***************************************************************************)

LayoutTypes ==
  /\ layout \in [Sessions -> Seq(Region)]
  /\ mixed \in [Sessions -> Seq(RelativeRegion)]
  /\ shown \in [Sessions -> Seq(RelativeRegion)]
  /\ copy \in [Sessions -> Seq(RelativeRegion)]
  /\ peers \in [Sessions -> Seq(Users)]
  /\ \A s \in reporting : s \in Sessions /\ engine[s] = "inChannel"

(* The native object mixes the regions JavaScript gave it; and without the *)
(* recorder in the registry there are none.                                *)
MixedInv ==
  \A s \in Sessions :
    /\ mixed[s] = NativeRegions(layout[s])
    /\ s \notin registry => layout[s] = <<>>

(* A callback that read an empty layout takes nothing back; with none      *)
(* under way the engine shows the layout, or what the last one read.       *)
ShowInv ==
  \A s \in Sessions :
    layout[s] # <<>> =>
      /\ copy[s] = <<>> => shown[s] = mixed[s]
      /\ s \notin reporting => shown[s] \in {mixed[s], copy[s]}

(* Where it shows what the last one read and not the layout, the event of  *)
(* that callback is still to be handled.                                   *)
StaleInv ==
  \A s \in Sessions :
    layout[s] # <<>> /\ s \notin reporting /\ shown[s] # mixed[s] => UserEventPending(s)

(* The native object knows a user once for every time the engine reported  *)
(* the user, and the engine repeats itself only after a recovery; what it  *)
(* takes back, the native object knows.                                    *)
PeersInv ==
  \A s \in Sessions :
    /\ \A u \in Users :
         Count(peers[s], u) <= recoveries[s] + (IF u \in present[s] THEN 1 ELSE 0)
    /\ present[s] \subseteq ToSet(peers[s])
    /\ Len(peers[s]) <= reports[s]

IsUserEvent(e) == e.kind \in {"userjoin", "userleave"}

(* User events come from an engine that is or was in the channel.          *)
UserEventInv ==
  \A i \in DOMAIN Pipe :
    IsUserEvent(Pipe[i]) => Pipe[i].uid \in Users /\ HasJoined(Pipe[i].sid)

(* The regions to come show no user more often than the native object      *)
(* knows the user, and no user too often on the way there.                 *)
OutlookInv ==
  \A s \in Sessions :
    /\ FewerUsers(Foreseen(s), peers[s])
    /\ \A n \in 0..Len(Pipe), u \in Users :
         Count(Outlook(s, Uids(layout[s]), Pipe)[n], u) <= 1 + recoveries[s]

(* Until a user leaves, the peers are as many as the reports; no departure *)
(* is on its way and every region is in its corner.                        *)
AtItsCorner(regions) ==
  \A i \in DOMAIN regions :
    regions[i].x = Corner(i - 1).x /\ regions[i].y = Corner(i - 1).y

OrderInv ==
  \A s \in Sessions :
    Len(peers[s]) = reports[s] =>
      /\ \A i \in DOMAIN Pipe : ~(Pipe[i].kind = "userleave" /\ Pipe[i].sid = s)
      /\ AtItsCorner(layout[s])

(* A user event on its way while the promise is pending has the join in    *)
(* front of it.                                                            *)
JoinAhead(line, i) == \E j \in DOMAIN line : j < i /\ IsJoin(line[j], line[i].sid)

JoinAheadInv ==
  \A i \in DOMAIN Pipe :
    IsUserEvent(Pipe[i]) /\ promise[Pipe[i].sid] = "pending" => JoinAhead(Pipe, i)

(* A promise that is resolved registers its recorder.                      *)
Registers(s) == [then |-> "joined", sid |-> s]

WillRegister(line, s) == \E i \in DOMAIN line : line[i] = Registers(s)

RegisterInv ==
  \A s \in Sessions \ registry : promise[s] = "resolved" => WillRegister(micro, s)

(* Nothing is lost where reactions run after every callback.               *)
FollowInv == MicrotasksPerCallback => \A s \in Sessions : Foreseen(s) = peers[s]

LayoutInv ==
  /\ ServiceInv
  /\ LayoutTypes /\ MixedInv /\ ShowInv /\ StaleInv /\ PeersInv /\ UserEventInv
  /\ OutlookInv /\ OrderInv /\ JoinAheadInv /\ RegisterInv
  /\ FollowInv

-----------------------------------------------------------------------------
(* Steps that hand over no user event and handle none.                     *)

PipeAmbient ==
  \/ Pipe' = Pipe
  \/ \E e \in Event : ~IsUserEvent(e) /\ Pipe' = Append(Pipe, e)
  \/ \E r : Shorter(Pipe', Pipe, r) /\ ~IsUserEvent(Pipe[r])

(* What such a step may do besides.                                        *)
Ambient ==
  /\ PipeAmbient
  /\ UNCHANGED <<layout, peers, reports>>
  /\ \A s \in Sessions : /\ HasJoined(s) => HasJoined(s)'
                         /\ recoveries[s] <= recoveries'[s]

LEMMA AmbientEntries ==
  ASSUME TypeOK, PipeAmbient, NEW i \in DOMAIN Pipe', IsUserEvent(Pipe'[i])
  PROVE  \E k \in DOMAIN Pipe : Pipe'[i] = Pipe[k]
<1>1. CASE Pipe' = Pipe
  BY <1>1
<1>2. ASSUME NEW e \in Event, ~IsUserEvent(e), Pipe' = Append(Pipe, e)
      PROVE  \E k \in DOMAIN Pipe : Pipe'[i] = Pipe[k]
  <2>1. Pipe \in Seq(Event)
    BY PipeType
  <2> QED
    BY <1>2, <2>1, AppendEntries
<1>3. ASSUME NEW r, Shorter(Pipe', Pipe, r) PROVE \E k \in DOMAIN Pipe : Pipe'[i] = Pipe[k]
  BY <1>3, ShorterEntry
<1> QED
  BY <1>1, <1>2, <1>3 DEF PipeAmbient

LEMMA ShorterKeepsPending ==
  ASSUME NEW r, Shorter(Pipe', Pipe, r), NEW s, UserEventPending(s),
         IsUserEvent(Pipe[r]) => Pipe[r].sid # s
  PROVE  UserEventPending(s)'
<1>1. PICK i \in DOMAIN Pipe : Pipe[i].sid = s /\ IsUserEvent(Pipe[i])
  BY DEF UserEventPending, IsUserEvent
<1>2. DOMAIN Pipe = 1..Len(Pipe) /\ Len(Pipe) \in Nat /\ i # r
  BY <1>1, LenProperties DEF Shorter
<1> DEFINE m == IF i < r THEN i ELSE i - 1
<1>3. m \in DOMAIN Pipe' /\ Pipe'[m] = Pipe[i]
  BY <1>2 DEF Shorter
<1> HIDE DEF m
<1> QED
  BY <1>1, <1>3 DEF UserEventPending, IsUserEvent

LEMMA AmbientPending ==
  ASSUME TypeOK, PipeAmbient, NEW s, UserEventPending(s)
  PROVE  UserEventPending(s)'
<1>1. CASE Pipe' = Pipe
  BY <1>1 DEF UserEventPending
<1>2. ASSUME NEW e \in Event, Pipe' = Append(Pipe, e) PROVE UserEventPending(s)'
  BY <1>2, PipeType, AppendEntries DEF UserEventPending
<1>3. ASSUME NEW r, Shorter(Pipe', Pipe, r), ~IsUserEvent(Pipe[r])
      PROVE  UserEventPending(s)'
  BY <1>3, ShorterKeepsPending
<1> QED
  BY <1>1, <1>2, <1>3 DEF PipeAmbient

(* The outlook at the end is the same, and the others are among those      *)
(* there were.                                                             *)
LEMMA AmbientOutlook ==
  ASSUME TypeOK, PipeAmbient, NEW s, NEW uids \in Seq(Names)
  PROVE  /\ Outlook(s, uids, Pipe')[Len(Pipe')] = Outlook(s, uids, Pipe)[Len(Pipe)]
         /\ \A n \in 0..Len(Pipe') : \E m \in 0..Len(Pipe) :
              Outlook(s, uids, Pipe')[n] = Outlook(s, uids, Pipe)[m]
<1>1. Pipe \in Seq(Event) /\ Len(Pipe) \in Nat
  BY PipeType, LenProperties
<1>2. CASE Pipe' = Pipe
  BY <1>2
<1>3. ASSUME NEW e \in Event, ~IsUserEvent(e), Pipe' = Append(Pipe, e)
      PROVE  /\ Outlook(s, uids, Pipe')[Len(Pipe')] = Outlook(s, uids, Pipe)[Len(Pipe)]
             /\ \A n \in 0..Len(Pipe') : \E m \in 0..Len(Pipe) :
                  Outlook(s, uids, Pipe')[n] = Outlook(s, uids, Pipe)[m]
  <2>1. Len(Pipe') = Len(Pipe) + 1
    BY <1>1, <1>3, AppendProperties
  <2>2. /\ \A n \in 0..Len(Pipe) : Outlook(s, uids, Pipe')[n] = Outlook(s, uids, Pipe)[n]
        /\ Outlook(s, uids, Pipe')[Len(Pipe) + 1] =
             Handled(s, Outlook(s, uids, Pipe)[Len(Pipe)], e)
    BY <1>1, <1>3, OutlookAppend
  <2>3. Outlook(s, uids, Pipe')[Len(Pipe) + 1] = Outlook(s, uids, Pipe)[Len(Pipe)]
    BY <1>3, <2>2 DEF Handled, IsUserEvent
  <2>4. ASSUME NEW n \in 0..Len(Pipe')
        PROVE  \E m \in 0..Len(Pipe) : Outlook(s, uids, Pipe')[n] = Outlook(s, uids, Pipe)[m]
    <3>1. n \in 0..Len(Pipe) \/ n = Len(Pipe) + 1
      BY <1>1, <2>1
    <3> QED
      BY <1>1, <2>2, <2>3, <3>1
  <2> QED
    BY <2>1, <2>3, <2>4
<1>4. ASSUME NEW r, Shorter(Pipe', Pipe, r), ~IsUserEvent(Pipe[r])
      PROVE  /\ Outlook(s, uids, Pipe')[Len(Pipe')] = Outlook(s, uids, Pipe)[Len(Pipe)]
             /\ \A n \in 0..Len(Pipe') : \E m \in 0..Len(Pipe) :
                  Outlook(s, uids, Pipe')[n] = Outlook(s, uids, Pipe)[m]
  <2>1. Idle(s, Pipe[r])
    BY <1>4 DEF Handled, IsUserEvent, Idle
  <2>2. /\ Len(Pipe') = Len(Pipe) - 1
        /\ \A n \in 0..Len(Pipe') : Outlook(s, uids, Pipe')[n] =
             Outlook(s, uids, Pipe)[IF n < r THEN n ELSE n + 1]
    <3>1. /\ Len(Pipe') = Len(Pipe) - 1
          /\ Skips(Outlook(s, uids, Pipe'), Outlook(s, uids, Pipe), Len(Pipe'), r)
      BY <1>4, <2>1, OutlookDrop
    <3> QED
      BY <3>1 DEF Skips
  <2>3. r \in 1..Len(Pipe)
    BY <1>4 DEF Shorter
  <2>4. CASE r = Len(Pipe)
    <3>1. Unfolds(Outlook(s, uids, Pipe), s, uids, Pipe)
      BY <1>1, OutlookUnfolds
    <3>2. Outlook(s, uids, Pipe)[r] = Outlook(s, uids, Pipe)[r - 1]
      BY <2>1, <2>3, <3>1 DEF Unfolds, Idle
    <3>3. Outlook(s, uids, Pipe')[Len(Pipe')] = Outlook(s, uids, Pipe)[r - 1]
      BY <1>1, <2>2, <2>3, <2>4
    <3> QED
      BY <1>1, <2>2, <2>3, <2>4, <3>2, <3>3
  <2>5. CASE r # Len(Pipe)
    <3>1. Len(Pipe') \in 0..Len(Pipe') /\ ~(Len(Pipe') < r) /\ Len(Pipe') + 1 = Len(Pipe)
      BY <1>1, <2>2, <2>3, <2>5
    <3>2. Outlook(s, uids, Pipe')[Len(Pipe')] = Outlook(s, uids, Pipe)[Len(Pipe)]
      BY <2>2, <3>1
    <3> QED
      BY <1>1, <2>2, <2>3, <3>2
  <2> QED
    BY <2>4, <2>5
<1> QED
  BY <1>2, <1>3, <1>4 DEF PipeAmbient

(* They change nothing in what the events on their way will make of the    *)
(* regions.                                                                *)
LEMMA AmbientInv ==
  ASSUME LayoutInv, TypeOK', Ambient
  PROVE  UserEventInv' /\ OutlookInv' /\ OrderInv' /\ FollowInv'
<1>1. /\ TypeOK /\ PipeAmbient /\ Pipe \in Seq(Event) /\ Pipe' \in Seq(Event)
      /\ layout \in [Sessions -> Seq(Region)]
      /\ layout' = layout /\ peers' = peers /\ reports' = reports
      /\ recoveries \in [Sessions -> Nat] /\ recoveries' \in [Sessions -> Nat]
  <2>1. TypeOK /\ Pipe \in Seq(Event) /\ Pipe' \in Seq(Event)
    BY PipeType, ConcatProperties DEF LayoutInv, ServiceInv, TypeOK, Pipe
  <2>2. recoveries \in [Sessions -> Nat] /\ recoveries' \in [Sessions -> Nat]
    BY <2>1, BoundsAreNaturals DEF TypeOK
  <2> QED
    BY <2>1, <2>2 DEF LayoutInv, LayoutTypes, Ambient
<1>2. ASSUME NEW i \in DOMAIN Pipe', IsUserEvent(Pipe'[i])
      PROVE  \E k \in DOMAIN Pipe : Pipe'[i] = Pipe[k] /\ IsUserEvent(Pipe[k])
  BY <1>1, <1>2, AmbientEntries
<1>3. UserEventInv'
  <2>1. ASSUME NEW i \in DOMAIN Pipe', NEW e, e = Pipe'[i], IsUserEvent(e)
        PROVE  e.uid \in Users /\ HasJoined(e.sid)'
    <3>1. PICK k \in DOMAIN Pipe : e = Pipe[k]
      BY <1>2, <2>1
    <3>2. e.sid \in Sessions /\ e.uid \in Users /\ HasJoined(e.sid)
      BY <1>1, <2>1, <3>1, EntryIsEvent DEF LayoutInv, UserEventInv
    <3> QED
      BY <3>2 DEF Ambient
  <2> QED
    BY <2>1 DEF UserEventInv, IsUserEvent, HasJoined
<1>4. ASSUME NEW s \in Sessions
      PROVE  /\ Foreseen(s)' = Foreseen(s)
             /\ \A n \in 0..Len(Pipe') : \E m \in 0..Len(Pipe) :
                  Outlook(s, Uids(layout[s]), Pipe')[n] = Outlook(s, Uids(layout[s]), Pipe)[m]
  <2>1. Uids(layout[s]) \in Seq(Names)
    BY <1>1, UidsNames
  <2> QED
    BY <1>1, <2>1, AmbientOutlook DEF Foreseen
<1>5. OutlookInv'
  <2>1. ASSUME NEW s \in Sessions, NEW n \in 0..Len(Pipe'), NEW u \in Users
        PROVE  Count(Outlook(s, Uids(layout[s]), Pipe')[n], u) <= 1 + recoveries'[s]
    <3>1. PICK m \in 0..Len(Pipe) :
            Outlook(s, Uids(layout[s]), Pipe')[n] = Outlook(s, Uids(layout[s]), Pipe)[m]
      BY <1>4
    <3>2. /\ Count(Outlook(s, Uids(layout[s]), Pipe)[m], u) <= 1 + recoveries[s]
          /\ recoveries[s] <= recoveries'[s]
      BY DEF LayoutInv, OutlookInv, Ambient
    <3>3. Outlook(s, Uids(layout[s]), Pipe)[m] \in Seq(Names)
      <4>1. Uids(layout[s]) \in Seq(Names)
        BY <1>1, UidsNames
      <4>2. Unfolds(Outlook(s, Uids(layout[s]), Pipe), s, Uids(layout[s]), Pipe)
        BY <1>1, <4>1, OutlookUnfolds
      <4> QED
        BY <4>2 DEF Unfolds
    <3>4. Count(Outlook(s, Uids(layout[s]), Pipe)[m], u) \in Nat
      BY <3>3, CountType
    <3>5. recoveries[s] \in Nat /\ recoveries'[s] \in Nat
      BY <1>1
    <3> QED
      BY <3>1, <3>2, <3>4, <3>5
  <2>2. \A s \in Sessions : FewerUsers(Foreseen(s)', peers[s])
    BY <1>4 DEF LayoutInv, OutlookInv
  <2> QED
    BY <1>1, <2>1, <2>2 DEF OutlookInv
<1>6. OrderInv'
  <2>1. ASSUME NEW s \in Sessions, Len(peers[s]) = reports[s]
        PROVE  \A i \in DOMAIN Pipe' : ~(Pipe'[i].kind = "userleave" /\ Pipe'[i].sid = s)
    BY <1>2, <2>1 DEF LayoutInv, OrderInv, IsUserEvent
  <2> QED
    BY <1>1, <2>1 DEF LayoutInv, OrderInv
<1>7. FollowInv'
  BY <1>1, <1>4 DEF LayoutInv, FollowInv
<1> QED
  BY <1>3, <1>5, <1>6, <1>7

-----------------------------------------------------------------------------
(* The registration of the recorder.                                       *)

(* A step moves user events no farther than behind the join.               *)
Orderly ==
  /\ \A s \in Sessions : promise'[s] = "pending" => promise[s] = "pending"
  /\ \/ Pipe' = Pipe
     \/ \E e \in Event :
          (IsUserEvent(e) => HasJoined(e.sid)) /\ Pipe' = Append(Pipe, e)
     \/ \E r : /\ Shorter(Pipe', Pipe, r)
               /\ \A s \in Sessions : IsJoin(Pipe[r], s) => promise'[s] # "pending"

LEMMA ShorterKeepsAhead ==
  ASSUME NEW new, NEW old, NEW r, Shorter(new, old, r), NEW s, ~IsJoin(old[r], s),
         NEW i \in DOMAIN new, new[i].sid = s,
         \A k \in DOMAIN old : new[i] = old[k] => JoinAhead(old, k)
  PROVE  JoinAhead(new, i)
<1>1. DOMAIN old = 1..Len(old) /\ Len(old) \in Nat
  BY LenProperties DEF Shorter
<1> DEFINE k == IF i < r THEN i ELSE i + 1
<1>2. k \in DOMAIN old /\ new[i] = old[k]
  BY <1>1 DEF Shorter
<1>3. PICK j \in DOMAIN old : j < k /\ IsJoin(old[j], old[k].sid)
  BY <1>2 DEF JoinAhead
<1>4. j # r
  BY <1>2, <1>3
<1> DEFINE m == IF j < r THEN j ELSE j - 1
<1>5. m \in DOMAIN new /\ new[m] = old[j] /\ m < i
  <2>1. m \in DOMAIN new /\ new[m] = old[j]
    BY <1>1, <1>4 DEF Shorter
  <2>2. j \in Nat /\ r \in Nat /\ i \in Nat /\ j < k
    BY <1>1, <1>3 DEF Shorter
  <2>3. m < i
    BY <1>4, <2>2
  <2> QED
    BY <2>1, <2>3
<1> HIDE DEF m, k
<1>6. IsJoin(new[m], new[i].sid)
  BY <1>2, <1>3, <1>5
<1> QED
  BY <1>5, <1>6 DEF JoinAhead

LEMMA JoinAheadKept ==
  ASSUME LayoutInv, Orderly
  PROVE  JoinAheadInv'
<1>1. Pipe \in Seq(Event) /\ TypeOK /\ JoinAheadInv
  BY PipeType DEF LayoutInv, ServiceInv
<1>2. SUFFICES ASSUME NEW i \in DOMAIN Pipe', NEW e, e = Pipe'[i], IsUserEvent(e),
                      promise'[e.sid] = "pending"
               PROVE  JoinAhead(Pipe', i)
  BY DEF JoinAheadInv, JoinAhead, IsUserEvent, IsJoin
<1>3. CASE Pipe' = Pipe
  <2>1. e \in Event /\ promise[e.sid] = "pending"
    BY <1>1, <1>2, <1>3, EntryIsEvent DEF Orderly
  <2> QED
    BY <1>1, <1>2, <1>3, <2>1 DEF JoinAheadInv
<1>4. ASSUME NEW a \in Event, IsUserEvent(a) => HasJoined(a.sid), Pipe' = Append(Pipe, a)
      PROVE  JoinAhead(Pipe', i)
  <2>1. /\ DOMAIN Pipe = 1..Len(Pipe) /\ Len(Pipe) \in Nat
        /\ DOMAIN Pipe' = 1..(Len(Pipe) + 1)
        /\ \A k \in DOMAIN Pipe : Pipe'[k] = Pipe[k]
        /\ Pipe'[Len(Pipe) + 1] = a
    BY <1>1, <1>4, AppendEntries
  <2>2. CASE i \in DOMAIN Pipe
    <3>1. e = Pipe[i] /\ e.sid \in Sessions
      BY <1>1, <1>2, <2>1, <2>2, EntryIsEvent
    <3>2. promise[e.sid] = "pending"
      BY <1>2, <3>1 DEF Orderly
    <3>3. PICK j \in DOMAIN Pipe : j < i /\ IsJoin(Pipe[j], Pipe[i].sid)
      BY <1>1, <1>2, <2>2, <3>1, <3>2 DEF JoinAheadInv, JoinAhead
    <3>4. j \in DOMAIN Pipe' /\ IsJoin(Pipe'[j], Pipe'[i].sid)
      BY <2>1, <2>2, <3>3
    <3> QED
      BY <3>3, <3>4 DEF JoinAhead
  <2>3. CASE i = Len(Pipe) + 1
    <3>1. e = a /\ a.sid \in Sessions
      BY <1>2, <2>1, <2>3 DEF Event
    <3>2. promise[a.sid] = "pending" /\ HasJoined(a.sid)
      BY <1>2, <1>4, <3>1 DEF Orderly
    <3>3. JoinComesFirst(Pipe, a.sid)
      BY <3>1, <3>2 DEF LayoutInv, ServiceInv, OvertakingInv
    <3>4. PICK j \in DOMAIN Pipe : IsJoin(Pipe[j], a.sid)
      BY <3>3 DEF JoinComesFirst
    <3>5. j \in DOMAIN Pipe' /\ j < i /\ IsJoin(Pipe'[j], Pipe'[i].sid)
      BY <2>1, <2>3, <3>4
    <3> QED
      BY <3>5 DEF JoinAhead
  <2> QED
    BY <2>1, <2>2, <2>3
<1>5. ASSUME NEW r, Shorter(Pipe', Pipe, r),
             \A s \in Sessions : IsJoin(Pipe[r], s) => promise'[s] # "pending"
      PROVE  JoinAhead(Pipe', i)
  <2>1. PICK k \in DOMAIN Pipe : Pipe'[i] = Pipe[k]
    BY <1>5, ShorterEntry
  <2>2. e.sid \in Sessions
    BY <1>1, <1>2, <2>1, EntryIsEvent
  <2>3. promise[e.sid] = "pending" /\ ~IsJoin(Pipe[r], e.sid)
    BY <1>2, <1>5, <2>2 DEF Orderly
  <2>4. \A m \in DOMAIN Pipe : Pipe'[i] = Pipe[m] => JoinAhead(Pipe, m)
    BY <1>1, <1>2, <2>3 DEF JoinAheadInv
  <2> QED
    BY <1>2, <1>5, <2>3, <2>4, ShorterKeepsAhead
<1> QED
  BY <1>3, <1>4, <1>5 DEF Orderly

(* The next reaction registers nobody but its own session.                 *)
LEMMA TailKeepsRegisters ==
  ASSUME NEW line \in Seq(Reaction), line # <<>>, NEW s, Head(line) # Registers(s),
         WillRegister(line, s)
  PROVE  WillRegister(Tail(line), s)
<1>1. PICK i \in DOMAIN line : line[i] = Registers(s)
  BY DEF WillRegister
<1>2. /\ Tail(line) \in Seq(Reaction) /\ Len(Tail(line)) = Len(line) - 1
      /\ \A k \in 1..Len(Tail(line)) : Tail(line)[k] = line[k + 1]
      /\ DOMAIN line = 1..Len(line) /\ Len(line) \in Nat /\ Head(line) = line[1]
  BY HeadTailProperties, LenProperties
<1>3. DOMAIN Tail(line) = 1..Len(Tail(line))
  BY <1>2, LenProperties
<1>4. i # 1
  BY <1>1, <1>2
<1>5. i - 1 \in 1..Len(Tail(line)) /\ (i - 1) + 1 = i
  BY <1>2, <1>4
<1>6. Tail(line)[i - 1] = line[i]
  BY <1>2, <1>5
<1> QED
  BY <1>1, <1>3, <1>5, <1>6 DEF WillRegister

LEMMA AppendKeepsRegisters ==
  ASSUME NEW line \in Seq(Reaction), NEW r \in Reaction, NEW s,
         WillRegister(line, s) \/ r = Registers(s)
  PROVE  WillRegister(Append(line, r), s)
<1>1. /\ DOMAIN line = 1..Len(line) /\ Len(line) \in Nat
      /\ DOMAIN Append(line, r) = 1..(Len(line) + 1)
      /\ \A k \in 1..Len(line) : Append(line, r)[k] = line[k]
      /\ Append(line, r)[Len(line) + 1] = r
  BY AppendProperties, LenProperties
<1> QED
  BY <1>1 DEF WillRegister

-----------------------------------------------------------------------------
(* The steps that touch no layout.                                         *)

(* What such a step does to the service, as far as the layouts care.       *)
Calm ==
  /\ PipeAmbient /\ Orderly
  /\ reports' = reports
  /\ registry \subseteq registry'
  /\ \A s \in Sessions :
       /\ HasJoined(s) => HasJoined(s)'
       /\ s \in reporting => engine'[s] = engine[s]
       /\ \/ present'[s] = present[s] /\ recoveries'[s] = recoveries[s]
          \/ present'[s] = {} /\ recoveries'[s] = recoveries[s] + 1
  /\ RegisterInv'

LEMMA CalmInv ==
  ASSUME LayoutInv, ServiceInv', Calm, UNCHANGED <<layout, mixed, shown, peers>>,
         reporting \subseteq reporting', LayoutTypes', ShowInv'
  PROVE  LayoutInv'
<1>1. TypeOK /\ TypeOK'
  BY DEF LayoutInv, ServiceInv
<1>2. recoveries \in [Sessions -> Nat] /\ reports \in [Sessions -> Nat]
  BY <1>1, BoundsAreNaturals DEF TypeOK
<1>3. \A s \in Sessions : recoveries[s] <= recoveries'[s]
  <2>1. \A s \in Sessions : recoveries[s] \in Nat
    BY <1>2
  <2> QED
    BY <2>1 DEF Calm
<1>4. Ambient
  BY <1>3 DEF Ambient, Calm
<1>5. UserEventInv' /\ OutlookInv' /\ OrderInv' /\ FollowInv'
  BY <1>1, <1>4, AmbientInv
<1>6. JoinAheadInv' /\ RegisterInv'
  BY JoinAheadKept DEF Calm
<1>7. MixedInv'
  BY DEF LayoutInv, MixedInv, Calm
<1>8. PeersInv'
  <2>1. ASSUME NEW s \in Sessions, NEW u \in Users
        PROVE  Count(peers[s], u) <= recoveries'[s] + (IF u \in present'[s] THEN 1 ELSE 0)
    <3>1. /\ Count(peers[s], u) <= recoveries[s] + (IF u \in present[s] THEN 1 ELSE 0)
          /\ recoveries[s] \in Nat
      BY <1>2 DEF LayoutInv, PeersInv
    <3>2. peers[s] \in Seq(Users)
      BY DEF LayoutInv, LayoutTypes
    <3>3. Count(peers[s], u) \in Nat
      BY <3>2, CountType
    <3>4. CASE present'[s] = present[s] /\ recoveries'[s] = recoveries[s]
      BY <3>1, <3>4
    <3>5. CASE present'[s] = {} /\ recoveries'[s] = recoveries[s] + 1
      <4>1. Count(peers[s], u) <= recoveries[s] + 1
        BY <3>1, <3>3
      <4> QED
        BY <3>1, <3>3, <3>5, <4>1
    <3> QED
      BY <3>4, <3>5 DEF Calm
  <2>2. ASSUME NEW s \in Sessions
        PROVE  present'[s] \subseteq ToSet(peers[s]) /\ Len(peers[s]) <= reports'[s]
    BY DEF LayoutInv, PeersInv, Calm
  <2>3. peers' = peers
    OBVIOUS
  <2> QED
    BY <2>1, <2>2, <2>3 DEF PeersInv
<1>9. StaleInv'
  <2>1. \A s : UserEventPending(s) => UserEventPending(s)'
    BY <1>1, AmbientPending DEF Calm
  <2> QED
    BY <2>1 DEF LayoutInv, StaleInv
<1> QED
  BY <1>5, <1>6, <1>7, <1>8, <1>9 DEF LayoutInv

LEMMA SameFlowCalm ==
  ASSUME LayoutInv, FlowUnchanged, UNCHANGED engineVars
  PROVE  Calm
<1>1. PipeAmbient /\ Orderly
  BY DEF FlowUnchanged, PipeAmbient, Orderly
<1>2. RegisterInv'
  BY DEF FlowUnchanged, LayoutInv, RegisterInv
<1> QED
  BY <1>1, <1>2 DEF Calm, FlowUnchanged, engineVars, HasJoined

LEMMA RecoverCalm ==
  ASSUME LayoutInv, NEW s \in Sessions, RecoverCoreService(s)
  PROVE  Calm
<1>1. FlowUnchanged /\ reports' = reports
  BY DEF RecoverCoreService, requestVars, loopVars, FlowUnchanged, Pipe, Taken
<1>2. PipeAmbient /\ Orderly
  BY <1>1 DEF FlowUnchanged, PipeAmbient, Orderly
<1>3. RegisterInv'
  BY <1>1 DEF FlowUnchanged, LayoutInv, RegisterInv
<1>4. /\ present \in [Sessions -> SUBSET Users] /\ recoveries \in [Sessions -> 0..MaxRecoveries]
      /\ present' = [present EXCEPT ![s] = {}]
      /\ recoveries' = [recoveries EXCEPT ![s] = @ + 1]
  BY DEF LayoutInv, ServiceInv, TypeOK, RecoverCoreService
<1>5. \A t \in Sessions : \/ present'[t] = present[t] /\ recoveries'[t] = recoveries[t]
                          \/ present'[t] = {} /\ recoveries'[t] = recoveries[t] + 1
  BY <1>4
<1> QED
  BY <1>1, <1>2, <1>3, <1>5 DEF Calm, FlowUnchanged, HasJoined

(* An event that is no user event is added.                                *)
LEMMA EmitCalm ==
  ASSUME LayoutInv, NEW k \in {"joinchannel", "error", "leavechannel"},
         NEW s \in Sessions, Emit(k, s, Nobody), s \notin reporting,
         UNCHANGED <<fired, batch, micro, registry, promise, present, reports, recoveries>>,
         \A t \in Sessions : t # s => engine'[t] = engine[t],
         HasJoined(s) => HasJoined(s)'
  PROVE  Calm
<1> DEFINE e == [kind |-> k, sid |-> s, uid |-> Nobody]
<1>1. e \in Event /\ Pipe' = Append(Pipe, e) /\ e.kind = k
  BY EmitPipe DEF LayoutInv, ServiceInv, Kinds
<1> HIDE DEF e
<1>2. ~IsUserEvent(e)
  BY <1>1 DEF IsUserEvent
<1>3. PipeAmbient /\ Orderly
  BY <1>1, <1>2 DEF PipeAmbient, Orderly
<1>4. RegisterInv'
  BY DEF LayoutInv, RegisterInv
<1>5. \A t \in Sessions : HasJoined(t) => HasJoined(t)'
  BY DEF HasJoined
<1> QED
  BY <1>3, <1>4, <1>5 DEF Calm

LEMMA EngineCalm ==
  ASSUME LayoutInv, NEW s \in Sessions,
         \/ JoinChannelSuccess(s)
         \/ s \notin reporting /\ (EngineError(s) \/ LeaveChannel(s))
  PROVE  Calm
<1>1. engine \in [Sessions -> {"absent", "refused", "joining", "inChannel", "failed",
                              "left", "stopped"}]
  BY DEF LayoutInv, ServiceInv, TypeOK
<1>2. CASE JoinChannelSuccess(s)
  <2>1. /\ Emit("joinchannel", s, Nobody) /\ engine' = [engine EXCEPT ![s] = "inChannel"]
        /\ UNCHANGED <<fired, batch, micro, registry, promise, present, reports, recoveries>>
    BY <1>2 DEF JoinChannelSuccess, requestVars
  <2>2. s \notin reporting
    BY <1>2 DEF JoinChannelSuccess, LayoutInv, LayoutTypes
  <2> QED
    BY <1>1, <2>1, <2>2, EmitCalm DEF HasJoined
<1>3. CASE s \notin reporting /\ EngineError(s)
  <2>1. /\ Emit("error", s, Nobody)
        /\ engine' = [engine EXCEPT ![s] = IF @ = "inChannel" THEN "stopped" ELSE "failed"]
        /\ engine[s] \in {"joining", "refused", "inChannel"}
        /\ UNCHANGED <<fired, batch, micro, registry, promise, present, reports, recoveries>>
    BY <1>3 DEF EngineError, requestVars
  <2>2. HasJoined(s) => HasJoined(s)'
    BY <1>1, <2>1 DEF HasJoined
  <2> QED
    BY <1>1, <1>3, <2>1, <2>2, EmitCalm
<1>4. CASE s \notin reporting /\ LeaveChannel(s)
  <2>1. /\ Emit("leavechannel", s, Nobody) /\ engine' = [engine EXCEPT ![s] = "left"]
        /\ UNCHANGED <<fired, batch, micro, registry, promise, present, reports, recoveries>>
    BY <1>4 DEF LeaveChannel, requestVars
  <2> QED
    BY <1>1, <1>4, <2>1, EmitCalm DEF HasJoined
<1> QED
  BY <1>2, <1>3, <1>4

LEMMA WriteFileCalm ==
  ASSUME LayoutInv, NEW s \in Sessions, WriteFileDone(s)
  PROVE  Calm
<1>1. /\ engine \in [Sessions -> {"absent", "refused", "joining", "inChannel", "failed",
                                 "left", "stopped"}]
      /\ engine[s] = "absent"
  BY DEF LayoutInv, ServiceInv, TypeOK, StepInv, JoinCalled, WriteFileDone
<1>2. s \notin reporting
  BY <1>1 DEF LayoutInv, LayoutTypes
<1>3. UNCHANGED <<fired, batch, micro, registry, promise, present, reports, recoveries>>
  BY DEF WriteFileDone
<1>4. \A t \in Sessions : t # s => engine'[t] = engine[t]
  BY <1>1 DEF WriteFileDone, NativeJoin
<1>5. ~HasJoined(s)
  BY <1>1 DEF HasJoined
<1>6. CASE canvas[s] \in Resolutions
  <2>1. Pipe' = Pipe
    BY <1>3, <1>6 DEF WriteFileDone, NativeJoin, Pipe
  <2>2. PipeAmbient /\ Orderly
    BY <1>3, <2>1 DEF PipeAmbient, Orderly
  <2>3. RegisterInv'
    BY <1>3 DEF LayoutInv, RegisterInv
  <2>4. \A t \in Sessions : HasJoined(t) => HasJoined(t)'
    BY <1>4, <1>5 DEF HasJoined
  <2> QED
    BY <1>2, <1>3, <1>4, <2>2, <2>3, <2>4 DEF Calm
<1>7. CASE canvas[s] \notin Resolutions
  <2>1. Emit("error", s, Nobody)
    BY <1>7 DEF WriteFileDone, NativeJoin
  <2> QED
    BY <1>2, <1>3, <1>4, <1>5, <2>1, EmitCalm
<1> QED
  BY <1>6, <1>7

LEMMA DispatchCalm ==
  ASSUME LayoutInv, DispatchEvent
  PROVE  Calm
<1>1. TypeOK /\ TypeOK'
  BY LoopType DEF LayoutInv, ServiceInv
<1>2. UNCHANGED <<registry, promise, micro, engine, present, reports, recoveries>>
  BY DEF DispatchEvent, requestVars, engineVars
<1>3. PICK r : Pipe' = Pipe \/ (Shorter(Pipe', Pipe, r) /\ Pipe[r].kind \notin Subscribed
                                /\ Pipe[r].kind \in Kinds)
  <2> DEFINE h == Head(events)
  <2>1. /\ h \in Event /\ Pipe[Len(fired) + 1] = h
        /\ h.kind \in Subscribed => Pipe' = Pipe
        /\ h.kind \notin Subscribed => Shorter(Pipe', Pipe, Len(fired) + 1)
    BY <1>1, DispatchPipe
  <2> HIDE DEF h
  <2>2. h.kind \in Kinds
    BY <2>1 DEF Event
  <2> QED
    BY <2>1, <2>2
<1>4. Pipe' = Pipe \/ (Shorter(Pipe', Pipe, r) /\ Pipe[r].kind = "leavechannel")
  BY <1>3 DEF Subscribed, Kinds
<1>5. PipeAmbient /\ Orderly
  BY <1>2, <1>4 DEF PipeAmbient, Orderly, IsUserEvent, IsJoin
<1>6. RegisterInv'
  BY <1>2 DEF LayoutInv, RegisterInv
<1> QED
  BY <1>2, <1>5, <1>6 DEF Calm, HasJoined

LEMMA EmitJoinCalm ==
  ASSUME LayoutInv, EmitJoinChannel
  PROVE  Calm
<1>1. PICK e \in Event : /\ Immediate(e) /\ e.kind = "joinchannel"
                         /\ Settle(e.sid, "resolved", "joined")
  BY DEF EmitJoinChannel
<1>2. UNCHANGED <<registry, events, fired, engine, present, reports, recoveries>>
  BY DEF EmitJoinChannel, engineVars
<1>3. /\ TypeOK /\ Shorter(Pipe', Pipe, 1) /\ Pipe[1] = e
      /\ step[e.sid] = "listening" /\ e.sid \in Sessions
  BY <1>1, <1>2, ImmediatePipe DEF LayoutInv, ServiceInv
<1>4. IF promise[e.sid] = "pending"
      THEN promise' = [promise EXCEPT ![e.sid] = "resolved"]
           /\ micro' = Append(micro, Registers(e.sid))
      ELSE promise' = promise /\ micro' = micro
  BY <1>1, <1>3 DEF Settle, Registers
<1>5. \A s \in Sessions : /\ promise'[s] = "pending" => promise[s] = "pending" /\ s # e.sid
                          /\ promise'[s] = "resolved" /\ promise[s] # "resolved"
                               => s = e.sid /\ promise[e.sid] = "pending"
  BY <1>3, <1>4 DEF TypeOK
<1>6. PipeAmbient /\ Orderly
  BY <1>1, <1>3, <1>5 DEF PipeAmbient, Orderly, IsUserEvent, IsJoin
<1>7. RegisterInv'
  <2>1. micro \in Seq(Reaction) /\ Registers(e.sid) \in Reaction
    BY <1>3 DEF TypeOK, Registers, Reaction
  <2>2. ASSUME NEW s, \/ WillRegister(micro, s)
                      \/ s = e.sid /\ promise[e.sid] = "pending"
        PROVE  WillRegister(micro', s)
    BY <1>4, <2>1, <2>2, AppendKeepsRegisters
  <2>3. ASSUME NEW s \in Sessions \ registry, promise'[s] = "resolved"
        PROVE  WillRegister(micro', s)
    BY <1>5, <2>2, <2>3 DEF LayoutInv, RegisterInv
  <2> QED
    BY <1>2, <2>3 DEF RegisterInv, WillRegister, Registers
<1> QED
  BY <1>2, <1>6, <1>7 DEF Calm, HasJoined

LEMMA EmitErrorCalm ==
  ASSUME LayoutInv, EmitError
  PROVE  Calm
<1>1. PICK e \in Event : /\ Immediate(e) /\ e.kind = "error"
                         /\ Settle(e.sid, "rejected", "failed")
  BY DEF EmitError
<1>2. UNCHANGED <<registry, events, fired, engine, present, reports, recoveries>>
  BY DEF EmitError, engineVars
<1>3. TypeOK /\ Shorter(Pipe', Pipe, 1) /\ Pipe[1] = e /\ e.sid \in Sessions
  BY <1>1, <1>2, ImmediatePipe DEF LayoutInv, ServiceInv
<1> DEFINE failed == [then |-> "failed", sid |-> e.sid]
<1>4. \/ /\ promise' = [promise EXCEPT ![e.sid] = "rejected"]
         /\ micro' = Append(micro, failed)
      \/ promise' = promise /\ micro' = micro
  BY <1>1 DEF Settle
<1>5. \A s \in Sessions : /\ promise'[s] = "pending" => promise[s] = "pending"
                          /\ promise'[s] = "resolved" => promise[s] = "resolved"
  BY <1>3, <1>4 DEF TypeOK
<1>6. PipeAmbient /\ Orderly
  BY <1>1, <1>3, <1>5 DEF PipeAmbient, Orderly, IsUserEvent, IsJoin
<1>7. RegisterInv'
  <2>1. micro \in Seq(Reaction) /\ failed \in Reaction
    BY <1>3 DEF TypeOK, Reaction
  <2> HIDE DEF failed
  <2>2. ASSUME NEW s, WillRegister(micro, s) PROVE WillRegister(micro', s)
    BY <1>4, <2>1, <2>2, AppendKeepsRegisters
  <2>3. ASSUME NEW s \in Sessions \ registry, promise'[s] = "resolved"
        PROVE  WillRegister(micro', s)
    BY <1>5, <2>2, <2>3 DEF LayoutInv, RegisterInv
  <2> QED
    BY <1>2, <2>3 DEF RegisterInv, WillRegister, Registers
<1> QED
  BY <1>2, <1>6, <1>7 DEF Calm, HasJoined

LEMMA ReactionCalm ==
  ASSUME LayoutInv, RunReaction
  PROVE  Calm
<1>1. /\ UNCHANGED <<promise, engine, present, reports, recoveries>> /\ Pipe' = Pipe
      /\ registry \subseteq registry'
  BY DEF RunReaction, RegisterRecorder, RejectStart, AnswerStart, requestVars, engineVars, Pipe
<1>2. PipeAmbient /\ Orderly
  BY <1>1 DEF PipeAmbient, Orderly
<1>3. PICK r \in Reaction : /\ React(r)
                            /\ r.then = "joined" => registry' = registry \cup {r.sid}
                            /\ \/ micro' = Tail(micro)
                               \/ \E n \in {"replyOk", "replyError"} :
                                    micro' = Append(Tail(micro), [then |-> n, sid |-> r.sid])
  BY DEF RunReaction, RegisterRecorder, RejectStart, AnswerStart
<1>4. /\ micro \in Seq(Reaction) /\ micro # <<>> /\ r = Head(micro)
      /\ r.sid \in Sessions /\ Tail(micro) \in Seq(Reaction)
  BY <1>3, ReactType DEF LayoutInv, ServiceInv, TypeOK, React
<1>5. ASSUME NEW s \in Sessions \ registry', promise[s] = "resolved"
      PROVE  WillRegister(micro', s)
  <2>1. s \notin registry /\ WillRegister(micro, s)
    BY <1>1, <1>5 DEF LayoutInv, RegisterInv
  <2>2. r # Registers(s)
    BY <1>3, <1>5 DEF Registers
  <2>3. WillRegister(Tail(micro), s)
    BY <1>4, <2>1, <2>2, TailKeepsRegisters
  <2>4. ASSUME NEW n \in {"replyOk", "replyError"},
               micro' = Append(Tail(micro), [then |-> n, sid |-> r.sid])
        PROVE  WillRegister(micro', s)
    <3>1. [then |-> n, sid |-> r.sid] \in Reaction
      BY <1>4 DEF Reaction
    <3> QED
      BY <1>4, <2>3, <2>4, <3>1, AppendKeepsRegisters
  <2> QED
    BY <1>3, <2>3, <2>4
<1>6. RegisterInv'
  BY <1>1, <1>5 DEF RegisterInv, WillRegister, Registers
<1> QED
  BY <1>1, <1>2, <1>6 DEF Calm, HasJoined

LEMMA OtherCalm ==
  ASSUME LayoutInv,
         OtherStep \/ (\E s \in Sessions : MkdirDone(s)) \/ UNCHANGED serviceVars
  PROVE  Calm
<1>1. TypeOK
  BY DEF LayoutInv, ServiceInv
<1>2. CASE UNCHANGED serviceVars
  <2>1. FlowUnchanged /\ UNCHANGED engineVars
    BY <1>2 DEF serviceVars, requestVars, loopVars, engineVars, FlowUnchanged,
                Pipe, Taken
  <2> QED
    BY <2>1, SameFlowCalm
<1>3. ASSUME NEW s \in Sessions,
             \/ StartRequest(s) \/ StartRejected(s) \/ StopRequest(s)
             \/ MkdirDone(s) \/ AccessDone(s) \/ StorageFails(s) \/ ListenOnce(s)
      PROVE  Calm
  <2>1. FlowUnchanged /\ UNCHANGED engineVars
    BY <1>3 DEF StartRequest, StartRejected, StopRequest, MkdirDone, AccessDone,
                StorageFails, ListenOnce, requestVars, loopVars, engineVars, FlowUnchanged,
                Pipe, Taken
  <2> QED
    BY <2>1, SameFlowCalm
<1>4. CASE CheckPhase
  <2>1. Taken = fired /\ Taken' = fired /\ UNCHANGED events
    BY <1>1, <1>4, ConcatEmptySeq DEF CheckPhase, Polling, Taken, TypeOK
  <2>2. FlowUnchanged /\ UNCHANGED engineVars
    BY <1>4, <2>1 DEF CheckPhase, requestVars, engineVars, FlowUnchanged, Pipe, Taken
  <2> QED
    BY <2>2, SameFlowCalm
<1> QED
  BY <1>2, <1>3, <1>4, WriteFileCalm, EngineCalm, RecoverCalm, DispatchCalm,
     EmitJoinCalm, EmitErrorCalm, ReactionCalm
  DEF OtherStep

-----------------------------------------------------------------------------
(* The steps of the layouts.                                               *)

LEMMA LayoutStepIsServiceStep ==
  LayoutNext \/ UNCHANGED vars => [Next]_serviceVars
<1>1. CASE UNCHANGED vars
  BY <1>1 DEF vars
<1>2. ASSUME NEW s \in Sessions,
             SetInitialLayout(s) \/ ReadLayout(s)
               \/ \E u \in Users : NativeUserJoined(s, u) \/ NativeUserOffline(s, u)
      PROVE  [Next]_serviceVars
  BY <1>2 DEF SetInitialLayout, ReadLayout, NativeUserJoined, NativeUserOffline, Next,
              Storage, EngineReports
<1>3. CASE EmitUserEvent
  BY <1>3 DEF EmitUserEvent, Next, RunImmediate
<1>4. CASE OtherStep
  BY <1>4 DEF OtherStep, Next, Requests, Storage, EngineReports, RunImmediate
<1> QED
  BY <1>1, <1>2, <1>3, <1>4 DEF LayoutNext

(* start sets the empty layout of a recorder that has none.                *)
LEMMA SetInitialLayoutSame ==
  ASSUME LayoutInv, NEW s \in Sessions, SetInitialLayout(s)
  PROVE  UNCHANGED layoutVars
<1>1. step[s] = "mkdir" /\ SetMixLayout(s, <<>>) /\ UNCHANGED <<peers, reporting, copy>>
  BY DEF SetInitialLayout, MkdirDone
<1>2. engine[s] = "absent"
  BY <1>1 DEF LayoutInv, ServiceInv, StepInv, JoinCalled
<1>3. s \notin registry
  BY <1>2 DEF LayoutInv, ServiceInv, AnswerInv, PromiseInv, HasJoined
<1>4. layout[s] = <<>> /\ mixed[s] = NativeRegions(<<>>)
  BY <1>3 DEF LayoutInv, MixedInv
<1>5. layout \in [Sessions -> Seq(Region)] /\ mixed \in [Sessions -> Seq(RelativeRegion)]
  BY DEF LayoutInv, LayoutTypes
<1>6. layout' = layout /\ mixed' = mixed
  BY <1>1, <1>4, <1>5 DEF SetMixLayout
<1>7. shown' = shown
  BY <1>1, NativeOfNothing DEF SetMixLayout, Show
<1> QED
  BY <1>1, <1>6, <1>7 DEF layoutVars

LEMMA QuietInv ==
  ASSUME LayoutInv, ServiceInv', Calm, UNCHANGED layoutVars
  PROVE  LayoutInv'
<1>1. UNCHANGED <<layout, mixed, shown, peers, reporting, copy>>
  BY DEF layoutVars
<1>2. LayoutTypes'
  BY <1>1 DEF LayoutInv, LayoutTypes, Calm
<1>3. ShowInv'
  BY <1>1 DEF LayoutInv, ShowInv
<1> QED
  BY <1>1, <1>2, <1>3, CalmInv

LEMMA ReadLayoutInv ==
  ASSUME LayoutInv, ServiceInv', NEW s \in Sessions, ReadLayout(s)
  PROVE  LayoutInv'
<1>1. UNCHANGED serviceVars /\ UNCHANGED <<layout, mixed, shown, peers>>
  BY DEF ReadLayout
<1>2. /\ reporting' = reporting \cup {s} /\ copy' = [copy EXCEPT ![s] = mixed[s]]
      /\ engine[s] = "inChannel"
  BY DEF ReadLayout
<1>3. Calm
  BY <1>1, OtherCalm
<1>4. LayoutTypes /\ ShowInv /\ MixedInv
  BY DEF LayoutInv
<1>5. engine' = engine
  BY <1>1 DEF serviceVars, engineVars
<1>6. LayoutTypes'
  BY <1>1, <1>2, <1>4, <1>5 DEF LayoutTypes
<1>7. ShowInv'
  <2>1. ASSUME NEW t \in Sessions, layout[t] # <<>>
        PROVE  /\ copy'[t] = <<>> => shown[t] = mixed[t]
               /\ t \notin reporting' => shown[t] \in {mixed[t], copy'[t]}
    <3>1. CASE t = s
      <4>1. copy'[s] = NativeRegions(layout[s]) /\ layout[s] \in Seq(Region)
        BY <1>2, <1>4 DEF LayoutTypes, MixedInv
      <4>2. copy'[s] # <<>>
        BY <2>1, <3>1, <4>1, NativeType
      <4> QED
        BY <1>2, <3>1, <4>2
    <3>2. CASE t # s
      BY <1>2, <1>4, <2>1, <3>2 DEF LayoutTypes, ShowInv
    <3> QED
      BY <3>1, <3>2
  <2> QED
    BY <1>1, <2>1 DEF ShowInv
<1> QED
  BY <1>1, <1>2, <1>3, <1>6, <1>7, CalmInv

(* The callback of a user ends: the engine shows what its thread read.     *)
LEMMA EndReportInv ==
  ASSUME LayoutInv, NEW s \in Sessions, EndReport(s), UNCHANGED <<engine, registry>>,
         peers' \in [Sessions -> Seq(Users)]
  PROVE  /\ LayoutTypes' /\ MixedInv' /\ ShowInv'
         /\ \A t \in Sessions : t # s => shown'[t] = shown[t]
<1>1. /\ LayoutTypes /\ MixedInv /\ ShowInv
      /\ s \in reporting /\ reporting' = reporting \ {s}
      /\ UNCHANGED <<layout, mixed, copy>> /\ Show(s, copy[s])
  BY DEF LayoutInv, EndReport
<1>2. engine[s] = "inChannel"
  BY <1>1 DEF LayoutTypes
<1>3. shown' = IF copy[s] = <<>> THEN shown ELSE [shown EXCEPT ![s] = copy[s]]
  BY <1>1, <1>2 DEF Show
<1>4. LayoutTypes'
  BY <1>1, <1>3 DEF LayoutTypes
<1>5. MixedInv'
  BY <1>1 DEF MixedInv
<1>6. ShowInv'
  <2>1. ASSUME NEW t \in Sessions, layout[t] # <<>>
        PROVE  /\ copy[t] = <<>> => shown'[t] = mixed[t]
               /\ t \notin reporting' => shown'[t] \in {mixed[t], copy[t]}
    <3>1. CASE t = s
      BY <1>1, <1>3, <2>1, <3>1 DEF LayoutTypes, ShowInv
    <3>2. CASE t # s
      BY <1>1, <1>3, <2>1, <3>2 DEF LayoutTypes, ShowInv
    <3> QED
      BY <3>1, <3>2
  <2> QED
    BY <1>1, <2>1 DEF ShowInv
<1>7. \A t \in Sessions : t # s => shown'[t] = shown[t]
  BY <1>1, <1>3 DEF LayoutTypes
<1> QED
  BY <1>4, <1>5, <1>6, <1>7

(* The native object and the pipe take note of a user event alike.         *)
LEMMA ReportOutlook ==
  ASSUME LayoutInv, TypeOK', NEW e \in Event, Pipe' = Append(Pipe, e),
         UNCHANGED <<layout, recoveries>>, PeersInv', peers' \in [Sessions -> Seq(Users)],
         \A s \in Sessions : peers'[s] = Handled(s, peers[s], e)
  PROVE  OutlookInv' /\ FollowInv'
<1>1. /\ Pipe \in Seq(Event) /\ Len(Pipe) \in Nat /\ layout \in [Sessions -> Seq(Region)]
      /\ peers \in [Sessions -> Seq(Users)] /\ recoveries \in [Sessions -> Nat]
  <2>1. TypeOK /\ Pipe \in Seq(Event) /\ Len(Pipe) \in Nat
    BY PipeType, LenProperties DEF LayoutInv, ServiceInv
  <2> QED
    BY <2>1, BoundsAreNaturals DEF TypeOK, LayoutInv, LayoutTypes
<1>2. Len(Pipe') = Len(Pipe) + 1
  BY <1>1, AppendProperties
<1>3. ASSUME NEW s \in Sessions
      PROVE  /\ Foreseen(s)' = Handled(s, Foreseen(s), e)
             /\ Foreseen(s) \in Seq(Names)
             /\ \A n \in 0..Len(Pipe) : /\ Outlook(s, Uids(layout[s]), Pipe')[n] =
                                             Outlook(s, Uids(layout[s]), Pipe)[n]
                                        /\ Outlook(s, Uids(layout[s]), Pipe)[n] \in Seq(Names)
  <2>1. Uids(layout[s]) \in Seq(Names)
    BY <1>1, UidsNames
  <2>2. Unfolds(Outlook(s, Uids(layout[s]), Pipe), s, Uids(layout[s]), Pipe)
    BY <1>1, <2>1, OutlookUnfolds
  <2>3. /\ \A n \in 0..Len(Pipe) : Outlook(s, Uids(layout[s]), Pipe')[n] =
             Outlook(s, Uids(layout[s]), Pipe)[n]
        /\ Outlook(s, Uids(layout[s]), Pipe')[Len(Pipe) + 1] =
             Handled(s, Outlook(s, Uids(layout[s]), Pipe)[Len(Pipe)], e)
    BY <1>1, <2>1, OutlookAppend
  <2>4. \A n \in 0..Len(Pipe) : Outlook(s, Uids(layout[s]), Pipe)[n] \in Seq(Names)
    BY <2>2 DEF Unfolds
  <2>5. Len(Pipe) \in 0..Len(Pipe)
    BY <1>1
  <2> QED
    BY <1>2, <2>3, <2>4, <2>5 DEF Foreseen
<1>4. \A s \in Sessions : peers[s] \in Seq(Names) /\ peers'[s] \in Seq(Names)
  <2>1. ASSUME NEW p \in Seq(Users) PROVE p \in Seq(Names)
    <3>1. Len(p) \in Nat /\ p \in [1..Len(p) -> Users]
      BY LenProperties
    <3>2. p \in [1..Len(p) -> Names]
      BY <3>1 DEF Names
    <3> QED
      BY <3>1, <3>2, SeqDef
  <2> QED
    BY <1>1, <2>1
<1>5. ASSUME NEW s \in Sessions PROVE FewerUsers(Foreseen(s)', peers'[s])
  <2>1. FewerUsers(Foreseen(s), peers[s])
    BY DEF LayoutInv, OutlookInv
  <2> QED
    BY <1>3, <1>4, <2>1, HandledMonotonic
<1>6. ASSUME NEW s \in Sessions, NEW n \in 0..Len(Pipe'), NEW u \in Users
      PROVE  Count(Outlook(s, Uids(layout[s]), Pipe')[n], u) <= 1 + recoveries[s]
  <2>1. CASE n \in 0..Len(Pipe)
    BY <1>3, <2>1 DEF LayoutInv, OutlookInv
  <2>2. CASE n = Len(Pipe')
    <3>1. Outlook(s, Uids(layout[s]), Pipe')[n] = Foreseen(s)'
      BY <2>2 DEF Foreseen
    <3>2. Foreseen(s)' \in Seq(Names)
      BY <1>3, HandledType
    <3>3. /\ Count(Foreseen(s)', u) \in Nat /\ Count(peers'[s], u) \in Nat
          /\ Count(Foreseen(s)', u) <= Count(peers'[s], u)
      BY <1>4, <1>5, <3>2, CountType DEF FewerUsers
    <3>4. Count(peers'[s], u) <= recoveries[s] + (IF u \in present'[s] THEN 1 ELSE 0)
      BY DEF PeersInv
    <3>5. recoveries[s] \in Nat
      BY <1>1
    <3>6. Count(peers'[s], u) <= recoveries[s] + 1
      BY <3>3, <3>4, <3>5
    <3> QED
      BY <3>1, <3>3, <3>5, <3>6
  <2> QED
    BY <1>1, <1>2, <2>1, <2>2
<1>7. OutlookInv'
  BY <1>5, <1>6 DEF OutlookInv
<1>8. FollowInv'
  BY <1>3 DEF LayoutInv, FollowInv
<1> QED
  BY <1>7, <1>8

(* What the rest of the invariant needs to know of a user callback.        *)
LEMMA ReportInv ==
  ASSUME LayoutInv, ServiceInv', NEW s \in Sessions, EndReport(s),
         NEW e \in Event, e.sid = s, e.uid \in Users, IsUserEvent(e),
         Pipe' = Append(Pipe, e),
         UNCHANGED <<engine, registry, promise, micro, recoveries>>,
         peers' \in [Sessions -> Seq(Users)],
         \A t \in Sessions : peers'[t] = Handled(t, peers[t], e),
         PeersInv',
         \A t \in Sessions : Len(peers'[t]) = reports'[t] =>
           /\ Len(peers[t]) = reports[t]
           /\ t = s => e.kind = "userjoin"
  PROVE  LayoutInv'
<1>1. /\ TypeOK /\ TypeOK' /\ Pipe \in Seq(Event) /\ engine[s] = "inChannel"
      /\ layout' = layout
  <2>1. TypeOK /\ TypeOK' /\ Pipe \in Seq(Event)
    BY PipeType DEF LayoutInv, ServiceInv
  <2> QED
    BY <2>1 DEF LayoutInv, LayoutTypes, EndReport
<1>2. /\ DOMAIN Pipe' = 1..(Len(Pipe) + 1) /\ DOMAIN Pipe = 1..Len(Pipe) /\ Len(Pipe) \in Nat
      /\ \A k \in DOMAIN Pipe : Pipe'[k] = Pipe[k]
      /\ Pipe'[Len(Pipe) + 1] = e
  BY <1>1, AppendEntries
<1>3. /\ LayoutTypes' /\ MixedInv' /\ ShowInv'
      /\ \A t \in Sessions : t # s => shown'[t] = shown[t]
  BY EndReportInv
<1>4. OutlookInv' /\ FollowInv'
  BY <1>1, ReportOutlook
<1>5. UserEventInv'
  <2>1. ASSUME NEW i \in DOMAIN Pipe', NEW a, a = Pipe'[i], IsUserEvent(a)
        PROVE  a.uid \in Users /\ HasJoined(a.sid)'
    <3>1. CASE i = Len(Pipe) + 1
      BY <1>1, <1>2, <2>1, <3>1 DEF HasJoined
    <3>2. CASE i # Len(Pipe) + 1
      <4>1. i \in DOMAIN Pipe /\ a = Pipe[i]
        BY <1>2, <2>1, <3>2
      <4> QED
        BY <2>1, <4>1 DEF LayoutInv, UserEventInv, HasJoined
    <3> QED
      BY <3>1, <3>2
  <2> QED
    BY <2>1 DEF UserEventInv, IsUserEvent, HasJoined
<1>6. OrderInv'
  <2>1. ASSUME NEW t \in Sessions, Len(peers'[t]) = reports'[t]
        PROVE  /\ \A i \in DOMAIN Pipe' : ~(Pipe'[i].kind = "userleave" /\ Pipe'[i].sid = t)
               /\ AtItsCorner(layout[t])
    <3>1. Len(peers[t]) = reports[t] /\ (t = s => e.kind = "userjoin")
      BY <2>1
    <3>2. /\ \A i \in DOMAIN Pipe : ~(Pipe[i].kind = "userleave" /\ Pipe[i].sid = t)
          /\ AtItsCorner(layout[t])
      BY <3>1 DEF LayoutInv, OrderInv
    <3>3. ASSUME NEW i \in DOMAIN Pipe'
          PROVE  ~(Pipe'[i].kind = "userleave" /\ Pipe'[i].sid = t)
      <4>1. CASE i = Len(Pipe) + 1
        BY <1>2, <3>1, <4>1
      <4>2. CASE i # Len(Pipe) + 1
        <5>1. i \in DOMAIN Pipe
          BY <1>2, <4>2
        <5> QED
          BY <1>2, <3>2, <5>1
      <4> QED
        BY <4>1, <4>2
    <3> QED
      BY <3>2, <3>3
  <2> QED
    BY <1>1, <2>1 DEF OrderInv
<1>7. JoinAheadInv'
  <2>1. HasJoined(e.sid)
    BY <1>1 DEF HasJoined
  <2>2. Orderly
    BY <2>1 DEF Orderly
  <2> QED
    BY <2>2, JoinAheadKept
<1>8. RegisterInv'
  BY DEF LayoutInv, RegisterInv
<1>9. StaleInv'
  <2>1. UserEventPending(s)'
    <3>1. Len(Pipe) + 1 \in DOMAIN Pipe'
      BY <1>2
    <3> QED
      BY <1>2, <3>1 DEF UserEventPending, IsUserEvent
  <2>2. ASSUME NEW t \in Sessions, t # s, layout'[t] # <<>>, t \notin reporting',
               shown'[t] # mixed'[t]
        PROVE  UserEventPending(t)'
    <3>1. /\ layout[t] # <<>> /\ t \notin reporting /\ shown[t] # mixed[t]
      BY <1>3, <2>2 DEF EndReport
    <3>2. UserEventPending(t)
      BY <3>1 DEF LayoutInv, StaleInv
    <3> QED
      BY <1>2, <3>2 DEF UserEventPending
  <2> QED
    BY <2>1, <2>2 DEF StaleInv
<1> QED
  BY <1>3, <1>4, <1>5, <1>6, <1>7, <1>8, <1>9 DEF LayoutInv

LEMMA JoinedInv ==
  ASSUME LayoutInv, ServiceInv', NEW s \in Sessions, NEW u \in Users, NativeUserJoined(s, u)
  PROVE  LayoutInv'
<1> DEFINE e == [kind |-> "userjoin", sid |-> s, uid |-> u]
<1>1. /\ u \notin present[s] /\ Emit("userjoin", s, u) /\ EndReport(s)
      /\ reports' = [reports EXCEPT ![s] = @ + 1]
      /\ present' = [present EXCEPT ![s] = @ \cup {u}]
      /\ UNCHANGED <<registry, promise, fired, batch, micro, engine, recoveries>>
      /\ peers' = [peers EXCEPT ![s] = Append(@, u)]
  BY DEF NativeUserJoined, UserJoined, requestVars
<1>2. TypeOK /\ peers \in [Sessions -> Seq(Users)] /\ PeersInv
  BY DEF LayoutInv, ServiceInv, LayoutTypes
<1>3. /\ reports \in [Sessions -> Nat] /\ recoveries \in [Sessions -> Nat]
      /\ present \in [Sessions -> SUBSET Users]
  BY <1>2, BoundsAreNaturals DEF TypeOK
<1>4. Pipe' = Append(Pipe, e) /\ e \in Event
  BY <1>1, <1>2, EmitPipe DEF Kinds
<1>5. e.kind = "userjoin" /\ e.sid = s /\ e.uid = u
  OBVIOUS
<1> HIDE DEF e
<1>6. /\ peers[s] \in Seq(Users) /\ Append(peers[s], u) \in Seq(Users)
      /\ Len(Append(peers[s], u)) = Len(peers[s]) + 1 /\ Len(peers[s]) \in Nat
      /\ ToSet(Append(peers[s], u)) = ToSet(peers[s]) \cup {u}
  BY <1>2, AppendProperties, LenProperties, AppendRange
<1>7. /\ peers' \in [Sessions -> Seq(Users)] /\ peers'[s] = Append(peers[s], u)
      /\ \A t \in Sessions : t # s => peers'[t] = peers[t]
  BY <1>1, <1>2, <1>6
<1>8. \A t \in Sessions : peers'[t] = Handled(t, peers[t], e)
  BY <1>5, <1>7 DEF Handled
<1>9. PeersInv'
  <2>1. ASSUME NEW t \in Sessions
        PROVE  /\ \A v \in Users : Count(peers'[t], v)
                    <= recoveries[t] + (IF v \in present'[t] THEN 1 ELSE 0)
               /\ present'[t] \subseteq ToSet(peers'[t])
               /\ Len(peers'[t]) <= reports'[t]
    <3>1. CASE t # s
      BY <1>1, <1>2, <1>3, <1>7, <3>1 DEF PeersInv
    <3>2. CASE t = s
      <4>1. ASSUME NEW v \in Users
            PROVE  Count(peers'[s], v) <= recoveries[s] + (IF v \in present'[s] THEN 1 ELSE 0)
        <5>1. /\ Count(peers[s], v) \in Nat /\ recoveries[s] \in Nat
              /\ Count(peers'[s], v) = IF u = v THEN Count(peers[s], v) + 1
                                       ELSE Count(peers[s], v)
          <6>1. Count(peers[s], v) \in Nat
            BY <1>6, CountType
          <6>2. Count(Append(peers[s], u), v) = IF u = v THEN Count(peers[s], v) + 1
                                                ELSE Count(peers[s], v)
            BY <1>6, CountAppend
          <6> QED
            BY <1>3, <1>7, <6>1, <6>2
        <5>2. Count(peers[s], v) <= recoveries[s] + (IF v \in present[s] THEN 1 ELSE 0)
          BY <1>2 DEF PeersInv
        <5>3. present'[s] = present[s] \cup {u}
          BY <1>1, <1>3
        <5>4. CASE u = v
          <6>1. Count(peers[s], v) <= recoveries[s]
            BY <1>1, <5>1, <5>2, <5>4
          <6> QED
            BY <5>1, <5>3, <5>4, <6>1
        <5>5. CASE u # v
          <6>1. v \in present'[s] <=> v \in present[s]
            BY <5>3, <5>5
          <6> QED
            BY <5>1, <5>2, <5>5, <6>1
        <5> QED
          BY <5>4, <5>5
      <4>2. present'[s] \subseteq ToSet(peers'[s]) /\ Len(peers'[s]) <= reports'[s]
        BY <1>1, <1>2, <1>3, <1>6, <1>7 DEF PeersInv
      <4> QED
        BY <3>2, <4>1, <4>2
    <3> QED
      BY <3>1, <3>2
  <2> QED
    BY <1>1, <2>1 DEF PeersInv
<1>10. \A t \in Sessions : Len(peers'[t]) = reports'[t] =>
         Len(peers[t]) = reports[t] /\ (t = s => e.kind = "userjoin")
  BY <1>1, <1>3, <1>5, <1>6, <1>7
<1>11. IsUserEvent(e)
  BY <1>5 DEF IsUserEvent
<1> QED
  BY <1>1, <1>4, <1>5, <1>7, <1>8, <1>9, <1>10, <1>11, ReportInv

LEMMA OfflineInv ==
  ASSUME LayoutInv, ServiceInv', NEW s \in Sessions, NEW u \in Users, NativeUserOffline(s, u)
  PROVE  LayoutInv'
<1> DEFINE e == [kind |-> "userleave", sid |-> s, uid |-> u]
<1>1. /\ u \in present[s] /\ Emit("userleave", s, u) /\ EndReport(s)
      /\ present' = [present EXCEPT ![s] = @ \ {u}]
      /\ UNCHANGED <<registry, promise, fired, batch, micro, engine, reports, recoveries>>
      /\ peers' = [peers EXCEPT ![s] = Sift(@, {u})]
  BY DEF NativeUserOffline, UserOffline, requestVars
<1>2. TypeOK /\ peers \in [Sessions -> Seq(Users)] /\ PeersInv
  BY DEF LayoutInv, ServiceInv, LayoutTypes
<1>3. /\ reports \in [Sessions -> Nat] /\ recoveries \in [Sessions -> Nat]
      /\ present \in [Sessions -> SUBSET Users]
  BY <1>2, BoundsAreNaturals DEF TypeOK
<1>4. Pipe' = Append(Pipe, e) /\ e \in Event
  BY <1>1, <1>2, EmitPipe DEF Kinds
<1>5. e.kind = "userleave" /\ e.sid = s /\ e.uid = u
  OBVIOUS
<1> HIDE DEF e
<1>6. u \in ToSet(peers[s])
  BY <1>1, <1>2 DEF PeersInv
<1>7. /\ peers[s] \in Seq(Users) /\ Sift(peers[s], {u}) \in Seq(Users)
      /\ ToSet(Sift(peers[s], {u})) = ToSet(peers[s]) \ {u}
      /\ Len(Sift(peers[s], {u})) < Len(peers[s])
      /\ Len(Sift(peers[s], {u})) \in Nat /\ Len(peers[s]) \in Nat
  BY <1>2, <1>6, SiftType, SiftRange, SiftLength, LenProperties
<1>8. /\ peers' \in [Sessions -> Seq(Users)] /\ peers'[s] = Sift(peers[s], {u})
      /\ \A t \in Sessions : t # s => peers'[t] = peers[t]
  BY <1>1, <1>2, <1>7
<1>9. \A t \in Sessions : peers'[t] = Handled(t, peers[t], e)
  BY <1>5, <1>8 DEF Handled
<1>10. Len(peers'[s]) < reports'[s]
  BY <1>1, <1>2, <1>3, <1>7, <1>8 DEF PeersInv
<1>11. PeersInv'
  <2>1. ASSUME NEW t \in Sessions
        PROVE  /\ \A v \in Users : Count(peers'[t], v)
                    <= recoveries[t] + (IF v \in present'[t] THEN 1 ELSE 0)
               /\ present'[t] \subseteq ToSet(peers'[t])
               /\ Len(peers'[t]) <= reports'[t]
    <3>1. CASE t # s
      BY <1>1, <1>2, <1>3, <1>8, <3>1 DEF PeersInv
    <3>2. CASE t = s
      <4>1. ASSUME NEW v \in Users
            PROVE  Count(peers'[s], v) <= recoveries[s] + (IF v \in present'[s] THEN 1 ELSE 0)
        <5>1. /\ recoveries[s] \in Nat
              /\ Count(peers'[s], v) = IF v \in {u} THEN 0 ELSE Count(peers[s], v)
          BY <1>3, <1>7, <1>8, SiftCount
        <5>2. Count(peers[s], v) <= recoveries[s] + (IF v \in present[s] THEN 1 ELSE 0)
          BY <1>2 DEF PeersInv
        <5>3. v # u => (v \in present'[s] <=> v \in present[s])
          BY <1>1, <1>3
        <5> QED
          BY <5>1, <5>2, <5>3
      <4>2. present'[s] \subseteq ToSet(peers'[s]) /\ Len(peers'[s]) <= reports'[s]
        <5>1. present'[s] = present[s] \ {u} /\ present[s] \subseteq ToSet(peers[s])
          BY <1>1, <1>2, <1>3 DEF PeersInv
        <5>2. present'[s] \subseteq ToSet(peers'[s])
          BY <1>7, <1>8, <5>1
        <5>3. Len(peers'[s]) <= reports'[s]
          <6>1. Len(peers'[s]) \in Nat /\ reports'[s] \in Nat
            BY <1>1, <1>3, <1>7, <1>8
          <6> QED
            BY <1>10, <6>1
        <5> QED
          BY <5>2, <5>3
      <4> QED
        BY <3>2, <4>1, <4>2
    <3> QED
      BY <3>1, <3>2
  <2> QED
    BY <1>1, <2>1 DEF PeersInv
<1>12. ASSUME NEW t \in Sessions, Len(peers'[t]) = reports'[t]
       PROVE  Len(peers[t]) = reports[t] /\ t # s
  <2>1. t # s
    BY <1>3, <1>7, <1>8, <1>10, <1>12
  <2> QED
    BY <1>1, <1>8, <1>12, <2>1
<1>13. IsUserEvent(e)
  BY <1>5 DEF IsUserEvent
<1> QED
  BY <1>1, <1>4, <1>5, <1>8, <1>9, <1>11, <1>12, <1>13, ReportInv

-----------------------------------------------------------------------------
(* The handlers of user events.                                            *)

LEMMA SetMixLayoutInv ==
  ASSUME LayoutInv, NEW s \in registry, NEW regions \in Seq(Region),
         SetMixLayout(s, regions), UNCHANGED <<engine, registry, peers, reporting, copy>>
  PROVE  /\ LayoutTypes' /\ MixedInv' /\ ShowInv'
         /\ layout'[s] # <<>> => shown'[s] = mixed'[s]
         /\ \A t \in Sessions : t # s => /\ layout'[t] = layout[t] /\ mixed'[t] = mixed[t]
                                        /\ shown'[t] = shown[t]
<1>1. LayoutTypes /\ MixedInv /\ ShowInv /\ s \in Sessions
  BY DEF LayoutInv, ServiceInv, TypeOK
<1>2. engine[s] # "absent"
  BY <1>1 DEF LayoutInv, ServiceInv, AnswerInv, PromiseInv, HasJoined
<1> DEFINE native == NativeRegions(regions)
<1>3. native \in Seq(RelativeRegion) /\ (native = <<>> <=> regions = <<>>)
  BY NativeType
<1>4. /\ layout' = [layout EXCEPT ![s] = regions] /\ mixed' = [mixed EXCEPT ![s] = native]
      /\ shown' = IF native = <<>> THEN shown ELSE [shown EXCEPT ![s] = native]
  BY <1>2 DEF SetMixLayout, Show
<1>5. MixedInv'
  <2>1. ASSUME NEW t \in Sessions
        PROVE  mixed'[t] = NativeRegions(layout'[t]) /\ (t \notin registry => layout'[t] = <<>>)
    BY <1>1, <1>4 DEF MixedInv, LayoutTypes
  <2> QED
    BY <2>1 DEF MixedInv
<1> HIDE DEF native
<1>6. LayoutTypes'
  BY <1>1, <1>3, <1>4 DEF LayoutTypes
<1>7. ShowInv'
  <2>1. ASSUME NEW t \in Sessions, layout'[t] # <<>>
        PROVE  /\ copy[t] = <<>> => shown'[t] = mixed'[t]
               /\ t \notin reporting => shown'[t] \in {mixed'[t], copy[t]}
    <3>1. CASE t = s
      BY <1>1, <1>3, <1>4, <2>1, <3>1 DEF LayoutTypes
    <3>2. CASE t # s
      BY <1>1, <1>4, <2>1, <3>2 DEF LayoutTypes, ShowInv
    <3> QED
      BY <3>1, <3>2
  <2> QED
    BY <2>1 DEF ShowInv
<1>8. /\ layout'[s] # <<>> => shown'[s] = mixed'[s]
      /\ \A t \in Sessions : t # s => /\ layout'[t] = layout[t] /\ mixed'[t] = mixed[t]
                                     /\ shown'[t] = shown[t]
  BY <1>1, <1>3, <1>4 DEF LayoutTypes
<1> QED
  BY <1>5, <1>6, <1>7, <1>8

(* The first event of the pipe is handled or, for a recorder that is not   *)
(* registered, dropped.                                                    *)
LEMMA HandleOutlook ==
  ASSUME LayoutInv, Shorter(Pipe', Pipe, 1), layout' \in [Sessions -> Seq(Region)],
         NEW s \in Sessions,
         NEW base, base = Handled(s, Uids(layout[s]), Pipe[1]),
         Uids(layout'[s]) = base \/ Uids(layout'[s]) = <<>>
  PROVE  /\ FewerUsers(Foreseen(s)', peers[s])
         /\ \A n \in 0..Len(Pipe'), u \in Users :
              Count(Outlook(s, Uids(layout'[s]), Pipe')[n], u) <= 1 + recoveries[s]
         /\ Uids(layout'[s]) = base => Foreseen(s)' = Foreseen(s)
<1> DEFINE old == Uids(layout[s])
           new == Uids(layout'[s])
<1>1. /\ layout \in [Sessions -> Seq(Region)] /\ peers \in [Sessions -> Seq(Users)]
      /\ recoveries \in [Sessions -> Nat]
  BY BoundsAreNaturals DEF LayoutInv, LayoutTypes, ServiceInv, TypeOK
<1>2. old \in Seq(Names) /\ new \in Seq(Names)
  BY <1>1, UidsNames
<1> HIDE DEF old, new
<1>3. Pipe \in Seq(Event) /\ Pipe' \in Seq(Event)
  BY DEF Shorter
<1>4. /\ Len(Pipe) \in Nat /\ Len(Pipe') = Len(Pipe) - 1 /\ Len(Pipe') \in Nat
      /\ base \in Seq(Names)
      /\ \A n \in 0..Len(Pipe') : Outlook(s, base, Pipe')[n] = Outlook(s, old, Pipe)[n + 1]
  <2>1. base = Handled(s, old, Pipe[1])
    BY DEF old
  <2>2. Len(Pipe') \in Nat
    BY <1>3, LenProperties
  <2>3. /\ Len(Pipe) \in Nat /\ Len(Pipe') = Len(Pipe) - 1 /\ base \in Seq(Names)
        /\ LagsBehind(Outlook(s, base, Pipe'), Outlook(s, old, Pipe), Len(Pipe'))
    BY <1>2, <2>1, OutlookHead
  <2> QED
    BY <2>2, <2>3 DEF LagsBehind
<1>5. FewerUsers(new, base)
  <2>1. CASE new = base
    <3>1. \A u : Count(base, u) \in Nat
      BY <1>4, CountType
    <3> QED
      BY <2>1, <3>1 DEF FewerUsers
  <2>2. CASE new = <<>>
    BY <1>4, <2>2, FewestUsers
  <2> QED
    BY <2>1, <2>2 DEF new
<1>6. \A n \in 0..Len(Pipe') :
        FewerUsers(Outlook(s, new, Pipe')[n], Outlook(s, old, Pipe)[n + 1])
  <2>1. \A n \in 0..Len(Pipe') :
          FewerUsers(Outlook(s, new, Pipe')[n], Outlook(s, base, Pipe')[n])
    BY <1>2, <1>3, <1>4, <1>5, OutlookMonotonic
  <2> QED
    BY <1>4, <2>1
<1>7. /\ \A n \in 0..Len(Pipe') : Outlook(s, new, Pipe')[n] \in Seq(Names)
      /\ \A n \in 0..Len(Pipe) : Outlook(s, old, Pipe)[n] \in Seq(Names)
  <2>1. Unfolds(Outlook(s, new, Pipe'), s, new, Pipe')
    BY <1>2, <1>3, OutlookUnfolds
  <2>2. Unfolds(Outlook(s, old, Pipe), s, old, Pipe)
    BY <1>2, <1>3, OutlookUnfolds
  <2> QED
    BY <2>1, <2>2 DEF Unfolds
<1>8. ASSUME NEW n \in 0..Len(Pipe'), NEW u \in Users
      PROVE  Count(Outlook(s, new, Pipe')[n], u) <= 1 + recoveries[s]
  <2>1. n + 1 \in 0..Len(Pipe)
    BY <1>4
  <2>2. Count(Outlook(s, old, Pipe)[n + 1], u) <= 1 + recoveries[s]
    BY <2>1 DEF old, LayoutInv, OutlookInv
  <2>3. Count(Outlook(s, new, Pipe')[n], u) <= Count(Outlook(s, old, Pipe)[n + 1], u)
    BY <1>6 DEF FewerUsers
  <2>4. Outlook(s, new, Pipe')[n] \in Seq(Names) /\ Outlook(s, old, Pipe)[n + 1] \in Seq(Names)
    BY <1>7, <2>1
  <2>5. /\ Count(Outlook(s, new, Pipe')[n], u) \in Nat
        /\ Count(Outlook(s, old, Pipe)[n + 1], u) \in Nat
    BY <2>4, CountType
  <2>6. recoveries[s] \in Nat
    BY <1>1
  <2> QED
    BY <2>2, <2>3, <2>5, <2>6
<1>9. /\ Foreseen(s)' = Outlook(s, new, Pipe')[Len(Pipe')]
      /\ Foreseen(s) = Outlook(s, old, Pipe)[Len(Pipe)]
  BY DEF Foreseen, old, new
<1>10. Len(Pipe') \in 0..Len(Pipe') /\ Len(Pipe') + 1 = Len(Pipe) /\ Len(Pipe) \in 0..Len(Pipe)
  BY <1>4
<1>11. FewerUsers(Foreseen(s)', peers[s])
  <2>1. FewerUsers(Foreseen(s)', Foreseen(s))
    BY <1>6, <1>9, <1>10
  <2>2. FewerUsers(Foreseen(s), peers[s])
    BY DEF LayoutInv, OutlookInv
  <2>3. Foreseen(s)' \in Seq(Names) /\ Foreseen(s) \in Seq(Names) /\ peers[s] \in Seq(Users)
    BY <1>1, <1>7, <1>9, <1>10
  <2>4. ASSUME NEW u PROVE Count(Foreseen(s)', u) <= Count(peers[s], u)
    <3>1. /\ Count(Foreseen(s)', u) \in Nat /\ Count(Foreseen(s), u) \in Nat
          /\ Count(peers[s], u) \in Nat
      BY <2>3, CountType
    <3>2. /\ Count(Foreseen(s)', u) <= Count(Foreseen(s), u)
          /\ Count(Foreseen(s), u) <= Count(peers[s], u)
      BY <2>1, <2>2 DEF FewerUsers
    <3> QED
      BY <3>1, <3>2
  <2> QED
    BY <2>4 DEF FewerUsers
<1>12. new = base => Foreseen(s)' = Foreseen(s)
  BY <1>4, <1>9, <1>10
<1> QED
  BY <1>8, <1>11, <1>12 DEF new

(* Where reactions run after every callback, the reaction that registers   *)
(* the recorder has run when the first user event is emitted.              *)
LEMMA RegisteredWhenEmitted ==
  ASSUME LayoutInv, MicrotasksPerCallback, NEW e \in Event, Immediate(e), IsUserEvent(e),
         1 \in DOMAIN Pipe, Pipe[1] = e
  PROVE  e.sid \in registry
<1>1. e.sid \in Sessions /\ Pipe \in Seq(Event) /\ TypeOK
  BY PipeType DEF Event, LayoutInv, ServiceInv
<1>2. HasJoined(e.sid)
  BY DEF LayoutInv, UserEventInv
<1>3. promise[e.sid] # "rejected"
  BY <1>1, <1>2 DEF LayoutInv, ServiceInv, PromiseInv, HasJoined
<1>4. ~JoinAhead(Pipe, 1)
  <2>1. DOMAIN Pipe = 1..Len(Pipe) /\ Len(Pipe) \in Nat
    BY <1>1, LenProperties
  <2> QED
    BY <2>1 DEF JoinAhead
<1>5. promise[e.sid] # "pending"
  BY <1>4 DEF LayoutInv, JoinAheadInv
<1>6. promise[e.sid] = "resolved"
  BY <1>1, <1>3, <1>5 DEF TypeOK
<1>7. micro = <<>>
  BY DEF Immediate
<1>8. ~WillRegister(micro, e.sid)
  BY <1>7 DEF WillRegister
<1> QED
  BY <1>1, <1>6, <1>8 DEF LayoutInv, RegisterInv

LEMMA AddRegionCorner ==
  ASSUME NEW regions \in Seq(Region), NEW u \in Users, AtItsCorner(regions)
  PROVE  AtItsCorner(AddRegion(regions, u))
<1> DEFINE r == [uid |-> u, x |-> Corner(Len(regions)).x,
                 y |-> Corner(Len(regions)).y, width |-> 640, height |-> 480]
<1>1. Corner(Len(regions)).x \in {0, 320} /\ Corner(Len(regions)).y \in {0, 240}
  BY DEF Corner
<1>2. /\ r \in Region /\ r.x = Corner(Len(regions)).x /\ r.y = Corner(Len(regions)).y
      /\ AddRegion(regions, u) = Append(regions, r)
  BY <1>1 DEF Region, AddRegion
<1> HIDE DEF r
<1>3. /\ Append(regions, r) \in Seq(Region) /\ Len(Append(regions, r)) = Len(regions) + 1
      /\ \A i \in 1..Len(regions) : Append(regions, r)[i] = regions[i]
      /\ Append(regions, r)[Len(regions) + 1] = r
  BY <1>2, AppendProperties
<1>4. /\ DOMAIN regions = 1..Len(regions) /\ Len(regions) \in Nat
      /\ DOMAIN Append(regions, r) = 1..(Len(regions) + 1)
  BY <1>3, LenProperties
<1>5. ASSUME NEW i \in DOMAIN Append(regions, r)
      PROVE  /\ Append(regions, r)[i].x = Corner(i - 1).x
             /\ Append(regions, r)[i].y = Corner(i - 1).y
  <2>1. CASE i \in 1..Len(regions)
    BY <1>3, <1>4, <2>1 DEF AtItsCorner
  <2>2. CASE i = Len(regions) + 1
    <3>1. i - 1 = Len(regions) /\ Append(regions, r)[i] = r
      BY <1>3, <1>4, <2>2
    <3> QED
      BY <1>2, <3>1
  <2> QED
    BY <1>4, <2>1, <2>2
<1> QED
  BY <1>2, <1>5 DEF AtItsCorner

LEMMA EmitUserLayoutInv ==
  ASSUME LayoutInv, ServiceInv', EmitUserEvent
  PROVE  LayoutInv'
<1>1. PICK e \in Event : Immediate(e) /\ IsUserEvent(e)
  BY DEF EmitUserEvent, EmitUser, IsUserEvent
<1>2. /\ UNCHANGED <<registry, promise, engine, events, fired, micro, present, reports, recoveries>>
      /\ UNCHANGED <<peers, reporting, copy>>
  BY DEF EmitUserEvent, EmitUser, requestVars, engineVars
<1>3. Shorter(Pipe', Pipe, 1) /\ Pipe[1] = e /\ e.sid \in Sessions
  BY <1>1, <1>2, ImmediatePipe DEF LayoutInv, ServiceInv
<1>4. 1 \in DOMAIN Pipe /\ Pipe \in Seq(Event)
  BY <1>3, LenProperties DEF Shorter
<1>5. e.uid \in Users
  BY <1>1, <1>3, <1>4 DEF LayoutInv, UserEventInv
<1>6. /\ TypeOK /\ LayoutTypes /\ MixedInv /\ layout \in [Sessions -> Seq(Region)]
  BY DEF LayoutInv, ServiceInv, LayoutTypes
<1> DEFINE regions == IF e.kind = "userjoin" THEN AddRegion(layout[e.sid], e.uid)
                      ELSE Without(layout[e.sid], e.uid)
<1>7. /\ e.sid \in registry => SetMixLayout(e.sid, regions)
      /\ e.sid \notin registry => UNCHANGED <<layout, mixed, shown>>
  <2>1. e = Head(batch)
    BY <1>1 DEF Immediate
  <2> QED
    BY <1>1, <2>1 DEF EmitUserEvent, OnUserJoin, OnUserLeave
<1>8. /\ regions \in Seq(Region)
      /\ Uids(regions) = Handled(e.sid, Uids(layout[e.sid]), e)
  <2>1. layout[e.sid] \in Seq(Region)
    BY <1>3, <1>6
  <2>2. CASE e.kind = "userjoin"
    <3>1. /\ AddRegion(layout[e.sid], e.uid) \in Seq(Region)
          /\ Uids(AddRegion(layout[e.sid], e.uid)) = Append(Uids(layout[e.sid]), e.uid)
      BY <1>5, <2>1, AddRegionType
    <3> QED
      BY <2>2, <3>1 DEF Handled
  <2>3. CASE e.kind = "userleave"
    <3>1. /\ Without(layout[e.sid], e.uid) \in Seq(Region)
          /\ Uids(Without(layout[e.sid], e.uid)) = Sift(Uids(layout[e.sid]), {e.uid})
      BY <2>1, WithoutType
    <3> QED
      BY <2>3, <3>1 DEF Handled
  <2> QED
    BY <1>1, <2>2, <2>3 DEF IsUserEvent
<1>9. LayoutTypes' /\ MixedInv' /\ ShowInv'
  <2> HIDE DEF regions
  <2>1. CASE e.sid \in registry
    BY <1>2, <1>7, <1>8, <2>1, SetMixLayoutInv
  <2>2. CASE e.sid \notin registry
    BY <1>2, <1>7, <2>2 DEF LayoutInv, LayoutTypes, MixedInv, ShowInv
  <2> QED
    BY <2>1, <2>2
<1>10. layout' = IF e.sid \in registry THEN [layout EXCEPT ![e.sid] = regions] ELSE layout
  <2> HIDE DEF regions
  <2> QED
    BY <1>7 DEF SetMixLayout
<1>11. ASSUME NEW s \in Sessions
       PROVE  \/ Uids(layout'[s]) = Handled(s, Uids(layout[s]), Pipe[1])
              \/ s = e.sid /\ e.sid \notin registry /\ Uids(layout'[s]) = <<>>
  <2> HIDE DEF regions
  <2>1. CASE s # e.sid
    <3>1. layout'[s] = layout[s]
      BY <1>6, <1>10, <2>1
    <3> QED
      BY <1>3, <2>1, <3>1 DEF Handled
  <2>2. CASE s = e.sid /\ e.sid \in registry
    <3>1. layout'[s] = regions
      BY <1>3, <1>6, <1>10, <2>2
    <3> QED
      BY <1>3, <1>8, <2>2, <3>1
  <2>3. CASE s = e.sid /\ e.sid \notin registry
    <3>1. layout'[s] = <<>>
      BY <1>3, <1>6, <1>10, <2>3 DEF MixedInv
    <3> QED
      BY <2>3, <3>1, NativeOfNothing
  <2> QED
    BY <2>1, <2>2, <2>3
<1>12. OutlookInv' /\ FollowInv'
  <2>1. layout' \in [Sessions -> Seq(Region)]
    BY <1>9 DEF LayoutTypes
  <2>2. ASSUME NEW s \in Sessions
        PROVE  /\ FewerUsers(Foreseen(s)', peers[s])
               /\ \A n \in 0..Len(Pipe'), u \in Users :
                    Count(Outlook(s, Uids(layout'[s]), Pipe')[n], u) <= 1 + recoveries[s]
               /\ Uids(layout'[s]) = Handled(s, Uids(layout[s]), Pipe[1])
                    => Foreseen(s)' = Foreseen(s)
    BY <1>3, <1>11, <2>1, HandleOutlook
  <2>3. OutlookInv'
    BY <1>2, <2>2 DEF OutlookInv
  <2>4. ASSUME MicrotasksPerCallback, NEW s \in Sessions PROVE Foreseen(s)' = peers'[s]
    <3>1. e.sid \in registry
      BY <1>1, <1>3, <1>4, <2>4, RegisteredWhenEmitted
    <3>2. Foreseen(s)' = Foreseen(s)
      BY <1>11, <2>2, <3>1
    <3> QED
      BY <1>2, <2>4, <3>2 DEF LayoutInv, FollowInv
  <2> QED
    BY <2>3, <2>4 DEF FollowInv
<1>13. ASSUME NEW i \in DOMAIN Pipe' PROVE \E k \in DOMAIN Pipe : Pipe'[i] = Pipe[k]
  BY <1>3, ShorterEntry
<1>14. UserEventInv'
  <2>1. ASSUME NEW i \in DOMAIN Pipe', NEW a, a = Pipe'[i], IsUserEvent(a)
        PROVE  a.uid \in Users /\ HasJoined(a.sid)'
    BY <1>2, <1>13, <2>1 DEF LayoutInv, UserEventInv, HasJoined
  <2> QED
    BY <2>1 DEF UserEventInv, IsUserEvent, HasJoined
<1>15. OrderInv'
  <2>1. ASSUME NEW s \in Sessions, Len(peers[s]) = reports[s]
        PROVE  /\ \A i \in DOMAIN Pipe' : ~(Pipe'[i].kind = "userleave" /\ Pipe'[i].sid = s)
               /\ AtItsCorner(layout'[s])
    <3>1. /\ \A i \in DOMAIN Pipe : ~(Pipe[i].kind = "userleave" /\ Pipe[i].sid = s)
          /\ AtItsCorner(layout[s])
      BY <2>1 DEF LayoutInv, OrderInv
    <3>2. CASE s = e.sid /\ e.sid \in registry
      <4>1. e.kind = "userjoin"
        BY <1>1, <1>3, <1>4, <3>1, <3>2 DEF IsUserEvent
      <4>2. layout'[s] = AddRegion(layout[s], e.uid) /\ layout[s] \in Seq(Region)
        BY <1>3, <1>6, <1>10, <3>2, <4>1
      <4>3. AtItsCorner(layout'[s])
        BY <1>5, <3>1, <4>2, AddRegionCorner
      <4> QED
        BY <1>13, <3>1, <4>3
    <3>3. CASE ~(s = e.sid /\ e.sid \in registry)
      <4> HIDE DEF regions
      <4>1. layout'[s] = layout[s]
        BY <1>6, <1>10, <3>3
      <4> QED
        BY <1>13, <3>1, <4>1
    <3> QED
      BY <3>2, <3>3
  <2> QED
    BY <1>2, <2>1 DEF OrderInv
<1>16. JoinAheadInv'
  <2>1. Orderly
    BY <1>1, <1>2, <1>3 DEF Orderly, IsUserEvent, IsJoin
  <2> QED
    BY <2>1, JoinAheadKept
<1>17. RegisterInv' /\ PeersInv'
  BY <1>2 DEF LayoutInv, RegisterInv, PeersInv
<1>18. StaleInv'
  <2> HIDE DEF regions
  <2>1. ASSUME NEW s \in Sessions, layout'[s] # <<>>, s \notin reporting,
               shown'[s] # mixed'[s]
        PROVE  UserEventPending(s)'
    <3>1. CASE s = e.sid /\ e.sid \in registry
      BY <1>2, <1>7, <1>8, <2>1, <3>1, SetMixLayoutInv
    <3>2. CASE s = e.sid /\ e.sid \notin registry
      BY <1>6, <1>7, <2>1, <3>2 DEF MixedInv
    <3>3. CASE s # e.sid
      <4>1. /\ layout'[s] = layout[s] /\ mixed'[s] = mixed[s] /\ shown'[s] = shown[s]
        <5>1. CASE e.sid \in registry
          BY <1>2, <1>7, <1>8, <3>3, <5>1, SetMixLayoutInv
        <5> QED
          BY <1>7, <5>1
      <4>2. UserEventPending(s)
        BY <2>1, <4>1 DEF LayoutInv, StaleInv
      <4> QED
        BY <1>3, <3>3, <4>2, ShorterKeepsPending
    <3> QED
      BY <3>1, <3>2, <3>3
  <2> QED
    BY <1>2, <2>1 DEF StaleInv
<1> QED
  BY <1>9, <1>12, <1>14, <1>15, <1>16, <1>17, <1>18 DEF LayoutInv

-----------------------------------------------------------------------------
LEMMA LayoutInvInit == LayoutInit => LayoutInv
<1> SUFFICES ASSUME LayoutInit PROVE LayoutInv
  OBVIOUS
<1>1. ServiceInv
  BY InvInit DEF LayoutInit
<1> DEFINE none == <<>>
<1>2. Pipe = none /\ registry = {} /\ \A s \in Sessions : promise[s] = "pending"
  BY EmptySeq, ConcatEmptySeq DEF LayoutInit, Init, Pipe
<1>3. /\ none \in Seq(Region) /\ none \in Seq(RelativeRegion) /\ none \in Seq(Users)
      /\ none \in Seq(Event) /\ none \in Seq(Names) /\ Len(none) = 0
      /\ DOMAIN none = {} /\ ToSet(none) = {}
  BY EmptySeq DEF ToSet
<1>4. NativeRegions(none) = none /\ Uids(none) = none
  BY NativeOfNothing
<1>5. layout = [s \in Sessions |-> none] /\ mixed = [s \in Sessions |-> none]
      /\ shown = [s \in Sessions |-> none] /\ copy = [s \in Sessions |-> none]
      /\ peers = [s \in Sessions |-> none] /\ reporting = {}
  BY DEF LayoutInit
<1>6. /\ present = [s \in Sessions |-> {}] /\ reports = [s \in Sessions |-> 0]
      /\ recoveries = [s \in Sessions |-> 0]
  BY DEF LayoutInit, Init
<1> HIDE DEF none
<1>7. \A u : Count(none, u) = 0
  BY <1>3, CountType
<1>8. \A s \in Sessions : Outlook(s, none, none)[0] = none
  <2>1. \A s \in Sessions : Unfolds(Outlook(s, none, none), s, none, none)
    BY <1>3, OutlookUnfolds
  <2> QED
    BY <2>1 DEF Unfolds
<1>9. LayoutTypes /\ UserEventInv /\ JoinAheadInv
  BY <1>2, <1>3, <1>5 DEF LayoutTypes, UserEventInv, JoinAheadInv
<1>10. MixedInv /\ ShowInv /\ StaleInv /\ RegisterInv
  BY <1>2, <1>4, <1>5 DEF MixedInv, ShowInv, StaleInv, RegisterInv, none
<1>11. PeersInv
  <2>1. \A s \in Sessions : /\ peers[s] = none /\ present[s] = {}
                            /\ reports[s] = 0 /\ recoveries[s] = 0
    BY <1>5, <1>6
  <2>2. ASSUME NEW s \in Sessions, NEW u \in Users
        PROVE  Count(peers[s], u) <= recoveries[s] + (IF u \in present[s] THEN 1 ELSE 0)
    <3>1. Count(peers[s], u) = 0
      BY <1>7, <2>1
    <3>2. recoveries[s] = 0 /\ u \notin present[s]
      BY <2>1
    <3> QED
      BY <3>1, <3>2
  <2>3. ASSUME NEW s \in Sessions
        PROVE  present[s] \subseteq ToSet(peers[s]) /\ Len(peers[s]) <= reports[s]
    <3>1. Len(peers[s]) = 0 /\ reports[s] = 0 /\ present[s] = {}
      BY <1>3, <2>1
    <3> QED
      BY <3>1
  <2> QED
    BY <2>2, <2>3 DEF PeersInv
<1>12. \A s \in Sessions : Foreseen(s) = none
  BY <1>2, <1>3, <1>4, <1>5, <1>8 DEF Foreseen
<1>13. OutlookInv
  <2>1. \A s \in Sessions : layout[s] = none /\ peers[s] = none /\ recoveries[s] = 0
    BY <1>5, <1>6
  <2>2. \A s \in Sessions : FewerUsers(Foreseen(s), peers[s])
    BY <1>7, <1>12, <2>1 DEF FewerUsers
  <2>3. ASSUME NEW s \in Sessions, NEW n \in 0..Len(Pipe), NEW u \in Users
        PROVE  Count(Outlook(s, Uids(layout[s]), Pipe)[n], u) <= 1 + recoveries[s]
    <3>1. n = 0
      BY <1>2, <1>3
    <3>2. Outlook(s, Uids(layout[s]), Pipe)[n] = none
      BY <1>2, <1>4, <1>8, <2>1, <3>1
    <3> QED
      BY <1>7, <2>1, <3>2
  <2> QED
    BY <2>2, <2>3 DEF OutlookInv
<1>14. OrderInv /\ FollowInv
  BY <1>2, <1>3, <1>5, <1>12 DEF OrderInv, FollowInv, AtItsCorner
<1> QED
  BY <1>1, <1>9, <1>10, <1>11, <1>13, <1>14 DEF LayoutInv

LEMMA LayoutInvStep == LayoutInv /\ [LayoutNext]_vars => LayoutInv'
<1> SUFFICES ASSUME LayoutInv, [LayoutNext]_vars PROVE LayoutInv'
  OBVIOUS
<1>1. ServiceInv'
  BY LayoutStepIsServiceStep, InvStep DEF LayoutInv
<1>2. CASE UNCHANGED vars
  BY <1>1, <1>2, OtherCalm, QuietInv DEF vars
<1>3. CASE OtherStep
  BY <1>1, <1>3, OtherCalm, QuietInv DEF OtherStep
<1>4. ASSUME NEW s \in Sessions, SetInitialLayout(s) PROVE LayoutInv'
  BY <1>1, <1>4, SetInitialLayoutSame, OtherCalm, QuietInv DEF SetInitialLayout
<1>5. ASSUME NEW s \in Sessions, ReadLayout(s) PROVE LayoutInv'
  BY <1>1, <1>5, ReadLayoutInv
<1>6. ASSUME NEW s \in Sessions, NEW u \in Users, NativeUserJoined(s, u) PROVE LayoutInv'
  BY <1>1, <1>6, JoinedInv
<1>7. ASSUME NEW s \in Sessions, NEW u \in Users, NativeUserOffline(s, u) PROVE LayoutInv'
  BY <1>1, <1>7, OfflineInv
<1>8. CASE EmitUserEvent
  BY <1>1, <1>8, EmitUserLayoutInv
<1> QED
  BY <1>2, <1>3, <1>4, <1>5, <1>6, <1>7, <1>8 DEF LayoutNext

LEMMA AlwaysLayoutInv == LayoutSpec => []LayoutInv
  BY LayoutInvInit, LayoutInvStep, PTL DEF LayoutSpec

-----------------------------------------------------------------------------
(* Every region, in JavaScript, in the native object and in the engine,    *)
(* has one of the four places and the size of the canvas, and a user       *)
(* callback is under way only in a channel (recordManager.js:73-131,       *)
(* agora_node_ext/AgoraSdk.cpp:245-275).                                   *)
THEOREM RegionsAreWellFormed == LayoutSpec => []LayoutTypeOK
<1>1. LayoutInv => LayoutTypeOK
  BY DEF LayoutInv, LayoutTypes, LayoutTypeOK
<1> QED
  BY <1>1, AlwaysLayoutInv, PTL

(* Outside of a user callback the engine shows the layout JavaScript set.  *)
(* The older one, which a callback of the engine's own thread read before  *)
(* a change and gave back after it, is shown only while a user event of    *)
(* the session is on its way, the one of that callback or a later one, and *)
(* handling it sets the layout again (agora_node_ext/AgoraSdk.cpp:245-275, *)
(* recordManager.js:73-131).                                               *)
THEOREM EngineKeepsUp == LayoutSpec => []EngineShowsLayout
<1>1. LayoutInv => EngineShowsLayout
  <2>1. ASSUME LayoutInv, NEW s \in Sessions \ reporting, layout[s] # <<>>
        PROVE  \/ shown[s] = NativeRegions(layout[s])
               \/ shown[s] = copy[s] /\ UserEventPending(s)
    BY <2>1 DEF LayoutInv, ShowInv, StaleInv, MixedInv
  <2> QED
    BY <2>1 DEF EngineShowsLayout
<1> QED
  BY <1>1, AlwaysLayoutInv, PTL

(* No region outlives its user for good: the users the regions will show   *)
(* when the pipe is empty are peers of the native object, even where user  *)
(* events were dropped before the recorder was registered                  *)
(* (recordManager.js:73-131, agora_node_ext/AgoraSdk.cpp:245-275).         *)
THEOREM NobodyIsLeftBehind == LayoutSpec => []NoStrangers
<1>1. LayoutInv => NoStrangers
  <2>1. SUFFICES ASSUME LayoutInv, NEW s \in registry, NEW u \in ToSet(Foreseen(s))
                 PROVE  u \in ToSet(peers[s])
    BY DEF NoStrangers
  <2>2. /\ s \in Sessions /\ Pipe \in Seq(Event) /\ layout[s] \in Seq(Region)
        /\ peers[s] \in Seq(Users)
    BY <2>1, PipeType DEF LayoutInv, ServiceInv, TypeOK, LayoutTypes
  <2>3. Foreseen(s) \in Seq(Names)
    <3>1. Uids(layout[s]) \in Seq(Names) /\ Len(Pipe) \in Nat
      BY <2>2, UidsNames, LenProperties
    <3>2. Unfolds(Outlook(s, Uids(layout[s]), Pipe), s, Uids(layout[s]), Pipe)
      BY <2>2, <3>1, OutlookUnfolds
    <3> QED
      BY <3>1, <3>2 DEF Unfolds, Foreseen
  <2>4. Count(Foreseen(s), u) <= Count(peers[s], u)
    BY <2>1, <2>2 DEF LayoutInv, OutlookInv, FewerUsers
  <2>5. /\ Count(Foreseen(s), u) > 0 /\ Count(Foreseen(s), u) \in Nat
        /\ Count(peers[s], u) \in Nat
    BY <2>1, <2>2, <2>3, CountType
  <2>6. Count(peers[s], u) > 0
    BY <2>4, <2>5
  <2> QED
    BY <2>2, <2>6, CountType
<1> QED
  BY <1>1, AlwaysLayoutInv, PTL

(* A user never has more regions than one and one for every recovery of    *)
(* the core service: userjoin is reported once per stay, and userleave     *)
(* takes all regions of the user away (recordManager.js:73-131).           *)
THEOREM RegionsAreBounded == LayoutSpec => []RegionsPerUser
<1>1. LayoutInv => RegionsPerUser
  <2>1. SUFFICES ASSUME LayoutInv, NEW s \in Sessions, NEW u \in Users
                 PROVE  Cardinality({i \in DOMAIN layout[s] : layout[s][i].uid = u})
                          <= 1 + recoveries[s]
    BY DEF RegionsPerUser
  <2>2. Pipe \in Seq(Event) /\ layout[s] \in Seq(Region)
    BY <2>1, PipeType DEF LayoutInv, ServiceInv, LayoutTypes
  <2>3. Uids(layout[s]) \in Seq(Names) /\ 0 \in 0..Len(Pipe)
    BY <2>2, UidsNames, LenProperties
  <2>4. Outlook(s, Uids(layout[s]), Pipe)[0] = Uids(layout[s])
    <3>1. Unfolds(Outlook(s, Uids(layout[s]), Pipe), s, Uids(layout[s]), Pipe)
      BY <2>2, <2>3, OutlookUnfolds
    <3> QED
      BY <3>1 DEF Unfolds
  <2>5. Count(Uids(layout[s]), u) <= 1 + recoveries[s]
    BY <2>1, <2>3, <2>4 DEF LayoutInv, OutlookInv
  <2>6. {i \in DOMAIN Uids(layout[s]) : Uids(layout[s])[i] = u}
          = {i \in DOMAIN layout[s] : layout[s][i].uid = u}
    BY DEF Uids
  <2> QED
    BY <2>5, <2>6 DEF Count
<1> QED
  BY <1>1, AlwaysLayoutInv, PTL

(* Before anyone leaves, the regions of the first four users do not cover  *)
(* each other (recordManager.js:110-130).                                  *)
THEOREM FirstFourDoNotOverlap == LayoutSpec => []FirstFourApart
<1>1. LayoutInv => FirstFourApart
  <2>1. SUFFICES ASSUME LayoutInv, NEW s \in Sessions, Len(peers[s]) = reports[s],
                        Len(layout[s]) <= 4,
                        NEW i \in DOMAIN layout[s], NEW j \in DOMAIN layout[s], i # j,
                        layout[s][i].x = layout[s][j].x, layout[s][i].y = layout[s][j].y
                 PROVE  FALSE
    BY DEF FirstFourApart, Overlap
  <2>2. /\ layout[s][i].x = Corner(i - 1).x /\ layout[s][i].y = Corner(i - 1).y
        /\ layout[s][j].x = Corner(j - 1).x /\ layout[s][j].y = Corner(j - 1).y
    BY <2>1 DEF LayoutInv, OrderInv, AtItsCorner
  <2>3. layout[s] \in Seq(Region)
    BY <2>1 DEF LayoutInv, LayoutTypes
  <2>4. i \in 1..4 /\ j \in 1..4
    BY <2>1, <2>3, LenProperties
  <2>5. /\ Corner(0).x = 0 /\ Corner(0).y = 0 /\ Corner(1).x = 320 /\ Corner(1).y = 0
        /\ Corner(2).x = 0 /\ Corner(2).y = 240 /\ Corner(3).x = 320 /\ Corner(3).y = 240
    BY DEF Corner
  <2>6. \A n \in 1..4 : n - 1 \in {0, 1, 2, 3}
    OBVIOUS
  <2>7. i - 1 \in {0, 1, 2, 3} /\ j - 1 \in {0, 1, 2, 3} /\ i - 1 # j - 1
    BY <2>1, <2>4, <2>6
  <2>8. \A m, n \in {0, 1, 2, 3} :
          Corner(m).x = Corner(n).x /\ Corner(m).y = Corner(n).y => m = n
    BY <2>5
  <2> QED
    BY <2>1, <2>2, <2>7, <2>8
<1> QED
  BY <1>1, AlwaysLayoutInv, PTL

(* With Node 11 and later no user event is lost, repeated or reordered     *)
(* between the engine thread and the handlers: when the events on their    *)
(* way are handled, the regions are the peers of the native object, in     *)
(* their order (node_async_queue.h:51-109, AgoraRecordSdk.js:25-33,        *)
(* recordManager.js:54-131).  In Node 8 the reaction that registers the    *)
(* recorder comes too late for events of the same batch, which is why the  *)
(* theorem names the version.                                              *)
THEOREM RegionsFollowThePeers ==
  MicrotasksPerCallback => (LayoutSpec => []LayoutFollowsPeers)
<1>1. MicrotasksPerCallback /\ LayoutInv => LayoutFollowsPeers
  BY DEF LayoutInv, FollowInv, LayoutFollowsPeers, ServiceInv, TypeOK
<1>2. CASE MicrotasksPerCallback
  <2>1. LayoutInv => LayoutFollowsPeers
    BY <1>1, <1>2
  <2> QED
    BY <2>1, AlwaysLayoutInv, PTL
<1>3. CASE ~MicrotasksPerCallback
  BY <1>3
<1> QED
  BY <1>2, <1>3
=============================================================================
