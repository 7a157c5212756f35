------------------------- MODULE LayoutShapesProofs -------------------------
(***************************************************************************)
(* Proofs about the layouts of VideoLayouts, for any number of users and    *)
(* any canvas the unit of VideoLayouts is exact for.  Each layout is first  *)
(* described region by region, with constants for its fractions; what the   *)
(* properties say is then arithmetic.                                       *)
(***************************************************************************)
EXTENDS LayoutShapes, SequenceTheorems, TLAPS

FirstUsers(n) == [i \in 1 .. n |-> i]

LEMMA FirstUsersList ==
  ASSUME NEW n \in Nat
  PROVE  /\ Len(FirstUsers(n)) = n /\ DOMAIN FirstUsers(n) = 1 .. n
         /\ \A i \in 1 .. n : FirstUsers(n)[i] = i
         /\ n > 0 => FirstUsers(n) # <<>>
<1>1. FirstUsers(n) \in Seq(Nat)
  BY DEF FirstUsers
<1>2. DOMAIN FirstUsers(n) = 1 .. n /\ \A i \in 1 .. n : FirstUsers(n)[i] = i
  BY DEF FirstUsers
<1>3. /\ Len(FirstUsers(n)) \in Nat
      /\ DOMAIN FirstUsers(n) = 1 .. Len(FirstUsers(n))
  BY <1>1, LenProperties
<1>4. Len(FirstUsers(n)) = n
  <2> HIDE DEF FirstUsers
  <2> QED
    BY <1>2, <1>3
<1> QED
  BY <1>1, <1>2, <1>4, EmptySeq

-----------------------------------------------------------------------------
(* Vertical presentation *)

(* The place of a small user among the small ones. *)
Place(i, max) == IF max < i THEN i - 2 ELSE i - 1

LEMMA SeenIsBefore ==
  ASSUME NEW n \in Nat, NEW max \in Nat \ {0}, NEW i \in 0 .. n
  PROVE  Seen(FirstUsers(n), max, i) <=> max <= i
<1>1. \A j \in 1 .. i : j \in 1 .. n /\ FirstUsers(n)[j] = j
  BY FirstUsersList
<1> QED
  BY <1>1 DEF Seen

ColumnOf(n, max, x, width, rows, large) ==
    [i \in 1 .. n |->
        IF i = max THEN Region(max, 0, 0, large, Unit, 1)
        ELSE Region(i, x, (Unit \div rows) * Place(i, max), width, Unit \div rows, 1)]

LEMMA ColumnShape ==
  ASSUME NEW n \in Nat, NEW max \in Nat \ {0}, NEW rows \in {4, 6, 8},
         n <= rows + 1, n <= rows \/ max <= n,
         NEW x, NEW width, NEW large
  PROVE  Column(FirstUsers(n), max, x, width, rows, large)
           = ColumnOf(n, max, x, width, rows, large)
<1> DEFINE Was(i) == IF Seen(FirstUsers(n), max, i) THEN Rank(FirstUsers(n), max, i)
                     ELSE Rank(FirstUsers(n), max, i) % rows
<1>1. ASSUME NEW i \in 1 .. n, i # max
      PROVE  Was(i) = Place(i, max)
  <2>1. i - 1 \in 0 .. n /\ i \in 0 .. n
    OBVIOUS
  <2>2. /\ Seen(FirstUsers(n), max, i) <=> max <= i
        /\ Seen(FirstUsers(n), max, i - 1) <=> max <= i - 1
    BY <2>1, SeenIsBefore
  <2>3. Rank(FirstUsers(n), max, i) = Place(i, max)
    BY <1>1, <2>2 DEF Rank, Place
  <2>4. ~ (max <= i) => i - 1 \in 0 .. rows - 1 /\ Place(i, max) = i - 1
    BY <1>1 DEF Place
  <2>5. \A k \in 0 .. rows - 1 : k % rows = k
    <3>1. CASE rows = 4
      BY <3>1
    <3>2. CASE rows = 6
      BY <3>2
    <3>3. CASE rows = 8
      BY <3>3
    <3> QED
      BY <3>1, <3>2, <3>3
  <2> QED
    BY <2>2, <2>3, <2>4, <2>5
<1> HIDE DEF Was
<1>2. Column(FirstUsers(n), max, x, width, rows, large)
        = [i \in 1 .. n |->
             IF i = max THEN Region(max, 0, 0, large, Unit, 1)
             ELSE Region(i, x, (Unit \div rows) * Was(i), width, Unit \div rows, 1)]
  BY FirstUsersList DEF Column, Was, setMaxResolutionUid
<1> QED
  BY <1>1, <1>2 DEF ColumnOf

Small17(i, max) == Region(i, (Unit \div 10) * (IF Place(i, max) >= 8 THEN 9 ELSE 8),
                          (Unit \div 8) * (Place(i, max) % 8),
                          Unit \div 10, Unit \div 8, 1)
Columns17(n, max) ==
    [i \in 1 .. n |->
        IF i = 17 /\ 17 < max THEN EmptyRegion
        ELSE IF i = max THEN Region(max, 0, 0, 8 * (Unit \div 10), Unit, 1)
        ELSE Small17(i, max)]

LEMMA Columns17Shape ==
  ASSUME NEW n \in 1 .. 17, NEW max \in Nat \ {0}
  PROVE  adjustVideo17Layout(FirstUsers(n), max) = Columns17(n, max)
<1> DEFINE users == FirstUsers(n)
           Small(i) == LET rank == Rank(users, max, i)
                       IN  Region(users[i],
                                  (Unit \div 10) * (IF rank >= 8 THEN 9 ELSE 8),
                                  (Unit \div 8) * (rank % 8),
                                  Unit \div 10, Unit \div 8, 1)
           Ignored(i) == i > 16 /\ ~ Seen(users, max, 17)
<1>1. adjustVideo17Layout(users, max)
        = [i \in DOMAIN users |->
             IF Ignored(i) THEN EmptyRegion
             ELSE IF users[i] = max THEN setMaxResolutionUid(max, 8 * (Unit \div 10))
             ELSE Small(i)]
  BY Zenon DEF adjustVideo17Layout
<1>2. DOMAIN users = 1 .. n /\ \A i \in 1 .. n : users[i] = i
  BY FirstUsersList
<1>3. ASSUME NEW i \in 1 .. n
      PROVE  /\ Ignored(i) <=> i = 17 /\ 17 < max
             /\ i # max => Rank(users, max, i) = Place(i, max)
  <2>1. i - 1 \in 0 .. n /\ n \in Nat
    OBVIOUS
  <2>2. Seen(users, max, i - 1) <=> max <= i - 1
    BY <2>1, SeenIsBefore
  <2>3. i > 16 => (n = 17 /\ i = 17)
    OBVIOUS
  <2>4. n = 17 => (Seen(users, max, 17) <=> max <= 17)
    BY SeenIsBefore
  <2> QED
    BY <2>2, <2>3, <2>4 DEF Rank, Place
<1>4. ASSUME NEW i \in 1 .. n, i # max
      PROVE  Small(i) = Small17(i, max)
  <2>1. Rank(users, max, i) = Place(i, max) /\ users[i] = i
    BY <1>2, <1>3, <1>4
  <2> HIDE DEF users
  <2> QED
    BY <2>1, Zenon DEF Small17
<1>5. setMaxResolutionUid(max, 8 * (Unit \div 10))
        = Region(max, 0, 0, 8 * (Unit \div 10), Unit, 1)
  BY Zenon DEF setMaxResolutionUid
<1> HIDE DEF users, Small, Ignored
<1>6. \A i \in 1 .. n :
        (IF Ignored(i) THEN EmptyRegion
         ELSE IF users[i] = max THEN setMaxResolutionUid(max, 8 * (Unit \div 10))
         ELSE Small(i))
        = Columns17(n, max)[i]
  BY <1>2, <1>3, <1>4, <1>5 DEF Columns17
<1>7. Columns17(n, max) = [i \in 1 .. n |-> Columns17(n, max)[i]]
  BY DEF Columns17
<1>8. adjustVideo17Layout(users, max) = [i \in 1 .. n |-> Columns17(n, max)[i]]
  BY <1>1, <1>2, <1>6
<1> QED
  BY <1>7, <1>8 DEF users

(* Which of the columns it is. *)
Column5(n, max) == ColumnOf(n, max, 8 * (Unit \div 10), 2 * (Unit \div 10), 4,
                            8 * (Unit \div 10))
Column7(n, max) == ColumnOf(n, max, 6 * (Unit \div 7), Unit \div 7, 6,
                            6 * (Unit \div 7))
Column9(n, max) == ColumnOf(n, max, 8 * (Unit \div 9), Unit \div 9, 8,
                            9 * (Unit \div 5))
VerticalShape(n, max) ==
    IF n <= 4 \/ (n = 5 /\ max <= 5) THEN Column5(n, max)
    ELSE IF n <= 6 \/ (n = 7 /\ max <= 7) THEN Column7(n, max)
    ELSE IF n <= 8 \/ (n = 9 /\ max <= 9) THEN Column9(n, max)
    ELSE Columns17(n, max)

LEMMA VerticalHasShape ==
  ASSUME NEW n \in 1 .. 17, NEW max \in Nat \ {0}
  PROVE  adjustVerticalPresentationLayout(FirstUsers(n), max) = VerticalShape(n, max)
<1> DEFINE users == FirstUsers(n)
<1>1. Len(users) = n /\ n \in Nat /\ n \in 0 .. n
  BY FirstUsersList
<1>2. Seen(users, max, Len(users)) <=> max <= n
  BY <1>1, SeenIsBefore
<1>3. n <= 4 \/ (n = 5 /\ max <= 5) =>
        Column(users, max, 8 * (Unit \div 10), 2 * (Unit \div 10), 4,
               8 * (Unit \div 10)) = Column5(n, max)
  BY <1>1, ColumnShape DEF Column5
<1>4. n <= 6 \/ (n = 7 /\ max <= 7) =>
        Column(users, max, 6 * (Unit \div 7), Unit \div 7, 6, 6 * (Unit \div 7)) = Column7(n, max)
  BY <1>1, ColumnShape DEF Column7
<1>5. n <= 8 \/ (n = 9 /\ max <= 9) =>
        Column(users, max, 8 * (Unit \div 9), Unit \div 9, 8, 9 * (Unit \div 5)) = Column9(n, max)
  BY <1>1, ColumnShape DEF Column9
<1>6. adjustVideo17Layout(users, max) = Columns17(n, max)
  BY Columns17Shape
<1> HIDE DEF users
<1>7. n <= 9 => adjustVideo9Layout(users, max)
        = IF n <= 8 \/ (n = 9 /\ max <= 9) THEN Column9(n, max) ELSE Columns17(n, max)
  BY <1>1, <1>2, <1>5, <1>6 DEF adjustVideo9Layout
<1>8. n <= 7 => adjustVideo7Layout(users, max)
        = IF n <= 6 \/ (n = 7 /\ max <= 7) THEN Column7(n, max) ELSE Column9(n, max)
  BY <1>1, <1>2, <1>4, <1>7 DEF adjustVideo7Layout
<1>9. n <= 5 => adjustVideo5Layout(users, max)
        = IF n <= 4 \/ (n = 5 /\ max <= 5) THEN Column5(n, max) ELSE Column7(n, max)
  BY <1>1, <1>2, <1>3, <1>8 DEF adjustVideo5Layout
<1>10. adjustVerticalPresentationLayout(users, max)
        = CASE n <= 5 -> adjustVideo5Layout(users, max)
            [] n \in 6 .. 7 -> adjustVideo7Layout(users, max)
            [] n \in 8 .. 9 -> adjustVideo9Layout(users, max)
            [] OTHER -> adjustVideo17Layout(users, max)
  BY <1>1 DEF adjustVerticalPresentationLayout
<1> QED
  BY <1>6, <1>7, <1>8, <1>9, <1>10 DEF VerticalShape, users

LEMMA UnitIsNatural == Unit \in Nat /\ Unit > 0
  BY SMT DEF Unit

(* A column: the large user, and the others below each other beside him.    *)
ColumnSays(c, n, max, rows, x, width, large) ==
    /\ DOMAIN c = 1 .. n
    /\ \A i \in 1 .. n : i # max =>
         /\ Place(i, max) \in 0 .. rows - 1
         /\ c[i].uid = i /\ c[i].x = x /\ c[i].w = width
         /\ c[i].h = Unit \div rows
         /\ c[i].y = (Unit \div rows) * Place(i, max)
    /\ max <= n => /\ c[max].uid = max /\ c[max].x = 0 /\ c[max].y = 0
                   /\ c[max].w = large /\ c[max].h = Unit

LEMMA ColumnRegions ==
  ASSUME NEW n \in Nat, NEW max \in Nat \ {0}, NEW rows \in {4, 6, 8},
         n <= rows + 1, n <= rows \/ max <= n,
         NEW x, NEW width, NEW large
  PROVE  ColumnSays(ColumnOf(n, max, x, width, rows, large), n, max, rows, x, width, large)
<1> DEFINE c == ColumnOf(n, max, x, width, rows, large)
<1>1. DOMAIN c = 1 .. n
  BY DEF ColumnOf
<1>2. ASSUME NEW i \in 1 .. n, i # max
      PROVE  Place(i, max) \in 0 .. rows - 1
  BY <1>2 DEF Place
<1>3. \A i \in 1 .. n : i # max =>
        /\ c[i].uid = i /\ c[i].x = x /\ c[i].w = width /\ c[i].h = Unit \div rows
        /\ c[i].y = (Unit \div rows) * Place(i, max)
  BY SMT DEF ColumnOf, Region
<1>4. max <= n => /\ c[max].uid = max /\ c[max].x = 0 /\ c[max].y = 0
                  /\ c[max].w = large /\ c[max].h = Unit
  BY SMT DEF ColumnOf, Region
<1> HIDE DEF c
<1> QED
  BY <1>1, <1>2, <1>3, <1>4 DEF ColumnSays, c

(* What the properties ask of a layout of n users.                          *)
Shows(r, i) == r.uid = i /\ r.w > 0 /\ r.h > 0
EachShown(regs, n, empty) == \A i \in 1 .. n : Shows(regs[i], i) <=> i \notin empty
LargeIsLarge(regs, n, max) ==
    /\ regs[max].x = 0 /\ regs[max].y = 0
    /\ \A i \in 1 .. n : i # max => regs[max].w > regs[i].w /\ regs[max].h > regs[i].h
AllApart(regs, n, free) ==
    \A i, j \in 1 .. n : i < j => i \in free \/ j \in free \/ Apart(regs[i], regs[j])

AllInside(regs, n, free) == \A i \in 1 .. n : i \in free \/ Inside(regs[i])

GoodColumn(c, n, max, x, large) ==
    /\ DOMAIN c = 1 .. n
    /\ EachShown(c, n, {})
    /\ max <= n => LargeIsLarge(c, n, max)
    /\ AllApart(c, n, IF large <= x THEN {} ELSE {max})
    /\ AllInside(c, n, IF large <= Unit THEN {} ELSE {max})

(* Multiples of a step are as far apart as the step is long.                *)
LEMMA Grows ==
  ASSUME NEW h \in Nat, NEW a \in Nat, NEW b \in Nat, a <= b
  PROVE  h * a <= h * b /\ h * a \in Nat
<1> DEFINE d == b - a
<1>1. d \in Nat /\ b = a + d
  OBVIOUS
<1> HIDE DEF d
<1>2. h * d \in Nat /\ h * a \in Nat /\ h * b = h * a + h * d
  BY <1>1
<1> QED
  BY <1>2

LEMMA Steps ==
  ASSUME NEW h \in Nat, NEW a \in Nat, NEW b \in Nat, a < b
  PROVE  h * a + h <= h * b /\ h * a \in Nat /\ h * b \in Nat
<1>1. h * (a + 1) <= h * b /\ h * a \in Nat /\ h * b \in Nat
  BY Grows
<1>2. h * (a + 1) = h * a + h
  OBVIOUS
<1> QED
  BY <1>1, <1>2

(* Places that are below each other and fill the height.                    *)
Stacked(rows, h) ==
    /\ h \in Nat \ {0} /\ (rows > 1 => h < Unit)
    /\ \A k \in 0 .. rows - 1 : h * k \in Nat /\ h * k + h <= Unit
    /\ \A k, l \in 0 .. rows - 1 : k < l => h * k + h <= h * l

LEMMA PlacesOfEqualHeight ==
  ASSUME NEW rows \in Nat, NEW h \in Nat \ {0}, h * rows = Unit
  PROVE  Stacked(rows, h)
<1>1. rows > 1 => h < Unit
  <2>1. rows > 1 => h * 1 + h <= h * rows
    BY Steps
  <2> QED
    BY <2>1
<1>2. ASSUME NEW k \in 0 .. rows - 1
      PROVE  h * k \in Nat /\ h * k + h <= Unit
  BY Steps
<1>3. ASSUME NEW k \in 0 .. rows - 1, NEW l \in 0 .. rows - 1, k < l
      PROVE  h * k + h <= h * l
  BY <1>3, Steps
<1> QED
  BY <1>1, <1>2, <1>3 DEF Stacked

LEMMA PlacesOfAColumn ==
  ASSUME NEW rows \in {4, 6, 8}
  PROVE  Stacked(rows, Unit \div rows)
<1>1. /\ (Unit \div 4) * 4 = Unit /\ Unit \div 4 \in Nat \ {0}
      /\ (Unit \div 6) * 6 = Unit /\ Unit \div 6 \in Nat \ {0}
      /\ (Unit \div 8) * 8 = Unit /\ Unit \div 8 \in Nat \ {0}
  BY SMT DEF Unit
<1>2. (Unit \div rows) * rows = Unit /\ Unit \div rows \in Nat \ {0}
  BY <1>1, Zenon
<1> QED
  BY <1>2, PlacesOfEqualHeight

LEMMA ColumnProperties ==
  ASSUME NEW n \in Nat, NEW max \in Nat \ {0}, NEW rows \in {4, 6, 8},
         n <= rows + 1, n <= rows \/ max <= n,
         NEW x \in 1 .. Unit, NEW width \in 1 .. Unit, x + width <= Unit,
         NEW large \in Nat, large > width
  PROVE  GoodColumn(ColumnOf(n, max, x, width, rows, large), n, max, x, large)
<1> DEFINE c == ColumnOf(n, max, x, width, rows, large)
           h == Unit \div rows
<1>0. ColumnSays(c, n, max, rows, x, width, large)
  BY ColumnRegions
<1>8. Unit \in Nat
  BY UnitIsNatural
<1>9. Stacked(rows, h)
  BY PlacesOfAColumn
<1> HIDE DEF h
<1>2. /\ h \in Nat /\ h > 0 /\ h < Unit
      /\ \A k \in 0 .. rows - 1 : h * k \in Nat /\ h * k + h <= Unit
      /\ \A k, l \in 0 .. rows - 1 : k < l => h * k + h <= h * l
  BY <1>9, SMT DEF Stacked
<1> HIDE DEF c
<1>1. /\ DOMAIN c = 1 .. n
      /\ \A i \in 1 .. n : i # max =>
           /\ Place(i, max) \in 0 .. rows - 1
           /\ c[i].uid = i /\ c[i].x = x /\ c[i].w = width /\ c[i].h = h
           /\ c[i].y = h * Place(i, max)
      /\ max <= n => /\ c[max].uid = max /\ c[max].x = 0 /\ c[max].y = 0
                     /\ c[max].w = large /\ c[max].h = Unit
  BY <1>0, Zenon DEF ColumnSays, h
<1>3. EachShown(c, n, {})
  BY <1>1, <1>2, <1>8 DEF EachShown, Shows
<1>4. max <= n => LargeIsLarge(c, n, max)
  BY <1>1, <1>2, <1>8 DEF LargeIsLarge
<1>5. AllApart(c, n, IF large <= x THEN {} ELSE {max})
  <2> SUFFICES ASSUME NEW i \in 1 .. n, NEW j \in 1 .. n, i < j,
                      large <= x \/ (i # max /\ j # max)
               PROVE  Apart(c[i], c[j])
    BY DEF AllApart
  <2>1. CASE i # max /\ j # max
    <3>1. Place(i, max) < Place(j, max)
      BY <2>1 DEF Place
    <3>2. c[i].y + c[i].h <= c[j].y
      BY <1>1, <1>2, <2>1, <3>1
    <3> QED
      BY <3>2 DEF Apart, Lower
  <2>2. CASE i = max
    <3>1. c[i].x + c[i].w <= c[j].x
      BY <1>1, <2>2
    <3> QED
      BY <3>1 DEF Apart, Right
  <2>3. CASE j = max
    <3>1. c[j].x + c[j].w <= c[i].x
      BY <1>1, <2>3
    <3> QED
      BY <3>1 DEF Apart, Right
  <2> QED
    BY <2>1, <2>2, <2>3
<1>6. AllInside(c, n, IF large <= Unit THEN {} ELSE {max})
  <2>1. \A i \in 1 .. n : i # max => Inside(c[i])
    <3> SUFFICES ASSUME NEW i \in 1 .. n, i # max PROVE Inside(c[i])
      OBVIOUS
    <3>1. /\ c[i].x = x /\ c[i].w = width
          /\ c[i].y \in Nat /\ c[i].y + c[i].h <= Unit
      BY <1>1, <1>2
    <3> QED
      BY <1>2, <1>8, <3>1 DEF Inside, Right, Lower
  <2>2. max <= n /\ large <= Unit => Inside(c[max])
    BY <1>1, <1>2, <1>8 DEF Inside, Right, Lower
  <2> QED
    BY <2>1, <2>2 DEF AllInside
<1> QED
  BY <1>1, <1>3, <1>4, <1>5, <1>6 DEF GoodColumn, c

(* What is said of a vertical layout as a whole.                            *)
GoodVertical(regs, n, max) ==
    /\ DOMAIN regs = 1 .. n
    /\ EachShown(regs, n, IF n = 17 /\ 17 < max THEN {17} ELSE {})
    /\ max <= n => LargeIsLarge(regs, n, max)
    /\ AllApart(regs, n, IF n \in 8 .. 9 THEN {max} ELSE {})
    /\ AllInside(regs, n, IF n \in 8 .. 9 THEN {max} ELSE {})

(* A part that goes into the unit so many times.                            *)
Part(d, times) == d \in Nat \ {0} /\ d * times = Unit

LEMMA Parts ==
  /\ Part(Unit \div 10, 10) /\ Part(Unit \div 9, 9) /\ Part(Unit \div 8, 8)
  /\ Part(Unit \div 7, 7) /\ Part(Unit \div 5, 5)
<1>1. Part(Unit \div 10, 10)
  BY SMT DEF Unit, Part
<1>2. Part(Unit \div 9, 9)
  BY SMT DEF Unit, Part
<1>3. Part(Unit \div 8, 8)
  BY SMT DEF Unit, Part
<1>4. Part(Unit \div 7, 7)
  BY SMT DEF Unit, Part
<1>5. Part(Unit \div 5, 5)
  BY SMT DEF Unit, Part
<1> QED
  BY <1>1, <1>2, <1>3, <1>4, <1>5

LEMMA FiveColumn ==
  ASSUME NEW n \in Nat, NEW max \in Nat \ {0}, n <= 4 \/ (n = 5 /\ max <= 5)
  PROVE  GoodVertical(Column5(n, max), n, max)
<1> DEFINE d == Unit \div 10
<1>1. Part(d, 10)
  BY Parts
<1> HIDE DEF d
<1>2. /\ Unit \in Nat /\ 8 * d \in 1 .. Unit /\ 2 * d \in 1 .. Unit
      /\ 8 * d + 2 * d <= Unit /\ 8 * d > 2 * d /\ 8 * d \in Nat
  BY <1>1, UnitIsNatural DEF Part
<1>3. GoodColumn(ColumnOf(n, max, 8 * d, 2 * d, 4, 8 * d), n, max, 8 * d, 8 * d)
  BY <1>2, ColumnProperties
<1>4. n \notin 8 .. 9 /\ n # 17
  OBVIOUS
<1>5. GoodVertical(ColumnOf(n, max, 8 * d, 2 * d, 4, 8 * d), n, max)
  BY <1>2, <1>3, <1>4 DEF GoodColumn, GoodVertical
<1> QED
  BY <1>5, Zenon DEF Column5, d

LEMMA SevenColumn ==
  ASSUME NEW n \in Nat, NEW max \in Nat \ {0}, n <= 6 \/ (n = 7 /\ max <= 7)
  PROVE  GoodVertical(Column7(n, max), n, max)
<1> DEFINE d == Unit \div 7
<1>1. Part(d, 7)
  BY Parts
<1> HIDE DEF d
<1>2. /\ Unit \in Nat /\ 6 * d \in 1 .. Unit /\ d \in 1 .. Unit
      /\ 6 * d + d <= Unit /\ 6 * d > d /\ 6 * d \in Nat
  BY <1>1, UnitIsNatural DEF Part
<1>3. GoodColumn(ColumnOf(n, max, 6 * d, d, 6, 6 * d), n, max, 6 * d, 6 * d)
  BY <1>2, ColumnProperties
<1>4. n \notin 8 .. 9 /\ n # 17
  OBVIOUS
<1>5. GoodVertical(ColumnOf(n, max, 6 * d, d, 6, 6 * d), n, max)
  BY <1>2, <1>3, <1>4 DEF GoodColumn, GoodVertical
<1> QED
  BY <1>5, Zenon DEF Column7, d

(* Here a large user is wider than the canvas; seven users come here when   *)
(* nobody is large.                                                         *)
LEMMA NineColumn ==
  ASSUME NEW n \in Nat, NEW max \in Nat \ {0}, n = 8 \/ (n = 9 /\ max <= 9) \/ (n = 7 /\ 7 < max)
  PROVE  GoodVertical(Column9(n, max), n, max)
<1> DEFINE d == Unit \div 9
           e == Unit \div 5
<1>1. Part(d, 9) /\ Part(e, 5)
  BY Parts
<1> HIDE DEF d, e
<1>2. /\ Unit \in Nat /\ 8 * d \in 1 .. Unit /\ d \in 1 .. Unit
      /\ 8 * d + d <= Unit /\ 9 * e > Unit /\ 9 * e > 8 * d /\ 9 * e > d /\ 9 * e \in Nat
  BY <1>1, UnitIsNatural DEF Part
<1>3. GoodColumn(ColumnOf(n, max, 8 * d, d, 8, 9 * e), n, max, 8 * d, 9 * e)
  BY <1>2, ColumnProperties
<1>4. n # 17 /\ (n \in 8 .. 9 \/ (n = 7 /\ n < max))
  OBVIOUS
<1>5. GoodVertical(ColumnOf(n, max, 8 * d, d, 8, 9 * e), n, max)
  <2>1. CASE n \in 8 .. 9
    BY <1>2, <1>3, <1>4, <2>1 DEF GoodColumn, GoodVertical
  <2>2. CASE n = 7 /\ n < max
    <3>1. /\ AllApart(ColumnOf(n, max, 8 * d, d, 8, 9 * e), n, {})
          /\ AllInside(ColumnOf(n, max, 8 * d, d, 8, 9 * e), n, {})
      BY <1>2, <1>3, <2>2 DEF GoodColumn, AllApart, AllInside
    <3> QED
      BY <1>2, <1>3, <1>4, <2>2, <3>1 DEF GoodColumn, GoodVertical
  <2> QED
    BY <1>4, <2>1, <2>2
<1> QED
  BY <1>5, Zenon DEF Column9, d, e

(* Two columns of eight.                                                    *)
Columns17Says(c, n, max, d, h) ==
    /\ DOMAIN c = 1 .. n
    /\ \A i \in 1 .. n : i # max /\ ~ (i = 17 /\ 17 < max) =>
         LET p == Place(i, max)
         IN  /\ p \in 0 .. 15
             /\ c[i].uid = i /\ c[i].w = d /\ c[i].h = h
             /\ p < 8  => c[i].x = d * 8 /\ c[i].y = h * p
             /\ p >= 8 => c[i].x = d * 9 /\ c[i].y = h * (p - 8)
    /\ max <= n => /\ c[max].uid = max /\ c[max].x = 0 /\ c[max].y = 0
                   /\ c[max].w = 8 * d /\ c[max].h = Unit
    /\ n = 17 /\ 17 < max => /\ c[17].uid = 0 /\ c[17].x = 0 /\ c[17].y = 0
                             /\ c[17].w = 0 /\ c[17].h = 0

LEMMA Columns17Regions ==
  ASSUME NEW n \in 1 .. 17, NEW max \in Nat \ {0}
  PROVE  Columns17Says(Columns17(n, max), n, max, Unit \div 10, Unit \div 8)
<1> DEFINE c == Columns17(n, max)
           d == Unit \div 10
           h == Unit \div 8
<1>1. DOMAIN c = 1 .. n
  BY DEF Columns17
<1>2. ASSUME NEW i \in 1 .. n, i # max, ~ (i = 17 /\ 17 < max)
      PROVE  /\ Place(i, max) \in 0 .. 15
             /\ c[i].uid = i /\ c[i].w = d /\ c[i].h = h
             /\ Place(i, max) < 8  => c[i].x = d * 8 /\ c[i].y = h * Place(i, max)
             /\ Place(i, max) >= 8 => c[i].x = d * 9 /\ c[i].y = h * (Place(i, max) - 8)
  <2>1. Place(i, max) \in 0 .. 15
    BY <1>2 DEF Place
  <2>2. c[i] = Small17(i, max)
    BY <1>2 DEF Columns17
  <2>3. \A p \in 0 .. 15 : /\ p < 8 => p % 8 = p
                           /\ p >= 8 => p % 8 = p - 8
    OBVIOUS
  <2> HIDE DEF c, d, h
  <2>4. c[i] = Region(i, d * (IF Place(i, max) >= 8 THEN 9 ELSE 8),
                      h * (Place(i, max) % 8), d, h, 1)
    BY <2>2, Zenon DEF Small17, d, h
  <2> QED
    BY <2>1, <2>3, <2>4 DEF Region
<1>3. max <= n => c[max] = Region(max, 0, 0, 8 * d, Unit, 1)
  BY DEF Columns17
<1>4. n = 17 /\ 17 < max => c[17] = EmptyRegion
  BY DEF Columns17
<1> HIDE DEF c, d, h
<1>5. Columns17Says(c, n, max, d, h)
  BY <1>1, <1>2, <1>3, <1>4 DEF Columns17Says, Region, EmptyRegion
<1> QED
  BY <1>5 DEF c, d, h

LEMMA Columns17AreGood ==
  ASSUME NEW n \in 9 .. 17, NEW max \in Nat \ {0}, n = 9 => 9 < max
  PROVE  GoodVertical(Columns17(n, max), n, max)
<1> DEFINE c == Columns17(n, max)
           d == Unit \div 10
           h == Unit \div 8
           empty == IF n = 17 /\ 17 < max THEN {17} ELSE {}
           small == (1 .. n) \ (empty \union {max})
<1>1. Part(d, 10) /\ Part(h, 8)
  BY Parts
<1>2. Columns17Says(c, n, max, d, h)
  BY Columns17Regions
<1> HIDE DEF c, d, h
<1>3. DOMAIN c = 1 .. n
  BY <1>2 DEF Columns17Says
<1>4. /\ Unit \in Nat /\ d \in Nat /\ d > 0 /\ d * 10 = Unit
      /\ h \in Nat /\ h > 0 /\ h < Unit /\ Stacked(8, h)
  <2>1. Stacked(8, h)
    BY <1>1, PlacesOfEqualHeight DEF Part
  <2> QED
    BY <1>1, <2>1, UnitIsNatural DEF Part, Stacked
<1>5. ASSUME NEW i \in small
      PROVE  LET p == Place(i, max)
             IN  /\ p \in 0 .. 15 /\ i # max
                 /\ c[i].uid = i /\ c[i].w = d /\ c[i].h = h
                 /\ p < 8  => c[i].x = d * 8 /\ c[i].y = h * p
                 /\ p >= 8 => c[i].x = d * 9 /\ c[i].y = h * (p - 8)
  BY <1>2 DEF Columns17Says
<1>6. max <= n => /\ c[max].uid = max /\ c[max].x = 0 /\ c[max].y = 0
                  /\ c[max].w = 8 * d /\ c[max].h = Unit
  BY <1>2 DEF Columns17Says
<1>7. n = 17 /\ 17 < max => /\ c[17].uid = 0 /\ c[17].x = 0 /\ c[17].y = 0
                            /\ c[17].w = 0 /\ c[17].h = 0
  BY <1>2 DEF Columns17Says
<1>8. \A i \in 1 .. n : i \in small \/ (i = max /\ max <= n) \/ (i = 17 /\ n = 17 /\ 17 < max)
  OBVIOUS
<1>9. n = 17 /\ 17 < max => empty = {17}
  OBVIOUS
<1>10. ~ (n = 17 /\ 17 < max) => empty = {}
  OBVIOUS
<1> HIDE DEF empty, small
<1>11. EachShown(c, n, empty)
  <2> SUFFICES ASSUME NEW i \in 1 .. n PROVE Shows(c[i], i) <=> i \notin empty
    BY DEF EachShown
  <2>1. CASE i \in small
    BY <1>4, <1>5, <2>1 DEF Shows, small
  <2>2. CASE i = max /\ max <= n
    BY <1>4, <1>6, <1>9, <1>10, <2>2 DEF Shows
  <2>3. CASE i = 17 /\ n = 17 /\ 17 < max
    BY <1>7, <1>9, <2>3 DEF Shows
  <2> QED
    BY <1>8, <2>1, <2>2, <2>3
<1>12. max <= n => LargeIsLarge(c, n, max)
  <2> SUFFICES ASSUME max <= n, NEW i \in 1 .. n, i # max
               PROVE  c[max].w > c[i].w /\ c[max].h > c[i].h
    BY <1>6 DEF LargeIsLarge
  <2>1. i \in small
    BY <1>8
  <2> QED
    BY <1>4, <1>5, <1>6, <2>1
<1>13. ASSUME NEW i \in small
       PROVE  /\ c[i].x \in Nat /\ c[i].x >= 8 * d /\ c[i].x + c[i].w <= Unit
              /\ c[i].y \in Nat /\ c[i].y + c[i].h <= Unit
  <2>1. CASE Place(i, max) < 8
    BY <1>4, <1>5, <2>1 DEF Stacked
  <2>2. CASE Place(i, max) >= 8
    BY <1>4, <1>5, <2>2 DEF Stacked
  <2> QED
    BY <1>5, <2>1, <2>2
<1>14. \A i \in 1 .. n : Inside(c[i])
  <2> SUFFICES ASSUME NEW i \in 1 .. n PROVE Inside(c[i])
    OBVIOUS
  <2>1. CASE i \in small
    BY <1>4, <1>13, <2>1 DEF Inside, Right, Lower
  <2>2. CASE i = max /\ max <= n
    BY <1>4, <1>6, <2>2 DEF Inside, Right, Lower
  <2>3. CASE i = 17 /\ n = 17 /\ 17 < max
    BY <1>4, <1>7, <2>3 DEF Inside, Right, Lower
  <2> QED
    BY <1>8, <2>1, <2>2, <2>3
<1>15. AllApart(c, n, {})
  <2> SUFFICES ASSUME NEW i \in 1 .. n, NEW j \in 1 .. n, i < j
               PROVE  Apart(c[i], c[j])
    BY DEF AllApart
  <2>1. CASE i \in small /\ j \in small
    <3> DEFINE p == Place(i, max)
               q == Place(j, max)
    <3>1. p \in 0 .. 15 /\ q \in 0 .. 15 /\ p < q
      BY <1>5, <2>1 DEF Place
    <3>2. /\ c[i].w = d /\ c[i].h = h
          /\ p < 8  => c[i].x = d * 8 /\ c[i].y = h * p
          /\ p >= 8 => c[i].x = d * 9 /\ c[i].y = h * (p - 8)
      BY <1>5, <2>1
    <3>3. /\ q < 8  => c[j].x = d * 8 /\ c[j].y = h * q
          /\ q >= 8 => c[j].x = d * 9 /\ c[j].y = h * (q - 8)
      BY <1>5, <2>1
    <3> HIDE DEF p, q
    <3>4. CASE q < 8
      BY <1>4, <3>1, <3>2, <3>3, <3>4 DEF Stacked, Apart, Lower
    <3>5. CASE p < 8 /\ q >= 8
      BY <1>4, <3>1, <3>2, <3>3, <3>5 DEF Apart, Right
    <3>6. CASE p >= 8
      BY <1>4, <3>1, <3>2, <3>3, <3>6 DEF Stacked, Apart, Lower
    <3> QED
      BY <3>1, <3>4, <3>5, <3>6
  <2>2. CASE i = max /\ j \in small
    BY <1>4, <1>6, <1>13, <2>2 DEF Apart, Right
  <2>3. CASE j = max /\ i \in small
    BY <1>4, <1>6, <1>13, <2>3 DEF Apart, Right
  <2>4. CASE j = 17 /\ n = 17 /\ 17 < max
    BY <1>7, <2>4 DEF Apart
  <2> QED
    BY <1>8, <2>1, <2>2, <2>3, <2>4
<1>16. AllInside(c, n, IF n \in 8 .. 9 THEN {max} ELSE {})
  BY <1>14, Zenon DEF AllInside
<1>17. AllApart(c, n, IF n \in 8 .. 9 THEN {max} ELSE {})
  BY <1>15, Zenon DEF AllApart
<1>18. EachShown(c, n, IF n = 17 /\ 17 < max THEN {17} ELSE {})
  BY <1>11 DEF empty
<1> QED
  BY <1>3, <1>12, <1>14, <1>16, <1>17, <1>18, Zenon DEF GoodVertical, c

(* Up to seventeen users, every vertical layout keeps these promises.       *)
LEMMA VerticalIsGood ==
  ASSUME NEW n \in 1 .. 17, NEW max \in Nat \ {0}
  PROVE  GoodVertical(adjustVerticalPresentationLayout(FirstUsers(n), max), n, max)
<1>1. n \in Nat
  OBVIOUS
<1>2. GoodVertical(VerticalShape(n, max), n, max)
  <2>1. CASE n <= 4 \/ (n = 5 /\ max <= 5)
    BY <1>1, <2>1, FiveColumn DEF VerticalShape
  <2>2. CASE ~ (n <= 4 \/ (n = 5 /\ max <= 5)) /\ (n <= 6 \/ (n = 7 /\ max <= 7))
    BY <1>1, <2>2, SevenColumn DEF VerticalShape
  <2>3. CASE n = 7 /\ 7 < max
    BY <1>1, <2>3, NineColumn DEF VerticalShape
  <2>4. CASE n = 8 \/ (n = 9 /\ max <= 9)
    BY <1>1, <2>4, NineColumn DEF VerticalShape
  <2>5. CASE n \in 9 .. 17 /\ (n = 9 => 9 < max)
    BY <2>5, Columns17AreGood DEF VerticalShape
  <2> QED
    BY <2>1, <2>2, <2>3, <2>4, <2>5
<1> QED
  BY <1>2, VerticalHasShape

(* Beyond seventeen users the columns repeat, inside the canvas.            *)
LEMMA ManyColumnsInside ==
  ASSUME NEW n \in Nat, n > 17, NEW max \in Nat \ {0}
  PROVE  LET regs == adjustVerticalPresentationLayout(FirstUsers(n), max)
         IN  DOMAIN regs = 1 .. n /\ \A i \in 1 .. n : Inside(regs[i])
<1> DEFINE users == FirstUsers(n)
           regs == adjustVideo17Layout(users, max)
           d == Unit \div 10
           h == Unit \div 8
<1>1. /\ Len(users) = n /\ DOMAIN users = 1 .. n
      /\ \A i \in 1 .. n : users[i] = i
  BY FirstUsersList
<1>2. adjustVerticalPresentationLayout(users, max) = regs
  BY <1>1 DEF adjustVerticalPresentationLayout
<1>3. /\ Unit \in Nat /\ d \in Nat /\ d > 0 /\ d * 10 = Unit
      /\ h \in Nat /\ Stacked(8, h)
  <2>1. Part(d, 10) /\ Part(h, 8)
    BY Parts
  <2> HIDE DEF d, h
  <2> QED
    BY <2>1, UnitIsNatural, PlacesOfEqualHeight DEF Part
<1>4. DOMAIN regs = 1 .. n
  BY <1>1 DEF adjustVideo17Layout
<1>5. ASSUME NEW i \in 1 .. n
      PROVE  Inside(regs[i])
  <2> DEFINE rank == Rank(users, max, i)
  <2>1. rank \in Int
    BY DEF Rank
  <2>2. rank % 8 \in 0 .. 7
    BY <2>1
  <2>3. \/ regs[i] = EmptyRegion
        \/ regs[i] = Region(max, 0, 0, 8 * d, Unit, 1)
        \/ regs[i] = Region(i, d * 8, h * (rank % 8), d, h, 1)
        \/ regs[i] = Region(i, d * 9, h * (rank % 8), d, h, 1)
    <3>1. regs[i] = IF i > 16 /\ ~ Seen(users, max, 17) THEN EmptyRegion
                    ELSE IF users[i] = max THEN setMaxResolutionUid(max, 8 * d)
                    ELSE Region(users[i], d * (IF rank >= 8 THEN 9 ELSE 8),
                                h * (rank % 8), d, h, 1)
      BY <1>1, Zenon DEF adjustVideo17Layout
    <3> HIDE DEF regs, rank, users, d, h
    <3> QED
      BY <1>1, <3>1 DEF setMaxResolutionUid
  <2> HIDE DEF regs, rank, users, d, h
  <2>4. \A k \in 0 .. 7 : h * k \in Nat /\ h * k + h <= Unit
    BY <1>3 DEF Stacked
  <2>5. \A r : r \in {EmptyRegion, Region(max, 0, 0, 8 * d, Unit, 1)} => Inside(r)
    BY <1>3 DEF Region, EmptyRegion, Inside, Right, Lower
  <2>6. \A x \in {d * 8, d * 9}, k \in 0 .. 7 : Inside(Region(i, x, h * k, d, h, 1))
    BY <1>3, <2>4 DEF Region, Inside, Right, Lower
  <2> QED
    BY <2>2, <2>3, <2>5, <2>6, Zenon
<1> HIDE DEF regs, users
<1> QED
  BY <1>2, <1>4, <1>5 DEF users

-----------------------------------------------------------------------------
(* Best fit *)

GoodGrid(regs, n) ==
    /\ DOMAIN regs = 1 .. n
    /\ EachShown(regs, n, {})
    /\ AllApart(regs, n, {})
    /\ \A i \in 1 .. n : Inside(regs[i])

(* Regions on a grid: the cell of each, from left to right and down.        *)
OnGrid(regs, n, k, side, x0, col, row) ==
    /\ DOMAIN regs = 1 .. n
    /\ \A i \in 1 .. n :
         /\ regs[i].uid = i /\ regs[i].w = side /\ regs[i].h = side
         /\ regs[i].x = x0 + side * col[i] /\ regs[i].y = side * row[i]
         /\ col[i] \in Nat /\ row[i] \in Nat /\ col[i] < k /\ side * row[i] + side <= Unit
    /\ x0 + side * k <= Unit
    /\ \A i, j \in 1 .. n :
         i < j => row[i] < row[j] \/ (row[i] = row[j] /\ col[i] < col[j])

LEMMA GridIsGood ==
  ASSUME NEW n \in Nat, NEW k \in Nat, NEW side \in Nat \ {0}, NEW regs,
         NEW x0 \in Nat, NEW col, NEW row, OnGrid(regs, n, k, side, x0, col, row)
  PROVE  GoodGrid(regs, n)
<1> USE DEF OnGrid
<1>1. EachShown(regs, n, {})
  BY DEF EachShown, Shows
<1>2. Unit \in Nat
  BY UnitIsNatural
<1>3. ASSUME NEW i \in 1 .. n
      PROVE  Inside(regs[i])
  <2> DEFINE a == side * col[i]
             b == side * row[i]
             t == side * k
  <2>1. a + side <= t /\ a \in Nat /\ t \in Nat
    BY Steps
  <2>2. b \in Nat
    BY Grows
  <2>3. /\ regs[i].x = x0 + a /\ regs[i].y = b /\ regs[i].w = side /\ regs[i].h = side
        /\ x0 + t <= Unit /\ b + side <= Unit
    OBVIOUS
  <2> HIDE DEF a, b, t
  <2>4. /\ x0 + a >= 0 /\ x0 + a + side <= Unit
    BY <1>2, <2>1, <2>2, <2>3
  <2> QED
    BY <1>2, <2>2, <2>3, <2>4 DEF Inside, Right, Lower
<1>4. ASSUME NEW i \in 1 .. n, NEW j \in 1 .. n, i < j
      PROVE  Apart(regs[i], regs[j])
  <2>1. CASE row[i] < row[j]
    <3>1. side * row[i] + side <= side * row[j]
      BY <2>1, Steps
    <3> QED
      BY <3>1 DEF Apart, Lower
  <2>2. CASE row[i] = row[j] /\ col[i] < col[j]
    <3> DEFINE a == side * col[i]
               b == side * col[j]
    <3>1. a + side <= b /\ a \in Nat /\ b \in Nat
      BY <2>2, Steps
    <3>2. regs[i].x = x0 + a /\ regs[i].w = side /\ regs[j].x = x0 + b
      OBVIOUS
    <3> HIDE DEF a, b
    <3>3. regs[i].x + regs[i].w <= regs[j].x
      BY <3>1, <3>2
    <3> QED
      BY <3>3 DEF Apart, Right
  <2> QED
    BY <1>4, <2>1, <2>2
<1> QED
  BY <1>1, <1>3, <1>4 DEF GoodGrid, AllApart

LEMMA Cells ==
  ASSUME NEW k \in 1 .. 4, NEW i \in 1 .. k * k
  PROVE  /\ (i - 1) % k \in 0 .. k - 1 /\ (i - 1) \div k \in 0 .. k - 1
<1>1. CASE k = 1
  BY <1>1
<1>2. CASE k = 2
  BY <1>2
<1>3. CASE k = 3
  BY <1>3
<1>4. CASE k = 4
  BY <1>4
<1> QED
  BY <1>1, <1>2, <1>3, <1>4

(* Users who follow each other are in different cells, in their order.      *)
LEMMA CellsInOrder ==
  ASSUME NEW k \in 1 .. 4, NEW i \in 1 .. k * k, NEW j \in 1 .. k * k, i < j
  PROVE  \/ (i - 1) \div k < (j - 1) \div k
         \/ (i - 1) \div k = (j - 1) \div k /\ (i - 1) % k < (j - 1) % k
<1>1. CASE k = 1
  BY <1>1
<1>2. CASE k = 2
  BY <1>2
<1>3. CASE k = 3
  BY <1>3
<1>4. CASE k = 4
  BY <1>4
<1> QED
  BY <1>1, <1>2, <1>3, <1>4

LEMMA SquareIsGood ==
  ASSUME NEW k \in 1 .. 4, NEW n \in 1 .. k * k
  PROVE  GoodGrid(adjustBestFitLayout_Square(FirstUsers(n), k), n)
<1> DEFINE users == FirstUsers(n)
           side == Unit \div k
           regs == adjustBestFitLayout_Square(users, k)
           col == [i \in 1 .. n |-> (i - 1) % k]
           row == [i \in 1 .. n |-> (i - 1) \div k]
<1>1. n \in Nat /\ 1 .. n \subseteq 1 .. k * k
  <2>1. k * k \in Nat
    BY Grows
  <2> QED
    BY <2>1
<1>2. DOMAIN users = 1 .. n /\ \A i \in 1 .. n : users[i] = i
  BY <1>1, FirstUsersList
<1>3. side \in Nat \ {0} /\ side * k = Unit
  <2>1. /\ Unit \div 1 \in Nat \ {0} /\ (Unit \div 1) * 1 = Unit
        /\ Unit \div 2 \in Nat \ {0} /\ (Unit \div 2) * 2 = Unit
        /\ Unit \div 3 \in Nat \ {0} /\ (Unit \div 3) * 3 = Unit
        /\ Unit \div 4 \in Nat \ {0} /\ (Unit \div 4) * 4 = Unit
    BY SMT DEF Unit
  <2>2. k = 1 \/ k = 2 \/ k = 3 \/ k = 4
    OBVIOUS
  <2> QED
    BY <2>1, <2>2, Zenon
<1> HIDE DEF side
<1>4. regs = [i \in DOMAIN users |-> Region(users[i], side * ((i - 1) % k),
                                            side * ((i - 1) \div k), side, side, i)]
  BY Zenon DEF adjustBestFitLayout_Square, side
<1> HIDE DEF users, regs
<1>5. \A i \in 1 .. n :
        /\ col[i] = (i - 1) % k /\ row[i] = (i - 1) \div k
        /\ col[i] \in 0 .. k - 1 /\ row[i] \in 0 .. k - 1
  BY <1>1, Cells
<1>6. \A i, j \in 1 .. n :
        i < j => row[i] < row[j] \/ (row[i] = row[j] /\ col[i] < col[j])
  BY <1>1, CellsInOrder
<1>7. \A i \in 1 .. n : regs[i] = Region(i, side * col[i], side * row[i], side, side, i)
  BY <1>2, <1>4, <1>5, Zenon
<1>8. DOMAIN regs = 1 .. n
  BY <1>2, <1>4
<1> HIDE DEF col, row
<1>9. \A i \in 1 .. n : side * row[i] + side <= Unit /\ side * col[i] \in Nat
  <2> SUFFICES ASSUME NEW i \in 1 .. n
               PROVE  side * row[i] + side <= Unit /\ side * col[i] \in Nat
    OBVIOUS
  <2>1. row[i] \in Nat /\ row[i] < k /\ col[i] \in Nat /\ col[i] <= k /\ k \in Nat /\ side \in Nat
    BY <1>3, <1>5
  <2>2. side * row[i] + side <= side * k
    BY <2>1, Steps
  <2>3. side * col[i] \in Nat
    BY <2>1, Grows
  <2> QED
    BY <1>3, <2>2, <2>3
<1>10. OnGrid(regs, n, k, side, 0, col, row)
  <2>1. \A i \in 1 .. n :
          /\ regs[i].uid = i /\ regs[i].w = side /\ regs[i].h = side
          /\ regs[i].x = side * col[i] /\ regs[i].y = side * row[i]
    <3> SUFFICES ASSUME NEW i \in 1 .. n
                 PROVE  /\ regs[i].uid = i /\ regs[i].w = side /\ regs[i].h = side
                        /\ regs[i].x = side * col[i] /\ regs[i].y = side * row[i]
      OBVIOUS
    <3> DEFINE x == side * col[i]
               y == side * row[i]
    <3>1. regs[i] = Region(i, x, y, side, side, i)
      BY <1>7
    <3> HIDE DEF x, y
    <3>2. /\ regs[i].uid = i /\ regs[i].w = side /\ regs[i].h = side
          /\ regs[i].x = x /\ regs[i].y = y
      BY <3>1 DEF Region
    <3> QED
      BY <3>2 DEF x, y
  <2>2. \A i \in 1 .. n : /\ col[i] \in Nat /\ row[i] \in Nat /\ col[i] < k
                          /\ side * col[i] = 0 + side * col[i]
    BY <1>5, <1>9
  <2>3. 0 + side * k <= Unit
    BY <1>3, UnitIsNatural
  <2> QED
    BY <1>6, <1>8, <1>9, <2>1, <2>2, <2>3, Zenon DEF OnGrid
<1>11. GoodGrid(regs, n)
  BY <1>1, <1>3, <1>10, GridIsGood
<1> QED
  BY <1>11 DEF regs, users

LEMMA HalvesAreGood == GoodGrid(adjustBestFitLayout_2(FirstUsers(2)), 2)
<1> DEFINE regs == adjustBestFitLayout_2(FirstUsers(2))
           half == Unit \div 2
<1>1. DOMAIN FirstUsers(2) = 1 .. 2 /\ \A i \in 1 .. 2 : FirstUsers(2)[i] = i
  BY FirstUsersList
<1>2. half \in Nat /\ half > 0 /\ half * 2 = Unit /\ Unit \in Nat
  BY SMT DEF Unit
<1> HIDE DEF half
<1>3. /\ DOMAIN regs = 1 .. 2
      /\ regs[1] = Region(1, 0, 0, half, Unit, 1)
      /\ regs[2] = Region(2, half, 0, half, Unit, 2)
  BY <1>1 DEF adjustBestFitLayout_2, half
<1> HIDE DEF regs
<1>4. /\ regs[1].uid = 1 /\ regs[1].x = 0 /\ regs[1].y = 0
      /\ regs[1].w = half /\ regs[1].h = Unit
      /\ regs[2].uid = 2 /\ regs[2].x = half /\ regs[2].y = 0
      /\ regs[2].w = half /\ regs[2].h = Unit
  BY <1>3 DEF Region
<1>5. \A i \in 1 .. 2 : i = 1 \/ i = 2
  OBVIOUS
<1>6. EachShown(regs, 2, {})
  BY <1>2, <1>4, <1>5 DEF EachShown, Shows
<1>7. Apart(regs[1], regs[2])
  BY <1>2, <1>4 DEF Apart, Right
<1>8. AllApart(regs, 2, {})
  BY <1>5, <1>7 DEF AllApart
<1>9. \A i \in 1 .. 2 : Inside(regs[i])
  BY <1>2, <1>4, <1>5 DEF Inside, Right, Lower
<1> QED
  BY <1>3, <1>6, <1>8, <1>9 DEF GoodGrid, regs

(* Seventeen: four rows of four and one alone below them, in the middle.    *)
LEMMA SeventeenAreGood == GoodGrid(adjustBestFitLayout_17(FirstUsers(17)), 17)
<1> DEFINE users == FirstUsers(17)
           side == Unit \div 5
           half == side \div 2
           regs == adjustBestFitLayout_17(users)
           col == [i \in 1 .. 17 |-> (i - 1) % 4]
           row == [i \in 1 .. 17 |-> (i - 1) \div 4]
<1>1. DOMAIN users = 1 .. 17 /\ \A i \in 1 .. 17 : users[i] = i
  BY FirstUsersList
<1>2. /\ side \in Nat \ {0} /\ side * 5 = Unit /\ half \in Nat /\ half * 2 = side
      /\ (Unit - side) \div 2 = side * 2 /\ Unit \in Nat
  BY SMT DEF Unit
<1> HIDE DEF side, half
<1>3. regs = [i \in DOMAIN users |->
                Region(users[i], IF i = 17 THEN (Unit - side) \div 2
                                 ELSE half + side * ((i - 1) % 4),
                       side * ((i - 1) \div 4), side, side, i)]
  BY Zenon DEF adjustBestFitLayout_17, side, half
<1> HIDE DEF users, regs
<1>4. \A i \in 1 .. 17 :
        /\ col[i] = (i - 1) % 4 /\ row[i] = (i - 1) \div 4
        /\ col[i] \in 0 .. 3 /\ row[i] \in 0 .. 4
        /\ i < 17 => row[i] \in 0 .. 3
        /\ i = 17 => row[i] = 4
  OBVIOUS
<1>5. \A i, j \in 1 .. 17 :
        i < j => row[i] < row[j] \/ (row[i] = row[j] /\ col[i] < col[j])
  OBVIOUS
<1>6. DOMAIN regs = 1 .. 17
  BY <1>1, <1>3
<1>7. ASSUME NEW i \in 1 .. 17
      PROVE  /\ regs[i].uid = i /\ regs[i].w = side /\ regs[i].h = side
             /\ regs[i].x = IF i = 17 THEN side * 2 ELSE half + side * col[i]
             /\ regs[i].y = side * row[i]
  <2> DEFINE x == IF i = 17 THEN side * 2 ELSE half + side * col[i]
             y == side * row[i]
  <2>1. regs[i] = Region(i, x, y, side, side, i)
    BY <1>1, <1>2, <1>3, <1>4, Zenon
  <2> HIDE DEF x, y
  <2>2. /\ regs[i].uid = i /\ regs[i].w = side /\ regs[i].h = side
        /\ regs[i].x = x /\ regs[i].y = y
    BY <2>1 DEF Region
  <2> QED
    BY <2>2 DEF x, y
<1> HIDE DEF col, row
<1>8. \A c \in 0 .. 3 : side * c \in Nat /\ side * c + side <= side * 4
  <2>1. \A c \in 0 .. 3 : c \in Nat /\ c < 4 /\ 4 \in Nat /\ side \in Nat
    BY <1>2
  <2> QED
    BY <2>1, Steps
<1>9. \A r \in 0 .. 4 : side * r \in Nat /\ side * r + side <= Unit
  <2>1. \A r \in 0 .. 4 : r \in Nat /\ r < 5 /\ 5 \in Nat /\ side \in Nat
    BY <1>2
  <2> QED
    BY <1>2, <2>1, Steps
<1>10. EachShown(regs, 17, {})
  BY <1>2, <1>7 DEF EachShown, Shows
<1>11. ASSUME NEW i \in 1 .. 17
       PROVE  Inside(regs[i])
  <2> DEFINE y == side * row[i]
             a == side * col[i]
  <2>1. /\ y \in Nat /\ y + side <= Unit /\ a \in Nat /\ a + side <= side * 4
    BY <1>4, <1>8, <1>9
  <2>2. /\ regs[i].x = IF i = 17 THEN side * 2 ELSE half + a
        /\ regs[i].w = side /\ regs[i].y = y /\ regs[i].h = side
    BY <1>7
  <2> HIDE DEF y, a
  <2> QED
    BY <1>2, <2>1, <2>2 DEF Inside, Right, Lower
<1>12. ASSUME NEW i \in 1 .. 17, NEW j \in 1 .. 17, i < j
       PROVE  Apart(regs[i], regs[j])
  <2>1. CASE row[i] < row[j]
    <3>1. side * row[i] + side <= side * row[j]
      <4>1. row[i] \in Nat /\ row[j] \in Nat /\ side \in Nat
        BY <1>2, <1>4
      <4> QED
        BY <2>1, <4>1, Steps
    <3> QED
      BY <1>7, <3>1 DEF Apart, Lower
  <2>2. CASE row[i] = row[j] /\ col[i] < col[j]
    <3> DEFINE a == side * col[i]
               b == side * col[j]
    <3>1. a + side <= b /\ a \in Nat /\ b \in Nat
      <4>1. col[i] \in Nat /\ col[j] \in Nat /\ side \in Nat
        BY <1>2, <1>4
      <4> QED
        BY <2>2, <4>1, Steps
    <3>2. i # 17 /\ j # 17
      BY <1>4, <1>12, <2>2
    <3>3. regs[i].x = half + a /\ regs[i].w = side /\ regs[j].x = half + b
      BY <1>7, <3>2
    <3> HIDE DEF a, b
    <3>4. regs[i].x + regs[i].w <= regs[j].x
      BY <1>2, <3>1, <3>3
    <3> QED
      BY <3>4 DEF Apart, Right
  <2> QED
    BY <1>5, <1>12, <2>1, <2>2
<1>13. AllApart(regs, 17, {})
  BY <1>12 DEF AllApart
<1>14. GoodGrid(regs, 17)
  BY <1>6, <1>10, <1>11, <1>13 DEF GoodGrid
<1> QED
  BY <1>14 DEF regs, users

(* Up to seventeen users best fit keeps every promise; beyond, every region *)
(* is empty.                                                                *)
LEMMA BestFitIsGood ==
  ASSUME NEW n \in 1 .. 17
  PROVE  GoodGrid(adjustBestFitVideoLayout(FirstUsers(n)), n)
<1> DEFINE users == FirstUsers(n)
<1>1. Len(users) = n
  BY FirstUsersList
<1>2. CASE n = 1
  BY <1>1, <1>2, SquareIsGood DEF adjustBestFitVideoLayout
<1>3. CASE n = 2
  BY <1>1, <1>3, HalvesAreGood DEF adjustBestFitVideoLayout
<1>4. CASE n \in 3 .. 4
  <2>1. 2 \in 1 .. 4 /\ n \in 1 .. 2 * 2
    BY <1>4
  <2>2. GoodGrid(adjustBestFitLayout_Square(users, 2), n)
    BY <2>1, SquareIsGood
  <2> QED
    BY <1>1, <1>4, <2>2 DEF adjustBestFitVideoLayout
<1>5. CASE n \in 5 .. 9
  <2>1. 3 \in 1 .. 4 /\ n \in 1 .. 3 * 3
    BY <1>5
  <2>2. GoodGrid(adjustBestFitLayout_Square(users, 3), n)
    BY <2>1, SquareIsGood
  <2> QED
    BY <1>1, <1>5, <2>2 DEF adjustBestFitVideoLayout
<1>6. CASE n \in 10 .. 16
  <2>1. 4 \in 1 .. 4 /\ n \in 1 .. 4 * 4
    BY <1>6
  <2>2. GoodGrid(adjustBestFitLayout_Square(users, 4), n)
    BY <2>1, SquareIsGood
  <2> QED
    BY <1>1, <1>6, <2>2 DEF adjustBestFitVideoLayout
<1>7. CASE n = 17
  BY <1>1, <1>7, SeventeenAreGood DEF adjustBestFitVideoLayout
<1> QED
  BY <1>2, <1>3, <1>4, <1>5, <1>6, <1>7

LEMMA BestFitOfMany ==
  ASSUME NEW n \in Nat, n > 17
  PROVE  adjustBestFitVideoLayout(FirstUsers(n)) = [i \in 1 .. n |-> EmptyRegion]
<1> DEFINE users == FirstUsers(n)
<1>1. Len(users) = n /\ DOMAIN users = 1 .. n
  BY FirstUsersList
<1> HIDE DEF users
<1>2. adjustBestFitVideoLayout(users) = [i \in DOMAIN users |-> EmptyRegion]
  BY <1>1 DEF adjustBestFitVideoLayout
<1> QED
  BY <1>1, <1>2 DEF users

-----------------------------------------------------------------------------
(* Default mode *)

LEMMA Quotient ==
  ASSUME NEW q \in Nat, NEW d \in Nat \ {0}
  PROVE  (q * d) \div d = q
  OBVIOUS

LEMMA CrossProduct ==
  ASSUME NEW a \in Nat, NEW b \in Nat, NEW c \in Nat, NEW d \in Nat
  PROVE  d * (a * c + b * c) = (a * d + b * d) * c
  OBVIOUS

IsMultiple(n, d) == \E q \in Nat : n = q * d

LEMMA DivisorsDivide ==
  ASSUME NEW d, NEW n, Divides(d, n)
  PROVE  IsMultiple(n, d)
<1>1. PICK q \in 1 .. n : n = q * d
  BY DEF Divides
<1> QED
  BY <1>1 DEF IsMultiple

LEMMA Margins ==
  /\ (Unit * 235) \div 1000 = 236880 /\ (Unit * 12) \div 1000 = 12096
  /\ Unit = 1008000
  BY SMT DEF Unit

(* The small window of user i, of w by h, with e to its left and right and  *)
(* rows that are p high.                                                    *)
WindowOf(i, w, e, h, p) ==
    Region(i, ((i - 2) % 4) * (w + e) + e, Unit - ((i - 2) \div 4 + 1) * p, w, h, i)
Windows(n, w, e, h, p) ==
    [i \in 1 .. n |-> IF i = 1 THEN Region(1, 0, 0, Unit, Unit, 1)
                      ELSE WindowOf(i, w, e, h, p)]

(* The sizes of the windows on a canvas: a window is as much higher than it *)
(* would be on a square canvas as the canvas is wider than high.            *)
Sizes(canvas, w, e, h, p) ==
    /\ w = 236880 /\ e = 12096 /\ h \in Nat \ {0} /\ p \in Nat /\ h <= p
    /\ canvas.height * p = 248976 * canvas.width

LEMMA DefaultShape ==
  ASSUME NEW n \in Nat, NEW canvas \in Canvases
  PROVE  \E w, e, h, p \in Nat :
           /\ Sizes(canvas, w, e, h, p)
           /\ adjustDefaultVideoLayout(FirstUsers(n), canvas) = Windows(n, w, e, h, p)
<1> DEFINE users == FirstUsers(n)
           w == (Unit * 235) \div 1000
           e == (Unit * 12) \div 1000
           h == (w \div canvas.height) * canvas.width
           v == (e \div canvas.height) * canvas.width
<1>1. DOMAIN users = 1 .. n /\ \A i \in 1 .. n : users[i] = i
  BY FirstUsersList
<1>2. adjustDefaultVideoLayout(users, canvas)
        = [i \in DOMAIN users |->
             IF i = 1 THEN Region(users[1], 0, 0, Unit, Unit, 1)
             ELSE Region(users[i - 1 + 1], ((i - 1 - 1) % 4) * (w + e) + e,
                         Unit - ((i - 1 - 1) \div 4 + 1) * (h + v), w, h, i - 1 + 1)]
  BY Zenon DEF adjustDefaultVideoLayout
<1>3. w = 236880 /\ e = 12096
  BY Margins, SMT
<1>4. PICK a \in Nat, b \in Nat : w = a * canvas.height /\ e = b * canvas.height
  <2>1. Divides(canvas.height, 236880) /\ Divides(canvas.height, 12096)
    BY CanvasesAssumption
  <2>2. IsMultiple(236880, canvas.height) /\ IsMultiple(12096, canvas.height)
    BY <2>1, DivisorsDivide, SMT
  <2> HIDE DEF w, e
  <2> QED
    BY <1>3, <2>2, SMT DEF IsMultiple
<1>5. canvas.width \in Nat \ {0} /\ canvas.height \in Nat \ {0}
  BY CanvasesAssumption
<1> HIDE DEF users, w, e
<1>6. h = a * canvas.width /\ v = b * canvas.width
  BY <1>4, <1>5, Quotient
<1> HIDE DEF h, v
<1>7. h \in Nat \ {0} /\ v \in Nat /\ a > 0
  <2>1. a # 0
    BY <1>3, <1>4, <1>5, SMT
  <2> DEFINE c == canvas.width
  <2> HIDE DEF c
  <2>2. c \in Nat \ {0} /\ h = a * c /\ v = b * c
    BY <1>5, <1>6 DEF c
  <2> QED
    BY <2>1, <2>2
<1>8. canvas.height * (h + v) = 248976 * canvas.width
  <2>1. canvas.width \in Nat /\ canvas.height \in Nat
    BY <1>5
  <2>2. canvas.height * (h + v) = (w + e) * canvas.width
    BY <1>4, <1>6, <2>1, CrossProduct
  <2>3. w + e = 248976
    BY <1>3, SMT
  <2> QED
    BY <2>2, <2>3, SMT
<1>9. Sizes(canvas, w, e, h, h + v)
  BY <1>3, <1>7, <1>8, SMT DEF Sizes
<1>10. adjustDefaultVideoLayout(users, canvas) = Windows(n, w, e, h, h + v)
  <2> DEFINE Old(i) == IF i = 1 THEN Region(users[1], 0, 0, Unit, Unit, 1)
             ELSE Region(users[i - 1 + 1], ((i - 1 - 1) % 4) * (w + e) + e,
                         Unit - ((i - 1 - 1) \div 4 + 1) * (h + v), w, h, i - 1 + 1)
             New(i) == IF i = 1 THEN Region(1, 0, 0, Unit, Unit, 1)
                       ELSE WindowOf(i, w, e, h, h + v)
  <2>1. ASSUME NEW i \in 1 .. n
        PROVE  Old(i) = New(i)
    <3>1. i - 1 + 1 = i /\ i - 1 - 1 = i - 2 /\ users[i] = i
      BY <1>1
    <3>2. i = 1 => users[1] = 1
      BY <3>1
    <3> QED
      BY <3>1, <3>2, Zenon DEF WindowOf
  <2>2. adjustDefaultVideoLayout(users, canvas) = [i \in 1 .. n |-> Old(i)]
    BY <1>1, <1>2, Zenon
  <2>3. Windows(n, w, e, h, h + v) = [i \in 1 .. n |-> New(i)]
    BY Zenon DEF Windows
  <2> HIDE DEF Old, New
  <2> QED
    BY <2>1, <2>2, <2>3
<1>11. w \in Nat /\ e \in Nat /\ h \in Nat /\ h + v \in Nat
  BY <1>3, <1>7, SMT
<1> QED
  BY <1>9, <1>10, <1>11, Zenon DEF users

(* Four windows in a row, rows from the bottom up; all inside the canvas    *)
(* exactly if the row of the last user is.                                  *)
LEMMA RowsOfWindows ==
  ASSUME NEW i \in Nat, i > 1
  PROVE  /\ (i - 2) % 4 \in 0 .. 3 /\ (i - 2) \div 4 + 1 \in Nat \ {0}
         /\ (i + 2) \div 4 = (i - 2) \div 4 + 1
  OBVIOUS

LEMMA WindowsInOrder ==
  ASSUME NEW i \in Nat, NEW j \in Nat, i > 1, i < j
  PROVE  \/ (i + 2) \div 4 < (j + 2) \div 4
         \/ (i + 2) \div 4 = (j + 2) \div 4 /\ (i - 2) % 4 < (j - 2) % 4
  OBVIOUS

LEMMA Commutes ==
  ASSUME NEW a \in Nat, NEW b \in Nat
  PROVE  a * b = b * a
  OBVIOUS

GoodRows(regs, n, fit) ==
    /\ DOMAIN regs = 1 .. n
    /\ EachShown(regs, n, {})
    /\ AllApart(regs, n, {1})
    /\ (\A i \in 1 .. n : Inside(regs[i])) <=> fit

LEMMA WindowsAreGood ==
  ASSUME NEW n \in Nat, n > 0, NEW canvas,
         NEW w \in Nat, NEW e \in Nat, NEW h \in Nat, NEW p \in Nat,
         Sizes(canvas, w, e, h, p)
  PROVE  GoodRows(Windows(n, w, e, h, p), n, p * ((n + 2) \div 4) <= Unit)
<1> DEFINE c == Windows(n, w, e, h, p)
           s == w + e
           row(i) == (i + 2) \div 4
           col(i) == (i - 2) % 4
<1>1. /\ w > 0 /\ h > 0 /\ h <= p /\ s \in Nat /\ Unit \in Nat /\ Unit > 0
      /\ s = w + e /\ e + 4 * s <= Unit + e /\ 4 * s <= Unit
  BY Margins, SMT DEF Sizes
<1>2. DOMAIN c = 1 .. n
  BY DEF Windows
<1>3. n \in 1 .. n /\ 1 \in 1 .. n
  OBVIOUS
<1>4. c[1] = Region(1, 0, 0, Unit, Unit, 1)
  BY <1>3 DEF Windows
<1>5. ASSUME NEW i \in 2 .. n
      PROVE  /\ c[i] = Region(i, s * col(i) + e, Unit - p * row(i), w, h, i)
             /\ row(i) \in Nat /\ row(i) > 0 /\ col(i) \in 0 .. 3
  <2>1. i \in Nat /\ i > 1 /\ i # 1 /\ i \in 1 .. n
    OBVIOUS
  <2>2. row(i) \in Nat /\ row(i) > 0 /\ col(i) \in 0 .. 3 /\ row(i) = (i - 2) \div 4 + 1
    BY <2>1, RowsOfWindows
  <2>3. c[i] = Region(i, col(i) * s + e, Unit - ((i - 2) \div 4 + 1) * p, w, h, i)
    BY <2>1, Zenon DEF Windows, WindowOf
  <2> HIDE DEF row, col, s, c
  <2>4. col(i) * s = s * col(i) /\ row(i) * p = p * row(i)
    <3>1. col(i) \in Nat
      BY <2>2
    <3> QED
      BY <1>1, <2>2, <3>1, Commutes
  <2> QED
    BY <2>2, <2>3, <2>4
<1>6. ASSUME NEW i \in 2 .. n, NEW j \in 2 .. n, i < j
      PROVE  row(i) < row(j) \/ (row(i) = row(j) /\ col(i) < col(j))
  BY <1>6, WindowsInOrder
<1> HIDE DEF c, s, row, col
<1>7. ASSUME NEW i \in 2 .. n
      PROVE  /\ c[i].uid = i /\ c[i].w = w /\ c[i].h = h
             /\ c[i].x = s * col(i) + e /\ c[i].y = Unit - p * row(i)
  <2> DEFINE x == s * col(i) + e
             y == Unit - p * row(i)
  <2>1. c[i] = Region(i, x, y, w, h, i)
    BY <1>5
  <2> HIDE DEF x, y
  <2>2. /\ c[i].uid = i /\ c[i].w = w /\ c[i].h = h /\ c[i].x = x /\ c[i].y = y
    BY <2>1 DEF Region
  <2> QED
    BY <2>2 DEF x, y
<1>8. /\ c[1].uid = 1 /\ c[1].x = 0 /\ c[1].y = 0 /\ c[1].w = Unit /\ c[1].h = Unit
  BY <1>4 DEF Region
<1>9. EachShown(c, n, {})
  <2> SUFFICES ASSUME NEW i \in 1 .. n PROVE Shows(c[i], i)
    BY DEF EachShown
  <2>1. CASE i = 1
    BY <1>1, <1>8, <2>1 DEF Shows
  <2>2. CASE i \in 2 .. n
    BY <1>1, <1>7, <2>2 DEF Shows
  <2> QED
    BY <2>1, <2>2
<1>10. AllApart(c, n, {1})
  <2> SUFFICES ASSUME NEW i \in 2 .. n, NEW j \in 2 .. n, i < j
               PROVE  Apart(c[i], c[j])
    BY DEF AllApart
  <2>1. CASE row(i) < row(j)
    <3> DEFINE a == p * row(i)
               b == p * row(j)
    <3>1. a + p <= b /\ a \in Nat /\ b \in Nat
      BY <1>5, <2>1, Steps
    <3>2. c[j].y = Unit - b /\ c[j].h = h /\ c[i].y = Unit - a
      BY <1>7
    <3> HIDE DEF a, b
    <3>3. c[j].y + c[j].h <= c[i].y
      BY <1>1, <3>1, <3>2
    <3> QED
      BY <3>3 DEF Apart, Lower
  <2>2. CASE row(i) = row(j) /\ col(i) < col(j)
    <3> DEFINE a == s * col(i)
               b == s * col(j)
    <3>1. a + s <= b /\ a \in Nat /\ b \in Nat
      <4>1. col(i) \in Nat /\ col(j) \in Nat /\ s \in Nat
        BY <1>1, <1>5
      <4> QED
        BY <2>2, <4>1, Steps
    <3>2. c[i].x = a + e /\ c[i].w = w /\ c[j].x = b + e
      BY <1>7
    <3> HIDE DEF a, b
    <3>3. c[i].x + c[i].w <= c[j].x
      BY <1>1, <3>1, <3>2
    <3> QED
      BY <3>3 DEF Apart, Right
  <2> QED
    BY <1>6, <2>1, <2>2
<1>11. ASSUME NEW i \in 2 .. n
       PROVE  Inside(c[i]) <=> p * row(i) <= Unit
  <2> DEFINE a == s * col(i)
             b == p * row(i)
  <2>1. a + s <= 4 * s /\ a \in Nat
    <3>1. col(i) \in Nat /\ col(i) < 4 /\ 4 \in Nat /\ s \in Nat
      BY <1>1, <1>5
    <3>2. a + s <= s * 4 /\ a \in Nat
      BY <3>1, Steps
    <3> QED
      BY <1>1, <3>2
  <2>2. b \in Nat /\ b >= p
    <3>1. row(i) \in Nat /\ 0 \in Nat /\ 0 < row(i)
      BY <1>5
    <3>2. p * 0 + p <= b /\ b \in Nat
      BY <3>1, Steps
    <3> QED
      BY <3>2
  <2>3. c[i].x = a + e /\ c[i].w = w /\ c[i].y = Unit - b /\ c[i].h = h
    BY <1>7
  <2> HIDE DEF a, b
  <2>4. c[i].x >= 0 /\ c[i].x + c[i].w <= Unit /\ c[i].y + c[i].h <= Unit
    BY <1>1, <2>1, <2>2, <2>3
  <2>5. c[i].y >= 0 <=> b <= Unit
    BY <1>1, <2>2, <2>3
  <2> QED
    BY <2>4, <2>5 DEF Inside, Right, Lower, b
<1>12. Inside(c[1])
  BY <1>1, <1>8 DEF Inside, Right, Lower
<1>13. (\A i \in 1 .. n : Inside(c[i])) <=> p * row(n) <= Unit
  <2>1. CASE n = 1
    <3>1. row(n) = 0
      BY <2>1 DEF row
    <3> QED
      BY <1>1, <1>12, <2>1, <3>1
  <2>2. CASE n > 1
    <3>1. n \in 2 .. n
      BY <2>2
    <3>2. ASSUME NEW i \in 2 .. n, p * row(n) <= Unit
          PROVE  p * row(i) <= Unit
      <4>1. row(i) <= row(n) /\ row(i) \in Nat /\ row(n) \in Nat
        BY <1>5, <1>6, <3>1
      <4>2. p * row(i) <= p * row(n) /\ p * row(i) \in Nat /\ p * row(n) \in Nat
        BY <4>1, Grows
      <4> QED
        BY <1>1, <3>2, <4>2
    <3>3. \A i \in 1 .. n : i = 1 \/ i \in 2 .. n
      OBVIOUS
    <3> QED
      BY <1>11, <1>12, <3>1, <3>2, <3>3
  <2> QED
    BY <2>1, <2>2
<1> QED
  BY <1>2, <1>9, <1>10, <1>13 DEF GoodRows, row, c

RowIsHigh(p, width, height) == height * p = 248976 * width
FitAlike(p, r, width, height) == p * r <= Unit <=> 247 * r * width <= 1000 * height

LEMMA Fits ==
  ASSUME NEW p \in Nat, NEW r \in Nat, NEW width \in Nat, NEW height \in Nat \ {0},
         RowIsHigh(p, width, height)
  PROVE  FitAlike(p, r, width, height)
<1> DEFINE x == p * r
           y == r * width
<1>1. x \in Nat /\ y \in Nat
  BY Grows
<1>2. height * x = 248976 * y
  <2>0. height * p = 248976 * width
    BY DEF RowIsHigh
  <2>1. height * x = (height * p) * r
    OBVIOUS
  <2>2. (248976 * width) * r = 248976 * y
    BY SMT
  <2> QED
    BY <2>0, <2>1, <2>2, SMT
<1>3. 247 * r * width = 247 * y
  BY SMT
<1> HIDE DEF x, y
<1>4. x <= Unit => height * x <= height * Unit
  BY <1>1, UnitIsNatural, Grows
<1>5. ~ (x <= Unit) => height * Unit + height <= height * x
  BY <1>1, UnitIsNatural, Steps
<1>6. height * Unit = 1008000 * height
  BY Margins, SMT
<1>7. x <= Unit <=> 248976 * y <= 1008000 * height
  BY <1>1, <1>2, <1>4, <1>5, <1>6, SMT
<1>8. 248976 * y <= 1008000 * height <=> 247 * y <= 1000 * height
  BY <1>1, SMT
<1> QED
  BY <1>3, <1>7, <1>8, SMT DEF x, FitAlike

DefaultFits(n, canvas) ==
    247 * ((n + 2) \div 4) * canvas.width <= 1000 * canvas.height

LEMMA DefaultIsGood ==
  ASSUME NEW n \in Nat, n > 0, NEW canvas \in Canvases
  PROVE  GoodRows(adjustDefaultVideoLayout(FirstUsers(n), canvas), n,
                  DefaultFits(n, canvas))
<1> DEFINE regs == adjustDefaultVideoLayout(FirstUsers(n), canvas)
<1>1. PICK w, e, h, p \in Nat : /\ Sizes(canvas, w, e, h, p)
                                /\ regs = Windows(n, w, e, h, p)
  BY DefaultShape
<1> HIDE DEF regs
<1> DEFINE r == (n + 2) \div 4
           width == canvas.width
           height == canvas.height
<1>2. GoodRows(regs, n, p * r <= Unit)
  BY <1>1, WindowsAreGood, SMT
<1>3. /\ width \in Nat /\ height \in Nat \ {0}
      /\ RowIsHigh(p, width, height) /\ r \in Nat
  BY <1>1, CanvasesAssumption, SMT DEF Sizes, RowIsHigh
<1> HIDE DEF r, width, height
<1> DEFINE low == p * r <= Unit
           fits == 247 * r * width <= 1000 * height
<1>4. low <=> fits
  <2>1. FitAlike(p, r, width, height)
    BY <1>3, Fits
  <2> QED
    BY <2>1, Zenon DEF FitAlike
<1>5. GoodRows(regs, n, low)
  BY <1>2, Zenon
<1> HIDE DEF low, fits
<1>6. GoodRows(regs, n, fits)
  BY <1>4, <1>5, Zenon DEF GoodRows
<1> QED
  BY <1>6, Zenon DEF fits, regs, r, width, height, DefaultFits

-----------------------------------------------------------------------------
(* The layout of a request *)

Laid ==
    /\ request \in Requests
    /\ \/ regions = <<>>
       \/ regions = LayoutOf(request.mode, request.users, request.max, request.canvas)

LEMMA LaidAlways == Spec => []Laid
<1>1. Init => Laid
  BY DEF Init, Laid
<1>2. Laid /\ [Next]_vars => Laid'
  BY DEF Laid, Next, Adjust, vars
<1> QED
  BY <1>1, <1>2, PTL DEF Spec

(* What is known of the regions of n users, in each mode.                   *)
Arranged(n) ==
    /\ n \in Nat \ {0} /\ Users = n
    /\ \A i \in 1 .. n : request.users[i] = i
    /\ request.mode \in {"default", "bestFit", "vertical"}
    /\ request.max \in Nat \ {0}
    /\ DOMAIN regions = 1 .. n
    /\ request.mode = "default" => GoodRows(regions, n, RowsFit)
    /\ request.mode = "vertical" =>
         /\ n <= 17 => GoodVertical(regions, n, request.max)
         /\ n > 17  => \A i \in 1 .. n : Inside(regions[i])
    /\ request.mode = "bestFit" =>
         /\ n <= 17 => GoodGrid(regions, n)
         /\ n > 17  => \A i \in 1 .. n : regions[i] = EmptyRegion

LEMMA LaidIsArranged ==
  ASSUME Laid, Done
  PROVE  \E n \in Nat : Arranged(n)
<1>1. /\ request.mode \in {"default", "bestFit", "vertical"}
      /\ request.users \in {FirstUsers(n) : n \in 1 .. MaxUsers}
      /\ request.max \in 1 .. MaxUsers + 1 /\ request.canvas \in Canvases
  BY DEF Laid, Requests, FirstUsers
<1>2. PICK n \in 1 .. MaxUsers : request.users = FirstUsers(n)
  BY <1>1
<1>3. n \in Nat /\ n > 0 /\ request.max \in Nat \ {0}
  BY <1>1, BoundAssumption
<1>4. /\ Users = n /\ request.users # <<>>
      /\ \A i \in 1 .. n : request.users[i] = i
  BY <1>2, <1>3, FirstUsersList DEF Users
<1>5. regions = LayoutOf(request.mode, FirstUsers(n), request.max, request.canvas)
  BY <1>2 DEF Laid, Done
<1>6. CASE request.mode = "default"
  <2>1. regions = adjustDefaultVideoLayout(FirstUsers(n), request.canvas)
    BY <1>2, <1>4, <1>5, <1>6 DEF LayoutOf
  <2>2. GoodRows(regions, n, DefaultFits(n, request.canvas))
    BY <1>1, <1>3, <2>1, DefaultIsGood, Zenon
  <2>3. GoodRows(regions, n, RowsFit)
    BY <1>4, <2>2, Zenon DEF RowsFit, DefaultFits
  <2>4. DOMAIN regions = 1 .. n
    BY <2>3, Zenon DEF GoodRows
  <2> QED
    BY <1>1, <1>3, <1>4, <1>6, <2>3, <2>4 DEF Arranged
<1>7. CASE request.mode = "vertical"
  <2>1. regions = adjustVerticalPresentationLayout(FirstUsers(n), request.max)
    BY <1>2, <1>4, <1>5, <1>7 DEF LayoutOf
  <2>2. n <= 17 => GoodVertical(regions, n, request.max)
    BY <1>3, <2>1, VerticalIsGood
  <2>3. n > 17 => DOMAIN regions = 1 .. n /\ \A i \in 1 .. n : Inside(regions[i])
    BY <1>3, <2>1, ManyColumnsInside
  <2>4. DOMAIN regions = 1 .. n
    BY <1>3, <2>2, <2>3 DEF GoodVertical
  <2> QED
    BY <1>1, <1>3, <1>4, <1>7, <2>2, <2>3, <2>4 DEF Arranged
<1>8. CASE request.mode = "bestFit"
  <2>1. regions = adjustBestFitVideoLayout(FirstUsers(n))
    BY <1>2, <1>4, <1>5, <1>8 DEF LayoutOf
  <2>2. n <= 17 => GoodGrid(regions, n)
    BY <1>3, <2>1, BestFitIsGood
  <2>3. n > 17 => regions = [i \in 1 .. n |-> EmptyRegion]
    BY <1>3, <2>1, BestFitOfMany
  <2>4. DOMAIN regions = 1 .. n
    BY <1>3, <2>2, <2>3 DEF GoodGrid
  <2> QED
    BY <1>1, <1>3, <1>4, <1>8, <2>2, <2>3, <2>4 DEF Arranged
<1> QED
  BY <1>1, <1>6, <1>7, <1>8

LEMMA ArrangedInside ==
  ASSUME NEW n, Arranged(n)
  PROVE  InsideTheCanvas
<1>1. /\ n \in Nat \ {0} /\ Users = n /\ DOMAIN regions = 1 .. n
      /\ request.mode \in {"default", "bestFit", "vertical"}
  BY DEF Arranged
<1>2. SUFFICES ASSUME NEW i \in 1 .. n
               PROVE  \/ Inside(regions[i])
                      \/ request.mode = "default" /\ ~ RowsFit
                      \/ Vertical /\ Users \in 8 .. 9 /\ i = request.max
  BY <1>1 DEF InsideTheCanvas
<1>3. n <= 17 \/ n > 17
  BY <1>1
<1>4. CASE request.mode = "default"
  BY <1>2, <1>4, Zenon DEF Arranged, GoodRows
<1>5. CASE request.mode = "vertical"
  <2>1. CASE n > 17
    BY <1>2, <1>5, <2>1 DEF Arranged
  <2>2. CASE n <= 17
    <3>1. AllInside(regions, n, IF n \in 8 .. 9 THEN {request.max} ELSE {})
      BY <1>5, <2>2 DEF Arranged, GoodVertical
    <3> QED
      BY <1>1, <1>2, <1>5, <3>1 DEF AllInside, Vertical
  <2> QED
    BY <1>3, <2>1, <2>2
<1>6. CASE request.mode = "bestFit"
  <2>1. Inside(EmptyRegion)
    BY UnitIsNatural DEF Inside, Right, Lower, EmptyRegion
  <2> QED
    BY <1>2, <1>3, <1>6, <2>1, Zenon DEF Arranged, GoodGrid
<1> QED
  BY <1>1, <1>4, <1>5, <1>6

LEMMA ArrangedApart ==
  ASSUME NEW n, Arranged(n)
  PROVE  NobodyIsCovered
<1>1. /\ n \in Nat \ {0} /\ Users = n /\ DOMAIN regions = 1 .. n
      /\ request.mode \in {"default", "bestFit", "vertical"}
  BY DEF Arranged
<1>2. SUFFICES ASSUME n <= 17, NEW i \in 1 .. n, NEW j \in 1 .. n, i < j
               PROVE  \/ request.mode = "default" /\ i = 1
                      \/ Vertical /\ Users \in 8 .. 9 /\ request.max \in {i, j}
                      \/ Apart(regions[i], regions[j])
  BY <1>1 DEF NobodyIsCovered
<1>3. CASE request.mode = "default"
  <2>1. AllApart(regions, n, {1})
    BY <1>3 DEF Arranged, GoodRows
  <2> QED
    BY <1>2, <1>3, <2>1 DEF AllApart
<1>4. CASE request.mode = "vertical"
  <2>1. AllApart(regions, n, IF n \in 8 .. 9 THEN {request.max} ELSE {})
    BY <1>2, <1>4 DEF Arranged, GoodVertical
  <2> QED
    BY <1>1, <1>2, <1>4, <2>1 DEF AllApart, Vertical
<1>5. CASE request.mode = "bestFit"
  <2>1. AllApart(regions, n, {})
    BY <1>2, <1>5 DEF Arranged, GoodGrid
  <2> QED
    BY <1>2, <2>1 DEF AllApart
<1> QED
  BY <1>1, <1>3, <1>4, <1>5

LEMMA ArrangedShown ==
  ASSUME NEW n, Arranged(n)
  PROVE  EveryoneIsShown
<1>1. /\ n \in Nat \ {0} /\ Users = n /\ DOMAIN regions = 1 .. n /\ request.max \in Nat \ {0}
      /\ request.mode \in {"default", "bestFit", "vertical"}
      /\ \A i \in 1 .. n : request.users[i] = i
  BY DEF Arranged
<1> DEFINE shown == {i \in DOMAIN regions : /\ regions[i].uid = request.users[i]
                                            /\ regions[i].w > 0 /\ regions[i].h > 0}
           missing == DOMAIN regions \ shown
           expected == IF Vertical /\ Users = 17 /\ ~ MaxIsHere THEN {17} ELSE {}
<1>2. \A i \in 1 .. n : i \in shown <=> Shows(regions[i], i)
  BY <1>1 DEF Shows
<1>3. ASSUME NEW empty, EachShown(regions, n, empty), empty \subseteq 1 .. n
      PROVE  missing = empty
  BY <1>1, <1>2, <1>3 DEF EachShown
<1> HIDE DEF shown
<1>4. n <= 17 => missing = expected
  <2> SUFFICES ASSUME n <= 17 PROVE missing = expected
    OBVIOUS
  <2>1. CASE request.mode \in {"default", "bestFit"}
    <3>1. EachShown(regions, n, {})
      BY <2>1 DEF Arranged, GoodRows, GoodGrid
    <3>2. expected = {}
      BY <2>1 DEF Vertical
    <3> HIDE DEF missing, expected
    <3> QED
      BY <1>3, <3>1, <3>2
  <2>2. CASE request.mode = "vertical"
    <3> DEFINE empty == IF n = 17 /\ 17 < request.max THEN {17} ELSE {}
    <3>1. EachShown(regions, n, empty)
      BY <2>2 DEF Arranged, GoodVertical
    <3>2. expected = empty
      BY <1>1, <2>2 DEF Vertical, MaxIsHere
    <3>3. empty \subseteq 1 .. n
      OBVIOUS
    <3> HIDE DEF missing, expected, empty
    <3> QED
      BY <1>3, <3>1, <3>2, <3>3
  <2> QED
    BY <1>1, <2>1, <2>2
<1>5. n > 17 /\ request.mode = "bestFit" => shown = {}
  <2> SUFFICES ASSUME n > 17, request.mode = "bestFit" PROVE shown = {}
    OBVIOUS
  <2>1. \A i \in 1 .. n : regions[i] = EmptyRegion
    BY DEF Arranged
  <2> QED
    BY <1>1, <2>1 DEF shown, EmptyRegion
<1>6. n <= 17 <=> Users <= 17
  BY <1>1
<1>7. IF Users <= 17 THEN missing = expected ELSE request.mode = "bestFit" => shown = {}
  BY <1>1, <1>4, <1>5, <1>6
<1> QED
  BY <1>7, Zenon DEF EveryoneIsShown, shown

LEMMA ArrangedLarge ==
  ASSUME NEW n, Arranged(n)
  PROVE  LargeUserIsLarge
<1>1. n \in Nat \ {0} /\ Users = n /\ DOMAIN regions = 1 .. n /\ request.max \in Nat \ {0}
  BY DEF Arranged
<1>2. SUFFICES ASSUME Vertical, MaxIsHere, n <= 17, NEW i \in 1 .. n, i # request.max
               PROVE  /\ regions[request.max].x = 0 /\ regions[request.max].y = 0
                      /\ regions[request.max].w > regions[i].w
                      /\ regions[request.max].h > regions[i].h
  BY <1>1 DEF LargeUserIsLarge
<1>3. LargeIsLarge(regions, n, request.max)
  BY <1>1, <1>2 DEF Arranged, Vertical, MaxIsHere, GoodVertical
<1> QED
  BY <1>2, <1>3 DEF LargeIsLarge

-----------------------------------------------------------------------------
(* No region leaves the canvas but in default mode, where the rows may be   *)
(* too many for its shape, and but for the large user among eight or nine,  *)
(* for every canvas that the unit is exact for (the adjust functions of     *)
(* agorasdk/AgoraSdk.cpp).                                                  *)
THEOREM RegionsInside == Spec => []InsideTheCanvas
<1>1. Laid => InsideTheCanvas
  BY LaidIsArranged, ArrangedInside DEF InsideTheCanvas
<1> QED
  BY <1>1, LaidAlways, PTL

(* Up to seventeen users, no region covers another but for the background   *)
(* of default mode and the large user among eight or nine.                  *)
THEOREM RegionsApart == Spec => []NobodyIsCovered
<1>1. Laid => NobodyIsCovered
  BY LaidIsArranged, ArrangedApart DEF NobodyIsCovered
<1> QED
  BY <1>1, LaidAlways, PTL

(* Up to seventeen users, each has a region of his own, but for the         *)
(* seventeenth of vertical mode when nobody is large; beyond, best fit      *)
(* shows nobody, however many there are.                                    *)
THEOREM RegionsShown == Spec => []EveryoneIsShown
<1>1. Laid => EveryoneIsShown
  BY LaidIsArranged, ArrangedShown DEF EveryoneIsShown
<1> QED
  BY <1>1, LaidAlways, PTL

(* Up to seventeen users, the large user is larger than every other, from   *)
(* the corner on, wherever he is in the list.                               *)
THEOREM LargestIsTheLarge == Spec => []LargeUserIsLarge
<1>1. Laid => LargeUserIsLarge
  BY LaidIsArranged, ArrangedLarge DEF LargeUserIsLarge
<1> QED
  BY <1>1, LaidAlways, PTL
=============================================================================
