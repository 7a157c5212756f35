----------------------------- MODULE VideoLayouts -----------------------------
(***************************************************************************)
(* The layouts of the C++ recorder (record/src/sdk/samples/agorasdk): where *)
(* the picture of each user goes on the mixed canvas, in default, best fit  *)
(* and vertical presentation mode, for any number of users.                 *)
(*                                                                          *)
(* The code computes with floating point fractions of the canvas.  Here one *)
(* canvas is Unit wide and Unit high; Unit is a multiple of every           *)
(* denominator of the code, so that each position is an exact integer and   *)
(* no rounding hides or makes an overlap.  The height of a canvas is one    *)
(* that divides the sizes of the small windows.  The render mode, which     *)
(* does not move a region, is left out.                                     *)
(***************************************************************************)
EXTENDS Integers, Sequences

Unit == 1008000

(* The region `new Region[n]` puts in each place of the array. *)
EmptyRegion == [uid |-> 0, x |-> 0, y |-> 0, w |-> 0, h |-> 0, alpha |-> 1]

Region(uid, x, y, w, h, alpha) ==
    [uid |-> uid, x |-> x, y |-> y, w |-> w, h |-> h, alpha |-> alpha]

(***************************************************************************)
(* Default mode: the first user fills the canvas, the others are small      *)
(* windows, four in a row, from the bottom up.                              *)
(* Mutant, DefaultTurned: the ratio of the canvas the wrong way round.      *)
(***************************************************************************)
DefaultTurned(users, canvas) ==
    LET width  == (Unit * 235) \div 1000
        hEdge  == (Unit * 12) \div 1000
        height == (width \div canvas.width) * canvas.height
        vEdge  == (hEdge \div canvas.width) * canvas.height
    IN  [i \in DOMAIN users |->
            IF i = 1 THEN Region(users[1], 0, 0, Unit, Unit, 1)
            ELSE Region(users[i], ((i - 2) % 4) * (width + hEdge) + hEdge,
                        Unit - ((i - 2) \div 4 + 1) * (height + vEdge),
                        width, height, i)]

adjustDefaultVideoLayout(users, canvas) ==
    LET width  == (Unit * 235) \div 1000
        hEdge  == (Unit * 12) \div 1000
        height == (width \div canvas.height) * canvas.width
        vEdge  == (hEdge \div canvas.height) * canvas.width
        Window(k) == Region(users[k + 1],
                            ((k - 1) % 4) * (width + hEdge) + hEdge,
                            Unit - ((k - 1) \div 4 + 1) * (height + vEdge),
                            width, height, k + 1)
    IN  [i \in DOMAIN users |->
            IF i = 1 THEN Region(users[1], 0, 0, Unit, Unit, 1)
                     ELSE Window(i - 1)]

(***************************************************************************)
(* Vertical presentation mode: one user large on the left, the others in    *)
(* columns on the right.                                                    *)
(***************************************************************************)
setMaxResolutionUid(uid, width) == Region(uid, 0, 0, width, Unit, 1)

(* The place a user has in the columns; the large user takes none.  [code:  *)
(* `number`, less one once `flag` is set]                                   *)
Seen(users, max, i) == \E j \in 1 .. i : users[j] = max
Rank(users, max, i) == IF Seen(users, max, i - 1) THEN i - 2 ELSE i - 1

(* One column of `rows` places at x; the large user gets `large`.  Until he *)
(* is met the places are counted modulo `rows`.                             *)
Column(users, max, x, width, rows, large) ==
    LET Place(i) == IF Seen(users, max, i) THEN Rank(users, max, i)
                                           ELSE Rank(users, max, i) % rows
    IN  [i \in DOMAIN users |->
            IF users[i] = max
              THEN setMaxResolutionUid(max, large)
              ELSE Region(users[i], x, (Unit \div rows) * Place(i),
                          width, Unit \div rows, 1)]

(* Two columns of eight; the seventeenth small user gets no region. *)
adjustVideo17Layout(users, max) ==
    LET Small(i) == LET rank == Rank(users, max, i)
                    IN  Region(users[i],
                               (Unit \div 10) * (IF rank >= 8 THEN 9 ELSE 8),
                               (Unit \div 8) * (rank % 8),
                               Unit \div 10, Unit \div 8, 1)
        Ignored(i) == i > 16 /\ ~ Seen(users, max, 17)
    IN  [i \in DOMAIN users |->
            IF Ignored(i) THEN EmptyRegion
            ELSE IF users[i] = max THEN setMaxResolutionUid(max, 8 * (Unit \div 10))
            ELSE Small(i)]

(* The layouts for five, seven and nine users have one place less in their  *)
(* column, and pass on to the next one when nobody is large.                *)
(* Mutants: Video5Alone does not pass on; Video7Narrow swaps the widths.    *)
adjustVideo9Layout(users, max) ==
    IF Len(users) = 9 /\ ~ Seen(users, max, Len(users))
      THEN adjustVideo17Layout(users, max)
      ELSE Column(users, max, 8 * (Unit \div 9), Unit \div 9, 8,
                  9 * (Unit \div 5))

Video7Narrow(users, max) ==
    IF Len(users) = 7 /\ ~ Seen(users, max, Len(users))
      THEN adjustVideo9Layout(users, max)
      ELSE Column(users, max, 6 * (Unit \div 7), Unit \div 7, 6, Unit \div 7)

adjustVideo7Layout(users, max) ==
    IF Len(users) = 7 /\ ~ Seen(users, max, Len(users))
      THEN adjustVideo9Layout(users, max)
      ELSE Column(users, max, 6 * (Unit \div 7), Unit \div 7, 6,
                  6 * (Unit \div 7))

Video5Alone(users, max) ==
    Column(users, max, 8 * (Unit \div 10), 2 * (Unit \div 10), 4,
           8 * (Unit \div 10))

adjustVideo5Layout(users, max) ==
    IF Len(users) = 5 /\ ~ Seen(users, max, Len(users))
      THEN adjustVideo7Layout(users, max)
      ELSE Column(users, max, 8 * (Unit \div 10), 2 * (Unit \div 10), 4,
                  8 * (Unit \div 10))

adjustVerticalPresentationLayout(users, max) ==
    CASE Len(users) <= 5 -> adjustVideo5Layout(users, max)
      [] Len(users) \in 6 .. 7 -> adjustVideo7Layout(users, max)
      [] Len(users) \in 8 .. 9 -> adjustVideo9Layout(users, max)
      [] OTHER -> adjustVideo17Layout(users, max)

(***************************************************************************)
(* Best fit mode: equal regions in a grid.                                  *)
(***************************************************************************)
adjustBestFitLayout_2(users) ==
    [i \in DOMAIN users |->
        Region(users[i], IF i % 2 = 1 THEN 0 ELSE Unit \div 2, 0,
               Unit \div 2, Unit, i)]

adjustBestFitLayout_Square(users, n) ==
    LET side == Unit \div n
    IN  [i \in DOMAIN users |->
            Region(users[i], side * ((i - 1) % n), side * ((i - 1) \div n),
                   side, side, i)]

adjustBestFitLayout_17(users) ==
    LET side == Unit \div 5
    IN  [i \in DOMAIN users |->
            Region(users[i],
                   IF i = 17 THEN (Unit - side) \div 2
                             ELSE side \div 2 + side * ((i - 1) % 4),
                   side * ((i - 1) \div 4), side, side, i)]

(* Mutant of the choice of grid: one user too few for the fourth. *)
BestFitOffByOne(users) ==
    CASE Len(users) = 1 -> adjustBestFitLayout_Square(users, 1)
      [] Len(users) = 2 -> adjustBestFitLayout_2(users)
      [] Len(users) \in 3 .. 4 -> adjustBestFitLayout_Square(users, 2)
      [] Len(users) \in 5 .. 9 -> adjustBestFitLayout_Square(users, 3)
      [] Len(users) \in 10 .. 15 -> adjustBestFitLayout_Square(users, 4)
      [] Len(users) = 17 -> adjustBestFitLayout_17(users)
      [] OTHER -> [i \in DOMAIN users |-> EmptyRegion]

adjustBestFitVideoLayout(users) ==
    CASE Len(users) = 1 -> adjustBestFitLayout_Square(users, 1)
      [] Len(users) = 2 -> adjustBestFitLayout_2(users)
      [] Len(users) \in 3 .. 4 -> adjustBestFitLayout_Square(users, 2)
      [] Len(users) \in 5 .. 9 -> adjustBestFitLayout_Square(users, 3)
      [] Len(users) \in 10 .. 16 -> adjustBestFitLayout_Square(users, 4)
      [] Len(users) = 17 -> adjustBestFitLayout_17(users)
      [] OTHER -> [i \in DOMAIN users |-> EmptyRegion]

(* The choice setVideoMixLayout makes; nobody is laid out as no region. *)
LayoutOf(mode, users, max, canvas) ==
    IF users = <<>> THEN <<>>
    ELSE CASE mode = "bestFit"  -> adjustBestFitVideoLayout(users)
           [] mode = "vertical" -> adjustVerticalPresentationLayout(users, max)
           [] OTHER             -> adjustDefaultVideoLayout(users, canvas)
=============================================================================
