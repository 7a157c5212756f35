----------------------------- MODULE LayoutShapes -----------------------------
(***************************************************************************)
(* Every shape of the layouts of VideoLayouts: one call of                  *)
(* setVideoMixLayout for each mode, number of users, place of the large     *)
(* user and canvas.  The properties say what a layout promises to the       *)
(* people on the picture, and in which cases it does not keep it.           *)
(***************************************************************************)
EXTENDS VideoLayouts

CONSTANTS
    MaxUsers,    \* bound: the most users one layout is asked for
    Canvases     \* the sizes of canvas, as records of a width and a height

(* Positions are exact: the height of a canvas divides the width and the    *)
(* margin of the small windows, 235 and 12 thousandths of the unit.         *)
Divides(d, n) == \E q \in 1 .. n : n = q * d
ASSUME BoundAssumption == MaxUsers \in Nat
ASSUME CanvasesAssumption ==
    \A c \in Canvases : /\ c.width \in Nat \ {0} /\ c.height \in Nat \ {0}
                       /\ Divides(c.height, 236880) /\ Divides(c.height, 12096)

VARIABLES
    request,     \* what setVideoMixLayout is about to lay out
    regions      \* the array of regions it fills; empty before
vars == <<request, regions>>

(* Users differ only in their place in the list and in being the large one, *)
(* so user i is the number i, and `max` the place of the large user, or a   *)
(* number no user has.                                                      *)
Requests == [mode : {"default", "bestFit", "vertical"},
             users : {[i \in 1 .. n |-> i] : n \in 1 .. MaxUsers},
             max : 1 .. MaxUsers + 1,
             canvas : Canvases]

Init == request \in Requests /\ regions = <<>>

(* One call of setVideoMixLayout. *)
Adjust ==
    /\ regions = <<>>
    /\ regions' = LayoutOf(request.mode, request.users, request.max,
                           request.canvas)
    /\ UNCHANGED request

Next == Adjust
Spec == Init /\ [][Next]_vars
-----------------------------------------------------------------------------
Users     == Len(request.users)
MaxIsHere == request.max \in 1 .. Users
Vertical  == request.mode = "vertical"
Done      == regions # <<>>

Right(r) == r.x + r.w
Lower(r) == r.y + r.h
Inside(r) == r.x >= 0 /\ r.y >= 0 /\ Right(r) <= Unit /\ Lower(r) <= Unit
Apart(r, s) == \/ Right(r) <= s.x \/ Right(s) <= r.x
               \/ Lower(r) <= s.y \/ Lower(s) <= r.y
               \/ r.w = 0 \/ s.w = 0

(* The small windows of default mode fit while their rows do: the window of *)
(* the last user must not pass the top of the canvas.                       *)
RowsFit == LET rows == (Users + 2) \div 4
           IN  247 * rows * request.canvas.width <= 1000 * request.canvas.height

(* No region leaves the canvas: best fit and vertical presentation keep     *)
(* every user on it, and default mode does while the rows fit.  The large   *)
(* user among eight or nine, whom the code makes 9/5 of the canvas wide,    *)
(* is the exception, but the small ones beside him stay.                    *)
InsideTheCanvas ==
    Done => \A i \in DOMAIN regions :
                \/ Inside(regions[i])
                \/ request.mode = "default" /\ ~ RowsFit
                \/ Vertical /\ Users \in 8 .. 9 /\ i = request.max

(* No picture covers another: up to seventeen users, the regions do not     *)
(* overlap, but for the first user of default mode, who is the background,  *)
(* and for the large user among eight or nine.  A layout that keeps one     *)
(* place too few puts two users in one place.                               *)
NobodyIsCovered ==
    (Done /\ Users <= 17) =>
        \A i, j \in DOMAIN regions :
            \/ i >= j
            \/ request.mode = "default" /\ i = 1
            \/ Vertical /\ Users \in 8 .. 9 /\ request.max \in {i, j}
            \/ Apart(regions[i], regions[j])

(* Nobody is left out: up to seventeen users, each has one region of his    *)
(* own with an area, but for the seventeenth of vertical mode when nobody   *)
(* is large.  Beyond seventeen, best fit shows nobody at all.               *)
EveryoneIsShown ==
    Done => LET shown == {i \in DOMAIN regions :
                            /\ regions[i].uid = request.users[i]
                            /\ regions[i].w > 0 /\ regions[i].h > 0}
                missing == DOMAIN regions \ shown
            IN  IF Users <= 17
                  THEN missing = IF Vertical /\ Users = 17 /\ ~ MaxIsHere
                                   THEN {17} ELSE {}
                  ELSE request.mode = "bestFit" => shown = {}

(* The user who is to be large is: up to seventeen users, his region is     *)
(* larger in both directions than every other and starts at the corner,     *)
(* wherever he is in the list.                                              *)
LargeUserIsLarge ==
    (Done /\ Vertical /\ MaxIsHere /\ Users <= 17) =>
        \A i \in DOMAIN regions :
            LET r == regions[request.max]
            IN  i # request.max => /\ r.x = 0 /\ r.y = 0
                                   /\ r.w > regions[i].w
                                   /\ r.h > regions[i].h

(* A claim of the SDK that the code does not keep.                          *)

(* IAgoraLinuxSdkCommon.h: the position and the size of a region are        *)
(* fractions of the canvas, from 0 to 1.                                    *)
RegionsAreFractions ==
    Done => \A i \in DOMAIN regions :
                {regions[i].x, regions[i].y, regions[i].w, regions[i].h}
                  \subseteq 0 .. Unit
=============================================================================
