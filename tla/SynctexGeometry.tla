--------------------------- MODULE SynctexGeometry ---------------------------
(***************************************************************************)
(* The geometry of the synctex parser: rectangles, the visible size of a   *)
(* horizontal box and how it grows, and the distance of a point.           *)
(* A point is [h, v]; a rectangle [min, max] a pair of points; a size      *)
(* [h, v, width, height, depth] a reference point and what TeX calls the   *)
(* dimensions of a box.  v grows downwards.                                *)
(***************************************************************************)
EXTENDS Integers

Point == [h : Int, v : Int]
Size == [h : Int, v : Int, width : Int, height : Int, depth : Int]

Magnitude(x) == IF x < 0 THEN -x ELSE x

(* A box reaches to the right of its reference point, unless its width is  *)
(* negative; a kern is recorded after the move, so it reaches to the left. *)
Between(a, b) == IF a <= b THEN [lo |-> a, hi |-> b] ELSE [lo |-> b, hi |-> a]
Rectangle(x, s) ==
  [min |-> [h |-> x.lo, v |-> s.v - s.height],
   max |-> [h |-> x.hi, v |-> s.v + s.depth]]
BoxOf(s) == Rectangle(Between(s.h, s.h + s.width), s)
XobOf(s) == Rectangle(Between(s.h - s.width, s.h), s)

------------------------------------------------------------------------------
(* make_hbox_contain_point and make_hbox_contain_box: the visible size is  *)
(* widened on one side or on the other, then raised or lowered.  The two   *)
(* tests are an if and an else: a box that sticks out on both sides widens *)
(* the left one only.                                                      *)
WidenLeft(s, x) ==
  IF s.width < 0 THEN [s EXCEPT !.width = x - s.h]
  ELSE [s EXCEPT !.h = x, !.width = s.h + s.width - x]
WidenRight(s, x) ==
  IF s.width < 0 THEN [s EXCEPT !.h = x, !.width = s.h + s.width - x]
  ELSE [s EXCEPT !.width = x - s.h]
(* Mutant of Widened: the right side is left alone.                        *)
WidenedLeft(s, lo, hi) == IF lo < BoxOf(s).min.h THEN WidenLeft(s, lo) ELSE s
Widened(s, lo, hi) ==
  CASE lo < BoxOf(s).min.h -> WidenLeft(s, lo)
    [] ~(lo < BoxOf(s).min.h) /\ hi > BoxOf(s).max.h -> WidenRight(s, hi)
    [] OTHER -> s
Raised(s, lo, hi) ==
  CASE lo < s.v - s.height -> [s EXCEPT !.height = s.v - lo]
    [] ~(lo < s.v - s.height) /\ hi > s.v + s.depth -> [s EXCEPT !.depth = hi - s.v]
    [] OTHER -> s
ContainPoint(s, p) == Raised(Widened(s, p.h, p.h), p.v, p.v)
ContainBox(s, b) == Raised(Widened(s, b.min.h, b.max.h), b.min.v, b.max.v)

(* p is inside the rectangle b; the rectangle a is inside b.               *)
Within(p, b) ==
  /\ b.min.h <= p.h /\ p.h <= b.max.h
  /\ b.min.v <= p.v /\ p.v <= b.max.v
Inside(a, b) ==
  /\ b.min.h <= a.min.h /\ a.max.h <= b.max.h
  /\ b.min.v <= a.min.v /\ a.max.v <= b.max.v

------------------------------------------------------------------------------
(* The signed distance of a coordinate to an interval, and the distance of *)
(* a point to a rectangle.                                                 *)
ToInterval(x, lo, hi) ==
  CASE x < lo -> lo - x
    [] x > hi -> hi - x
    [] OTHER -> 0
DistanceToBox(p, b) ==
  Magnitude(ToInterval(p.h, b.min.h, b.max.h)) + Magnitude(ToInterval(p.v, b.min.v, b.max.v))

(* The rectangle hit tests use: dimensions without their sign.             *)
Unsigned(s) ==
  [min |-> [h |-> s.h, v |-> s.v - Magnitude(s.height)],
   max |-> [h |-> s.h + Magnitude(s.width), v |-> s.v + Magnitude(s.depth)]]
==============================================================================
