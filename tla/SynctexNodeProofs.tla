--------------------------- MODULE SynctexNodeProofs ---------------------------
(***************************************************************************)
(* Lemmas about the nodes of the synctex parser: the visible size of a box,*)
(* what the operations of SynctexNode write and leave alone, lists, the    *)
(* lists of friends, and how a node that is attached keeps a tree a tree.  *)
(***************************************************************************)
EXTENDS SynctexNode, SubsequenceProofs, TLAPS

------------------------------------------------------------------------------
(***************************************************************************)
(* The visible size of a horizontal box: what growing it does, for all     *)
(* sizes and places.  make_hbox_contain_point and make_hbox_contain_box    *)
(* keep "visible" boxes for hit tests; a box that shrank, or missed what   *)
(* it was grown for, would not be found under the pointer.                 *)
(***************************************************************************)
(* The dimensions a box may have: any width, and above its lower edge.     *)
Upright(s) == s.height + s.depth >= 0
Proper(b) == b.min \in Point /\ b.max \in Point /\ b.min.h <= b.max.h /\ b.min.v <= b.max.v

(* Lemma: the edges of a size's box.                                       *)
LEMMA EdgesOfBox ==
  ASSUME NEW s \in Size
  PROVE  /\ BoxOf(s).min.h = IF s.width < 0 THEN s.h + s.width ELSE s.h
         /\ BoxOf(s).max.h = IF s.width < 0 THEN s.h ELSE s.h + s.width
         /\ BoxOf(s).min.v = s.v - s.height
         /\ BoxOf(s).max.v = s.v + s.depth
  BY DEF Size, BoxOf, Rectangle, Between

(* Lemma: widening moves the left edge or the right one to where it is     *)
(* wanted and leaves the others, whatever the sign of the width.           *)
LEMMA WideningLeft ==
  ASSUME NEW s \in Size, NEW x \in Int, x < BoxOf(s).min.h
  PROVE  /\ WidenLeft(s, x) \in Size
         /\ BoxOf(WidenLeft(s, x)).min.h = x
         /\ BoxOf(WidenLeft(s, x)).max.h = BoxOf(s).max.h
<1>1. WidenLeft(s, x) \in Size
  <2>1. s \in Size /\ x - s.h \in Int /\ s.h + s.width - x \in Int
    BY DEF Size
  <2>2. [s EXCEPT !.width = x - s.h] \in Size /\ [s EXCEPT !.h = x, !.width = s.h + s.width - x] \in Size
    BY <2>1 DEF Size
  <2> QED BY <2>2 DEF WidenLeft
<1>2. CASE s.width < 0
  <2>1. WidenLeft(s, x).h = s.h /\ WidenLeft(s, x).width = x - s.h
    BY <1>2 DEF WidenLeft, Size
  <2>2. x < s.h + s.width /\ x - s.h < 0
    BY <1>2, EdgesOfBox DEF Size
  <2> QED
    BY <1>1, <1>2, <2>1, <2>2, EdgesOfBox DEF Size
<1>3. CASE ~(s.width < 0)
  <2>1. WidenLeft(s, x).h = x /\ WidenLeft(s, x).width = s.h + s.width - x
    BY <1>3 DEF WidenLeft, Size
  <2>2. x < s.h /\ s.h + s.width - x >= 0
    BY <1>3, EdgesOfBox DEF Size
  <2> QED
    BY <1>1, <1>3, <2>1, <2>2, EdgesOfBox DEF Size
<1> QED BY <1>2, <1>3

LEMMA WideningRight ==
  ASSUME NEW s \in Size, NEW x \in Int, x > BoxOf(s).max.h
  PROVE  /\ WidenRight(s, x) \in Size
         /\ BoxOf(WidenRight(s, x)).min.h = BoxOf(s).min.h
         /\ BoxOf(WidenRight(s, x)).max.h = x
<1>1. WidenRight(s, x) \in Size
  <2>1. s \in Size /\ x - s.h \in Int /\ s.h + s.width - x \in Int
    BY DEF Size
  <2>2. [s EXCEPT !.h = x, !.width = s.h + s.width - x] \in Size /\ [s EXCEPT !.width = x - s.h] \in Size
    BY <2>1 DEF Size
  <2> QED BY <2>2 DEF WidenRight
<1>2. CASE s.width < 0
  <2>1. WidenRight(s, x).h = x /\ WidenRight(s, x).width = s.h + s.width - x
    BY <1>2 DEF WidenRight, Size
  <2>2. x > s.h /\ s.h + s.width - x < 0
    BY <1>2, EdgesOfBox DEF Size
  <2> QED
    BY <1>1, <1>2, <2>1, <2>2, EdgesOfBox DEF Size
<1>3. CASE ~(s.width < 0)
  <2>1. WidenRight(s, x).h = s.h /\ WidenRight(s, x).width = x - s.h
    BY <1>3 DEF WidenRight, Size
  <2>2. x > s.h + s.width /\ x - s.h >= 0
    BY <1>3, EdgesOfBox DEF Size
  <2> QED
    BY <1>1, <1>3, <2>1, <2>2, EdgesOfBox DEF Size
<1> QED BY <1>2, <1>3

(* Lemma: widening for what reaches from lo to hi never moves an edge      *)
(* inwards, and takes in all that sticks out on one side only.             *)
LEMMA Widening ==
  ASSUME NEW s \in Size, NEW lo \in Int, NEW hi \in Int, lo <= hi
  PROVE  /\ Widened(s, lo, hi) \in Size
         /\ BoxOf(Widened(s, lo, hi)).min.h <= BoxOf(s).min.h
         /\ BoxOf(s).max.h <= BoxOf(Widened(s, lo, hi)).max.h
         /\ BoxOf(Widened(s, lo, hi)).min.h <= lo
         /\ lo >= BoxOf(s).min.h \/ hi <= BoxOf(s).max.h
              => hi <= BoxOf(Widened(s, lo, hi)).max.h
         /\ Widened(s, lo, hi).v = s.v /\ Widened(s, lo, hi).height = s.height
         /\ Widened(s, lo, hi).depth = s.depth
<1>0. BoxOf(s).min.h \in Int /\ BoxOf(s).max.h \in Int
  BY EdgesOfBox DEF Size
<1>1. CASE lo < BoxOf(s).min.h
  <2>1. Widened(s, lo, hi) = WidenLeft(s, lo)
    BY <1>1 DEF Widened
  <2>2. WidenLeft(s, lo).v = s.v /\ WidenLeft(s, lo).height = s.height
        /\ WidenLeft(s, lo).depth = s.depth
    BY DEF WidenLeft, Size
  <2> QED BY <1>0, <1>1, <2>1, <2>2, WideningLeft
<1>2. CASE ~(lo < BoxOf(s).min.h) /\ hi > BoxOf(s).max.h
  <2>1. Widened(s, lo, hi) = WidenRight(s, hi)
    BY <1>2 DEF Widened
  <2>2. WidenRight(s, hi).v = s.v /\ WidenRight(s, hi).height = s.height
        /\ WidenRight(s, hi).depth = s.depth
    BY DEF WidenRight, Size
  <2> QED BY <1>0, <1>2, <2>1, <2>2, WideningRight
<1>3. CASE ~(lo < BoxOf(s).min.h) /\ ~(hi > BoxOf(s).max.h)
  <2>1. Widened(s, lo, hi) = s
    BY <1>3 DEF Widened
  <2> QED BY <1>0, <1>3, <2>1
<1> QED BY <1>1, <1>2, <1>3

(* Lemma: the same for the upper edge and the lower one.                   *)
LEMMA Raising ==
  ASSUME NEW s \in Size, NEW lo \in Int, NEW hi \in Int, lo <= hi, Upright(s)
  PROVE  /\ Raised(s, lo, hi) \in Size
         /\ Upright(Raised(s, lo, hi))
         /\ BoxOf(Raised(s, lo, hi)).min.v <= BoxOf(s).min.v
         /\ BoxOf(s).max.v <= BoxOf(Raised(s, lo, hi)).max.v
         /\ BoxOf(Raised(s, lo, hi)).min.v <= lo
         /\ lo >= BoxOf(s).min.v \/ hi <= BoxOf(s).max.v
              => hi <= BoxOf(Raised(s, lo, hi)).max.v
         /\ BoxOf(Raised(s, lo, hi)).min.h = BoxOf(s).min.h
         /\ BoxOf(Raised(s, lo, hi)).max.h = BoxOf(s).max.h
<1>0. BoxOf(s).min.v = s.v - s.height /\ BoxOf(s).max.v = s.v + s.depth
  BY EdgesOfBox
<1>1. CASE lo < s.v - s.height
  <2>1. Raised(s, lo, hi) = [s EXCEPT !.height = s.v - lo]
    BY <1>1 DEF Raised
  <2> QED BY <1>0, <1>1, <2>1, EdgesOfBox DEF Size, Upright
<1>2. CASE ~(lo < s.v - s.height) /\ hi > s.v + s.depth
  <2>1. Raised(s, lo, hi) = [s EXCEPT !.depth = hi - s.v]
    BY <1>2 DEF Raised
  <2> QED BY <1>0, <1>2, <2>1, EdgesOfBox DEF Size, Upright
<1>3. CASE ~(lo < s.v - s.height) /\ ~(hi > s.v + s.depth)
  <2>1. Raised(s, lo, hi) = s
    BY <1>3 DEF Raised
  <2> QED BY <1>0, <1>3, <2>1 DEF Size
<1> QED BY <1>1, <1>2, <1>3

(* A visible box that is made to contain a point contains it afterwards,   *)
(* and all it contained before.                                            *)
THEOREM ContainsThePoint ==
  ASSUME NEW s \in Size, NEW p \in Point, Upright(s)
  PROVE  /\ ContainPoint(s, p) \in Size /\ Upright(ContainPoint(s, p))
         /\ Within(p, BoxOf(ContainPoint(s, p)))
         /\ Inside(BoxOf(s), BoxOf(ContainPoint(s, p)))
<1>1. p.h \in Int /\ p.v \in Int /\ p.h <= p.h /\ p.v <= p.v
  BY DEF Point
<1> DEFINE w == Widened(s, p.h, p.h)
<1>2. /\ w \in Size /\ w.v = s.v /\ w.height = s.height /\ w.depth = s.depth
      /\ BoxOf(w).min.h <= BoxOf(s).min.h /\ BoxOf(s).max.h <= BoxOf(w).max.h
      /\ BoxOf(w).min.h <= p.h
      /\ p.h >= BoxOf(s).min.h \/ p.h <= BoxOf(s).max.h => p.h <= BoxOf(w).max.h
  BY <1>1, Widening
<1>3. Upright(w)
  BY <1>2 DEF Upright
<1>4. BoxOf(s).min.h <= BoxOf(s).max.h /\ BoxOf(s).min.h \in Int /\ BoxOf(s).max.h \in Int
      /\ BoxOf(w).min.v = BoxOf(s).min.v /\ BoxOf(w).max.v = BoxOf(s).max.v
      /\ BoxOf(w).min.v \in Int /\ BoxOf(w).max.v \in Int
      /\ BoxOf(w).min.v <= BoxOf(w).max.v
  BY <1>2, EdgesOfBox DEF Size, Upright
<1> HIDE DEF w
<1> DEFINE r == Raised(w, p.v, p.v)
<1>5. /\ r \in Size /\ Upright(r)
      /\ BoxOf(r).min.v <= BoxOf(w).min.v /\ BoxOf(w).max.v <= BoxOf(r).max.v
      /\ BoxOf(r).min.v <= p.v
      /\ p.v >= BoxOf(w).min.v \/ p.v <= BoxOf(w).max.v => p.v <= BoxOf(r).max.v
      /\ BoxOf(r).min.h = BoxOf(w).min.h /\ BoxOf(r).max.h = BoxOf(w).max.h
  BY <1>1, <1>2, <1>3, Raising
<1> HIDE DEF r
<1>6. Within(p, BoxOf(r)) /\ Inside(BoxOf(s), BoxOf(r))
  BY <1>1, <1>2, <1>4, <1>5 DEF Within, Inside
<1>7. ContainPoint(s, p) = r
  BY DEF ContainPoint, r, w
<1> QED BY <1>5, <1>6, <1>7

(* Lemma: whatever a size is grown for, it stays one, and what it contained*)
(* it contains.                                                            *)
LEMMA KeepsSize ==
  ASSUME NEW s \in Size, NEW lo \in Point, NEW hi \in Point
  PROVE  Raised(Widened(s, lo.h, hi.h), lo.v, hi.v) \in Size
<1>1. lo.h \in Int /\ hi.h \in Int /\ lo.v \in Int /\ hi.v \in Int
  BY DEF Point
<1>2. Widened(s, lo.h, hi.h) \in Size
  BY <1>1, WideningLeft, WideningRight DEF Widened
<1>3. ASSUME NEW w \in Size PROVE Raised(w, lo.v, hi.v) \in Size
  <2>1. w.v - lo.v \in Int /\ hi.v - w.v \in Int
    BY <1>1 DEF Size
  <2>2. [w EXCEPT !.height = w.v - lo.v] \in Size /\ [w EXCEPT !.depth = hi.v - w.v] \in Size
    BY <2>1 DEF Size
  <2>3. QED
    BY <2>2 DEF Raised
<1>4. QED
  BY <1>2, <1>3

LEMMA KeepsTheBox ==
  ASSUME NEW s \in Size, NEW b, Proper(b), Upright(s)
  PROVE  /\ ContainBox(s, b) \in Size /\ Upright(ContainBox(s, b))
         /\ Inside(BoxOf(s), BoxOf(ContainBox(s, b)))
         /\ (/\ b.min.h >= BoxOf(s).min.h \/ b.max.h <= BoxOf(s).max.h
             /\ b.min.v >= BoxOf(s).min.v \/ b.max.v <= BoxOf(s).max.v) =>
               Inside(b, BoxOf(ContainBox(s, b)))
<1>1. /\ b.min.h \in Int /\ b.min.v \in Int /\ b.max.h \in Int /\ b.max.v \in Int
      /\ b.min.h <= b.max.h /\ b.min.v <= b.max.v
  BY DEF Point, Proper
<1> DEFINE w == Widened(s, b.min.h, b.max.h)
<1>2. /\ w \in Size /\ w.v = s.v /\ w.height = s.height /\ w.depth = s.depth
      /\ BoxOf(w).min.h <= BoxOf(s).min.h /\ BoxOf(s).max.h <= BoxOf(w).max.h
      /\ BoxOf(w).min.h <= b.min.h
      /\ b.min.h >= BoxOf(s).min.h \/ b.max.h <= BoxOf(s).max.h => b.max.h <= BoxOf(w).max.h
  BY <1>1, Widening
<1>3. Upright(w)
  BY <1>2 DEF Upright
<1>4. BoxOf(w).min.v = BoxOf(s).min.v /\ BoxOf(w).max.v = BoxOf(s).max.v
  BY <1>2, EdgesOfBox
<1> HIDE DEF w
<1> DEFINE r == Raised(w, b.min.v, b.max.v)
<1>5. /\ r \in Size /\ Upright(r)
      /\ BoxOf(r).min.v <= BoxOf(w).min.v /\ BoxOf(w).max.v <= BoxOf(r).max.v
      /\ BoxOf(r).min.v <= b.min.v
      /\ b.min.v >= BoxOf(w).min.v \/ b.max.v <= BoxOf(w).max.v => b.max.v <= BoxOf(r).max.v
      /\ BoxOf(r).min.h = BoxOf(w).min.h /\ BoxOf(r).max.h = BoxOf(w).max.h
  BY <1>1, <1>2, <1>3, Raising
<1> HIDE DEF r
<1>6. Inside(BoxOf(s), BoxOf(r))
  BY <1>2, <1>4, <1>5 DEF Inside
<1>7. ContainBox(s, b) = r
  BY DEF ContainBox, r, w
<1>8. QED
  BY <1>2, <1>4, <1>5, <1>6, <1>7 DEF Inside

(* A visible box that is made to contain another box keeps what it         *)
(* contained, and contains the other one unless that sticks out on two     *)
(* opposite sides: the second test of each pair is an else.                *)
THEOREM ContainsTheBox ==
  ASSUME NEW s \in Size, NEW b, Proper(b), Upright(s),
         b.min.h >= BoxOf(s).min.h \/ b.max.h <= BoxOf(s).max.h,
         b.min.v >= BoxOf(s).min.v \/ b.max.v <= BoxOf(s).max.v
  PROVE  /\ ContainBox(s, b) \in Size /\ Upright(ContainBox(s, b))
         /\ Inside(b, BoxOf(ContainBox(s, b)))
         /\ Inside(BoxOf(s), BoxOf(ContainBox(s, b)))
BY KeepsTheBox
(* Lemma: growing a box for anything, however that lies, loses nothing of  *)
(* what it contained.                                                      *)
LEMMA WidensOnly ==
  ASSUME NEW s \in Size, NEW lo \in Int, NEW hi \in Int
  PROVE  LET t == Widened(s, lo, hi) IN
         /\ t \in Size /\ t.v = s.v /\ t.height = s.height /\ t.depth = s.depth
         /\ BoxOf(t).min.h <= BoxOf(s).min.h /\ BoxOf(s).max.h <= BoxOf(t).max.h
<1>1. BoxOf(s).min.h \in Int /\ BoxOf(s).max.h \in Int
  <2>1. s.h \in Int /\ s.width \in Int
    BY DEF Size
  <2>2. QED
    BY <2>1, EdgesOfBox
<1>2. CASE lo < BoxOf(s).min.h
  <2>1. Widened(s, lo, hi) = WidenLeft(s, lo)
    BY <1>2 DEF Widened
  <2>2. /\ WidenLeft(s, lo) \in Size
        /\ BoxOf(WidenLeft(s, lo)).min.h = lo
        /\ BoxOf(WidenLeft(s, lo)).max.h = BoxOf(s).max.h
    BY <1>2, WideningLeft
  <2>3. /\ WidenLeft(s, lo).v = s.v /\ WidenLeft(s, lo).height = s.height
        /\ WidenLeft(s, lo).depth = s.depth
    BY DEF WidenLeft, Size
  <2>4. lo <= BoxOf(s).min.h /\ BoxOf(s).max.h <= BoxOf(s).max.h
    BY <1>1, <1>2
  <2>5. QED
    BY <2>1, <2>2, <2>3, <2>4
<1>3. CASE ~ (lo < BoxOf(s).min.h) /\ hi > BoxOf(s).max.h
  <2>1. Widened(s, lo, hi) = WidenRight(s, hi)
    BY <1>3 DEF Widened
  <2>2. /\ WidenRight(s, hi) \in Size
        /\ BoxOf(WidenRight(s, hi)).min.h = BoxOf(s).min.h
        /\ BoxOf(WidenRight(s, hi)).max.h = hi
    BY <1>3, WideningRight
  <2>3. /\ WidenRight(s, hi).v = s.v /\ WidenRight(s, hi).height = s.height
        /\ WidenRight(s, hi).depth = s.depth
    BY DEF WidenRight, Size
  <2>4. BoxOf(s).max.h <= hi /\ BoxOf(s).min.h <= BoxOf(s).min.h
    BY <1>1, <1>3
  <2>5. QED
    BY <2>1, <2>2, <2>3, <2>4
<1>4. CASE ~ (lo < BoxOf(s).min.h) /\ ~ (hi > BoxOf(s).max.h)
  <2>1. Widened(s, lo, hi) = s
    BY <1>4 DEF Widened
  <2>2. QED
    BY <2>1, <1>1
<1>5. QED
  BY <1>2, <1>3, <1>4

LEMMA RaisesOnly ==
  ASSUME NEW s \in Size, NEW lo \in Int, NEW hi \in Int, Upright(s)
  PROVE  LET t == Raised(s, lo, hi) IN
         /\ t \in Size /\ Upright(t)
         /\ BoxOf(t).min.h = BoxOf(s).min.h /\ BoxOf(t).max.h = BoxOf(s).max.h
         /\ BoxOf(t).min.v <= BoxOf(s).min.v /\ BoxOf(s).max.v <= BoxOf(t).max.v
<1> DEFINE t == Raised(s, lo, hi)
<1>1. /\ s.h \in Int /\ s.v \in Int /\ s.width \in Int /\ s.height \in Int /\ s.depth \in Int
  BY DEF Size
<1>2. /\ t \in Size /\ t.h = s.h /\ t.v = s.v /\ t.width = s.width
      /\ s.height <= t.height /\ s.depth <= t.depth
  <2>1. CASE lo < s.v - s.height
    <3>1. t = [s EXCEPT !.height = s.v - lo]
      BY <2>1 DEF Raised
    <3>2. s.height <= s.v - lo /\ s.v - lo \in Int
      BY <2>1, <1>1
    <3> HIDE DEF t
    <3>3. QED
      BY <3>1, <3>2, <1>1 DEF Size
  <2>2. CASE ~ (lo < s.v - s.height) /\ hi > s.v + s.depth
    <3>1. t = [s EXCEPT !.depth = hi - s.v]
      BY <2>2 DEF Raised
    <3>2. s.depth <= hi - s.v /\ hi - s.v \in Int
      BY <2>2, <1>1
    <3> HIDE DEF t
    <3>3. QED
      BY <3>1, <3>2, <1>1 DEF Size
  <2>3. CASE ~ (lo < s.v - s.height) /\ ~ (hi > s.v + s.depth)
    <3>1. t = s
      BY <2>3 DEF Raised
    <3> HIDE DEF t
    <3>2. QED
      BY <3>1, <1>1
  <2>4. QED
    BY <2>1, <2>2, <2>3
<1> HIDE DEF t
<1>3. t.height \in Int /\ t.depth \in Int
  BY <1>2 DEF Size
<1>4. Upright(t)
  BY <1>1, <1>2, <1>3 DEF Upright
<1>5. /\ BoxOf(t).min.h = BoxOf(s).min.h /\ BoxOf(t).max.h = BoxOf(s).max.h
  BY <1>2, EdgesOfBox
<1>6. /\ BoxOf(t).min.v = s.v - t.height /\ BoxOf(t).max.v = s.v + t.depth
      /\ BoxOf(s).min.v = s.v - s.height /\ BoxOf(s).max.v = s.v + s.depth
  BY <1>2, EdgesOfBox
<1>7. s.v - t.height <= s.v - s.height /\ s.v + s.depth <= s.v + t.depth
  BY <1>1, <1>2, <1>3
<1>8. QED
  BY <1>2, <1>4, <1>5, <1>6, <1>7 DEF t

LEMMA GrowsOnly ==
  ASSUME NEW s \in Size, Upright(s), NEW lo \in Point, NEW hi \in Point
  PROVE  LET t == Raised(Widened(s, lo.h, hi.h), lo.v, hi.v) IN
         t \in Size /\ Upright(t) /\ Inside(BoxOf(s), BoxOf(t))
<1> DEFINE w == Widened(s, lo.h, hi.h)
           t == Raised(w, lo.v, hi.v)
<1>1. lo.h \in Int /\ hi.h \in Int /\ lo.v \in Int /\ hi.v \in Int
  BY DEF Point
<1>2. /\ w \in Size /\ w.v = s.v /\ w.height = s.height /\ w.depth = s.depth
      /\ BoxOf(w).min.h <= BoxOf(s).min.h /\ BoxOf(s).max.h <= BoxOf(w).max.h
  BY <1>1, WidensOnly
<1> HIDE DEF w
<1>3. Upright(w) /\ BoxOf(w).min.v = BoxOf(s).min.v /\ BoxOf(w).max.v = BoxOf(s).max.v
  BY <1>2, EdgesOfBox DEF Upright
<1>4. /\ t \in Size /\ Upright(t)
      /\ BoxOf(t).min.h = BoxOf(w).min.h /\ BoxOf(t).max.h = BoxOf(w).max.h
      /\ BoxOf(t).min.v <= BoxOf(w).min.v /\ BoxOf(w).max.v <= BoxOf(t).max.v
  BY <1>1, <1>2, <1>3, RaisesOnly
<1> HIDE DEF t
<1>5. t \in Size /\ Upright(t) /\ Inside(BoxOf(s), BoxOf(t))
  BY <1>2, <1>3, <1>4 DEF Inside
<1>6. QED
  BY <1>5 DEF t, w

(* A point of a rectangle is one of every rectangle that that is inside of.*)
LEMMA WithinInside ==
  ASSUME NEW p \in Point, NEW s \in Size, NEW t \in Size,
         Within(p, BoxOf(s)), Inside(BoxOf(s), BoxOf(t))
  PROVE  Within(p, BoxOf(t))
<1>1. \A u \in Size : /\ BoxOf(u).min.h \in Int /\ BoxOf(u).max.h \in Int
                      /\ BoxOf(u).min.v \in Int /\ BoxOf(u).max.v \in Int
  <2> TAKE u \in Size
  <2>1. u.h \in Int /\ u.v \in Int /\ u.width \in Int /\ u.height \in Int /\ u.depth \in Int
    BY DEF Size
  <2>2. QED
    BY <2>1, EdgesOfBox
<1>2. p.h \in Int /\ p.v \in Int
  BY DEF Point
<1>3. QED
  BY <1>1, <1>2 DEF Within, Inside

------------------------------------------------------------------------------
(* The classes of nodes that records make, and heaps of such nodes.        *)
ContentTypes ==
  {"input", "sheet", "form", "vbox", "hbox", "void_vbox", "void_hbox", "kern", "glue",
   "rule", "math", "boundary", "box_bdry", "ref"}
Values == Int \cup Size \cup ContentTypes
NodeOf(t) == {r \in [Fields[t] \cup {"type"} -> Values] : r.type = t}
AllNodes == UNION {NodeOf(t) : t \in ContentTypes}
Slots == 0 .. NumberOfLists - 1
Heaps == [node : Seq(AllNodes), list : [Slots -> Int]]
Count(H) == Len(H.node)
------------------------------------------------------------------------------
(* Which classes have a field.                                             *)
LEMMA FieldsOf ==
  ASSUME NEW t \in ContentTypes
  PROVE  /\ "sibling" \in Fields[t] /\ "type" \notin Fields[t]
         /\ "parent" \in Fields[t] <=> t \notin {"input", "sheet", "form"}
         /\ "friend" \in Fields[t] <=> t \notin {"input", "sheet", "form"}
         /\ "child" \in Fields[t] <=> t \in {"sheet", "form", "vbox", "hbox"}
         /\ "last" \in Fields[t] <=> t \in {"vbox", "hbox"}
         /\ "arg_sibling" \in Fields[t] <=> t \in {"box_bdry", "ref"}
         /\ "tag" \in Fields[t] <=> t # "sheet"
         /\ "line" \in Fields[t] <=> t \notin {"sheet", "form", "ref"}
         /\ "target" \in Fields[t] <=> t = "form"
         /\ "next_hbox" \in Fields[t] <=> t \in {"sheet", "hbox"}
         /\ "visible" \in Fields[t] <=> t = "hbox"
         /\ "weight" \in Fields[t] <=> t = "hbox"
         /\ "mean_line" \in Fields[t] <=> t = "hbox"
         /\ "h" \in Fields[t] <=> t \notin {"input", "sheet", "form"}
         /\ "v" \in Fields[t] <=> t \notin {"input", "sheet", "form"}
<1> USE DEF tlchv, box, spf, inputFields, sheetFields, formFields, vboxFields,
            hboxFields, voidFields, refFields, mathFields, kernFields, glueFields, ruleFields,
            boundaryFields, box_bdryFields
<1>1. CASE t \in {"input", "sheet", "form"}
  BY <1>1 DEF Fields
<1>2. CASE t \in {"vbox", "hbox"}
  BY <1>2 DEF Fields
<1>3. CASE t \in {"void_vbox", "void_hbox", "kern", "glue"}
  BY <1>3 DEF Fields
<1>4. CASE t \in {"rule", "math", "boundary", "box_bdry", "ref"}
  BY <1>4 DEF Fields
<1>5. QED
  BY <1>1, <1>2, <1>3, <1>4 DEF ContentTypes

LEMMA NodesOf ==
  ASSUME NEW H \in Heaps
  PROVE  /\ Count(H) \in Nat /\ DOMAIN H.node = 1 .. Count(H) /\ Fresh(H) = Count(H) + 1
         /\ Type(H, NULL) = "none" /\ \A f : ~ Has(H, NULL, f) /\ Get(H, NULL, f) = 0
         /\ \A n \in 1 .. Count(H) :
              /\ n # 0 /\ H.node[n] \in NodeOf(Type(H, n)) /\ Type(H, n) \in ContentTypes
              /\ Type(H, n) = H.node[n].type
              /\ DOMAIN H.node[n] = Fields[Type(H, n)] \cup {"type"}
              /\ \A f : f # "type" =>
                   /\ Has(H, n, f) <=> f \in Fields[Type(H, n)]
                   /\ f \in Fields[Type(H, n)] => Get(H, n, f) = H.node[n][f]
                                                 /\ Get(H, n, f) \in Values
                   /\ f \notin Fields[Type(H, n)] => Get(H, n, f) = 0
<1>1. H.node \in Seq(AllNodes) /\ Count(H) \in Nat /\ DOMAIN H.node = 1 .. Count(H)
  BY DEF Heaps, Count
<1>2. ASSUME NEW n \in 1 .. Count(H)
      PROVE  /\ n # 0 /\ H.node[n] \in NodeOf(Type(H, n)) /\ Type(H, n) \in ContentTypes
             /\ Type(H, n) = H.node[n].type
             /\ DOMAIN H.node[n] = Fields[Type(H, n)] \cup {"type"}
  <2>1. n # 0 /\ Type(H, n) = H.node[n].type
    BY <1>1 DEF Type, NULL
  <2>2. PICK t \in ContentTypes : H.node[n] \in NodeOf(t)
    BY <1>1 DEF AllNodes
  <2>3. H.node[n].type = t /\ H.node[n] \in [Fields[t] \cup {"type"} -> Values]
    BY <2>2 DEF NodeOf
  <2>4. QED
    BY <2>1, <2>2, <2>3
<1>3. ASSUME NEW n \in 1 .. Count(H), NEW f, f # "type"
      PROVE  /\ Has(H, n, f) <=> f \in Fields[Type(H, n)]
             /\ f \in Fields[Type(H, n)] => Get(H, n, f) = H.node[n][f] /\ Get(H, n, f) \in Values
             /\ f \notin Fields[Type(H, n)] => Get(H, n, f) = 0
  <2>1. Has(H, n, f) <=> f \in Fields[Type(H, n)]
    BY <1>2, <1>3 DEF Has, NULL
  <2>2. H.node[n] \in [Fields[Type(H, n)] \cup {"type"} -> Values]
    BY <1>2 DEF NodeOf
  <2>3. f \in Fields[Type(H, n)] => H.node[n][f] \in Values
    BY <2>2
  <2>4. QED
    BY <2>1, <2>3 DEF Get
<1>4. Fresh(H) = Count(H) + 1
  BY DEF Fresh, Count
<1>5. Type(H, NULL) = "none" /\ \A f : ~ Has(H, NULL, f) /\ Get(H, NULL, f) = 0
  BY DEF Type, Has, Get
<1>6. QED
  BY <1>1, <1>2, <1>3, <1>4, <1>5

(* Nothing but the field f of the nodes in N changes, which is x then.     *)
Wrote(H, G, N, f, x) ==
  /\ G \in Heaps /\ Count(G) = Count(H) /\ G.list = H.list
  /\ \A m \in 0 .. Count(H) :
       /\ Type(G, m) = Type(H, m)
       /\ \A g : g # "type" =>
            /\ Has(G, m, g) <=> Has(H, m, g)
            /\ Get(G, m, g) = IF m \in N /\ g = f /\ Has(H, m, f) THEN x ELSE Get(H, m, g)

LEMMA SetOf ==
  ASSUME NEW H \in Heaps, NEW n \in 0 .. Count(H), NEW f, f # "type", NEW x \in Values
  PROVE  Wrote(H, Set(H, n, f, x), {n}, f, x)
<1> DEFINE G == Set(H, n, f, x)
           r == [g \in DOMAIN H.node[n] |-> IF g = f THEN x ELSE H.node[n][g]]
<1>1. CASE ~ Has(H, n, f)
  <2>1. G = H
    BY <1>1 DEF Set
  <2>2. \A m \in 0 .. Count(H) : ~ (m \in {n} /\ Has(H, m, f))
    BY <1>1
  <2>3. QED
    BY <2>1, <2>2 DEF Wrote
<1>2. CASE Has(H, n, f)
  <2>1. n \in 1 .. Count(H) /\ f \in Fields[Type(H, n)]
    BY <1>2, NodesOf DEF Has, NULL
  <2>2. /\ Count(H) \in Nat /\ DOMAIN H.node = 1 .. Count(H) /\ H.node \in Seq(AllNodes)
        /\ H.list \in [Slots -> Int]
    BY NodesOf DEF Heaps
  <2>3. H.node[n] \in NodeOf(Type(H, n)) /\ Type(H, n) \in ContentTypes
        /\ DOMAIN H.node[n] = Fields[Type(H, n)] \cup {"type"}
    BY <2>1, NodesOf
  <2>4. r \in NodeOf(Type(H, n))
    BY <2>3 DEF NodeOf
  <2>5. r \in AllNodes
    BY <2>3, <2>4 DEF AllNodes
  <2>6. G = [H EXCEPT !.node[n] = r]
    BY <1>2 DEF Set
  <2>7. G = [node |-> [H.node EXCEPT ![n] = r], list |-> H.list]
    BY <2>6 DEF Heaps
  <2>8. [H.node EXCEPT ![n] = r] \in Seq(AllNodes) /\ Len([H.node EXCEPT ![n] = r]) = Len(H.node)
    BY <2>1, <2>2, <2>5 DEF Count
  <2>9. G \in Heaps /\ Count(G) = Count(H) /\ G.list = H.list
    BY <2>2, <2>7, <2>8 DEF Heaps, Count
  <2>10. G.node[n] = r /\ \A m \in 1 .. Count(H) : m # n => G.node[m] = H.node[m]
    BY <2>1, <2>2, <2>7
  <2> HIDE DEF G
  <2>11. ASSUME NEW m \in 0 .. Count(H)
         PROVE  /\ Type(G, m) = Type(H, m)
                /\ \A g : g # "type" =>
                     /\ Has(G, m, g) <=> Has(H, m, g)
                     /\ Get(G, m, g) = IF m \in {n} /\ g = f /\ Has(H, m, f) THEN x ELSE Get(H, m, g)
    <3>1. CASE m \notin {n}
      <4>1. m = NULL \/ m \in 1 .. Count(H)
        BY DEF NULL
      <4>2. CASE m = NULL
        BY <3>1, <4>2 DEF Type, Has, Get
      <4>3. CASE m \in 1 .. Count(H)
        BY <3>1, <4>3, <2>10 DEF Type, Has, Get
      <4>4. QED
        BY <4>1, <4>2, <4>3
    <3>2. CASE m = n
      <4>1. n # NULL /\ G.node[n] = r
        BY <2>1, <2>10 DEF NULL
      <4>2. r.type = H.node[n].type /\ DOMAIN r = DOMAIN H.node[n]
            /\ \A g \in DOMAIN r : r[g] = IF g = f THEN x ELSE H.node[n][g]
        BY <2>3
      <4> HIDE DEF r
      <4>3. f \in DOMAIN r
        BY <4>2, <2>1, <2>3
      <4>4. QED
        BY <3>2, <4>1, <4>2, <4>3 DEF Type, Has, Get
    <3>3. QED
      BY <3>1, <3>2
  <2>12. Wrote(H, G, {n}, f, x)
    BY <2>9, <2>11 DEF Wrote
  <2>13. QED
    BY <2>12 DEF G
<1>3. QED
  BY <1>1, <1>2

(* A node more, and what it has.                                           *)
Given(data, f) == IF f \in DOMAIN data THEN data[f] ELSE 0
Made1(H, G, type, data) ==
  /\ G \in Heaps /\ Count(G) = Count(H) + 1 /\ G.list = H.list
  /\ \A m \in 0 .. Count(H) :
       /\ Type(G, m) = Type(H, m)
       /\ \A g : g # "type" => (Has(G, m, g) <=> Has(H, m, g)) /\ Get(G, m, g) = Get(H, m, g)
  /\ Type(G, Fresh(H)) = type
  /\ \A f : f \notin {"type", "visible"} =>
       Get(G, Fresh(H), f) = IF f \in Fields[type] THEN Given(data, f) ELSE 0
  /\ type = "hbox" => Get(G, Fresh(H), "visible") = SizeOf(G, Fresh(H))

LEMMA NewOf ==
  ASSUME NEW H \in Heaps, NEW type \in ContentTypes, NEW data,
         \A f \in DOMAIN data : data[f] \in Int
  PROVE  Made1(H, New(H, type, data), type, data)
<1> DEFINE G == New(H, type, data)
           given(f) == IF f \in DOMAIN data THEN data[f] ELSE 0
           size == [h |-> given("h"), v |-> given("v"), width |-> given("width"),
                    height |-> given("height"), depth |-> given("depth")]
           r == [f \in Fields[type] \cup {"type"} |->
                   CASE f = "type" -> type [] f = "visible" -> size [] OTHER -> given(f)]
           n == Fresh(H)
<1>1. \A f : given(f) \in Int /\ given(f) = Given(data, f)
  BY DEF Given
<1> HIDE DEF given
<1>2. size \in Size
  BY <1>1 DEF Size
<1>3. r \in NodeOf(type)
  BY <1>1, <1>2 DEF NodeOf, Values
<1>4. /\ DOMAIN r = Fields[type] \cup {"type"} /\ r.type = type
      /\ \A f \in Fields[type] : f \notin {"type", "visible"} => r[f] = given(f)
      /\ "visible" \in Fields[type] => r["visible"] = size
  OBVIOUS
<1>5. G = [H EXCEPT !.node = Append(@, r)]
  BY DEF New, given
<1> HIDE DEF r
<1>6. r \in AllNodes
  BY <1>3 DEF AllNodes
<1>7. H.node \in Seq(AllNodes) /\ H.list \in [Slots -> Int] /\ H = [node |-> H.node, list |-> H.list]
      /\ Count(H) \in Nat
  BY NodesOf DEF Heaps
<1>8. G = [node |-> Append(H.node, r), list |-> H.list]
  BY <1>5, <1>7
<1> HIDE DEF G
<1>9. /\ Append(H.node, r) \in Seq(AllNodes) /\ Len(Append(H.node, r)) = Count(H) + 1
      /\ Append(H.node, r)[Count(H) + 1] = r
      /\ \A m \in 1 .. Count(H) : Append(H.node, r)[m] = H.node[m]
  BY <1>6, <1>7 DEF Count
<1>10. G \in Heaps /\ Count(G) = Count(H) + 1 /\ G.list = H.list
  BY <1>7, <1>8, <1>9 DEF Heaps, Count
<1>11. n = Count(H) + 1 /\ n # NULL /\ G.node[n] = r
  BY <1>7, <1>8, <1>9, NodesOf DEF NULL
<1>12. ASSUME NEW m \in 0 .. Count(H)
       PROVE  /\ Type(G, m) = Type(H, m)
              /\ \A g : g # "type" => (Has(G, m, g) <=> Has(H, m, g)) /\ Get(G, m, g) = Get(H, m, g)
  <2>1. CASE m = NULL
    BY <2>1 DEF Type, Has, Get
  <2>2. CASE m # NULL
    <3>1. G.node[m] = H.node[m]
      BY <1>7, <1>8, <1>9, <2>2 DEF NULL
    <3>2. QED
      BY <3>1 DEF Type, Has, Get
  <2>3. QED
    BY <2>1, <2>2
<1>13. Type(G, n) = type
  BY <1>4, <1>11 DEF Type
<1>14. ASSUME NEW f, f # "type"
       PROVE  Get(G, n, f) = IF f \in Fields[type] THEN r[f] ELSE 0
  BY <1>4, <1>11, <1>14 DEF Get, Has
<1>15. ASSUME NEW f, f \notin {"type", "visible"}
       PROVE  Get(G, n, f) = IF f \in Fields[type] THEN Given(data, f) ELSE 0
  BY <1>1, <1>4, <1>14, <1>15
<1>16. ASSUME type = "hbox" PROVE Get(G, n, "visible") = SizeOf(G, n)
  <2>1. {"h", "v", "width", "height", "depth", "visible"} \subseteq Fields[type]
    BY <1>16 DEF Fields, hboxFields, vboxFields, box, tlchv
  <2>2. Get(G, n, "visible") = size
    BY <2>1, <1>4, <1>14
  <2>3. /\ Get(G, n, "h") = given("h") /\ Get(G, n, "v") = given("v")
        /\ Get(G, n, "width") = given("width") /\ Get(G, n, "height") = given("height")
        /\ Get(G, n, "depth") = given("depth")
    BY <2>1, <1>1, <1>15
  <2>4. QED
    BY <2>2, <2>3 DEF SizeOf
<1>17. Made1(H, G, type, data)
  BY <1>10, <1>12, <1>13, <1>15, <1>16 DEF Made1
<1>18. QED
  BY <1>17 DEF G

(* The same field of several nodes.                                        *)
LEMMA SetAllOf ==
  ASSUME NEW H \in Heaps, NEW s \in Seq(0 .. Count(H)), NEW f, f # "type", NEW x \in Values
  PROVE  Wrote(H, SetAll(H, s, f, x), {s[i] : i \in 1 .. Len(s)}, f, x)
<1> DEFINE N == Len(s)
           P(a) == a = [i \in 0 .. N |-> IF i = 0 THEN H ELSE Set(a[i - 1], s[i], f, x)]
           G == [y \in Heaps \X (1 .. N) |->
                   IF s[y[2]] \in 0 .. Count(y[1]) THEN Set(y[1], s[y[2]], f, x) ELSE y[1]]
           after == CHOOSE a : P(a)
           some(i) == {s[j] : j \in 1 .. i}
           T == {i \in 0 .. N : Wrote(H, after[i], some(i), f, x)}
<1>1. N \in Nat /\ \A i \in 1 .. N : s[i] \in 0 .. Count(H)
  <2>1. Len(s) \in Nat /\ \A i \in 1 .. Len(s) : s[i] \in 0 .. Count(H)
    BY ElementOfSeq, LenProperties
  <2>2. QED
    BY <2>1
<1>2. ASSUME NEW K \in Heaps, NEW n \in 0 .. Count(K)
      PROVE  Set(K, n, f, x) \in Heaps /\ Count(Set(K, n, f, x)) = Count(K)
  <2>1. Wrote(K, Set(K, n, f, x), {n}, f, x)
    BY SetOf
  <2>2. QED
    BY <2>1 DEF Wrote
<1>3. G \in [Heaps \X (1 .. N) -> Heaps]
  BY <1>2
<1>4. PICK h \in [0 .. N -> Heaps] : Computes(h, N, H, G)
  <2> HIDE DEF G, N
  <2>1. QED
    BY <1>1, <1>3, Recursion
<1>5. \A i \in 0 .. N : Count(h[i]) = Count(H) /\ h[i] \in Heaps
  <2> DEFINE S == {i \in 0 .. N : Count(h[i]) = Count(H)}
  <2>1. 0 \in S
    BY <1>1, <1>4 DEF Computes
  <2>2. ASSUME NEW i \in 0 .. N, i < N /\ i \in S PROVE i + 1 \in S
    <3> HIDE DEF N, G
    <3>1. i + 1 \in 1 .. N /\ i + 1 - 1 = i
      BY <1>1, <2>2
    <3>5. h[i + 1] = G[<<h[i + 1 - 1], i + 1>>]
      BY <1>4, <3>1 DEF Computes
    <3>6. h[i + 1] = G[<<h[i], i + 1>>]
      BY <3>1, <3>5
    <3>2. <<h[i], i + 1>> \in Heaps \X (1 .. N) /\ s[i + 1] \in 0 .. Count(h[i])
      BY <3>1, <2>2, <1>1
    <3>3. h[i + 1] = Set(h[i], s[i + 1], f, x)
      BY <3>6, <3>2 DEF G
    <3>4. QED
      BY <3>1, <3>2, <3>3, <1>2, <2>2
  <2> HIDE DEF S
  <2>3. 0 .. N \subseteq S
    BY <1>1, <2>1, <2>2, Induction
  <2>4. QED
    BY <2>3 DEF S
<1>6. ASSUME NEW i \in 1 .. N PROVE h[i] = Set(h[i - 1], s[i], f, x)
  <2> HIDE DEF N, G
  <2>1. i - 1 \in 0 .. N /\ h[i] = G[<<h[i - 1], i>>]
    BY <1>1, <1>4 DEF Computes
  <2>2. <<h[i - 1], i>> \in Heaps \X (1 .. N) /\ s[i] \in 0 .. Count(h[i - 1])
    BY <2>1, <1>5, <1>1
  <2>3. QED
    BY <2>1, <2>2 DEF G
<1>7. P(h)
  <2>1. h[0] = H
    BY <1>4 DEF Computes
  <2>2. ASSUME NEW i \in 0 .. N
        PROVE  h[i] = IF i = 0 THEN H ELSE Set(h[i - 1], s[i], f, x)
    <3>1. i = 0 \/ i \in 1 .. N
      BY <1>1
    <3> HIDE DEF N, G
    <3>2. QED
      BY <1>6, <2>1, <3>1
  <2> HIDE DEF N, G
  <2>3. QED
    BY <2>2
<1>8. P(after)
  <2> HIDE DEF P
  <2>1. QED
    BY <1>7
<1>9. SetAll(H, s, f, x) = after[N]
  BY DEF SetAll
<1>10. after[0] = H /\ \A i \in 1 .. N : after[i] = Set(after[i - 1], s[i], f, x)
  <2>1. ASSUME NEW a, P(a)
        PROVE  a[0] = H /\ \A i \in 1 .. N : a[i] = Set(a[i - 1], s[i], f, x)
    <3> HIDE DEF N
    <3>1. 0 \in 0 .. N /\ \A i \in 1 .. N : i \in 0 .. N /\ i # 0
      BY <1>1
    <3>2. QED
      BY <2>1, <3>1
  <2> HIDE DEF P, after
  <2>2. QED
    BY <1>8, <2>1
<1> HIDE DEF after, N
<1>11. 0 \in T
  <2>1. some(0) = {}
    OBVIOUS
  <2>2. QED
    BY <1>1, <1>10, <2>1 DEF Wrote
<1>12. ASSUME NEW i \in 0 .. N, i < N /\ i \in T PROVE i + 1 \in T
  <2> DEFINE K == after[i]
  <2>1. Wrote(H, K, some(i), f, x)
    BY <1>12
  <2>2. i + 1 \in 1 .. N /\ i + 1 - 1 = i /\ s[i + 1] \in 0 .. Count(H)
    BY <1>1, <1>12
  <2>3. K \in Heaps /\ s[i + 1] \in 0 .. Count(K) /\ after[i + 1] = Set(K, s[i + 1], f, x)
    BY <2>1, <2>2, <1>10 DEF Wrote
  <2> HIDE DEF K
  <2>4. Wrote(K, after[i + 1], {s[i + 1]}, f, x)
    BY <2>3, SetOf
  <2>5. some(i + 1) = some(i) \cup {s[i + 1]}
    BY <2>2
  <2> HIDE DEF some
  <2>6. Wrote(H, after[i + 1], some(i + 1), f, x)
    BY <2>1, <2>4, <2>5 DEF Wrote
  <2>7. QED
    BY <2>2, <2>6
<1>13. N \in T
  <2>1. 0 .. N \subseteq T
    <3> HIDE DEF T
    <3>1. QED
      BY <1>1, <1>11, <1>12, Induction
  <2>2. QED
    BY <2>1, <1>1
<1>14. QED
  BY <1>9, <1>13 DEF N

(* Something before a sequence.                                            *)
LEMMA Before ==
  ASSUME NEW X, NEW m \in X, NEW s \in Seq(X)
  PROVE  /\ <<m>> \o s \in Seq(X) /\ Len(<<m>> \o s) = Len(s) + 1 /\ (<<m>> \o s)[1] = m
         /\ \A i \in 1 .. Len(s) : (<<m>> \o s)[i + 1] = s[i]
<1>1. <<m>> \in Seq(X) /\ Len(<<m>>) = 1 /\ <<m>>[1] = m
  OBVIOUS
<1>2. QED
  BY <1>1, ConcatProperties, LenProperties

(* The list of n and what follows it along a field: it begins with n, each *)
(* leads to the next one, and it goes on until there is none, or as far as *)
(* k steps go.                                                             *)
Follows(H, f, c, n, k) ==
  /\ c \in Seq(1 .. Count(H)) /\ Len(c) <= k
  /\ (n = NULL \/ k = 0) <=> Len(c) = 0
  /\ Len(c) > 0 => c[1] = n
  /\ \A i \in 1 .. Len(c) : i < Len(c) => Get(H, c[i], f) = c[i + 1]
  /\ Len(c) > 0 /\ Len(c) < k => Get(H, c[Len(c)], f) = NULL

LEMMA FollowsOn ==
  ASSUME NEW H \in Heaps, NEW f, NEW n \in 1 .. Count(H), NEW k \in Nat, NEW c,
         Follows(H, f, c, Get(H, n, f), k)
  PROVE  Follows(H, f, <<n>> \o c, n, k + 1)
<1> DEFINE d == <<n>> \o c
<1>1. c \in Seq(1 .. Count(H)) /\ Len(c) \in Nat /\ Len(c) <= k
  BY LenProperties DEF Follows
<1>2. d \in Seq(1 .. Count(H)) /\ Len(d) = Len(c) + 1 /\ d[1] = n
      /\ \A i \in 1 .. Len(c) : d[i + 1] = c[i]
  BY <1>1, Before
<1> HIDE DEF d
<1>3. n # NULL
  BY DEF NULL
<1>4. ASSUME NEW i \in 1 .. Len(d), i < Len(d) PROVE Get(H, d[i], f) = d[i + 1]
  <2>1. CASE i = 1
    <3>1. Len(c) > 0 /\ 1 \in 1 .. Len(c)
      BY <1>1, <1>2, <1>4, <2>1
    <3>2. c[1] = Get(H, n, f) /\ d[1 + 1] = c[1]
      BY <3>1, <1>2 DEF Follows
    <3>3. QED
      BY <2>1, <3>2, <1>2
  <2>2. CASE i # 1
    <3>1. i - 1 \in 1 .. Len(c) /\ i - 1 < Len(c) /\ i \in 1 .. Len(c) /\ i - 1 + 1 = i
      BY <1>1, <1>2, <1>4, <2>2
    <3>2. d[i] = c[i - 1] /\ d[i + 1] = c[i]
      BY <3>1, <1>2
    <3>3. Get(H, c[i - 1], f) = c[i - 1 + 1]
      BY <3>1 DEF Follows
    <3>4. QED
      BY <3>1, <3>2, <3>3
  <2>3. QED
    BY <2>1, <2>2
<1>5. ASSUME Len(d) < k + 1 PROVE Get(H, d[Len(d)], f) = NULL
  <2>1. CASE Len(c) = 0
    <3>1. Get(H, n, f) = NULL
      BY <2>1, <1>1, <1>2, <1>5 DEF Follows
    <3>2. QED
      BY <2>1, <3>1, <1>2
  <2>2. CASE Len(c) # 0
    <3>1. Len(c) > 0 /\ Len(c) < k /\ Len(c) \in 1 .. Len(c)
      BY <2>2, <1>1, <1>2, <1>5
    <3>2. Get(H, c[Len(c)], f) = NULL
      BY <3>1 DEF Follows
    <3>3. QED
      BY <3>1, <3>2, <1>2
  <2>3. QED
    BY <2>1, <2>2
<1>6. Follows(H, f, d, n, k + 1)
  BY <1>1, <1>2, <1>3, <1>4, <1>5 DEF Follows
<1>7. QED
  BY <1>6 DEF d

Follow(H, f) == \A n \in 1 .. Count(H) : Get(H, n, f) \in 0 .. Count(H)
LEMMA ChainOf ==
  ASSUME NEW H \in Heaps, NEW f, Follow(H, f), NEW n \in 0 .. Count(H)
  PROVE  Follows(H, f, Chain(H, n, f), n, Fresh(H))
<1> DEFINE N == Fresh(H)
           C == 0 .. Count(H)
           X == [C -> Seq(1 .. Count(H))]
           none == [m \in C |-> <<>>]
           after(a) == [m \in C |-> IF m = NULL THEN <<>> ELSE <<m>> \o a[Get(H, m, f)]]
           G == [y \in X \X (1 .. N) |-> after(y[1])]
           P(a) == a = [k \in 0 .. N |->
                          [m \in 0 .. Len(H.node) |->
                             IF m = NULL \/ k = 0 THEN <<>> ELSE <<m>> \o a[k - 1][Get(H, m, f)]]]
           from == CHOOSE a : P(a)
<1>1. N \in Nat /\ N = Count(H) + 1 /\ Count(H) \in Nat /\ C = 0 .. Len(H.node)
  BY NodesOf DEF Count
<1>2. none \in X
  OBVIOUS
<1>3. ASSUME NEW m \in C, m # NULL PROVE Get(H, m, f) \in C /\ m \in 1 .. Count(H)
  BY <1>1, <1>3 DEF NULL, Follow
<1>4. ASSUME NEW a \in X PROVE after(a) \in X
  <2>1. ASSUME NEW m \in C, m # NULL PROVE <<m>> \o a[Get(H, m, f)] \in Seq(1 .. Count(H))
    <3>1. m \in 1 .. Count(H) /\ a[Get(H, m, f)] \in Seq(1 .. Count(H))
      BY <1>3, <2>1
    <3>2. QED
      BY <3>1, Before
  <2>2. \A m \in C : (IF m = NULL THEN <<>> ELSE <<m>> \o a[Get(H, m, f)]) \in Seq(1 .. Count(H))
    <3>1. <<>> \in Seq(1 .. Count(H))
      OBVIOUS
    <3>2. QED
      BY <2>1, <3>1
  <2> HIDE DEF C
  <2>3. QED
    BY <2>2
<1>5. G \in [X \X (1 .. N) -> X]
  <2> HIDE DEF after, X, N
  <2>1. QED
    BY <1>4
<1>6. PICK h \in [0 .. N -> X] : Computes(h, N, none, G)
  <2> HIDE DEF X, none, G, N
  <2>1. QED
    BY <1>1, <1>2, <1>5, Recursion
<1>7. ASSUME NEW k \in 1 .. N PROVE k - 1 \in 0 .. N /\ h[k] = after(h[k - 1])
  <2> HIDE DEF X, none, N, after
  <2>1. k - 1 \in 0 .. N
    BY <1>1
  <2>2. h[k] = G[<<h[k - 1], k>>] /\ <<h[k - 1], k>> \in X \X (1 .. N)
    BY <2>1, <1>6 DEF Computes
  <2>3. QED
    BY <2>1, <2>2
<1>8. P(h)
  <2>1. h[0] = none
    BY <1>6 DEF Computes
  <2>2. ASSUME NEW k \in 0 .. N
        PROVE  h[k] = [m \in 0 .. Len(H.node) |->
                         IF m = NULL \/ k = 0 THEN <<>> ELSE <<m>> \o h[k - 1][Get(H, m, f)]]
    <3>1. CASE k = 0
      BY <2>1, <3>1, <1>1
    <3>2. CASE k # 0
      <4>1. k \in 1 .. N
        BY <1>1, <3>2
      <4>2. h[k] = after(h[k - 1])
        BY <4>1, <1>7
      <4>3. QED
        BY <3>2, <4>2, <1>1
    <3>3. QED
      BY <3>1, <3>2
  <2>3. DOMAIN h = 0 .. N /\ h = [k \in 0 .. N |-> h[k]]
    BY <1>6
  <2> HIDE DEF N, none, after, G, X
  <2>4. QED
    BY <2>2, <2>3
<1>9. P(from)
  <2> HIDE DEF P
  <2>1. QED
    BY <1>8
<1>10. Chain(H, n, f) = from[N][n]
  BY DEF Chain
<1>11. /\ \A m \in C : from[0][m] = <<>>
       /\ \A k \in 1 .. N : \A m \in C :
            from[k][m] = IF m = NULL THEN <<>> ELSE <<m>> \o from[k - 1][Get(H, m, f)]
  <2>1. ASSUME NEW a, P(a)
        PROVE  /\ \A m \in C : a[0][m] = <<>>
               /\ \A k \in 1 .. N : \A m \in C :
                    a[k][m] = IF m = NULL THEN <<>> ELSE <<m>> \o a[k - 1][Get(H, m, f)]
    <3> HIDE DEF N
    <3>1. 0 \in 0 .. N /\ \A k \in 1 .. N : k \in 0 .. N /\ k # 0
      BY <1>1
    <3>2. \A k \in 0 .. N :
            a[k] = [m \in C |-> IF m = NULL \/ k = 0 THEN <<>> ELSE <<m>> \o a[k - 1][Get(H, m, f)]]
      BY <2>1, <1>1
    <3> HIDE DEF C
    <3>3. \A m \in C : a[0][m] = <<>>
      BY <3>1, <3>2
    <3>4. ASSUME NEW k \in 1 .. N, NEW m \in C
          PROVE  a[k][m] = IF m = NULL THEN <<>> ELSE <<m>> \o a[k - 1][Get(H, m, f)]
      <4>1. a[k] = [l \in C |-> IF l = NULL \/ k = 0 THEN <<>> ELSE <<l>> \o a[k - 1][Get(H, l, f)]]
        BY <3>1, <3>2
      <4>2. QED
        BY <3>1, <4>1
    <3>5. QED
      BY <3>3, <3>4
  <2> HIDE DEF P, from
  <2>2. QED
    BY <1>9, <2>1
<1> HIDE DEF from
<1> DEFINE T == {k \in 0 .. N : \A m \in C : Follows(H, f, from[k][m], m, k)}
<1>12. 0 \in T
  <2>1. ASSUME NEW m \in C PROVE Follows(H, f, from[0][m], m, 0)
    <3>1. from[0][m] = <<>> /\ <<>> \in Seq(1 .. Count(H)) /\ Len(<<>>) = 0
      BY <1>11
    <3>2. QED
      BY <3>1 DEF Follows
  <2>2. QED
    BY <2>1, <1>1
<1>13. ASSUME NEW k \in 0 .. N, k < N /\ k \in T PROVE k + 1 \in T
  <2> HIDE DEF N
  <2>1. k + 1 \in 1 .. N /\ k + 1 - 1 = k /\ k \in Nat /\ k + 1 \in 0 .. N
    BY <1>1, <1>13
  <2>3. \A m \in C :
          from[k + 1][m] = IF m = NULL THEN <<>> ELSE <<m>> \o from[k + 1 - 1][Get(H, m, f)]
    <3>1. ASSUME NEW i \in 1 .. N, i = k + 1, NEW m \in C
          PROVE  from[i][m] = IF m = NULL THEN <<>> ELSE <<m>> \o from[k + 1 - 1][Get(H, m, f)]
      <4>1. from[i][m] = IF m = NULL THEN <<>> ELSE <<m>> \o from[i - 1][Get(H, m, f)]
        BY <1>11
      <4>2. QED
        BY <3>1, <4>1
    <3>2. QED
      BY <2>1, <3>1
  <2>2. ASSUME NEW m \in C PROVE Follows(H, f, from[k + 1][m], m, k + 1)
    <3>1. CASE m = NULL
      <4>1. from[k + 1][m] = <<>> /\ <<>> \in Seq(1 .. Count(H)) /\ Len(<<>>) = 0
        <5>1. from[k + 1][m] = <<>>
          BY <2>1, <2>3, <3>1
        <5>2. QED
          BY <5>1
      <4>2. QED
        BY <2>1, <3>1, <4>1 DEF Follows
    <3>2. CASE m # NULL
      <4>1. Get(H, m, f) \in C /\ m \in 1 .. Count(H)
        BY <1>3, <3>2
      <4>2. from[k + 1][m] = <<m>> \o from[k][Get(H, m, f)]
        BY <2>1, <2>3, <3>2
      <4>3. Follows(H, f, from[k][Get(H, m, f)], Get(H, m, f), k)
        BY <1>13, <4>1
      <4>4. QED
        BY <4>1, <4>2, <4>3, <2>1, FollowsOn
    <3>3. QED
      BY <3>1, <3>2
  <2>4. QED
    BY <2>1, <2>2
<1>14. N \in T
  <2> HIDE DEF N, T
  <2>1. 0 .. N \subseteq T
    BY <1>1, <1>12, <1>13, Induction
  <2>2. QED
    BY <2>1, <1>1
<1>15. QED
  BY <1>10, <1>14

(* What is in the list: nothing but what n leads to, and, when the field   *)
(* leads on to later nodes only, all of that.                              *)
LEMMA InChain ==
  ASSUME NEW H \in Heaps, NEW f, NEW n \in 0 .. Count(H), NEW c, NEW k \in Nat,
         Follows(H, f, c, n, k), NEW S, n # NULL => n \in S,
         \A m \in S : m \in 1 .. Count(H) /\ Get(H, m, f) # NULL => Get(H, m, f) \in S
  PROVE  \A i \in 1 .. Len(c) : c[i] \in S
<1> DEFINE N == Len(c)
           T == {0} \cup {i \in 1 .. N : c[i] \in S}
<1>1. c \in Seq(1 .. Count(H)) /\ N \in Nat /\ \A i \in 1 .. N : c[i] \in 1 .. Count(H)
  BY LenProperties, ElementOfSeq DEF Follows
<1> HIDE DEF N
<1>2. ASSUME NEW i \in 0 .. N, i < N /\ i \in T PROVE i + 1 \in T
  <2>1. i + 1 \in 1 .. N
    BY <1>1, <1>2
  <2>2. c[i + 1] # NULL
    BY <1>1, <2>1 DEF NULL
  <2>3. CASE i = 0
    <3>1. c[1] = n
      BY <1>1, <1>2, <2>3 DEF Follows, N
    <3>2. QED
      BY <2>1, <2>2, <2>3, <3>1
  <2>4. CASE i # 0
    <3>1. i \in 1 .. N /\ c[i] \in S /\ c[i] \in 1 .. Count(H)
      BY <1>1, <1>2, <2>4
    <3>2. Get(H, c[i], f) = c[i + 1]
      BY <3>1, <1>2 DEF Follows, N
    <3>3. QED
      BY <2>1, <2>2, <3>1, <3>2
  <2>5. QED
    BY <2>3, <2>4
<1>3. 0 .. N \subseteq T
  <2> HIDE DEF T
  <2>1. 0 \in T
    BY DEF T
  <2>2. QED
    BY <1>1, <1>2, <2>1, Induction
<1>4. QED
  BY <1>1, <1>3 DEF N

LEMMA ChainUp ==
  ASSUME NEW H \in Heaps, NEW f, Follow(H, f), NEW n \in 0 .. Count(H), NEW S,
         n # NULL => n \in S,
         \A m \in S : m \in 1 .. Count(H) /\ Get(H, m, f) # NULL =>
                        Get(H, m, f) \in S /\ Get(H, m, f) > m
  PROVE  LET c == Chain(H, n, f) IN
         /\ c \in Seq(1 .. Count(H)) /\ ToSet(c) \subseteq S \cap 1 .. Count(H)
         /\ n = NULL => c = <<>> /\ LastOf(c) = NULL
         /\ n # NULL =>
              /\ Len(c) >= 1 /\ c[1] = n /\ n \in ToSet(c)
              /\ LastOf(c) \in ToSet(c) /\ Get(H, LastOf(c), f) = NULL
              /\ LastOf(c) = c[Len(c)] /\ LastOf(c) >= n
         /\ \A m \in ToSet(c) : Get(H, m, f) # NULL => Get(H, m, f) \in ToSet(c)
         /\ \A m \in ToSet(c) : Get(H, m, f) = NULL => m = LastOf(c)
         /\ \A i \in 1 .. Len(c) : i < Len(c) => c[i + 1] = Get(H, c[i], f)
<1> DEFINE c == Chain(H, n, f)
           N == Len(c)
<1>1. Follows(H, f, c, n, Fresh(H)) /\ Fresh(H) = Count(H) + 1 /\ Count(H) \in Nat
  BY ChainOf, NodesOf
<1> HIDE DEF c
<1>2. c \in Seq(1 .. Count(H)) /\ N \in Nat /\ \A i \in 1 .. N : c[i] \in 1 .. Count(H)
  BY <1>1, LenProperties, ElementOfSeq DEF Follows
<1>3. \A i \in 1 .. N : c[i] \in S
  <2> HIDE DEF N
  <2>1. Fresh(H) \in Nat
    BY <1>1
  <2>2. \A i \in 1 .. Len(c) : c[i] \in S
    BY <1>1, <2>1, InChain
  <2>3. QED
    BY <2>2 DEF N
<1> HIDE DEF N
<1>4. /\ n = NULL <=> N = 0
      /\ N > 0 => c[1] = n
      /\ \A i \in 1 .. N : i < N => Get(H, c[i], f) = c[i + 1]
      /\ N > 0 /\ N < Fresh(H) => Get(H, c[N], f) = NULL
  BY <1>1 DEF Follows, N
<1>5. ASSUME NEW i \in 1 .. N, i < N PROVE c[i + 1] = Get(H, c[i], f) /\ c[i + 1] > c[i] /\ c[i + 1] # NULL
  <2>1. i + 1 \in 1 .. N
    BY <1>2, <1>5
  <2>2. c[i] \in S /\ c[i] \in 1 .. Count(H) /\ c[i + 1] \in 1 .. Count(H)
    BY <2>1, <1>2, <1>3
  <2>3. Get(H, c[i], f) = c[i + 1] /\ c[i + 1] # NULL
    BY <1>4, <1>5, <2>2 DEF NULL
  <2>4. QED
    BY <2>2, <2>3
<1>6. \A i \in 1 .. N : c[i] >= n + i - 1
  <2> DEFINE T == {0} \cup {i \in 1 .. N : c[i] >= n + i - 1}
  <2>1. ASSUME NEW i \in 0 .. N, i < N /\ i \in T PROVE i + 1 \in T
    <3>1. i + 1 \in 1 .. N /\ c[i + 1] \in 1 .. Count(H) /\ n \in Nat
      BY <1>2, <2>1
    <3>2. CASE i = 0
      <4>1. i + 1 = 1 /\ N > 0 /\ c[1] = n
        BY <3>1, <3>2, <1>2, <1>4, <2>1
      <4>2. c[i + 1] >= n + (i + 1) - 1
        BY <3>1, <4>1
      <4>3. QED
        BY <3>1, <4>2
    <3>3. CASE i # 0
      <4>1. i \in 1 .. N /\ c[i] \in 1 .. Count(H) /\ c[i] >= n + i - 1 /\ c[i + 1] > c[i]
        BY <1>2, <1>5, <2>1, <3>3
      <4>2. c[i + 1] >= n + (i + 1) - 1
        BY <3>1, <4>1
      <4>3. QED
        BY <3>1, <4>2
    <3>4. QED
      BY <3>2, <3>3
  <2>2. 0 .. N \subseteq T
    <3> HIDE DEF T
    <3>1. 0 \in T
      BY DEF T
    <3>2. QED
      BY <1>2, <2>1, <3>1, Induction
  <2>3. QED
    BY <2>2, <1>2
<1>7. N < Fresh(H)
  <2>1. CASE N = 0
    BY <2>1, <1>1
  <2>2. CASE N # 0
    <3>1. N \in 1 .. N /\ c[N] \in 1 .. Count(H) /\ c[N] >= n + N - 1 /\ n \in 1 .. Count(H)
      BY <1>2, <1>4, <1>6, <2>2 DEF NULL
    <3>2. QED
      BY <3>1, <1>1, <1>2
  <2>3. QED
    BY <2>1, <2>2
<1>8. ToSet(c) = {c[i] : i \in 1 .. N}
  BY <1>2 DEF ToSet, N
<1>9. n = NULL => c = <<>> /\ LastOf(c) = NULL
  <2>1. N = 0 => c = <<>>
    BY <1>2, EmptySeq DEF N
  <2>2. QED
    BY <2>1, <1>4 DEF LastOf
<1>10. ASSUME n # NULL
       PROVE  /\ N >= 1 /\ c[1] = n /\ n \in ToSet(c)
              /\ LastOf(c) \in ToSet(c) /\ Get(H, LastOf(c), f) = NULL
              /\ LastOf(c) = c[N] /\ LastOf(c) >= n
  <2>1. N >= 1 /\ 1 \in 1 .. N /\ N \in 1 .. N /\ c # <<>>
    BY <1>2, <1>4, <1>10 DEF N
  <2>2. c[1] = n /\ LastOf(c) = c[N]
    BY <2>1, <1>4 DEF LastOf, N
  <2>3. c[N] >= n
    <3>1. c[N] >= n + N - 1 /\ c[N] \in Int /\ n \in Int
      BY <2>1, <1>2, <1>6
    <3>2. QED
      BY <3>1, <2>1, <1>2
  <2>4. QED
    BY <2>1, <2>2, <2>3, <1>4, <1>7, <1>8
<1>11. ASSUME NEW m \in ToSet(c)
       PROVE  /\ Get(H, m, f) # NULL => Get(H, m, f) \in ToSet(c)
              /\ Get(H, m, f) = NULL => m = LastOf(c)
  <2>1. PICK i \in 1 .. N : m = c[i]
    BY <1>8
  <2>2. CASE i < N
    <3>1. i + 1 \in 1 .. N
      BY <2>2, <1>2
    <3>2. QED
      BY <2>1, <2>2, <3>1, <1>5, <1>8
  <2>3. CASE ~ (i < N)
    <3>1. i = N /\ N # 0
      BY <2>3, <1>2
    <3>2. QED
      BY <2>1, <3>1, <1>4, <1>10
  <2>4. QED
    BY <2>2, <2>3
<1>12. \A i \in 1 .. N : i < N => c[i + 1] = Get(H, c[i], f)
  BY <1>5
<1>13. ToSet(c) \subseteq S \cap 1 .. Count(H)
  BY <1>2, <1>3, <1>8
<1>14. QED
  BY <1>2, <1>9, <1>10, <1>11, <1>12, <1>13 DEF c, N

(* The list of what n leads to, when each node that leads on leads to one  *)
(* of a lower rank: it ends, and no node comes twice.                      *)
LEMMA ChainFalls ==
  ASSUME NEW H \in Heaps, NEW f, Follow(H, f), NEW n \in 0 .. Count(H), NEW S, NEW V,
         n # NULL => n \in S,
         \A m \in S : m \in 1 .. Count(H) =>
           /\ V[m] \in Int
           /\ Get(H, m, f) # NULL => Get(H, m, f) \in S /\ V[Get(H, m, f)] < V[m]
  PROVE  LET c == Chain(H, n, f) IN
         /\ c \in Seq(1 .. Count(H)) /\ Len(c) \in Nat
         /\ n = NULL => c = <<>>
         /\ n # NULL => Len(c) >= 1 /\ c[1] = n
         /\ \A i \in 1 .. Len(c) : c[i] \in S /\ c[i] \in 1 .. Count(H)
         /\ \A i \in 1 .. Len(c) : i < Len(c) => c[i + 1] = Get(H, c[i], f)
         /\ Len(c) >= 1 => Get(H, c[Len(c)], f) = NULL
         /\ \A i, j \in 1 .. Len(c) : i < j => V[c[j]] < V[c[i]]
<1> DEFINE c == Chain(H, n, f)
           N == Len(c)
<1>1. Follows(H, f, c, n, Fresh(H)) /\ Fresh(H) = Count(H) + 1 /\ Count(H) \in Nat
  BY ChainOf, NodesOf
<1> HIDE DEF c
<1>2. c \in Seq(1 .. Count(H)) /\ N \in Nat /\ \A i \in 1 .. N : c[i] \in 1 .. Count(H)
  BY <1>1, LenProperties, ElementOfSeq DEF Follows
<1>3. \A i \in 1 .. N : c[i] \in S
  <2> HIDE DEF N
  <2>1. Fresh(H) \in Nat
    BY <1>1
  <2>2. \A i \in 1 .. Len(c) : c[i] \in S
    BY <1>1, <2>1, InChain
  <2>3. QED
    BY <2>2 DEF N
<1> HIDE DEF N
<1>4. /\ n = NULL <=> N = 0
      /\ N > 0 => c[1] = n
      /\ \A i \in 1 .. N : i < N => Get(H, c[i], f) = c[i + 1]
      /\ N > 0 /\ N < Fresh(H) => Get(H, c[N], f) = NULL
  BY <1>1 DEF Follows, N
<1>5. ASSUME NEW i \in 1 .. N, i < N PROVE i + 1 \in 1 .. N /\ V[c[i + 1]] < V[c[i]]
  <2>1. i + 1 \in 1 .. N
    BY <1>2, <1>5
  <2>2. c[i] \in S /\ c[i] \in 1 .. Count(H) /\ c[i + 1] \in 1 .. Count(H)
    BY <2>1, <1>2, <1>3
  <2>3. Get(H, c[i], f) = c[i + 1] /\ c[i + 1] # NULL
    BY <1>4, <1>5, <2>2 DEF NULL
  <2>4. QED
    BY <2>1, <2>2, <2>3
<1>6. \A i \in 1 .. N : V[c[i]] \in Int
  BY <1>2, <1>3
<1>7. ASSUME NEW i \in 1 .. N PROVE \A j \in 1 .. N : i < j => V[c[j]] < V[c[i]]
  <2> DEFINE T == {k \in 0 .. N : i < k => V[c[k]] < V[c[i]]}
  <2>1. ASSUME NEW k \in 0 .. N, k < N /\ k \in T PROVE k + 1 \in T
    <3>1. k + 1 \in 1 .. N
      BY <1>2, <2>1
    <3>2. CASE k < i
      <4>1. ~ (i < k + 1)
        BY <3>2, <1>2
      <4>2. QED
        BY <3>1, <4>1
    <3>3. CASE k = i
      BY <3>1, <3>3, <2>1, <1>5
    <3>4. CASE i < k
      <4>1. k \in 1 .. N /\ V[c[k]] < V[c[i]]
        BY <3>4, <2>1, <1>2
      <4>2. V[c[k + 1]] < V[c[k]] /\ V[c[k]] \in Int /\ V[c[k + 1]] \in Int /\ V[c[i]] \in Int
        BY <4>1, <3>1, <2>1, <1>5, <1>6
      <4>3. V[c[k + 1]] < V[c[i]]
        BY <4>1, <4>2
      <4>4. QED
        BY <3>1, <4>3
    <3>5. QED
      BY <3>2, <3>3, <3>4, <1>2
  <2>2. 0 .. N \subseteq T
    <3>1. 0 \in T
      BY <1>2
    <3> HIDE DEF T
    <3>2. QED
      BY <1>2, <2>1, <3>1, Induction
  <2>3. QED
    BY <2>2
<1>8. \A i, j \in 1 .. N : i # j => c[i] # c[j]
  <2> SUFFICES ASSUME NEW i \in 1 .. N, NEW j \in 1 .. N, i # j
               PROVE  c[i] # c[j]
    OBVIOUS
  <2>1. i < j \/ j < i
    OBVIOUS
  <2>2. V[c[i]] # V[c[j]]
    BY <2>1, <1>6, <1>7
  <2>3. QED
    BY <2>2
<1>9. N < Fresh(H)
  <2> DEFINE g == [i \in 1 .. N |-> c[i]]
             K == Count(H)
  <2>1. /\ IsFiniteSet(1 .. N) /\ Cardinality(1 .. N) = N
        /\ IsFiniteSet(1 .. K) /\ Cardinality(1 .. K) = K
    <3> HIDE DEF K
    <3>1. K \in Int /\ K >= 0 /\ N \in Int /\ N >= 0
      BY <1>1, <1>2 DEF K
    <3>2. /\ IsFiniteSet(1 .. N) /\ Cardinality(1 .. N) = IF 1 > N THEN 0 ELSE N - 1 + 1
          /\ IsFiniteSet(1 .. K) /\ Cardinality(1 .. K) = IF 1 > K THEN 0 ELSE K - 1 + 1
      BY <3>1, FS_Interval
    <3>3. QED
      BY <3>1, <3>2
  <2>2. g \in [1 .. N -> 1 .. K]
    BY <1>2
  <2>3. \A i, j \in 1 .. N : i # j => g[i] # g[j]
    BY <1>8
  <2> HIDE DEF g, K
  <2>4. ~ (K < N)
    <3>1. SUFFICES ASSUME K < N PROVE FALSE
      OBVIOUS
    <3>2. Cardinality(1 .. K) < Cardinality(1 .. N)
      BY <2>1, <3>1
    <3>3. \E i, j \in 1 .. N : i # j /\ g[i] = g[j]
      BY <2>1, <2>2, <3>2, FS_PigeonHole
    <3>4. QED
      BY <2>3, <3>3
  <2>5. QED
    BY <2>4, <1>1, <1>2 DEF K
<1>10. N = 0 => c = <<>>
  BY <1>2, EmptySeq DEF N
<1>11. QED
  BY <1>2, <1>3, <1>4, <1>7, <1>9, <1>10 DEF c, N

LEMMA ChainEnds ==
  ASSUME NEW H \in Heaps, NEW f, Follow(H, f), NEW n \in 0 .. Count(H),
         n # NULL => Get(H, n, f) = NULL
  PROVE  /\ Chain(H, n, f) = IF n = NULL THEN <<>> ELSE <<n>>
         /\ LastOf(Chain(H, n, f)) = n
<1> DEFINE c == Chain(H, n, f)
<1>1. Follows(H, f, c, n, Fresh(H)) /\ Fresh(H) = Count(H) + 1 /\ Count(H) \in Nat
  BY ChainOf, NodesOf
<1> HIDE DEF c
<1>2. c \in Seq(1 .. Count(H)) /\ Len(c) \in Nat /\ \A i \in 1 .. Len(c) : c[i] \in 1 .. Count(H)
  BY <1>1, LenProperties, ElementOfSeq DEF Follows
<1>3. CASE n = NULL
  <2>1. c = <<>>
    BY <1>1, <1>2, <1>3, EmptySeq DEF Follows
  <2>2. QED
    BY <2>1, <1>3 DEF LastOf, c
<1>4. CASE n # NULL
  <2>1. Len(c) >= 1 /\ c[1] = n
    BY <1>1, <1>2, <1>4 DEF Follows
  <2>2. ASSUME Len(c) > 1 PROVE FALSE
    <3>1. 1 \in 1 .. Len(c) /\ 2 \in 1 .. Len(c) /\ c[1 + 1] = c[2]
      BY <1>2, <2>2
    <3>2. Get(H, c[1], f) = c[2]
      BY <1>1, <2>2, <3>1 DEF Follows
    <3>3. QED
      BY <3>1, <3>2, <2>1, <1>2, <1>4 DEF NULL
  <2>3. Len(c) = 1
    <3> DEFINE N == Len(c)
    <3>1. N \in Nat /\ ~ (N > 1) /\ N >= 1
      BY <2>1, <2>2, <1>2
    <3> HIDE DEF N
    <3>2. N = 1
      BY <3>1
    <3>3. QED
      BY <3>2 DEF N
  <2>4. c = <<n>> /\ c # <<>>
    <3>1. c \in [1 .. 1 -> 1 .. Count(H)] /\ <<n>> \in [1 .. 1 -> 1 .. Count(H)] /\ <<n>>[1] = n
      BY <2>1, <2>3, <1>2, LenProperties
    <3>2. c = <<n>>
      BY <3>1, <2>1
    <3>3. QED
      BY <2>3, <3>2
  <2>5. QED
    BY <2>1, <2>3, <2>4, <1>4 DEF LastOf, c
<1>5. QED
  BY <1>3, <1>4

(* A sum.                                                                  *)
LEMMA AddedOf ==
  ASSUME NEW s \in Seq(Int)
  PROVE  /\ Added(s) \in Int
         /\ Len(s) = 1 => Added(s) = s[1]
         /\ (\A i \in 1 .. Len(s) : s[i] >= 1) => Added(s) >= Len(s)
<1> DEFINE N == Len(s)
           P(a) == a = [i \in 0 .. N |-> IF i = 0 THEN 0 ELSE a[i - 1] + s[i]]
           G == [y \in Int \X (1 .. N) |-> y[1] + s[y[2]]]
           sum == CHOOSE a : P(a)
           T == {i \in 0 .. N : sum[i] \in Int /\ ((\A j \in 1 .. N : s[j] >= 1) => sum[i] >= i)}
<1>1. N \in Nat /\ \A i \in 1 .. N : s[i] \in Int
  BY ElementOfSeq, LenProperties
<1>2. G \in [Int \X (1 .. N) -> Int]
  <2>1. \A y \in Int \X (1 .. N) : y[1] + s[y[2]] \in Int
    BY <1>1
  <2>2. QED
    BY <2>1
<1>3. PICK h \in [0 .. N -> Int] : Computes(h, N, 0, G)
  <2> DEFINE Z == Int
  <2>1. N \in Nat /\ 0 \in Z /\ G \in [Z \X (1 .. N) -> Z]
    BY <1>1, <1>2
  <2> HIDE DEF G, N, Z
  <2>2. \E h \in [0 .. N -> Z] : Computes(h, N, 0, G)
    BY <2>1, Recursion
  <2>3. QED
    BY <2>2 DEF Z
<1>4. ASSUME NEW i \in 1 .. N PROVE h[i] = h[i - 1] + s[i]
  <2> HIDE DEF N
  <2>1. i - 1 \in 0 .. N
    BY <1>1
  <2> HIDE DEF G
  <2>2. h[i] = G[<<h[i - 1], i>>] /\ <<h[i - 1], i>> \in Int \X (1 .. N)
    BY <2>1, <1>3 DEF Computes
  <2>3. QED
    BY <2>2 DEF G
<1>5. P(h)
  <2>1. h[0] = 0
    BY <1>3 DEF Computes
  <2> HIDE DEF N, G
  <2>2. ASSUME NEW i \in 0 .. N PROVE h[i] = IF i = 0 THEN 0 ELSE h[i - 1] + s[i]
    <3>1. i = 0 \/ i \in 1 .. N
      BY <1>1
    <3>2. QED
      BY <1>4, <2>1, <3>1
  <2>3. QED
    BY <2>2
<1>6. P(sum)
  <2> HIDE DEF P
  <2>1. QED
    BY <1>5
<1>7. Added(s) = sum[N]
  BY DEF Added
<1>8. sum[0] = 0 /\ \A i \in 1 .. N : sum[i] = sum[i - 1] + s[i]
  <2>1. ASSUME NEW a, P(a) PROVE a[0] = 0 /\ \A i \in 1 .. N : a[i] = a[i - 1] + s[i]
    <3> HIDE DEF N
    <3>1. 0 \in 0 .. N /\ \A i \in 1 .. N : i \in 0 .. N /\ i # 0
      BY <1>1
    <3>2. QED
      BY <2>1, <3>1
  <2> HIDE DEF P, sum
  <2>2. QED
    BY <1>6, <2>1
<1> HIDE DEF sum, N
<1>9. 0 \in T
  BY <1>1, <1>8
<1>10. ASSUME NEW i \in 0 .. N, i < N /\ i \in T PROVE i + 1 \in T
  <2>1. i + 1 \in 1 .. N /\ i + 1 \in 0 .. N /\ i + 1 - 1 = i
    BY <1>1, <1>10
  <2>2. sum[i + 1] = sum[i] + s[i + 1] /\ s[i + 1] \in Int /\ sum[i] \in Int
    BY <2>1, <1>1, <1>8, <1>10
  <2>3. QED
    BY <2>1, <2>2, <1>10
<1>11. 0 .. N \subseteq T
  <2> HIDE DEF T
  <2>1. QED
    BY <1>1, <1>9, <1>10, Induction
<1>12. N \in T
  BY <1>1, <1>11
<1>13. N = 1 => sum[N] = s[1]
  BY <1>1, <1>8
<1>14. QED
  BY <1>7, <1>12, <1>13 DEF N
------------------------------------------------------------------------------
(* Heaps whose links lead to nodes and whose measures are numbers.         *)
LinkFields == {"sibling", "parent", "child", "last", "arg_sibling", "friend", "next_hbox"}
NumberFields ==
  {"tag", "line", "h", "v", "width", "height", "depth", "page", "weight", "mean_line"}
TypedHeaps ==
  {H \in Heaps :
     /\ H.list \in [Slots -> 0 .. Count(H)]
     /\ \A n \in 1 .. Count(H) :
          /\ \A f \in LinkFields : Get(H, n, f) \in 0 .. Count(H)
          /\ \A f \in NumberFields : Get(H, n, f) \in Int
          /\ Get(H, n, "target") = NULL
          /\ Type(H, n) = "hbox" => Get(H, n, "visible") \in Size}
Fit(H, f, x) ==
  \/ f \in LinkFields /\ x \in 0 .. Count(H)
  \/ f \in NumberFields /\ x \in Int
  \/ f = "visible" /\ x \in Size

LEMMA TypedOf ==
  ASSUME NEW H \in TypedHeaps
  PROVE  /\ H \in Heaps /\ Count(H) \in Nat
         /\ \A n \in 0 .. Count(H) :
              /\ \A f \in LinkFields : Get(H, n, f) \in 0 .. Count(H)
              /\ \A f \in NumberFields : Get(H, n, f) \in Int
              /\ Get(H, n, "target") = NULL
         /\ \A f \in LinkFields \cup {"target"} : Follow(H, f)
<1>1. H \in Heaps /\ Count(H) \in Nat /\ \A f : Get(H, NULL, f) = 0
  BY NodesOf DEF TypedHeaps
<1>2. ASSUME NEW n \in 0 .. Count(H)
      PROVE  /\ \A f \in LinkFields : Get(H, n, f) \in 0 .. Count(H)
             /\ \A f \in NumberFields : Get(H, n, f) \in Int
             /\ Get(H, n, "target") = NULL
  <2>1. CASE n = NULL
    BY <1>1, <2>1 DEF NULL
  <2>2. CASE n # NULL
    <3>1. n \in 1 .. Count(H)
      BY <2>2, <1>1 DEF NULL
    <3>2. QED
      BY <3>1 DEF TypedHeaps
  <2>3. QED
    BY <2>1, <2>2
<1>3. QED
  BY <1>1, <1>2 DEF Follow, NULL

LEMMA FitValues ==
  ASSUME NEW H \in TypedHeaps, NEW f, NEW x, Fit(H, f, x)
  PROVE  f # "type" /\ x \in Values
<1>1. Count(H) \in Nat
  BY TypedOf
<1>2. QED
  BY <1>1 DEF Fit, LinkFields, NumberFields, Values

LEMMA WroteTyped ==
  ASSUME NEW H \in TypedHeaps, NEW G, NEW N, NEW f, NEW x, Wrote(H, G, N, f, x), Fit(H, f, x)
  PROVE  G \in TypedHeaps
<1>1. G \in Heaps /\ Count(G) = Count(H) /\ G.list = H.list /\ Count(H) \in Nat
  BY TypedOf DEF Wrote
<1>2. ASSUME NEW n \in 1 .. Count(G)
      PROVE  /\ \A g \in LinkFields : Get(G, n, g) \in 0 .. Count(G)
             /\ \A g \in NumberFields : Get(G, n, g) \in Int
             /\ Get(G, n, "target") = NULL
             /\ Type(G, n) = "hbox" => Get(G, n, "visible") \in Size
  <2>1. n \in 0 .. Count(H) /\ n \in 1 .. Count(H)
    BY <1>1
  <2>2. /\ Type(G, n) = Type(H, n)
        /\ \A g : g # "type" => Get(G, n, g) = Get(H, n, g) \/ (g = f /\ Get(G, n, g) = x)
    BY <2>1 DEF Wrote
  <2>3. ASSUME NEW g \in LinkFields PROVE Get(G, n, g) \in 0 .. Count(G)
    BY <1>1, <2>1, <2>2 DEF TypedHeaps, LinkFields, NumberFields, Fit
  <2>4. ASSUME NEW g \in NumberFields PROVE Get(G, n, g) \in Int
    BY <1>1, <2>1, <2>2 DEF TypedHeaps, LinkFields, NumberFields, Fit
  <2>5. Get(G, n, "target") = NULL
    BY <1>1, <2>1, <2>2 DEF TypedHeaps, LinkFields, NumberFields, Fit
  <2>6. ASSUME Type(G, n) = "hbox" PROVE Get(G, n, "visible") \in Size
    <3>1. Get(H, n, "visible") \in Size
      BY <2>1, <2>2, <2>6 DEF TypedHeaps
    <3>2. f = "visible" => x \in Size
      BY DEF Fit, LinkFields, NumberFields
    <3>3. Get(G, n, "visible") = Get(H, n, "visible") \/ (f = "visible" /\ Get(G, n, "visible") = x)
      BY <2>2
    <3>4. QED
      BY <3>1, <3>2, <3>3
  <2>7. QED
    BY <2>3, <2>4, <2>5, <2>6
<1>3. G.list \in [Slots -> 0 .. Count(G)]
  BY <1>1 DEF TypedHeaps
<1>4. QED
  BY <1>1, <1>2, <1>3 DEF TypedHeaps

LEMMA SetTyped ==
  ASSUME NEW H \in TypedHeaps, NEW n \in 0 .. Count(H), NEW f, NEW x, Fit(H, f, x)
  PROVE  Wrote(H, Set(H, n, f, x), {n}, f, x) /\ Set(H, n, f, x) \in TypedHeaps
<1>1. Wrote(H, Set(H, n, f, x), {n}, f, x)
  BY TypedOf, FitValues, SetOf
<1>2. QED
  BY <1>1, WroteTyped

LEMMA SetAllTyped ==
  ASSUME NEW H \in TypedHeaps, NEW s \in Seq(0 .. Count(H)), NEW f, NEW x, Fit(H, f, x)
  PROVE  /\ Wrote(H, SetAll(H, s, f, x), {s[i] : i \in 1 .. Len(s)}, f, x)
         /\ SetAll(H, s, f, x) \in TypedHeaps
<1>1. Wrote(H, SetAll(H, s, f, x), {s[i] : i \in 1 .. Len(s)}, f, x)
  BY TypedOf, FitValues, SetAllOf
<1>2. QED
  BY <1>1, WroteTyped

LEMMA NewTyped ==
  ASSUME NEW H \in TypedHeaps, NEW type \in ContentTypes, NEW data,
         \A f \in DOMAIN data : data[f] \in Int,
         \A f \in DOMAIN data \cap LinkFields : data[f] \in 0 .. Count(H),
         "target" \notin DOMAIN data
  PROVE  Made1(H, New(H, type, data), type, data) /\ New(H, type, data) \in TypedHeaps
<1> DEFINE G == New(H, type, data)
           n == Fresh(H)
<1>1. Made1(H, G, type, data)
  BY TypedOf, NewOf
<1>2. H \in Heaps /\ Count(H) \in Nat /\ n = Count(H) + 1
  BY TypedOf, NodesOf
<1> HIDE DEF G
<1>3. G \in Heaps /\ Count(G) = Count(H) + 1 /\ G.list = H.list
  BY <1>1 DEF Made1
<1>4. G.list \in [Slots -> 0 .. Count(G)]
  <2>1. H.list \in [Slots -> 0 .. Count(H)]
    BY DEF TypedHeaps
  <2>2. QED
    BY <2>1, <1>2, <1>3
<1>5. \A f : Given(data, f) \in Int /\ (f \in LinkFields => Given(data, f) \in 0 .. Count(H))
  BY <1>2 DEF Given
<1>6. ASSUME NEW m \in 1 .. Count(G)
      PROVE  /\ \A f \in LinkFields : Get(G, m, f) \in 0 .. Count(G)
             /\ \A f \in NumberFields : Get(G, m, f) \in Int
             /\ Get(G, m, "target") = NULL
             /\ Type(G, m) = "hbox" => Get(G, m, "visible") \in Size
  <2>1. CASE m = n
    <3>1. \A f : f \notin {"type", "visible"} => Get(G, m, f) = IF f \in Fields[type] THEN Given(data, f) ELSE 0
      BY <1>1, <2>1 DEF Made1
    <3>2. ASSUME NEW f \in LinkFields PROVE Get(G, m, f) \in 0 .. Count(G)
      BY <1>2, <1>3, <1>5, <3>1 DEF LinkFields
    <3>3. ASSUME NEW f \in NumberFields PROVE Get(G, m, f) \in Int
      BY <1>5, <3>1 DEF NumberFields
    <3>4. Given(data, "target") = 0
      BY DEF Given
    <3>5. Get(G, m, "target") = NULL
      BY <3>1, <3>4 DEF NULL
    <3>6. ASSUME Type(G, m) = "hbox" PROVE Get(G, m, "visible") \in Size
      <4>1. Get(G, m, "visible") = SizeOf(G, m)
        BY <1>1, <2>1, <3>6 DEF Made1
      <4>2. /\ Get(G, m, "h") \in Int /\ Get(G, m, "v") \in Int /\ Get(G, m, "width") \in Int
            /\ Get(G, m, "height") \in Int /\ Get(G, m, "depth") \in Int
        BY <3>3 DEF NumberFields
      <4>3. QED
        BY <4>1, <4>2 DEF SizeOf, Size
    <3>7. QED
      BY <3>2, <3>3, <3>5, <3>6
  <2>2. CASE m # n
    <3>1. m \in 1 .. Count(H) /\ m \in 0 .. Count(H)
      BY <2>2, <1>2, <1>3
    <3>2. Type(G, m) = Type(H, m) /\ \A f : f # "type" => Get(G, m, f) = Get(H, m, f)
      BY <1>1, <3>1 DEF Made1
    <3>3. QED
      BY <1>2, <1>3, <3>1, <3>2 DEF TypedHeaps, LinkFields, NumberFields
  <2>3. QED
    BY <2>1, <2>2
<1>7. G \in TypedHeaps
  BY <1>3, <1>4, <1>6 DEF TypedHeaps
<1>8. QED
  BY <1>1, <1>7 DEF G
------------------------------------------------------------------------------
(* Nothing has a target that is no proxy: tags, lines and positions are    *)
(* what the node has.                                                      *)
LEMMA OwnOf ==
  ASSUME NEW H \in TypedHeaps, NEW n \in 1 .. Count(H)
  PROVE  /\ Tag(H, n) = IF Type(H, n) \in {"ref", "sheet", "form"} THEN 0 ELSE Get(H, n, "tag")
         /\ Line(H, n) = IF Type(H, n) \in {"ref", "sheet", "form", "input"} THEN 0
                         ELSE Get(H, n, "line")
         /\ Tag(H, n) \in Int /\ Line(H, n) \in Int
         /\ \A f \in {"h", "v"} : Position(H, n, f) = Get(H, n, f)
<1>1. /\ H \in Heaps /\ Follow(H, "target") /\ n \in 0 .. Count(H) /\ n # NULL
      /\ Get(H, n, "target") = NULL /\ Get(H, n, "tag") \in Int /\ Get(H, n, "line") \in Int
      /\ \A f \in {"h", "v"} : Get(H, n, f) \in Int
  BY TypedOf DEF NumberFields, NULL
<1>2. Targets(H, n) = <<n>> /\ Noxy(H, n) = n
  BY <1>1, ChainEnds DEF Targets, Noxy
<1>3. Type(H, n) \in ContentTypes /\ Type(H, n) \notin Proxies
  BY <1>1, NodesOf DEF ContentTypes, Proxies
<1>4. Tag(H, n) = IF Type(H, n) \in {"ref", "sheet", "form"} THEN 0 ELSE Get(H, n, "tag")
  BY <1>1, <1>2, <1>3 DEF Tag, Inherited, OwnField
<1>5. Line(H, n) = IF Type(H, n) \in {"ref", "sheet", "form", "input"} THEN 0
                   ELSE Get(H, n, "line")
  BY <1>1, <1>2, <1>3 DEF Line, Inherited, OwnField
<1>6. ASSUME NEW f \in {"h", "v"} PROVE Position(H, n, f) = Get(H, n, f)
  <2> DEFINE s == [i \in DOMAIN Targets(H, n) |-> Get(H, Targets(H, n)[i], f)]
  <2>1. DOMAIN <<n>> = 1 .. 1 /\ <<n>>[1] = n
    OBVIOUS
  <2>2. s = [i \in 1 .. 1 |-> Get(H, n, f)]
    BY <1>2, <2>1
  <2>3. Get(H, n, f) \in Int
    BY <1>1
  <2>4. s \in Seq(Int) /\ Len(s) = 1 /\ s[1] = Get(H, n, f)
    BY <2>2, <2>3
  <2> HIDE DEF s
  <2>5. Added(s) = Get(H, n, f)
    BY <2>4, AddedOf
  <2>6. QED
    BY <2>5 DEF Position, Summed, s
<1>7. QED
  BY <1>1, <1>4, <1>5, <1>6

(* A node at the head of the list that its tag and its line give.          *)
Befriends(H, G, n) ==
  /\ G \in TypedHeaps /\ Count(G) = Count(H)
  /\ \A m \in 0 .. Count(H) :
       /\ Type(G, m) = Type(H, m)
       /\ \A g : g # "type" => (Has(G, m, g) <=> Has(H, m, g))
       /\ \A g : g \notin {"type", "friend"} => Get(G, m, g) = Get(H, m, g)
  /\ LET i == Tag(H, n) + Line(H, n)
         k == i % NumberOfLists
     IN  IF i < 0
         THEN G.list = H.list /\ \A m \in 0 .. Count(H) : Get(G, m, "friend") = Get(H, m, "friend")
         ELSE /\ k \in Slots /\ G.list = [H.list EXCEPT ![k] = n]
              /\ \A m \in 0 .. Count(H) :
                   Get(G, m, "friend") = IF m = n /\ Has(H, m, "friend") THEN H.list[k]
                                         ELSE Get(H, m, "friend")

LEMMA MakeFriendOf ==
  ASSUME NEW H \in TypedHeaps, NEW n \in 1 .. Count(H)
  PROVE  Befriends(H, MakeFriendTlc(H, n), n)
<1> DEFINE i == Tag(H, n) + Line(H, n)
           k == i % NumberOfLists
           K == Set(H, n, "friend", H.list[k])
           G == [K EXCEPT !.list[k] = n]
<1>1. i \in Int /\ NumberOfLists \in Nat /\ NumberOfLists > 0
  BY OwnOf, ListsAssumption
<1>2. H \in Heaps /\ Count(H) \in Nat /\ H.list \in [Slots -> 0 .. Count(H)] /\ n # NULL
      /\ n \in 0 .. Count(H)
  BY TypedOf DEF TypedHeaps, NULL
<1>3. CASE i < 0
  <2>1. MakeFriendTlc(H, n) = H
    BY <1>2, <1>3 DEF MakeFriendTlc, MakeFriend
  <2>2. QED
    BY <1>3, <2>1 DEF Befriends
<1>4. CASE ~ (i < 0)
  <2>1. k \in Slots
    <3> HIDE DEF i
    <3>1. i \in Nat
      BY <1>1, <1>4
    <3>2. QED
      BY <1>1, <3>1 DEF Slots
  <2>2. MakeFriendTlc(H, n) = G
    BY <1>2, <1>4 DEF MakeFriendTlc, MakeFriend
  <2>3. Fit(H, "friend", H.list[k])
    BY <1>2, <2>1 DEF Fit, LinkFields
  <2> HIDE DEF k
  <2>4. Wrote(H, K, {n}, "friend", H.list[k]) /\ K \in TypedHeaps
    BY <1>2, <2>3, SetTyped
  <2> HIDE DEF K
  <2>5. K.list = H.list /\ Count(K) = Count(H) /\ K = [node |-> K.node, list |-> K.list]
        /\ K.node \in Seq(AllNodes)
    BY <2>4 DEF Wrote, Heaps
  <2>6. G = [node |-> K.node, list |-> [H.list EXCEPT ![k] = n]]
    BY <2>5
  <2>7. [H.list EXCEPT ![k] = n] \in [Slots -> 0 .. Count(H)] /\ 0 .. Count(H) \subseteq Int
    BY <1>2, <2>1
  <2>8. G \in Heaps /\ G.node = K.node /\ G.list = [H.list EXCEPT ![k] = n] /\ Count(G) = Count(H)
    BY <2>5, <2>6, <2>7 DEF Heaps, Count
  <2> HIDE DEF G
  <2>9. \A m, g : Type(G, m) = Type(K, m) /\ (Has(G, m, g) <=> Has(K, m, g)) /\ Get(G, m, g) = Get(K, m, g)
    BY <2>8 DEF Type, Has, Get
  <2>10. G \in TypedHeaps
    <3>1. G.list \in [Slots -> 0 .. Count(G)]
      BY <2>7, <2>8
    <3>2. Count(G) = Count(K)
      BY <2>5, <2>8
    <3>3. QED
      BY <2>4, <2>8, <2>9, <3>1, <3>2 DEF TypedHeaps
  <2>11. \A m \in 0 .. Count(H) :
           /\ Type(G, m) = Type(H, m)
           /\ \A g : g # "type" =>
                /\ Has(G, m, g) <=> Has(H, m, g)
                /\ Get(G, m, g) = IF m \in {n} /\ g = "friend" /\ Has(H, m, "friend")
                                  THEN H.list[k] ELSE Get(H, m, g)
    BY <2>4, <2>9 DEF Wrote
  <2>12. Befriends(H, G, n)
    BY <1>4, <2>1, <2>8, <2>10, <2>11 DEF Befriends, k
  <2>13. QED
    BY <2>2, <2>12
<1>5. QED
  BY <1>3, <1>4

(* Several nodes made friends, one after the other.                        *)
LEMMA BefriendedOf ==
  ASSUME NEW H \in TypedHeaps, NEW s \in Seq(1 .. Count(H))
  PROVE  \E after \in [0 .. Len(s) -> TypedHeaps] :
           /\ after[0] = H /\ Befriended(H, s) = after[Len(s)]
           /\ \A i \in 0 .. Len(s) : Count(after[i]) = Count(H)
           /\ \A i \in 1 .. Len(s) : Befriends(after[i - 1], after[i], s[i])
<1> DEFINE N == Len(s)
           P(a) == a = [i \in 0 .. N |-> IF i = 0 THEN H ELSE MakeFriendTlc(a[i - 1], s[i])]
           G == [y \in TypedHeaps \X (1 .. N) |->
                   IF s[y[2]] \in 1 .. Count(y[1]) THEN MakeFriendTlc(y[1], s[y[2]]) ELSE y[1]]
           after == CHOOSE a : P(a)
<1>1. N \in Nat /\ \A i \in 1 .. N : s[i] \in 1 .. Count(H)
  BY ElementOfSeq, LenProperties
<1>2. ASSUME NEW K \in TypedHeaps, NEW n \in 1 .. Count(K)
      PROVE  MakeFriendTlc(K, n) \in TypedHeaps /\ Count(MakeFriendTlc(K, n)) = Count(K)
  <2>1. Befriends(K, MakeFriendTlc(K, n), n)
    BY MakeFriendOf
  <2>2. QED
    BY <2>1 DEF Befriends
<1>3. G \in [TypedHeaps \X (1 .. N) -> TypedHeaps]
  BY <1>2
<1>4. PICK h \in [0 .. N -> TypedHeaps] : Computes(h, N, H, G)
  <2> HIDE DEF G, N
  <2>1. QED
    BY <1>1, <1>3, Recursion
<1> HIDE DEF N
<1>5. ASSUME NEW i \in 1 .. N, Count(h[i - 1]) = Count(H)
      PROVE  h[i - 1] \in TypedHeaps /\ h[i] = MakeFriendTlc(h[i - 1], s[i])
  <2> HIDE DEF G
  <2>1. i - 1 \in 0 .. N /\ h[i] = G[<<h[i - 1], i>>]
    BY <1>1, <1>4 DEF Computes
  <2>2. <<h[i - 1], i>> \in TypedHeaps \X (1 .. N) /\ s[i] \in 1 .. Count(h[i - 1])
    BY <2>1, <1>5, <1>1
  <2>3. QED
    BY <2>1, <2>2 DEF G
<1>6. \A i \in 0 .. N : Count(h[i]) = Count(H)
  <2> DEFINE S == {i \in 0 .. N : Count(h[i]) = Count(H)}
  <2>1. 0 \in S
    BY <1>1, <1>4 DEF Computes
  <2>2. ASSUME NEW i \in 0 .. N, i < N /\ i \in S PROVE i + 1 \in S
    <3> HIDE DEF G
    <3>1. i + 1 \in 1 .. N /\ i + 1 - 1 = i /\ i + 1 \in 0 .. N
      BY <1>1, <2>2
    <3>2. Count(h[i + 1 - 1]) = Count(H)
      BY <2>2, <3>1
    <3>3. h[i + 1 - 1] \in TypedHeaps /\ h[i + 1] = MakeFriendTlc(h[i + 1 - 1], s[i + 1])
      BY <3>1, <3>2, <1>5
    <3>4. s[i + 1] \in 1 .. Count(h[i + 1 - 1])
      BY <3>1, <3>2, <1>1
    <3>5. Count(h[i + 1]) = Count(H)
      BY <3>2, <3>3, <3>4, <1>2
    <3>6. QED
      BY <3>1, <3>5
  <2> HIDE DEF S
  <2>3. 0 .. N \subseteq S
    BY <1>1, <2>1, <2>2, Induction
  <2>4. QED
    BY <2>3 DEF S
<1>7. \A i \in 1 .. N : i - 1 \in 0 .. N /\ h[i] = MakeFriendTlc(h[i - 1], s[i])
  <2> HIDE DEF G
  <2>1. QED
    BY <1>1, <1>5, <1>6
<1>8. P(h)
  <2> HIDE DEF G
  <2>1. h[0] = H
    BY <1>4 DEF Computes
  <2>2. ASSUME NEW i \in 0 .. N
        PROVE  h[i] = IF i = 0 THEN H ELSE MakeFriendTlc(h[i - 1], s[i])
    <3>1. i = 0 \/ i \in 1 .. N
      BY <1>1
    <3>2. QED
      BY <1>7, <2>1, <3>1
  <2>3. QED
    BY <2>2
<1>9. P(after)
  <2> HIDE DEF P
  <2>1. QED
    BY <1>8
<1>10. Befriended(H, s) = after[N]
  BY DEF Befriended, N
<1>11. after[0] = H /\ \A i \in 1 .. N : after[i] = MakeFriendTlc(after[i - 1], s[i])
  <2>1. ASSUME NEW a, P(a)
        PROVE  a[0] = H /\ \A i \in 1 .. N : a[i] = MakeFriendTlc(a[i - 1], s[i])
    <3>1. 0 \in 0 .. N /\ \A i \in 1 .. N : i \in 0 .. N /\ i # 0
      BY <1>1
    <3>2. QED
      BY <2>1, <3>1
  <2> HIDE DEF P, after
  <2>2. QED
    BY <1>9, <2>1
<1>12. \A i \in 0 .. N : after[i] = h[i]
  <2> HIDE DEF after, P, G
  <2> DEFINE S == {i \in 0 .. N : after[i] = h[i]}
  <2>1. 0 \in S
    BY <1>1, <1>4, <1>11 DEF Computes
  <2>2. ASSUME NEW i \in 0 .. N, i < N /\ i \in S PROVE i + 1 \in S
    <3>1. i + 1 \in 1 .. N /\ i + 1 - 1 = i /\ i + 1 \in 0 .. N
      BY <1>1, <2>2
    <3>2. h[i + 1] = MakeFriendTlc(h[i + 1 - 1], s[i + 1])
          /\ after[i + 1] = MakeFriendTlc(after[i + 1 - 1], s[i + 1])
      BY <3>1, <1>7, <1>11
    <3>3. QED
      BY <3>1, <3>2, <2>2
  <2> HIDE DEF S
  <2>3. 0 .. N \subseteq S
    BY <1>1, <2>1, <2>2, Induction
  <2>4. QED
    BY <2>3 DEF S
<1>13. Befriended(H, s) = h[N] /\ h[0] = H
  <2> HIDE DEF after, G
  <2>1. QED
    BY <1>1, <1>4, <1>10, <1>12 DEF Computes
<1>14. ASSUME NEW i \in 1 .. N PROVE Befriends(h[i - 1], h[i], s[i])
  <2> HIDE DEF after, G
  <2>1. i - 1 \in 0 .. N /\ h[i - 1] \in TypedHeaps /\ s[i] \in 1 .. Count(h[i - 1])
    BY <1>1, <1>6
  <2>2. QED
    BY <2>1, <1>7, MakeFriendOf
<1>15. QED
  BY <1>4, <1>6, <1>13, <1>14 DEF N
------------------------------------------------------------------------------
(* What an operation leaves alone: all but the fields F of the nodes N.    *)
Touch(H, G, N, F) ==
  /\ G \in TypedHeaps /\ Count(G) = Count(H)
  /\ \A m \in 0 .. Count(H) :
       /\ Type(G, m) = Type(H, m)
       /\ \A g : g # "type" =>
            /\ Has(G, m, g) <=> Has(H, m, g)
            /\ m \notin N \/ g \notin F => Get(G, m, g) = Get(H, m, g)

LEMMA TouchSame ==
  ASSUME NEW H \in TypedHeaps, NEW N, NEW F
  PROVE  Touch(H, H, N, F)
BY DEF Touch

LEMMA TouchMore ==
  ASSUME NEW H, NEW G, NEW N, NEW F, NEW N2, NEW F2, Touch(H, G, N, F),
         N \subseteq N2, F \subseteq F2
  PROVE  Touch(H, G, N2, F2)
BY DEF Touch

LEMMA TouchTwice ==
  ASSUME NEW H, NEW G, NEW K, NEW N, NEW F, NEW N2, NEW F2,
         Touch(H, G, N, F), Touch(G, K, N2, F2)
  PROVE  Touch(H, K, N \cup N2, F \cup F2)
<1>1. K \in TypedHeaps /\ Count(K) = Count(H) /\ Count(G) = Count(H)
  BY DEF Touch
<1>2. ASSUME NEW m \in 0 .. Count(H)
      PROVE  /\ Type(K, m) = Type(H, m)
             /\ \A g : g # "type" =>
                  /\ Has(K, m, g) <=> Has(H, m, g)
                  /\ m \notin N \cup N2 \/ g \notin F \cup F2 => Get(K, m, g) = Get(H, m, g)
  BY <1>1 DEF Touch
<1>3. QED
  BY <1>1, <1>2 DEF Touch

LEMMA WroteTouch ==
  ASSUME NEW H \in TypedHeaps, NEW G, NEW N, NEW f, NEW x, Wrote(H, G, N, f, x), Fit(H, f, x)
  PROVE  Touch(H, G, N, {f}) /\ G.list = H.list
<1>1. G \in TypedHeaps
  BY WroteTyped
<1>2. QED
  BY <1>1 DEF Touch, Wrote

LEMMA SetTouch ==
  ASSUME NEW H \in TypedHeaps, NEW n \in 0 .. Count(H), NEW f, NEW x, Fit(H, f, x)
  PROVE  Touch(H, Set(H, n, f, x), {n}, {f}) /\ Set(H, n, f, x).list = H.list
BY SetTyped, WroteTouch

LEMMA BefriendsTouch ==
  ASSUME NEW H, NEW G, NEW n, Befriends(H, G, n)
  PROVE  Touch(H, G, {n}, {"friend"})
<1>1. G \in TypedHeaps /\ Count(G) = Count(H)
  BY DEF Befriends
<1>2. ASSUME NEW m \in 0 .. Count(H)
      PROVE  /\ Type(G, m) = Type(H, m)
             /\ \A g : g # "type" =>
                  /\ Has(G, m, g) <=> Has(H, m, g)
                  /\ m \notin {n} \/ g \notin {"friend"} => Get(G, m, g) = Get(H, m, g)
  BY DEF Befriends
<1>3. QED
  BY <1>1, <1>2 DEF Touch

LEMMA BefriendedTouch ==
  ASSUME NEW H \in TypedHeaps, NEW s \in Seq(1 .. Count(H))
  PROVE  Touch(H, Befriended(H, s), {s[i] : i \in 1 .. Len(s)}, {"friend"})
<1> DEFINE N == Len(s)
           S == {s[i] : i \in 1 .. N}
<1>1. N \in Nat
  BY LenProperties
<1>2. PICK after \in [0 .. N -> TypedHeaps] :
        /\ after[0] = H /\ Befriended(H, s) = after[N]
        /\ \A i \in 1 .. N : Befriends(after[i - 1], after[i], s[i])
  BY BefriendedOf
<1> DEFINE T == {i \in 0 .. N : Touch(H, after[i], S, {"friend"})}
<1> HIDE DEF N
<1>3. 0 \in T
  BY <1>1, <1>2, TouchSame
<1>4. ASSUME NEW i \in 0 .. N, i < N /\ i \in T PROVE i + 1 \in T
  <2> HIDE DEF S
  <2>1. i + 1 \in 1 .. N /\ i + 1 - 1 = i /\ i + 1 \in 0 .. N
    BY <1>1, <1>4
  <2>2. Befriends(after[i], after[i + 1], s[i + 1])
    <3>1. Befriends(after[i + 1 - 1], after[i + 1], s[i + 1])
      BY <2>1, <1>2
    <3>2. QED
      BY <2>1, <3>1
  <2>3. s[i + 1] \in S
    BY <2>1 DEF S
  <2>4. Touch(after[i], after[i + 1], {s[i + 1]}, {"friend"})
    BY <2>2, BefriendsTouch
  <2>5. Touch(after[i], after[i + 1], S, {"friend"})
    BY <2>3, <2>4, TouchMore
  <2>6. Touch(H, after[i], S, {"friend"})
    BY <1>4
  <2>7. Touch(H, after[i + 1], S \cup S, {"friend"} \cup {"friend"})
    BY <2>5, <2>6, TouchTwice
  <2>8. S \cup S = S /\ {"friend"} \cup {"friend"} = {"friend"}
    OBVIOUS
  <2>9. QED
    BY <2>1, <2>7, <2>8
<1>5. N \in T
  <2>1. 0 .. N \subseteq T
    <3> HIDE DEF T
    <3>1. QED
      BY <1>1, <1>3, <1>4, Induction
  <2>2. QED
    BY <1>1, <2>1
<1>6. QED
  BY <1>2, <1>5 DEF N

------------------------------------------------------------------------------
(* A new node in the tree: after the node c, or else as the first child of *)
(* p, whose children until then lose their parent.                         *)
Links == {"sibling", "parent", "child", "last", "arg_sibling"}
Inner == ContentTypes \ {"input", "sheet", "form"}
Attached(H, G, type, data, c, p) ==
  LET n == Fresh(H) IN
  /\ G \in TypedHeaps /\ Count(G) = Count(H) + 1 /\ G.list = H.list
  /\ \A m \in 0 .. Count(H) :
       /\ Type(G, m) = Type(H, m)
       /\ \A g : g # "type" => (Has(G, m, g) <=> Has(H, m, g))
       /\ \A g : g \notin {"type", "sibling", "parent", "child", "last"} =>
            Get(G, m, g) = Get(H, m, g)
       /\ Get(G, m, "sibling") = IF c # NULL /\ m = c THEN n ELSE Get(H, m, "sibling")
       /\ Get(G, m, "child") = IF c = NULL /\ m = p THEN n ELSE Get(H, m, "child")
       /\ Get(G, m, "last") = IF m = p /\ Has(H, p, "last") THEN n ELSE Get(H, m, "last")
       /\ Get(G, m, "parent") = IF c = NULL /\ Get(H, m, "parent") = p THEN NULL
                                ELSE Get(H, m, "parent")
  /\ Type(G, n) = type /\ Get(G, n, "parent") = p
  /\ Get(G, n, "sibling") = NULL /\ Get(G, n, "child") = NULL /\ Get(G, n, "last") = NULL
  /\ Get(G, n, "arg_sibling") = IF c # NULL /\ type \in {"box_bdry", "ref"} THEN c ELSE NULL
  /\ \A f : f \notin Links \cup {"type", "visible"} =>
       Get(G, n, f) = IF f \in Fields[type] THEN Given(data, f) ELSE 0
  /\ type = "hbox" => Get(G, n, "visible") = SizeOf(G, n)
Plain(data) ==
  /\ \A f \in DOMAIN data : data[f] \in Int
  /\ DOMAIN data \cap (LinkFields \cup {"target"}) = {}

LEMMA NewPlain ==
  ASSUME NEW H \in TypedHeaps, NEW type \in ContentTypes, NEW data, Plain(data)
  PROVE  /\ Made1(H, New(H, type, data), type, data) /\ New(H, type, data) \in TypedHeaps
         /\ \A f \in LinkFields : Get(New(H, type, data), Fresh(H), f) = NULL
<1>1. Made1(H, New(H, type, data), type, data) /\ New(H, type, data) \in TypedHeaps
  <2>1. \A f \in DOMAIN data \cap LinkFields : data[f] \in 0 .. Count(H)
    BY DEF Plain
  <2>2. "target" \notin DOMAIN data /\ \A f \in DOMAIN data : data[f] \in Int
    BY DEF Plain
  <2>3. QED
    BY <2>1, <2>2, NewTyped
<1>2. ASSUME NEW f \in LinkFields PROVE Get(New(H, type, data), Fresh(H), f) = NULL
  <2>1. f \notin {"type", "visible"} /\ Given(data, f) = 0
    BY DEF LinkFields, Plain, Given
  <2>2. QED
    BY <1>1, <2>1 DEF Made1, NULL
<1>3. QED
  BY <1>1, <1>2

LEMMA SiblingAttached ==
  ASSUME NEW H \in TypedHeaps, NEW type \in Inner, NEW data, Plain(data),
         NEW c \in 1 .. Count(H), NEW p \in 1 .. Count(H), Get(H, c, "parent") = p
  PROVE  Attached(H, SetSibling(New(H, type, data), c, Fresh(H)), type, data, c, p)
<1> DEFINE n == Fresh(H)
           A == New(H, type, data)
           B == Set(A, c, "sibling", n)
           C == Set(B, n, "arg_sibling", c)
           D == SetAll(C, <<n>>, "parent", p)
           G == Set(D, p, "last", n)
<1>1. /\ H \in Heaps /\ Count(H) \in Nat /\ n = Count(H) + 1 /\ type \in ContentTypes
      /\ c # NULL /\ p # NULL /\ n # NULL /\ n \notin 0 .. Count(H) /\ c # n /\ p # n
      /\ c \in 0 .. Count(H) /\ p \in 0 .. Count(H)
  BY TypedOf, NodesOf DEF NULL, Inner
<1>2. /\ Made1(H, A, type, data) /\ A \in TypedHeaps
      /\ \A f \in LinkFields : Get(A, n, f) = NULL
  BY <1>1, NewPlain
<1> HIDE DEF A
<1>3. Count(A) = Count(H) + 1 /\ A \in Heaps /\ A.list = H.list
      /\ n \in 0 .. Count(A) /\ c \in 0 .. Count(A) /\ p \in 0 .. Count(A)
  BY <1>1, <1>2 DEF Made1
<1>4. Fit(A, "sibling", n)
  BY <1>3 DEF Fit, LinkFields
<1>5. Wrote(A, B, {c}, "sibling", n) /\ B \in TypedHeaps
  BY <1>2, <1>3, <1>4, SetTyped
<1> HIDE DEF B
<1>6. Count(B) = Count(A) /\ Fit(B, "arg_sibling", c)
  BY <1>3, <1>5 DEF Wrote, Fit, LinkFields
<1>7. Wrote(B, C, {n}, "arg_sibling", c) /\ C \in TypedHeaps
  BY <1>3, <1>5, <1>6, SetTyped
<1> HIDE DEF C
<1>8. Count(C) = Count(A) /\ Fit(C, "parent", p) /\ <<n>> \in Seq(0 .. Count(C))
  BY <1>3, <1>6, <1>7 DEF Wrote, Fit, LinkFields
<1>9. Wrote(C, D, {n}, "parent", p) /\ D \in TypedHeaps
  <2>1. Wrote(C, D, {<<n>>[i] : i \in 1 .. Len(<<n>>)}, "parent", p) /\ D \in TypedHeaps
    BY <1>7, <1>8, SetAllTyped
  <2>2. {<<n>>[i] : i \in 1 .. Len(<<n>>)} = {n}
    OBVIOUS
  <2>3. QED
    BY <2>1, <2>2
<1> HIDE DEF D
<1>10. Count(D) = Count(A) /\ Fit(D, "last", n)
  BY <1>3, <1>8, <1>9 DEF Wrote, Fit, LinkFields
<1>11. Wrote(D, G, {p}, "last", n) /\ G \in TypedHeaps
  BY <1>3, <1>9, <1>10, SetTyped
<1> HIDE DEF G
<1>12. Get(A, c, "parent") = p
  BY <1>1, <1>2 DEF Made1
<1>13. Get(C, n, "sibling") = NULL
  <2>1. Get(A, n, "sibling") = NULL
    BY <1>2 DEF LinkFields
  <2>2. Get(B, n, "sibling") = NULL
    BY <1>1, <1>3, <1>5, <2>1 DEF Wrote
  <2>3. QED
    BY <1>3, <1>6, <1>7, <2>2 DEF Wrote
<1>14. Siblings(C, n) = <<n>> /\ LastOf(<<n>>) = n
  <2>1. C \in Heaps /\ Follow(C, "sibling") /\ n \in 0 .. Count(C)
    BY <1>3, <1>7, <1>8, TypedOf DEF LinkFields
  <2>2. QED
    BY <1>1, <1>13, <2>1, ChainEnds DEF Siblings
<1>15. SetSibling(A, c, n) = G
  <2>1. TreeSetSibling(A, c, n) = C
    BY DEF TreeSetSibling, B, C
  <2>2. QED
    BY <1>1, <1>12, <1>14, <2>1 DEF SetSibling, D, G
<1>16. Count(G) = Count(H) + 1 /\ G.list = H.list
  BY <1>3, <1>5, <1>7, <1>9, <1>11, <1>6, <1>8, <1>10 DEF Wrote
<1>17. \A m \in 0 .. Count(A) : \A g : g # "type" =>
         /\ Type(G, m) = Type(A, m)
         /\ Has(G, m, g) <=> Has(A, m, g)
         /\ Get(G, m, g) = IF m = p /\ g = "last" /\ Has(A, p, "last") THEN n
                           ELSE IF m = n /\ g = "parent" /\ Has(A, n, "parent") THEN p
                           ELSE IF m = n /\ g = "arg_sibling" /\ Has(A, n, "arg_sibling") THEN c
                           ELSE IF m = c /\ g = "sibling" /\ Has(A, c, "sibling") THEN n
                           ELSE Get(A, m, g)
  <2>1. ASSUME NEW m \in 0 .. Count(A), NEW g, g # "type"
        PROVE  /\ Type(G, m) = Type(A, m)
               /\ Has(G, m, g) <=> Has(A, m, g)
               /\ Get(G, m, g) = IF m = p /\ g = "last" /\ Has(A, p, "last") THEN n
                                 ELSE IF m = n /\ g = "parent" /\ Has(A, n, "parent") THEN p
                                 ELSE IF m = n /\ g = "arg_sibling" /\ Has(A, n, "arg_sibling") THEN c
                                 ELSE IF m = c /\ g = "sibling" /\ Has(A, c, "sibling") THEN n
                                 ELSE Get(A, m, g)
    <3>1. Type(B, m) = Type(A, m) /\ (Has(B, m, g) <=> Has(A, m, g))
          /\ Get(B, m, g) = IF m \in {c} /\ g = "sibling" /\ Has(A, m, "sibling") THEN n ELSE Get(A, m, g)
      BY <1>5, <2>1 DEF Wrote
    <3>2. Type(C, m) = Type(B, m) /\ (Has(C, m, g) <=> Has(B, m, g))
          /\ Get(C, m, g) = IF m \in {n} /\ g = "arg_sibling" /\ Has(B, m, "arg_sibling") THEN c ELSE Get(B, m, g)
      BY <1>6, <1>7, <2>1 DEF Wrote
    <3>3. Type(D, m) = Type(C, m) /\ (Has(D, m, g) <=> Has(C, m, g))
          /\ Get(D, m, g) = IF m \in {n} /\ g = "parent" /\ Has(C, m, "parent") THEN p ELSE Get(C, m, g)
      BY <1>8, <1>9, <2>1 DEF Wrote
    <3>4. Type(G, m) = Type(D, m) /\ (Has(G, m, g) <=> Has(D, m, g))
          /\ Get(G, m, g) = IF m \in {p} /\ g = "last" /\ Has(D, m, "last") THEN n ELSE Get(D, m, g)
      BY <1>10, <1>11, <2>1 DEF Wrote
    <3>5. QED
      BY <3>1, <3>2, <3>3, <3>4
  <2>2. QED
    BY <2>1
<1>18. /\ \A m \in 0 .. Count(H) :
            /\ Type(A, m) = Type(H, m)
            /\ \A g : g # "type" => (Has(A, m, g) <=> Has(H, m, g)) /\ Get(A, m, g) = Get(H, m, g)
       /\ Type(A, n) = type
  BY <1>2 DEF Made1
<1>19. /\ Has(H, c, "sibling")
       /\ \A f : f # "type" => (Has(A, n, f) <=> f \in Fields[type])
       /\ "parent" \in Fields[type] /\ ("arg_sibling" \in Fields[type] <=> type \in {"box_bdry", "ref"})
  <2>1. Type(H, c) \in ContentTypes /\ (Has(H, c, "sibling") <=> "sibling" \in Fields[Type(H, c)])
    BY <1>1, NodesOf
  <2>2. n \in 1 .. Count(A)
    BY <1>1, <1>3
  <2>3. QED
    BY <1>1, <1>3, <1>18, <2>1, <2>2, NodesOf, FieldsOf DEF Inner
<1>20. ASSUME NEW m \in 0 .. Count(H)
       PROVE  /\ Type(G, m) = Type(H, m)
              /\ \A g : g # "type" => (Has(G, m, g) <=> Has(H, m, g))
              /\ \A g : g \notin {"type", "sibling", "parent", "child", "last"} =>
                   Get(G, m, g) = Get(H, m, g)
              /\ Get(G, m, "sibling") = IF c # NULL /\ m = c THEN n ELSE Get(H, m, "sibling")
              /\ Get(G, m, "child") = IF c = NULL /\ m = p THEN n ELSE Get(H, m, "child")
              /\ Get(G, m, "last") = IF m = p /\ Has(H, p, "last") THEN n ELSE Get(H, m, "last")
              /\ Get(G, m, "parent") = IF c = NULL /\ Get(H, m, "parent") = p THEN NULL
                                       ELSE Get(H, m, "parent")
  <2>1. m \in 0 .. Count(A) /\ m # n
    BY <1>1, <1>3
  <2>2. Has(A, p, "last") <=> Has(H, p, "last")
    BY <1>1, <1>18
  <2>3. Has(A, c, "sibling")
    BY <1>1, <1>18, <1>19
  <2>4. \A g : g # "type" =>
          /\ Type(G, m) = Type(H, m)
          /\ Has(G, m, g) <=> Has(H, m, g)
          /\ Get(G, m, g) = IF m = p /\ g = "last" /\ Has(H, p, "last") THEN n
                            ELSE IF m = c /\ g = "sibling" THEN n
                            ELSE Get(H, m, g)
    BY <1>17, <1>18, <2>1, <2>2, <2>3
  <2>5. QED
    BY <2>4, <1>1
<1>21. /\ Type(G, n) = type /\ Get(G, n, "parent") = p
       /\ Get(G, n, "sibling") = NULL /\ Get(G, n, "child") = NULL /\ Get(G, n, "last") = NULL
       /\ Get(G, n, "arg_sibling") = IF c # NULL /\ type \in {"box_bdry", "ref"} THEN c ELSE NULL
       /\ \A f : f \notin Links \cup {"type", "visible"} =>
            Get(G, n, f) = IF f \in Fields[type] THEN Given(data, f) ELSE 0
       /\ type = "hbox" => Get(G, n, "visible") = SizeOf(G, n)
  <2>1. n \in 0 .. Count(A)
    BY <1>3
  <2>2. \A g : g # "type" =>
          /\ Type(G, n) = type
          /\ Get(G, n, g) = IF g = "parent" THEN p
                            ELSE IF g = "arg_sibling" /\ type \in {"box_bdry", "ref"} THEN c
                            ELSE Get(A, n, g)
    BY <1>1, <1>17, <1>18, <1>19, <2>1
  <2>3. \A g \in Links : Get(A, n, g) = NULL
    BY <1>2 DEF Links, LinkFields
  <2>4. \A f : f \notin {"type", "visible"} => Get(A, n, f) = IF f \in Fields[type] THEN Given(data, f) ELSE 0
    BY <1>2 DEF Made1
  <2>5. type = "hbox" => Get(A, n, "visible") = SizeOf(A, n)
    BY <1>2 DEF Made1
  <2>6. SizeOf(G, n) = SizeOf(A, n)
    BY <2>2 DEF SizeOf
  <2>7. type = "hbox" => Get(G, n, "visible") = SizeOf(G, n)
    BY <2>2, <2>5, <2>6
  <2>8. \A f : f \notin Links \cup {"type", "visible"} =>
          Get(G, n, f) = IF f \in Fields[type] THEN Given(data, f) ELSE 0
    BY <2>2, <2>4 DEF Links
  <2>9. QED
    BY <1>1, <2>2, <2>3, <2>7, <2>8 DEF Links
<1>22. Attached(H, G, type, data, c, p)
  BY <1>11, <1>16, <1>20, <1>21 DEF Attached
<1>23. QED
  BY <1>15, <1>22 DEF A
------------------------------------------------------------------------------
(* The tree: a parent is older than its children and leads to them, and    *)
(* siblings, which have one parent, are in the order of their age.         *)
Roots == {"sheet", "form"}
Boxes == {"vbox", "hbox"}
ParentRight(H, n) ==
  LET p == Get(H, n, "parent") IN
  p # NULL =>
    /\ p < n /\ Type(H, p) \in Roots \cup Boxes /\ Get(H, p, "child") # NULL
    /\ \/ Get(H, p, "child") = n
       \/ \E m \in 1 .. Count(H) :
            m < n /\ Get(H, m, "sibling") = n /\ Get(H, m, "parent") = p
SiblingRight(H, n) ==
  LET s == Get(H, n, "sibling") IN
  s # NULL =>
    /\ Type(H, n) \in Roots => Type(H, s) = Type(H, n) /\ s > n
    /\ Type(H, n) = "input" => Type(H, s) = "input" /\ s < n
    /\ Type(H, n) \in Inner =>
         Type(H, s) \in Inner /\ s > n /\ Get(H, s, "parent") = Get(H, n, "parent")
    /\ Has(H, s, "arg_sibling") => Get(H, s, "arg_sibling") = n
ChildRight(H, n) ==
  LET c == Get(H, n, "child") IN
  c # NULL => Type(H, c) \in Inner /\ Get(H, c, "parent") = n
LastRight(H, n) ==
  LET l == Get(H, n, "last") IN
  Type(H, n) \in Boxes =>
    /\ Get(H, n, "child") = NULL => l = NULL
    /\ Get(H, n, "child") # NULL =>
         l # NULL /\ Get(H, l, "parent") = n /\ Get(H, l, "sibling") = NULL
Tree(H) ==
  \A n \in 1 .. Count(H) :
    ParentRight(H, n) /\ SiblingRight(H, n) /\ ChildRight(H, n) /\ LastRight(H, n)

(* The list of the children of a node.                                     *)
LEMMA ChildrenOf ==
  ASSUME NEW H \in TypedHeaps, Tree(H), NEW p \in 1 .. Count(H)
  PROVE  LET c == Siblings(H, Get(H, p, "child")) IN
         /\ c \in Seq(1 .. Count(H))
         /\ ToSet(c) = {m \in 1 .. Count(H) : Get(H, m, "parent") = p}
         /\ Get(H, p, "child") = NULL => c = <<>> /\ LastOf(c) = NULL
         /\ Get(H, p, "child") # NULL =>
              /\ Len(c) >= 1 /\ c[1] = Get(H, p, "child")
              /\ LastOf(c) \in ToSet(c) /\ Get(H, LastOf(c), "sibling") = NULL
         /\ \A m \in ToSet(c) : Get(H, m, "sibling") = NULL => m = LastOf(c)
         /\ \A i \in 1 .. Len(c) : i < Len(c) => c[i + 1] = Get(H, c[i], "sibling")
<1> DEFINE n == Get(H, p, "child")
           c == Chain(H, n, "sibling")
           S == {m \in 1 .. Count(H) : Get(H, m, "parent") = p}
<1>1. H \in Heaps /\ Count(H) \in Nat /\ Follow(H, "sibling") /\ n \in 0 .. Count(H) /\ p # NULL
      /\ \A m \in 1 .. Count(H) : Get(H, m, "sibling") \in 0 .. Count(H)
  BY TypedOf DEF LinkFields, NULL
<1>2. n # NULL => n \in S
  <2>1. ASSUME n # NULL PROVE n \in S
    <3>1. ChildRight(H, p) /\ n \in 1 .. Count(H)
      BY <1>1, <2>1 DEF Tree, NULL
    <3>2. QED
      BY <2>1, <3>1 DEF ChildRight
  <2>2. QED
    BY <2>1
<1>3. ASSUME NEW m \in 1 .. Count(H), Get(H, m, "parent") = p PROVE Type(H, m) \in Inner
  <2>1. Has(H, m, "parent")
    BY <1>1, <1>3 DEF Get, NULL
  <2>2. Type(H, m) \in ContentTypes /\ "parent" \in Fields[Type(H, m)]
    BY <1>1, <2>1, NodesOf
  <2>3. QED
    BY <2>2, FieldsOf DEF Inner
<1>4. ASSUME NEW m \in S, Get(H, m, "sibling") # NULL
      PROVE  Get(H, m, "sibling") \in S /\ Get(H, m, "sibling") > m
  <2>1. SiblingRight(H, m) /\ Type(H, m) \in Inner /\ Get(H, m, "sibling") \in 1 .. Count(H)
    BY <1>1, <1>3, <1>4 DEF Tree, NULL
  <2>2. QED
    BY <2>1, <1>4 DEF SiblingRight
<1> HIDE DEF n, c
<1>5. /\ c \in Seq(1 .. Count(H)) /\ ToSet(c) \subseteq S
      /\ n = NULL => c = <<>> /\ LastOf(c) = NULL
      /\ n # NULL => /\ Len(c) >= 1 /\ c[1] = n /\ n \in ToSet(c)
                     /\ LastOf(c) \in ToSet(c) /\ Get(H, LastOf(c), "sibling") = NULL
      /\ \A m \in ToSet(c) : Get(H, m, "sibling") # NULL => Get(H, m, "sibling") \in ToSet(c)
      /\ \A m \in ToSet(c) : Get(H, m, "sibling") = NULL => m = LastOf(c)
      /\ \A i \in 1 .. Len(c) : i < Len(c) => c[i + 1] = Get(H, c[i], "sibling")
  <2> HIDE DEF S
  <2>1. \A m \in S : m \in 1 .. Count(H) /\ Get(H, m, "sibling") # NULL =>
                       Get(H, m, "sibling") \in S /\ Get(H, m, "sibling") > m
    BY <1>4
  <2>2. QED
    BY <1>1, <1>2, <2>1, ChainUp DEF c
<1>6. S \subseteq ToSet(c)
  <2> DEFINE N == Count(H)
             T == {k \in 0 .. N : \A m \in S : m <= k => m \in ToSet(c)}
  <2>1. 0 \in T
    BY <1>1
  <2>2. ASSUME NEW k \in 0 .. N, k < N /\ k \in T PROVE k + 1 \in T
    <3>1. k + 1 \in 0 .. N /\ k + 1 \in 1 .. N
      BY <1>1, <2>2
    <3>2. ASSUME NEW m \in S, m <= k + 1 PROVE m \in ToSet(c)
      <4>1. CASE m <= k
        BY <2>2, <4>1
      <4>2. CASE ~ (m <= k)
        <5>1. m = k + 1 /\ m \in 1 .. Count(H) /\ Get(H, m, "parent") = p
          BY <3>2, <4>2, <1>1
        <5>2. ParentRight(H, m)
          BY <5>1 DEF Tree
        <5>3. CASE Get(H, p, "child") = m
          <6>1. n = m /\ n # NULL
            BY <5>1, <5>3 DEF n, NULL
          <6>2. QED
            BY <6>1, <1>5
        <5>4. CASE Get(H, p, "child") # m
          <6>1. PICK l \in 1 .. Count(H) :
                  l < m /\ Get(H, l, "sibling") = m /\ Get(H, l, "parent") = p
            BY <5>1, <5>2, <5>4, <1>1 DEF ParentRight
          <6>2. l \in S /\ l <= k
            BY <6>1, <5>1, <1>1
          <6>3. l \in ToSet(c) /\ m # NULL
            BY <6>2, <2>2, <5>1 DEF NULL
          <6>4. QED
            BY <6>1, <6>3, <1>5
        <5>5. QED
          BY <5>3, <5>4
      <4>3. QED
        BY <4>1, <4>2
    <3>3. QED
      BY <3>1, <3>2
  <2>3. 0 .. N \subseteq T
    <3> HIDE DEF T
    <3>1. QED
      BY <1>1, <2>1, <2>2, Induction
  <2>4. N \in T
    BY <1>1, <2>3
  <2>5. QED
    BY <2>4, <1>1
<1>7. ToSet(c) = S
  BY <1>5, <1>6
<1>8. QED
  BY <1>5, <1>7 DEF Siblings, c, n

(* A node that is not in the tree yet leaves it as it is.                  *)
LEMMA TreeMore ==
  ASSUME NEW H \in TypedHeaps, Tree(H), NEW A \in TypedHeaps, NEW type \in ContentTypes, NEW data,
         Made1(H, A, type, data), SiblingRight(A, Fresh(H)),
         \A f \in LinkFields \ {"sibling"} : Get(A, Fresh(H), f) = NULL
  PROVE  Tree(A)
<1> DEFINE n == Fresh(H)
<1>1. /\ Count(H) \in Nat /\ n = Count(H) + 1 /\ Count(A) = Count(H) + 1 /\ n # NULL
      /\ \A m \in 0 .. Count(H) : \A f \in LinkFields : Get(H, m, f) \in 0 .. Count(H)
      /\ \A m \in 0 .. Count(H) :
           /\ Type(A, m) = Type(H, m)
           /\ \A g : g # "type" => (Has(A, m, g) <=> Has(H, m, g)) /\ Get(A, m, g) = Get(H, m, g)
  BY TypedOf, NodesOf DEF Made1, NULL
<1>2. \A g \in {"sibling", "parent", "child", "last"} : g \in LinkFields
  BY DEF LinkFields
<1>3. ASSUME NEW m \in 1 .. Count(A)
      PROVE  ParentRight(A, m) /\ SiblingRight(A, m) /\ ChildRight(A, m) /\ LastRight(A, m)
  <2>1. CASE m = n
    <3>1. \A g \in {"parent", "child", "last"} : Get(A, m, g) = NULL
      BY <2>1, <1>2
    <3>2. QED
      BY <2>1, <3>1 DEF ParentRight, ChildRight, LastRight
  <2>2. CASE m # n
    <3>1. m \in 1 .. Count(H) /\ m \in 0 .. Count(H)
      BY <2>2, <1>1
    <3>2. ParentRight(H, m) /\ SiblingRight(H, m) /\ ChildRight(H, m) /\ LastRight(H, m)
      BY <3>1 DEF Tree
    <3>3. ParentRight(A, m)
      <4>1. Get(H, m, "parent") \in 0 .. Count(H)
        BY <1>1, <1>2, <3>1
      <4>2. \A l \in 1 .. Count(H) : l \in 1 .. Count(A) /\ l \in 0 .. Count(H)
        BY <1>1
      <4>3. QED
        BY <1>1, <3>1, <3>2, <4>1, <4>2 DEF ParentRight
    <3>4. SiblingRight(A, m)
      <4>1. Get(H, m, "sibling") \in 0 .. Count(H)
        BY <1>1, <1>2, <3>1
      <4>2. QED
        BY <1>1, <3>1, <3>2, <4>1 DEF SiblingRight
    <3>5. ChildRight(A, m)
      <4>1. Get(H, m, "child") \in 0 .. Count(H)
        BY <1>1, <1>2, <3>1
      <4>2. QED
        BY <1>1, <3>1, <3>2, <4>1 DEF ChildRight
    <3>6. LastRight(A, m)
      <4>1. Get(H, m, "last") \in 0 .. Count(H)
        BY <1>1, <1>2, <3>1
      <4>2. QED
        BY <1>1, <3>1, <3>2, <4>1 DEF LastRight
    <3>7. QED
      BY <3>3, <3>4, <3>5, <3>6
  <2>3. QED
    BY <2>1, <2>2
<1>4. QED
  BY <1>3 DEF Tree

LEMMA TreeNew ==
  ASSUME NEW H \in TypedHeaps, Tree(H), NEW A \in TypedHeaps, NEW type \in ContentTypes, NEW data,
         Made1(H, A, type, data), \A f \in LinkFields : Get(A, Fresh(H), f) = NULL
  PROVE  Tree(A)
<1>1. SiblingRight(A, Fresh(H))
  BY DEF SiblingRight, LinkFields
<1>2. QED
  BY <1>1, TreeMore

LEMMA ChildAttached ==
  ASSUME NEW H \in TypedHeaps, Tree(H), NEW type \in Inner, NEW data, Plain(data),
         NEW p \in 1 .. Count(H), Type(H, p) \in Roots \cup Boxes
  PROVE  Attached(H, SetChild(New(H, type, data), p, Fresh(H)), type, data, NULL, p)
<1> DEFINE n == Fresh(H)
           A == New(H, type, data)
           old == Siblings(A, Get(A, p, "child"))
           B == Set(A, p, "child", n)
           C == SetAll(B, old, "parent", NULL)
           D == SetAll(C, <<n>>, "parent", p)
           G == Set(D, p, "last", n)
           S == {old[i] : i \in 1 .. Len(old)}
<1>1. /\ H \in Heaps /\ Count(H) \in Nat /\ n = Count(H) + 1 /\ type \in ContentTypes
      /\ p # NULL /\ n # NULL /\ n \notin 0 .. Count(H) /\ p # n
      /\ p \in 0 .. Count(H)
  BY TypedOf, NodesOf DEF NULL, Inner
<1>2. /\ Made1(H, A, type, data) /\ A \in TypedHeaps
      /\ \A f \in LinkFields : Get(A, n, f) = NULL
  BY <1>1, NewPlain
<1> HIDE DEF A
<1>3. Count(A) = Count(H) + 1 /\ A \in Heaps /\ A.list = H.list /\ Count(A) \in Nat
      /\ n \in 0 .. Count(A) /\ n \in 1 .. Count(A) /\ p \in 0 .. Count(A) /\ p \in 1 .. Count(A)
  BY <1>1, <1>2 DEF Made1
<1>4. Tree(A)
  BY <1>1, <1>2, TreeNew
<1>5. /\ old \in Seq(1 .. Count(A)) /\ S = {m \in 1 .. Count(A) : Get(A, m, "parent") = p}
  <2>1. /\ old \in Seq(1 .. Count(A)) /\ ToSet(old) = {m \in 1 .. Count(A) : Get(A, m, "parent") = p}
    BY <1>2, <1>3, <1>4, ChildrenOf
  <2>2. S = ToSet(old)
    BY <2>1, LenProperties DEF ToSet
  <2>3. QED
    BY <2>1, <2>2
<1>6. Siblings(A, n) = <<n>> /\ LastOf(<<n>>) = n
  <2>1. A \in Heaps /\ Follow(A, "sibling") /\ Get(A, n, "sibling") = NULL
    BY <1>2, TypedOf DEF LinkFields
  <2>2. QED
    BY <1>1, <1>3, <2>1, ChainEnds DEF Siblings
<1> HIDE DEF old, S
<1>7. Fit(A, "child", n)
  BY <1>3 DEF Fit, LinkFields
<1>8. Wrote(A, B, {p}, "child", n) /\ B \in TypedHeaps
  BY <1>2, <1>3, <1>7, SetTyped
<1> HIDE DEF B
<1>9. Count(B) = Count(A) /\ Fit(B, "parent", NULL)
  BY <1>3, <1>8 DEF Wrote, Fit, LinkFields, NULL
<1>10. Wrote(B, C, S, "parent", NULL) /\ C \in TypedHeaps
  <2>1. old \in Seq(0 .. Count(B))
    <3>1. 1 .. Count(A) \subseteq 0 .. Count(A)
      BY <1>3
    <3>2. QED
      BY <1>5, <1>9, <3>1, SeqMonotonic
  <2>2. QED
    BY <1>8, <1>9, <2>1, SetAllTyped DEF S
<1> HIDE DEF C
<1>11. Count(C) = Count(A) /\ Fit(C, "parent", p) /\ <<n>> \in Seq(0 .. Count(C))
  BY <1>3, <1>9, <1>10 DEF Wrote, Fit, LinkFields
<1>12. Wrote(C, D, {n}, "parent", p) /\ D \in TypedHeaps
  <2>1. Wrote(C, D, {<<n>>[i] : i \in 1 .. Len(<<n>>)}, "parent", p) /\ D \in TypedHeaps
    BY <1>10, <1>11, SetAllTyped
  <2>2. {<<n>>[i] : i \in 1 .. Len(<<n>>)} = {n}
    OBVIOUS
  <2>3. QED
    BY <2>1, <2>2
<1> HIDE DEF D
<1>13. Count(D) = Count(A) /\ Fit(D, "last", n)
  BY <1>3, <1>11, <1>12 DEF Wrote, Fit, LinkFields
<1>14. Wrote(D, G, {p}, "last", n) /\ G \in TypedHeaps
  BY <1>3, <1>12, <1>13, SetTyped
<1> HIDE DEF G
<1>15. SetChild(A, p, n) = G
  BY <1>6 DEF SetChild, old, B, C, D, G
<1>16. Count(G) = Count(H) + 1 /\ G.list = H.list
  BY <1>3, <1>8, <1>10, <1>12, <1>14, <1>9, <1>11, <1>13 DEF Wrote
<1>17. \A m \in 0 .. Count(A) : \A g : g # "type" =>
         /\ Type(G, m) = Type(A, m)
         /\ Has(G, m, g) <=> Has(A, m, g)
         /\ Get(G, m, g) = IF m = p /\ g = "last" /\ Has(A, p, "last") THEN n
                           ELSE IF m = n /\ g = "parent" /\ Has(A, n, "parent") THEN p
                           ELSE IF m \in S /\ g = "parent" /\ Has(A, m, "parent") THEN NULL
                           ELSE IF m = p /\ g = "child" /\ Has(A, p, "child") THEN n
                           ELSE Get(A, m, g)
  <2>1. ASSUME NEW m \in 0 .. Count(A), NEW g, g # "type"
        PROVE  /\ Type(G, m) = Type(A, m)
               /\ Has(G, m, g) <=> Has(A, m, g)
               /\ Get(G, m, g) = IF m = p /\ g = "last" /\ Has(A, p, "last") THEN n
                                 ELSE IF m = n /\ g = "parent" /\ Has(A, n, "parent") THEN p
                                 ELSE IF m \in S /\ g = "parent" /\ Has(A, m, "parent") THEN NULL
                                 ELSE IF m = p /\ g = "child" /\ Has(A, p, "child") THEN n
                                 ELSE Get(A, m, g)
    <3>1. Type(B, m) = Type(A, m) /\ (Has(B, m, g) <=> Has(A, m, g))
          /\ Get(B, m, g) = IF m \in {p} /\ g = "child" /\ Has(A, m, "child") THEN n ELSE Get(A, m, g)
      BY <1>8, <2>1 DEF Wrote
    <3>2. Type(C, m) = Type(B, m) /\ (Has(C, m, g) <=> Has(B, m, g))
          /\ Get(C, m, g) = IF m \in S /\ g = "parent" /\ Has(B, m, "parent") THEN NULL ELSE Get(B, m, g)
      BY <1>9, <1>10, <2>1 DEF Wrote
    <3>3. Type(D, m) = Type(C, m) /\ (Has(D, m, g) <=> Has(C, m, g))
          /\ Get(D, m, g) = IF m \in {n} /\ g = "parent" /\ Has(C, m, "parent") THEN p ELSE Get(C, m, g)
      BY <1>11, <1>12, <2>1 DEF Wrote
    <3>4. Type(G, m) = Type(D, m) /\ (Has(G, m, g) <=> Has(D, m, g))
          /\ Get(G, m, g) = IF m \in {p} /\ g = "last" /\ Has(D, m, "last") THEN n ELSE Get(D, m, g)
      BY <1>13, <1>14, <2>1 DEF Wrote
    <3>5. QED
      BY <3>1, <3>2, <3>3, <3>4
  <2>2. QED
    BY <2>1
<1>18. /\ \A m \in 0 .. Count(H) :
            /\ Type(A, m) = Type(H, m)
            /\ \A g : g # "type" => (Has(A, m, g) <=> Has(H, m, g)) /\ Get(A, m, g) = Get(H, m, g)
       /\ Type(A, n) = type
  BY <1>2 DEF Made1
<1>19. /\ Has(H, p, "child")
       /\ \A f : f # "type" => (Has(A, n, f) <=> f \in Fields[type])
       /\ "parent" \in Fields[type]
  <2>1. Type(H, p) \in ContentTypes /\ (Has(H, p, "child") <=> "child" \in Fields[Type(H, p)])
    BY <1>1, NodesOf
  <2>2. QED
    BY <1>1, <1>3, <1>18, <2>1, NodesOf, FieldsOf DEF Inner, Roots, Boxes
<1>20. ASSUME NEW m \in 0 .. Count(H)
       PROVE  /\ Type(G, m) = Type(H, m)
              /\ \A g : g # "type" => (Has(G, m, g) <=> Has(H, m, g))
              /\ \A g : g \notin {"type", "sibling", "parent", "child", "last"} =>
                   Get(G, m, g) = Get(H, m, g)
              /\ Get(G, m, "sibling") = IF NULL # NULL /\ m = NULL THEN n ELSE Get(H, m, "sibling")
              /\ Get(G, m, "child") = IF NULL = NULL /\ m = p THEN n ELSE Get(H, m, "child")
              /\ Get(G, m, "last") = IF m = p /\ Has(H, p, "last") THEN n ELSE Get(H, m, "last")
              /\ Get(G, m, "parent") = IF NULL = NULL /\ Get(H, m, "parent") = p THEN NULL
                                       ELSE Get(H, m, "parent")
  <2>1. m \in 0 .. Count(A) /\ m # n
    BY <1>1, <1>3
  <2>2. (Has(A, p, "last") <=> Has(H, p, "last")) /\ Has(A, p, "child")
    BY <1>1, <1>18, <1>19
  <2>3. m \in S /\ Has(A, m, "parent") <=> Get(H, m, "parent") = p
    <3>1. m \in S <=> m # NULL /\ Get(H, m, "parent") = p
      BY <1>1, <1>3, <1>5, <1>18, <2>1 DEF NULL
    <3>2. Get(H, m, "parent") = p => Has(H, m, "parent") /\ m # NULL
      BY <1>1 DEF Get, NULL, Has
    <3>3. QED
      BY <1>18, <3>1, <3>2
  <2>4. \A g : g # "type" =>
          /\ Type(G, m) = Type(H, m)
          /\ Has(G, m, g) <=> Has(H, m, g)
          /\ Get(G, m, g) = IF m = p /\ g = "last" /\ Has(H, p, "last") THEN n
                            ELSE IF m \in S /\ g = "parent" /\ Has(A, m, "parent") THEN NULL
                            ELSE IF m = p /\ g = "child" THEN n
                            ELSE Get(H, m, g)
    BY <1>17, <1>18, <2>1, <2>2
  <2>5. QED
    BY <2>3, <2>4
<1>21. /\ Type(G, n) = type /\ Get(G, n, "parent") = p
       /\ Get(G, n, "sibling") = NULL /\ Get(G, n, "child") = NULL /\ Get(G, n, "last") = NULL
       /\ Get(G, n, "arg_sibling") = IF NULL # NULL /\ type \in {"box_bdry", "ref"} THEN NULL ELSE NULL
       /\ \A f : f \notin Links \cup {"type", "visible"} =>
            Get(G, n, f) = IF f \in Fields[type] THEN Given(data, f) ELSE 0
       /\ type = "hbox" => Get(G, n, "visible") = SizeOf(G, n)
  <2>1. n \in 0 .. Count(A) /\ n \notin S
    <3>1. Get(A, n, "parent") = NULL
      BY <1>2 DEF LinkFields
    <3>2. QED
      BY <1>1, <1>3, <1>5, <3>1
  <2>2. \A g : g # "type" =>
          /\ Type(G, n) = type
          /\ Get(G, n, g) = IF g = "parent" THEN p ELSE Get(A, n, g)
    BY <1>1, <1>17, <1>18, <1>19, <2>1
  <2>3. \A g \in Links : Get(A, n, g) = NULL
    BY <1>2 DEF Links, LinkFields
  <2>4. \A f : f \notin {"type", "visible"} => Get(A, n, f) = IF f \in Fields[type] THEN Given(data, f) ELSE 0
    BY <1>2 DEF Made1
  <2>5. type = "hbox" => Get(A, n, "visible") = SizeOf(A, n)
    BY <1>2 DEF Made1
  <2>6. SizeOf(G, n) = SizeOf(A, n)
    BY <2>2 DEF SizeOf
  <2>7. type = "hbox" => Get(G, n, "visible") = SizeOf(G, n)
    BY <2>2, <2>5, <2>6
  <2>8. \A f : f \notin Links \cup {"type", "visible"} =>
          Get(G, n, f) = IF f \in Fields[type] THEN Given(data, f) ELSE 0
    BY <2>2, <2>4 DEF Links
  <2>9. QED
    BY <1>1, <2>2, <2>3, <2>7, <2>8 DEF Links
<1>22. Attached(H, G, type, data, NULL, p)
  BY <1>14, <1>16, <1>20, <1>21 DEF Attached
<1>23. QED
  BY <1>15, <1>22 DEF A

(* Attaching a node keeps the tree right.                                  *)
At(H, c, p) ==
  /\ p \in 1 .. Count(H) /\ Type(H, p) \in Roots \cup Boxes
  /\ c # NULL => c \in 1 .. Count(H) /\ Get(H, c, "sibling") = NULL /\ Get(H, c, "parent") = p

LEMMA ChildOfInner ==
  ASSUME NEW H \in TypedHeaps, NEW m \in 1 .. Count(H)
  PROVE  /\ Type(H, m) \in ContentTypes
         /\ Get(H, m, "parent") # NULL => Type(H, m) \in Inner
         /\ Type(H, m) \in Boxes <=> Has(H, m, "last")
         /\ Type(H, m) \in Roots \cup Boxes <=> Has(H, m, "child")
         /\ Has(H, m, "sibling")
         /\ Has(H, m, "parent") <=> Type(H, m) \in Inner
<1>1. H \in Heaps
  BY TypedOf
<1>2. Type(H, m) \in ContentTypes /\ \A f : f # "type" => (Has(H, m, f) <=> f \in Fields[Type(H, m)])
  BY <1>1, NodesOf
<1>3. Get(H, m, "parent") # NULL => Has(H, m, "parent")
  BY DEF Get, NULL
<1>4. QED
  BY <1>2, <1>3, FieldsOf DEF Inner, Boxes, Roots

LEMMA AttachedTree ==
  ASSUME NEW H \in TypedHeaps, Tree(H), NEW G, NEW type \in Inner, NEW data, NEW c, NEW p,
         Attached(H, G, type, data, c, p), At(H, c, p)
  PROVE  Tree(G)
<1> DEFINE n == Fresh(H)
<1>1. /\ Count(H) \in Nat /\ n = Count(H) + 1 /\ Count(G) = Count(H) + 1 /\ n # NULL
      /\ G \in TypedHeaps
      /\ p \in 1 .. Count(H) /\ p # NULL /\ p # n /\ c # n
      /\ Type(G, n) = type
      /\ \A m \in 1 .. Count(G) : m = n \/ m \in 1 .. Count(H)
      /\ \A m \in 1 .. Count(H) : m \in 1 .. Count(G) /\ m \in 0 .. Count(H) /\ m # n /\ m < n /\ m # NULL
  BY TypedOf, NodesOf DEF Attached, At, NULL
<1>2. \A m \in 1 .. Count(H) :
        /\ Get(H, m, "sibling") # NULL => Get(H, m, "sibling") \in 1 .. Count(H)
        /\ Get(H, m, "parent") # NULL => Get(H, m, "parent") \in 1 .. Count(H)
        /\ Get(H, m, "child") # NULL => Get(H, m, "child") \in 1 .. Count(H)
        /\ Get(H, m, "last") # NULL => Get(H, m, "last") \in 1 .. Count(H)
  <2>1. \A m \in 1 .. Count(H) : \A f \in LinkFields : Get(H, m, f) \in 0 .. Count(H)
    BY <1>1, TypedOf
  <2>2. \A m \in 1 .. Count(H) : \A f \in {"sibling", "parent", "child", "last"} :
          Get(H, m, f) \in 0 .. Count(H)
    BY <2>1 DEF LinkFields
  <2>3. QED
    BY <1>1, <2>2 DEF NULL
<1>3. \A m \in 1 .. Count(H) :
        /\ Type(G, m) = Type(H, m)
        /\ Has(G, m, "arg_sibling") <=> Has(H, m, "arg_sibling")
        /\ Get(G, m, "arg_sibling") = Get(H, m, "arg_sibling")
        /\ Get(G, m, "sibling") = IF c # NULL /\ m = c THEN n ELSE Get(H, m, "sibling")
        /\ Get(G, m, "child") = IF c = NULL /\ m = p THEN n ELSE Get(H, m, "child")
        /\ Get(G, m, "last") = IF m = p /\ Type(H, p) \in Boxes THEN n ELSE Get(H, m, "last")
        /\ Get(G, m, "parent") = IF c = NULL /\ Get(H, m, "parent") = p THEN NULL
                                 ELSE Get(H, m, "parent")
  <2>1. Type(H, p) \in Boxes <=> Has(H, p, "last")
    BY <1>1, ChildOfInner
  <2>2. QED
    BY <1>1, <2>1 DEF Attached
<1>4. /\ Get(G, n, "parent") = p
      /\ Get(G, n, "sibling") = NULL /\ Get(G, n, "child") = NULL /\ Get(G, n, "last") = NULL
      /\ Get(G, n, "arg_sibling") = IF c # NULL /\ type \in {"box_bdry", "ref"} THEN c ELSE NULL
  BY DEF Attached
<1>5. \A m \in 1 .. Count(H) :
        ParentRight(H, m) /\ SiblingRight(H, m) /\ ChildRight(H, m) /\ LastRight(H, m)
  BY DEF Tree
<1>6. Has(G, n, "arg_sibling") <=> type \in {"box_bdry", "ref"}
  <2>1. G \in Heaps /\ n \in 1 .. Count(G) /\ type \in ContentTypes
    BY <1>1, TypedOf DEF Inner
  <2>2. QED
    BY <1>1, <2>1, NodesOf, FieldsOf
<1>7. c # NULL => c \in 1 .. Count(H) /\ Get(H, c, "sibling") = NULL /\ Get(H, c, "parent") = p
                  /\ Type(H, c) \in Inner
  BY <1>1, ChildOfInner DEF At
<1> HIDE DEF n
<1>8. ASSUME NEW m \in 1 .. Count(H) PROVE ParentRight(G, m)
  <2> DEFINE q == Get(H, m, "parent")
  <2>1. CASE q = NULL \/ (c = NULL /\ q = p)
    <3>1. Get(G, m, "parent") = NULL
      BY <2>1, <1>3
    <3>2. QED
      BY <3>1 DEF ParentRight
  <2>2. CASE q # NULL /\ ~ (c = NULL /\ q = p)
    <3>1. Get(G, m, "parent") = q /\ q \in 1 .. Count(H) /\ ParentRight(H, m)
      BY <2>2, <1>2, <1>3, <1>5
    <3>2. q < m /\ Type(G, q) \in Roots \cup Boxes /\ Get(G, q, "child") = Get(H, q, "child")
          /\ Get(G, q, "child") # NULL
      BY <2>2, <3>1, <1>3 DEF ParentRight
    <3>3. CASE Get(H, q, "child") = m
      BY <3>1, <3>2, <3>3 DEF ParentRight
    <3>4. CASE Get(H, q, "child") # m
      <4>1. PICK l \in 1 .. Count(H) :
              l < m /\ Get(H, l, "sibling") = m /\ Get(H, l, "parent") = q
        BY <2>2, <3>1, <3>4 DEF ParentRight
      <4>2. l \in 1 .. Count(G) /\ Get(G, l, "sibling") = m /\ Get(G, l, "parent") = q
        BY <2>2, <4>1, <1>1, <1>3, <1>7
      <4>3. QED
        BY <3>1, <3>2, <4>1, <4>2 DEF ParentRight
    <3>5. QED
      BY <3>3, <3>4
  <2>3. QED
    BY <2>1, <2>2
<1>9. ParentRight(G, n)
  <2>1. p < n /\ Type(G, p) \in Roots \cup Boxes
    BY <1>1, <1>3 DEF At
  <2>2. CASE c = NULL
    <3>1. Get(G, p, "child") = n
      BY <2>2, <1>1, <1>3
    <3>2. QED
      BY <2>1, <3>1, <1>1, <1>4 DEF ParentRight
  <2>3. CASE c # NULL
    <3>1. ParentRight(H, c) /\ Get(H, p, "child") # NULL
      BY <2>3, <1>1, <1>5, <1>7 DEF ParentRight
    <3>2. Get(G, p, "child") # NULL /\ c \in 1 .. Count(G) /\ c < n
          /\ Get(G, c, "sibling") = n /\ Get(G, c, "parent") = p
      BY <2>3, <3>1, <1>1, <1>3, <1>7
    <3>3. QED
      BY <2>1, <3>2, <1>4 DEF ParentRight
  <2>4. QED
    BY <2>2, <2>3
<1>10. ASSUME NEW m \in 1 .. Count(H) PROVE SiblingRight(G, m)
  <2> DEFINE s == Get(H, m, "sibling")
  <2>1. CASE c # NULL /\ m = c
    <3>1. Get(G, m, "sibling") = n /\ Type(G, m) \in Inner /\ Type(G, m) \notin Roots \cup {"input"}
          /\ Get(G, m, "parent") = p
      BY <2>1, <1>3, <1>7 DEF Inner, Roots
    <3>2. n > m /\ Type(G, n) \in Inner /\ Get(G, n, "parent") = p
          /\ (Has(G, n, "arg_sibling") => Get(G, n, "arg_sibling") = m)
      BY <2>1, <1>1, <1>4, <1>6
    <3>3. QED
      BY <3>1, <3>2 DEF SiblingRight
  <2>2. CASE ~ (c # NULL /\ m = c)
    <3>1. Get(G, m, "sibling") = s /\ SiblingRight(H, m) /\ Type(G, m) = Type(H, m)
      BY <2>2, <1>3, <1>5
    <3>2. CASE s = NULL
      BY <3>1, <3>2 DEF SiblingRight
    <3>3. CASE s # NULL
      <4>1. s \in 1 .. Count(H) /\ Type(G, s) = Type(H, s)
            /\ (Has(G, s, "arg_sibling") <=> Has(H, s, "arg_sibling"))
            /\ Get(G, s, "arg_sibling") = Get(H, s, "arg_sibling")
        BY <3>3, <1>2, <1>3
      <4>2. Get(H, s, "parent") = Get(H, m, "parent") => Get(G, s, "parent") = Get(G, m, "parent")
        BY <4>1, <1>3
      <4>3. QED
        BY <3>1, <3>3, <4>1, <4>2 DEF SiblingRight
    <3>4. QED
      BY <3>2, <3>3
  <2>3. QED
    BY <2>1, <2>2
<1>11. ASSUME NEW m \in 1 .. Count(H) PROVE ChildRight(G, m)
  <2>1. CASE c = NULL /\ m = p
    BY <2>1, <1>1, <1>3, <1>4 DEF ChildRight
  <2>2. CASE ~ (c = NULL /\ m = p)
    <3> DEFINE k == Get(H, m, "child")
    <3>1. Get(G, m, "child") = k /\ ChildRight(H, m)
      BY <2>2, <1>3, <1>5
    <3>2. ASSUME k # NULL PROVE Type(G, k) \in Inner /\ Get(G, k, "parent") = m
      <4>1. k \in 1 .. Count(H) /\ Type(H, k) \in Inner /\ Get(H, k, "parent") = m
        BY <3>1, <3>2, <1>2 DEF ChildRight
      <4>2. QED
        BY <2>2, <4>1, <1>1, <1>3
    <3>3. QED
      BY <3>1, <3>2 DEF ChildRight
  <2>3. QED
    BY <2>1, <2>2
<1>12. ASSUME NEW m \in 1 .. Count(H) PROVE LastRight(G, m)
  <2>1. ASSUME Type(G, m) \in Boxes
        PROVE  /\ Get(G, m, "child") = NULL => Get(G, m, "last") = NULL
               /\ Get(G, m, "child") # NULL =>
                    /\ Get(G, m, "last") # NULL /\ Get(G, Get(G, m, "last"), "parent") = m
                    /\ Get(G, Get(G, m, "last"), "sibling") = NULL
    <3>1. Type(H, m) \in Boxes /\ LastRight(H, m)
      BY <2>1, <1>3, <1>5
    <3>2. CASE m = p
      <4>1. Get(G, m, "last") = n
        BY <3>1, <3>2, <1>3
      <4>2. Get(G, p, "child") # NULL
        BY <1>1, <1>9, <1>4 DEF ParentRight
      <4>3. QED
        BY <3>2, <4>1, <4>2, <1>1, <1>4
    <3>3. CASE m # p
      <4> DEFINE l == Get(H, m, "last")
      <4>1. Get(G, m, "child") = Get(H, m, "child") /\ Get(G, m, "last") = l
        BY <3>3, <1>3
      <4>2. CASE Get(H, m, "child") = NULL
        BY <4>1, <4>2, <3>1 DEF LastRight
      <4>3. CASE Get(H, m, "child") # NULL
        <5>1. l # NULL /\ l \in 1 .. Count(H) /\ Get(H, l, "parent") = m /\ Get(H, l, "sibling") = NULL
          BY <4>3, <3>1, <1>2 DEF LastRight
        <5>2. Get(G, l, "parent") = m /\ Get(G, l, "sibling") = NULL
          BY <3>3, <5>1, <1>3, <1>7
        <5>3. QED
          BY <4>1, <4>3, <5>1, <5>2
      <4>4. QED
        BY <4>2, <4>3
    <3>4. QED
      BY <3>2, <3>3
  <2>2. QED
    BY <2>1 DEF LastRight
<1>13. SiblingRight(G, n) /\ ChildRight(G, n) /\ LastRight(G, n)
  BY <1>4 DEF SiblingRight, ChildRight, LastRight
<1>14. ASSUME NEW m \in 1 .. Count(G)
       PROVE ParentRight(G, m) /\ SiblingRight(G, m) /\ ChildRight(G, m) /\ LastRight(G, m)
  BY <1>1, <1>8, <1>9, <1>10, <1>11, <1>12, <1>13
<1>15. QED
  BY <1>14 DEF Tree

(* So does all that leaves the links alone.                                *)
LEMMA TouchTree ==
  ASSUME NEW H \in TypedHeaps, Tree(H), NEW G, NEW N, NEW F, Touch(H, G, N, F),
         F \cap Links = {}
  PROVE  Tree(G)
<1>1. Count(G) = Count(H) /\ Count(H) \in Nat
  BY TypedOf DEF Touch
<1>2. \A m \in 0 .. Count(H) :
        /\ Type(G, m) = Type(H, m)
        /\ Has(G, m, "arg_sibling") <=> Has(H, m, "arg_sibling")
        /\ Get(G, m, "sibling") = Get(H, m, "sibling") /\ Get(G, m, "parent") = Get(H, m, "parent")
        /\ Get(G, m, "child") = Get(H, m, "child") /\ Get(G, m, "last") = Get(H, m, "last")
        /\ Get(G, m, "arg_sibling") = Get(H, m, "arg_sibling")
  BY DEF Touch, Links
<1>3. ASSUME NEW m \in 1 .. Count(H)
      PROVE  ParentRight(G, m) /\ SiblingRight(G, m) /\ ChildRight(G, m) /\ LastRight(G, m)
  <2>1. ParentRight(H, m) /\ SiblingRight(H, m) /\ ChildRight(H, m) /\ LastRight(H, m)
        /\ m \in 0 .. Count(H)
    BY <1>1 DEF Tree
  <2>2. /\ Get(H, m, "sibling") \in 0 .. Count(H) /\ Get(H, m, "parent") \in 0 .. Count(H)
        /\ Get(H, m, "child") \in 0 .. Count(H) /\ Get(H, m, "last") \in 0 .. Count(H)
    BY <2>1, TypedOf DEF LinkFields
  <2>3. ParentRight(G, m)
    <3>1. \A l \in 1 .. Count(H) : l \in 0 .. Count(H)
      BY <1>1
    <3>2. QED
      BY <1>1, <1>2, <2>1, <2>2, <3>1 DEF ParentRight
  <2>4. SiblingRight(G, m)
    BY <1>2, <2>1, <2>2 DEF SiblingRight
  <2>5. ChildRight(G, m)
    BY <1>2, <2>1, <2>2 DEF ChildRight
  <2>6. LastRight(G, m)
    BY <1>2, <2>1, <2>2 DEF LastRight
  <2>7. QED
    BY <2>3, <2>4, <2>5, <2>6
<1>4. QED
  BY <1>1, <1>3 DEF Tree
------------------------------------------------------------------------------
(* A set of numbers that are bounded has a greatest.                       *)
LEMMA Largest ==
  ASSUME NEW N \in Nat, NEW T, T \subseteq 0 .. N, T # {}
  PROVE  \E n \in T : \A m \in T : m <= n
<1> DEFINE U == {N - t : t \in T}
<1>1. U \in SUBSET Nat /\ U # {}
  <2>1. \A t \in T : N - t \in Nat
    OBVIOUS
  <2>2. PICK t \in T : TRUE
    OBVIOUS
  <2>3. N - t \in U
    OBVIOUS
  <2>4. QED
    BY <2>1, <2>3
<1>2. PICK u \in U : \A v \in U : u <= v
  <2> HIDE DEF U
  <2>1. QED
    BY <1>1, Least
<1>3. PICK n \in T : u = N - n
  OBVIOUS
<1>4. ASSUME NEW m \in T PROVE m <= n
  <2>1. N - m \in U
    OBVIOUS
  <2> HIDE DEF U
  <2>2. m \in Int /\ n \in Int
    OBVIOUS
  <2>3. N - n <= N - m
    BY <2>1, <1>2, <1>3
  <2>4. QED
    BY <2>2, <2>3
<1>5. QED
  BY <1>4

(* How the nodes nest.  R is the root a node is below, E when it was       *)
(* finished, 0 for what is open: a node is finished before the one it is   *)
(* in, and an open one is in open ones only.                               *)
NestRight(H, R, E, n) ==
  /\ Type(H, n) \in Roots => R[n] = n /\ E[n] = 0
  /\ Type(H, n) \in Inner =>
       LET p == Get(H, n, "parent") IN
       /\ p # NULL /\ R[n] = R[p] /\ Type(H, R[n]) \in Roots
       /\ E[n] = 0 => Type(H, n) \in Boxes /\ Get(H, n, "sibling") = NULL /\ E[p] = 0
       /\ E[n] # 0 => E[p] = 0 \/ E[n] < E[p]
TreeNests(H, R, E, T) ==
  /\ R \in [1 .. Count(H) -> 1 .. Count(H)] /\ E \in [1 .. Count(H) -> 0 .. T]
  /\ T \in Nat /\ T >= 1
  /\ \A n \in 1 .. Count(H) : NestRight(H, R, E, n)
(* The chains of the hboxes of sheets: the latest one comes first, each one*)
(* once it is finished, and then it has a weight.                          *)
NextRight(H, R, E, n) ==
  LET m == Get(H, n, "next_hbox") IN
  /\ m # NULL =>
       /\ Type(H, m) = "hbox" /\ E[m] # 0 /\ R[m] = R[n] /\ Type(H, R[n]) = "sheet"
       /\ Type(H, n) = "hbox" => E[m] < E[n]
  /\ Type(H, n) = "hbox" =>
       /\ E[n] # 0 <=> Get(H, n, "weight") > 0
       /\ (E[n] # 0 /\ Type(H, R[n]) = "sheet") =>
            \E k \in 1 .. Count(H) : Get(H, k, "next_hbox") = n
NextNests(H, R, E) == \A n \in 1 .. Count(H) : NextRight(H, R, E, n)
(* Where the next node comes is open, and what it comes after is finished. *)
PlaceNests(H, C, R, E) ==
  IF C.mode = "main" THEN C.sheet = NULL /\ C.form = NULL
  ELSE /\ C.form # NULL => C.sheet = NULL
       /\ R[C.parent] = IF C.form # NULL THEN C.form ELSE C.sheet
       /\ E[C.parent] = 0
       /\ C.child = NULL => Get(H, C.parent, "child") = NULL
       /\ C.child # NULL => Get(H, C.child, "parent") = C.parent /\ E[C.child] # 0
Nests(H, R, E, T) == TreeNests(H, R, E, T) /\ NextNests(H, R, E)

LEMMA NestOf ==
  ASSUME NEW H \in TypedHeaps, Tree(H), NEW R, NEW E, NEW T, TreeNests(H, R, E, T),
         NEW n \in 1 .. Count(H)
  PROVE  /\ R[n] \in 1 .. Count(H) /\ E[n] \in 0 .. T /\ T \in Nat /\ T >= 1
         /\ Type(H, n) \in Inner =>
              /\ Get(H, n, "parent") \in 1 .. Count(H) /\ Get(H, n, "parent") < n
              /\ Type(H, Get(H, n, "parent")) \in Roots \cup Boxes
         /\ NestRight(H, R, E, n)
<1>1. R[n] \in 1 .. Count(H) /\ E[n] \in 0 .. T /\ NestRight(H, R, E, n) /\ T \in Nat /\ T >= 1
  BY DEF TreeNests
<1>2. Get(H, n, "parent") \in 0 .. Count(H) /\ ParentRight(H, n) /\ Count(H) \in Nat
  BY TypedOf DEF LinkFields, Tree
<1>3. Type(H, n) \in Inner => Get(H, n, "parent") # NULL
  BY <1>1 DEF NestRight
<1>4. QED
  BY <1>1, <1>2, <1>3 DEF ParentRight, NULL

(* What leaves the links alone, and the weights and the chains of hboxes.  *)
LEMMA TouchTreeNests ==
  ASSUME NEW H \in TypedHeaps, Tree(H), NEW R, NEW E, NEW T, TreeNests(H, R, E, T),
         NEW G, NEW N, NEW F, Touch(H, G, N, F), F \cap Links = {}
  PROVE  TreeNests(G, R, E, T)
<1>1. /\ Count(G) = Count(H) /\ Count(H) \in Nat
      /\ \A m \in 0 .. Count(H) :
           /\ Type(G, m) = Type(H, m)
           /\ Get(G, m, "parent") = Get(H, m, "parent") /\ Get(G, m, "sibling") = Get(H, m, "sibling")
  BY TypedOf DEF Touch, Links
<1>2. ASSUME NEW n \in 1 .. Count(G)
      PROVE  NestRight(G, R, E, n)
  <2>1. n \in 1 .. Count(H) /\ n \in 0 .. Count(H)
    BY <1>1
  <2>2. NestRight(H, R, E, n) /\ R[n] \in 1 .. Count(H)
    BY <2>1 DEF TreeNests
  <2>3. R[n] \in 0 .. Count(H)
    BY <2>2, <1>1
  <2>4. QED
    BY <2>1, <2>2, <2>3, <1>1 DEF NestRight
<1>3. QED
  BY <1>1, <1>2 DEF TreeNests

LEMMA TouchNests ==
  ASSUME NEW H \in TypedHeaps, Tree(H), NEW R, NEW E, NEW T, Nests(H, R, E, T),
         NEW G, NEW N, NEW F, Touch(H, G, N, F), F \cap (Links \cup {"weight", "next_hbox"}) = {}
  PROVE  Nests(G, R, E, T)
<1>1. TreeNests(G, R, E, T)
  BY TouchTreeNests DEF Nests
<1>2. /\ Count(G) = Count(H) /\ Count(H) \in Nat
      /\ \A m \in 0 .. Count(H) :
           /\ Type(G, m) = Type(H, m)
           /\ Get(G, m, "weight") = Get(H, m, "weight")
           /\ Get(G, m, "next_hbox") = Get(H, m, "next_hbox")
  BY TypedOf DEF Touch
<1>3. ASSUME NEW n \in 1 .. Count(G)
      PROVE  NextRight(G, R, E, n)
  <2>1. n \in 1 .. Count(H) /\ n \in 0 .. Count(H)
    BY <1>2
  <2>2. NextRight(H, R, E, n) /\ R[n] \in 1 .. Count(H)
    BY <2>1 DEF Nests, TreeNests, NextNests
  <2>3. R[n] \in 0 .. Count(H) /\ Get(H, n, "next_hbox") \in 0 .. Count(H)
    BY <2>1, <2>2, <1>2, TypedOf DEF LinkFields
  <2>4. \A k \in 1 .. Count(H) : Get(G, k, "next_hbox") = Get(H, k, "next_hbox")
    BY <1>2
  <2>5. /\ Type(G, n) = Type(H, n) /\ Type(G, R[n]) = Type(H, R[n])
        /\ Get(G, n, "next_hbox") = Get(H, n, "next_hbox")
        /\ Get(G, n, "weight") = Get(H, n, "weight")
        /\ Type(G, Get(H, n, "next_hbox")) = Type(H, Get(H, n, "next_hbox"))
    BY <2>1, <2>3, <1>2
  <2>6. QED
    BY <2>2, <2>4, <2>5, <1>2 DEF NextRight
<1>4. QED
  BY <1>1, <1>2, <1>3 DEF Nests, NextNests

(* The boxes that are open have nothing after them, so what is in one of   *)
(* them is finished when the last of it is.                                *)
LEMMA ChildrenFinished ==
  ASSUME NEW H \in TypedHeaps, Tree(H), NEW R, NEW E, NEW T, TreeNests(H, R, E, T),
         NEW p \in 1 .. Count(H), NEW c,
         c = NULL => Get(H, p, "child") = NULL,
         c # NULL => c \in 1 .. Count(H) /\ Get(H, c, "parent") = p
                     /\ Get(H, c, "sibling") = NULL /\ E[c] # 0
  PROVE  \A m \in 1 .. Count(H) : Get(H, m, "parent") = p => E[m] # 0
<1> SUFFICES ASSUME NEW m \in 1 .. Count(H), Get(H, m, "parent") = p, E[m] = 0
             PROVE  FALSE
  OBVIOUS
<1> DEFINE s == Siblings(H, Get(H, p, "child"))
<1>1. /\ ToSet(s) = {k \in 1 .. Count(H) : Get(H, k, "parent") = p}
      /\ Get(H, p, "child") = NULL => s = <<>>
      /\ \A k \in ToSet(s) : Get(H, k, "sibling") = NULL => k = LastOf(s)
  BY ChildrenOf
<1> HIDE DEF s
<1>2. m \in ToSet(s)
  BY <1>1
<1>3. c # NULL
  <2>1. s # <<>>
    BY <1>2 DEF ToSet
  <2>2. QED
    BY <2>1, <1>1
<1>4. c \in ToSet(s) /\ c = LastOf(s)
  BY <1>1, <1>3
<1>5. Get(H, m, "sibling") = NULL
  <2>1. p # NULL
    BY DEF NULL
  <2>2. Type(H, m) \in Inner
    BY <2>1, ChildOfInner
  <2>3. QED
    BY <2>2 DEF TreeNests, NestRight
<1>6. m = c
  BY <1>1, <1>2, <1>4, <1>5
<1>7. QED
  BY <1>3, <1>6

(* A node comes: one that is open, or one that is finished at once.        *)
Longer1(k, f, x) == [m \in 1 .. k + 1 |-> IF m = k + 1 THEN x ELSE f[m]]

LEMMA AttachedTreeNests ==
  ASSUME NEW H \in TypedHeaps, Tree(H), NEW R, NEW E, NEW T, TreeNests(H, R, E, T),
         NEW G, NEW type \in Inner, NEW data, Plain(data),
         NEW c, NEW p, Attached(H, G, type, data, c, p), At(H, c, p),
         c = NULL => Get(H, p, "child") = NULL, E[p] = 0, c # NULL => E[c] # 0,
         NEW e, e = 1 \/ (e = 0 /\ type \in Boxes)
  PROVE  TreeNests(G, Longer1(Count(H), R, R[p]), Longer1(Count(H), E, e), T)
<1> DEFINE n == Fresh(H)
           R2 == Longer1(Count(H), R, R[p])
           E2 == Longer1(Count(H), E, e)
<1>1. /\ Count(H) \in Nat /\ n = Count(H) + 1 /\ Count(G) = Count(H) + 1 /\ n # NULL
      /\ p \in 1 .. Count(H) /\ p # NULL /\ p # n
      /\ G \in TypedHeaps
      /\ \A m \in 1 .. Count(G) : m = n \/ m \in 1 .. Count(H)
      /\ \A m \in 1 .. Count(H) : m \in 1 .. Count(G) /\ m \in 0 .. Count(H) /\ m # n
  BY TypedOf, NodesOf DEF Attached, At, NULL
<1>2. /\ R2[n] = R[p] /\ E2[n] = e
      /\ \A m \in 1 .. Count(H) : R2[m] = R[m] /\ E2[m] = E[m]
  BY <1>1 DEF Longer1
<1>3. /\ T \in Nat /\ T >= 1
      /\ R \in [1 .. Count(H) -> 1 .. Count(H)] /\ E \in [1 .. Count(H) -> 0 .. T]
  BY DEF TreeNests
<1>4. R2 \in [1 .. Count(G) -> 1 .. Count(G)] /\ E2 \in [1 .. Count(G) -> 0 .. T]
  <2>1. \A m \in 1 .. Count(G) : R2[m] \in 1 .. Count(G) /\ E2[m] \in 0 .. T
    <3>1. R[p] \in 1 .. Count(H) /\ e \in 0 .. T
      BY <1>1, <1>3
    <3>2. \A m \in 1 .. Count(H) : R[m] \in 1 .. Count(H) /\ E[m] \in 0 .. T
      BY <1>3
    <3> HIDE DEF R2, E2, n
    <3>3. QED
      BY <3>1, <3>2, <1>1, <1>2
  <2>2. R2 = [m \in 1 .. Count(G) |-> R2[m]] /\ E2 = [m \in 1 .. Count(G) |-> E2[m]]
    BY <1>1 DEF Longer1
  <2> HIDE DEF R2, E2
  <2>3. QED
    BY <2>1, <2>2
<1> HIDE DEF R2, E2, n
<1>5. \A m \in 0 .. Count(H) :
        /\ Type(G, m) = Type(H, m)
        /\ Get(G, m, "sibling") = IF c # NULL /\ m = c THEN n ELSE Get(H, m, "sibling")
        /\ Get(G, m, "parent") = IF c = NULL /\ Get(H, m, "parent") = p THEN NULL
                                 ELSE Get(H, m, "parent")
  BY DEF Attached, n
<1>6. \A m \in 1 .. Count(H) : Get(G, m, "parent") = Get(H, m, "parent")
  <2>1. \A m \in 1 .. Count(H) : ParentRight(H, m) /\ m \in 0 .. Count(H)
    BY <1>1 DEF Tree
  <2>2. \A m \in 1 .. Count(H) : Get(H, m, "parent") = p => Get(H, p, "child") # NULL
    BY <2>1, <1>1 DEF ParentRight
  <2>3. QED
    BY <2>1, <2>2, <1>5
<1>7. Type(G, n) = type /\ Get(G, n, "parent") = p /\ Get(G, n, "sibling") = NULL
  BY DEF Attached, n
<1>8. Type(H, p) \in Roots \cup Boxes /\ Type(H, R[p]) \in Roots /\ R[p] \in 1 .. Count(H)
  <2>1. Type(H, p) \in Roots \cup Boxes
    BY DEF At
  <2>2. NestRight(H, R, E, p)
    BY <1>1, <1>3 DEF TreeNests
  <2>3. QED
    BY <2>1, <2>2, <1>1, <1>3 DEF NestRight, Boxes, Inner, ContentTypes, Roots
<1>9. ASSUME NEW m \in 1 .. Count(G) PROVE NestRight(G, R2, E2, m)
  <2>1. CASE m = n
    <3>1. Type(G, R2[m]) \in Roots /\ R2[m] = R2[p] /\ E2[p] = 0 /\ E2[m] = e
      BY <2>1, <1>1, <1>2, <1>5, <1>8
    <3>2. type \notin Roots /\ (e = 0 => type \in Boxes)
      BY DEF Inner, Roots
    <3>3. QED
      BY <3>1, <3>2, <2>1, <1>1, <1>7 DEF NestRight
  <2>2. CASE m # n
    <3>1. m \in 1 .. Count(H) /\ m \in 0 .. Count(H) /\ NestRight(H, R, E, m) /\ R[m] \in 1 .. Count(H)
      BY <2>2, <1>1, <1>3 DEF TreeNests
    <3>2. /\ Type(G, m) = Type(H, m) /\ Type(G, R[m]) = Type(H, R[m])
          /\ R2[m] = R[m] /\ E2[m] = E[m] /\ Get(G, m, "parent") = Get(H, m, "parent")
          /\ E[m] = 0 => Get(G, m, "sibling") = Get(H, m, "sibling")
      BY <3>1, <1>1, <1>2, <1>5, <1>6
    <3>3. Type(H, m) \in Inner =>
            Get(H, m, "parent") \in 1 .. Count(H)
      BY <3>1, <1>3, NestOf
    <3>4. QED
      BY <3>1, <3>2, <3>3, <1>2 DEF NestRight
  <2>3. QED
    BY <2>1, <2>2
<1>10. QED
  BY <1>3, <1>4, <1>9 DEF TreeNests, R2, E2

LEMMA AttachedNests ==
  ASSUME NEW H \in TypedHeaps, Tree(H), NEW R, NEW E, NEW T, Nests(H, R, E, T),
         NEW G, NEW type \in Inner, NEW data, "weight" \notin DOMAIN data, Plain(data),
         NEW c, NEW p, Attached(H, G, type, data, c, p), At(H, c, p),
         c = NULL => Get(H, p, "child") = NULL, E[p] = 0, c # NULL => E[c] # 0,
         NEW e, (e = 1 /\ type # "hbox") \/ (e = 0 /\ type \in Boxes)
  PROVE  Nests(G, Longer1(Count(H), R, R[p]), Longer1(Count(H), E, e), T)
<1> DEFINE n == Fresh(H)
           R2 == Longer1(Count(H), R, R[p])
           E2 == Longer1(Count(H), E, e)
<1>1. /\ Count(H) \in Nat /\ n = Count(H) + 1 /\ Count(G) = Count(H) + 1 /\ n # NULL
      /\ p \in 1 .. Count(H) /\ p # NULL /\ p # n
      /\ G \in TypedHeaps
      /\ \A m \in 1 .. Count(G) : m = n \/ m \in 1 .. Count(H)
      /\ \A m \in 1 .. Count(H) : m \in 1 .. Count(G) /\ m \in 0 .. Count(H) /\ m # n
  BY TypedOf, NodesOf DEF Attached, At, NULL
<1>2. /\ R2[n] = R[p] /\ E2[n] = e
      /\ \A m \in 1 .. Count(H) : R2[m] = R[m] /\ E2[m] = E[m]
  BY <1>1 DEF Longer1
<1>3. /\ TreeNests(H, R, E, T) /\ NextNests(H, R, E) /\ T \in Nat /\ T >= 1
      /\ R \in [1 .. Count(H) -> 1 .. Count(H)] /\ E \in [1 .. Count(H) -> 0 .. T]
  BY DEF Nests, TreeNests
<1>4. TreeNests(G, R2, E2, T)
  BY AttachedTreeNests DEF Nests
<1> HIDE DEF R2, E2, n
<1>5. \A m \in 0 .. Count(H) :
        /\ Type(G, m) = Type(H, m)
        /\ Get(G, m, "weight") = Get(H, m, "weight")
        /\ Get(G, m, "next_hbox") = Get(H, m, "next_hbox")
  BY DEF Attached, n
<1>6. /\ Type(G, n) = type
      /\ Get(G, n, "weight") = 0 /\ Get(G, n, "next_hbox") = NULL
  <2>1. /\ Type(G, n) = type
        /\ \A f : f \notin Links \cup {"type", "visible"} =>
             Get(G, n, f) = IF f \in Fields[type] THEN Given(data, f) ELSE 0
    BY DEF Attached, n
  <2>2. Given(data, "weight") = 0 /\ Given(data, "next_hbox") = 0
    BY DEF Given, Plain, LinkFields
  <2>3. {"weight", "next_hbox"} \cap (Links \cup {"type", "visible"}) = {}
    BY DEF Links
  <2>4. QED
    BY <2>1, <2>2, <2>3 DEF NULL
<1>7. ASSUME NEW m \in 1 .. Count(G) PROVE NextRight(G, R2, E2, m)
  <2>1. CASE m = n
    <3>1. (e = 0 => type \in Boxes) /\ (e # 0 => type # "hbox")
      OBVIOUS
    <3>2. QED
      BY <3>1, <2>1, <1>2, <1>6 DEF NextRight
  <2>2. CASE m # n
    <3>1. m \in 1 .. Count(H) /\ m \in 0 .. Count(H) /\ NextRight(H, R, E, m) /\ R[m] \in 1 .. Count(H)
      BY <2>2, <1>1, <1>3 DEF NextNests
    <3>2. Get(H, m, "next_hbox") # NULL => Get(H, m, "next_hbox") \in 1 .. Count(H)
      <4>1. Get(H, m, "next_hbox") \in 0 .. Count(H)
        BY <3>1, TypedOf DEF LinkFields
      <4>2. QED
        BY <4>1, <1>1 DEF NULL
    <3>3. /\ Type(G, m) = Type(H, m) /\ Type(G, R[m]) = Type(H, R[m])
          /\ R2[m] = R[m] /\ E2[m] = E[m]
          /\ Get(G, m, "next_hbox") = Get(H, m, "next_hbox")
          /\ Get(G, m, "weight") = Get(H, m, "weight")
      BY <3>1, <1>1, <1>2, <1>5
    <3>4. \A k \in 1 .. Count(H) :
            /\ k \in 1 .. Count(G) /\ R2[k] = R[k] /\ E2[k] = E[k] /\ Type(G, k) = Type(H, k)
            /\ Get(G, k, "next_hbox") = Get(H, k, "next_hbox")
      BY <1>1, <1>2, <1>5
    <3>5. QED
      BY <3>1, <3>2, <3>3, <3>4 DEF NextRight
  <2>3. QED
    BY <2>1, <2>2
<1>8. QED
  BY <1>4, <1>7 DEF Nests, NextNests, R2, E2

(* A box whose children are finished is finished itself.                   *)
Closing1(k, E, T, p) == [m \in 1 .. k |-> IF m = p THEN T + 1 ELSE E[m]]

LEMMA CloseTree ==
  ASSUME NEW H \in TypedHeaps, Tree(H), NEW R, NEW E, NEW T, TreeNests(H, R, E, T),
         NEW p \in 1 .. Count(H), Type(H, p) \in Boxes, E[p] = 0,
         \A m \in 1 .. Count(H) : Get(H, m, "parent") = p => E[m] # 0
  PROVE  TreeNests(H, R, Closing1(Count(H), E, T, p), T + 1)
<1> DEFINE E2 == Closing1(Count(H), E, T, p)
<1>1. /\ E2[p] = T + 1 /\ \A m \in 1 .. Count(H) : m # p => E2[m] = E[m]
      /\ T \in Nat /\ T >= 1 /\ \A m \in 1 .. Count(H) : E[m] \in 0 .. T
      /\ R \in [1 .. Count(H) -> 1 .. Count(H)]
  BY DEF Closing1, TreeNests
<1>2. E2 \in [1 .. Count(H) -> 0 .. (T + 1)]
  <2>1. E2 = [m \in 1 .. Count(H) |-> E2[m]]
    BY DEF Closing1
  <2> HIDE DEF E2
  <2>2. \A m \in 1 .. Count(H) : E2[m] \in 0 .. (T + 1)
    BY <1>1
  <2>3. QED
    BY <2>1, <2>2
<1> HIDE DEF E2
<1>3. ASSUME NEW m \in 1 .. Count(H) PROVE NestRight(H, R, E2, m)
  <2> DEFINE q == Get(H, m, "parent")
  <2>1. /\ NestRight(H, R, E, m) /\ E[m] \in 0 .. T
        /\ Type(H, m) \in Inner => q \in 1 .. Count(H) /\ q < m
    BY NestOf
  <2> HIDE DEF q
  <2>2. CASE m = p
    <3>1. Type(H, m) \in Inner /\ Type(H, m) \notin Roots
      BY <2>2 DEF Boxes, Inner, Roots, ContentTypes
    <3>2. q \in 1 .. Count(H) /\ q # p /\ q # NULL /\ E[q] = 0 /\ E2[q] = 0
      BY <3>1, <2>1, <2>2, <1>1 DEF NestRight, q, NULL
    <3>3. R[m] = R[q] /\ Type(H, R[m]) \in Roots /\ E2[m] # 0
      BY <3>1, <2>1, <2>2, <1>1 DEF NestRight, q
    <3>4. QED
      BY <3>1, <3>2, <3>3 DEF NestRight, q
  <2>3. CASE m # p
    <3>1. E2[m] = E[m] /\ (q \in 1 .. Count(H) /\ q # p => E2[q] = E[q])
      BY <2>3, <1>1
    <3>2. CASE q = p
      <4>1. E[m] # 0 /\ E[m] < E2[q]
        BY <3>2, <2>1, <1>1 DEF q
      <4>2. QED
        BY <4>1, <3>1, <2>1 DEF NestRight, q
    <3>3. CASE q # p
      BY <3>1, <3>3, <2>1 DEF NestRight, q
    <3>4. QED
      BY <3>2, <3>3
  <2>4. QED
    BY <2>2, <2>3
<1>4. QED
  <2>1. T + 1 \in Nat /\ T + 1 >= 1
    BY <1>1
  <2>2. QED
    BY <2>1, <1>1, <1>2, <1>3 DEF TreeNests, E2

(* What has nothing to do with chains stays right when a vbox is finished. *)
LEMMA CloseVbox ==
  ASSUME NEW H \in TypedHeaps, Tree(H), NEW R, NEW E, NEW T, Nests(H, R, E, T),
         NEW p \in 1 .. Count(H), Type(H, p) = "vbox", E[p] = 0,
         \A m \in 1 .. Count(H) : Get(H, m, "parent") = p => E[m] # 0
  PROVE  Nests(H, R, Closing1(Count(H), E, T, p), T + 1)
<1> DEFINE E2 == Closing1(Count(H), E, T, p)
<1>1. TreeNests(H, R, E2, T + 1)
  BY CloseTree DEF Nests, Boxes
<1>2. \A m \in 1 .. Count(H) : m # p => E2[m] = E[m]
  BY DEF Closing1
<1> HIDE DEF E2
<1>3. ASSUME NEW m \in 1 .. Count(H) PROVE NextRight(H, R, E2, m)
  <2> DEFINE q == Get(H, m, "next_hbox")
  <2>1. NextRight(H, R, E, m)
    BY DEF Nests, NextNests
  <2>2. q # NULL => q \in 1 .. Count(H)
    <3>1. q \in 0 .. Count(H) /\ Count(H) \in Nat
      BY TypedOf DEF LinkFields
    <3>2. QED
      BY <3>1 DEF NULL
  <2>3. /\ q # NULL => q # p /\ E2[q] = E[q]
        /\ Type(H, m) = "hbox" => m # p /\ E2[m] = E[m]
    BY <2>1, <2>2, <1>2 DEF NextRight
  <2>4. QED
    BY <2>1, <2>3 DEF NextRight
<1>4. QED
  BY <1>1, <1>3 DEF Nests, NextNests, E2

(* The sheet of a node is its root, if that is a sheet.                    *)
LEMMA RootSheet ==
  ASSUME NEW H \in TypedHeaps, Tree(H), NEW R, NEW E, NEW T, TreeNests(H, R, E, T),
         NEW n \in 1 .. Count(H), Type(H, n) # "input"
  PROVE  ParentSheet(H, n) = IF Type(H, R[n]) = "sheet" THEN R[n] ELSE NULL
<1> DEFINE S == {x \in 1 .. Count(H) : R[x] = R[n] /\ Type(H, x) # "input"}
           V == [m \in 1 .. Count(H) |-> m]
           up == Chain(H, n, "parent")
<1>1. H \in Heaps /\ Count(H) \in Nat /\ Follow(H, "parent")
  BY TypedOf, NodesOf DEF LinkFields
<1>2. \A m \in 1 .. Count(H) : Type(H, m) \in ContentTypes
                             /\ (Type(H, m) \notin Inner => Get(H, m, "parent") = NULL)
  BY <1>1, NodesOf, FieldsOf DEF Inner, NULL
<1>3. \A m \in 1 .. Count(H) : Type(H, m) \in Inner =>
        /\ Get(H, m, "parent") \in 1 .. Count(H) /\ Get(H, m, "parent") < m
        /\ Type(H, Get(H, m, "parent")) \in Roots \cup Boxes
        /\ Get(H, m, "parent") # NULL /\ R[m] = R[Get(H, m, "parent")]
  BY NestOf DEF NestRight
<1>4. \A m \in 1 .. Count(H) : Type(H, m) \in Roots => R[m] = m
  BY NestOf DEF NestRight
<1>5. n \in S /\ S \subseteq 1 .. Count(H)
  OBVIOUS
<1>6. \A m \in S : m \in 1 .. Count(H) =>
        /\ V[m] \in Int
        /\ Get(H, m, "parent") # NULL => Get(H, m, "parent") \in S /\ V[Get(H, m, "parent")] < V[m]
  BY <1>2, <1>3 DEF Roots, Boxes
<1>7. n # NULL /\ n \in 0 .. Count(H)
  BY <1>1 DEF NULL
<1> HIDE DEF V, up, S
<1>8. /\ up \in Seq(1 .. Count(H)) /\ Len(up) \in Nat /\ Len(up) >= 1
      /\ \A i \in 1 .. Len(up) : up[i] \in S
      /\ Get(H, up[Len(up)], "parent") = NULL
  BY <1>1, <1>5, <1>6, <1>7, ChainFalls DEF up
<1>9. DOMAIN up = 1 .. Len(up) /\ ToSet(up) = {up[i] : i \in 1 .. Len(up)}
      /\ Len(up) \in 1 .. Len(up)
  BY <1>8 DEF ToSet
<1>10. up[Len(up)] = R[n]
  <2>1. up[Len(up)] \in S
    BY <1>8, <1>9
  <2>2. Type(H, up[Len(up)]) \in Roots
    BY <2>1, <1>2, <1>3, <1>8 DEF S, Inner, Roots
  <2>3. QED
    BY <2>1, <2>2, <1>4 DEF S
<1>11. \A m \in ToSet(up) : Type(H, m) = "sheet" => m = R[n]
  BY <1>8, <1>9, <1>4 DEF S, Roots
<1>12. R[n] \in ToSet(up)
  BY <1>9, <1>10
<1>13. CASE Type(H, R[n]) = "sheet"
  <2>1. \E i \in DOMAIN up : Type(H, up[i]) = "sheet"
    BY <1>9, <1>10, <1>13
  <2>2. (CHOOSE m \in ToSet(up) : Type(H, m) = "sheet") = R[n]
    BY <1>11, <1>12, <1>13
  <2>3. QED
    BY <1>13, <2>1, <2>2 DEF ParentSheet, up
<1>14. CASE Type(H, R[n]) # "sheet"
  <2>1. ~ \E i \in DOMAIN up : Type(H, up[i]) = "sheet"
    BY <1>9, <1>11, <1>14
  <2>2. QED
    BY <1>14, <2>1 DEF ParentSheet, up
<1>15. QED
  BY <1>13, <1>14

(* What a node is in is finished after it.                                 *)
LEMMA AncestorsLater ==
  ASSUME NEW H \in TypedHeaps, Tree(H), NEW R, NEW E, NEW T, TreeNests(H, R, E, T),
         NEW n \in 1 .. Count(H), E[n] # 0
  PROVE  \A m \in Ancestors(H, n) : m # n /\ E[m] # 0 => E[n] < E[m]
<1> DEFINE S == {x \in 1 .. Count(H) : x = n \/ E[x] = 0 \/ E[n] < E[x]}
           V == [m \in 1 .. Count(H) |-> m]
           up == Chain(H, n, "parent")
<1>1. H \in Heaps /\ Count(H) \in Nat /\ Follow(H, "parent")
  BY TypedOf, NodesOf DEF LinkFields
<1>2. \A m \in 1 .. Count(H) : Get(H, m, "parent") # NULL => Type(H, m) \in Inner
  BY <1>1, NodesOf, FieldsOf DEF Inner, NULL
<1>3. \A m \in 1 .. Count(H) : E[m] \in Nat /\ (Type(H, m) \in Inner =>
        /\ Get(H, m, "parent") \in 1 .. Count(H) /\ Get(H, m, "parent") < m
        /\ E[m] = 0 => E[Get(H, m, "parent")] = 0
        /\ E[m] # 0 => E[Get(H, m, "parent")] = 0 \/ E[m] < E[Get(H, m, "parent")])
  BY NestOf DEF NestRight
<1>4. n \in S
  OBVIOUS
<1>5. \A m \in S : m \in 1 .. Count(H) =>
        /\ V[m] \in Int
        /\ Get(H, m, "parent") # NULL => Get(H, m, "parent") \in S /\ V[Get(H, m, "parent")] < V[m]
  BY <1>2, <1>3
<1>6. n # NULL /\ n \in 0 .. Count(H)
  BY <1>1 DEF NULL
<1> HIDE DEF V, up, S
<1>7. up \in Seq(1 .. Count(H)) /\ \A i \in 1 .. Len(up) : up[i] \in S
  BY <1>1, <1>4, <1>5, <1>6, ChainFalls DEF up
<1>8. ToSet(up) \subseteq S
  BY <1>7 DEF ToSet
<1>9. QED
  BY <1>8 DEF S, Ancestors, up

(* The chain of a sheet: the sheet, then its hboxes, the last finished     *)
(* first, every one that is finished.                                      *)
LEMMA SheetChain ==
  ASSUME NEW H \in TypedHeaps, Tree(H), NEW R, NEW E, NEW T, Nests(H, R, E, T),
         NEW s \in 1 .. Count(H), Type(H, s) = "sheet"
  PROVE  LET c == Chain(H, s, "next_hbox") IN
         /\ c \in Seq(1 .. Count(H)) /\ Len(c) \in Nat /\ Len(c) >= 1 /\ c[1] = s
         /\ \A i \in 2 .. Len(c) :
              /\ Type(H, c[i]) = "hbox" /\ R[c[i]] = s /\ E[c[i]] # 0
              /\ \A j \in 2 .. Len(c) : i < j => E[c[j]] < E[c[i]]
         /\ \A n \in 1 .. Count(H) : Type(H, n) = "hbox" /\ R[n] = s /\ E[n] # 0 =>
              \E i \in 2 .. Len(c) : c[i] = n
<1> DEFINE S == {s} \cup {m \in 1 .. Count(H) : Type(H, m) = "hbox" /\ E[m] # 0 /\ R[m] = s}
           V == [m \in 1 .. Count(H) |-> IF m = s THEN T + 1 ELSE E[m]]
           c == Chain(H, s, "next_hbox")
           next(m) == Get(H, m, "next_hbox")
<1>1. H \in Heaps /\ Count(H) \in Nat /\ Follow(H, "next_hbox")
  BY TypedOf, NodesOf DEF LinkFields
<1>2. TreeNests(H, R, E, T) /\ \A m \in 1 .. Count(H) : NextRight(H, R, E, m)
  BY DEF Nests, NextNests
<1>3. T \in Nat /\ \A m \in 1 .. Count(H) : E[m] \in 0 .. T /\ R[m] \in 1 .. Count(H)
  BY <1>2, NestOf
<1>4. R[s] = s /\ \A m \in 1 .. Count(H) : Type(H, m) = "sheet" => R[m] = m
  BY <1>2, NestOf DEF NestRight, Roots
<1>5. \A m \in 1 .. Count(H) : next(m) # NULL =>
        /\ next(m) \in 1 .. Count(H) /\ Type(H, m) \in {"sheet", "hbox"}
        /\ Type(H, next(m)) = "hbox" /\ E[next(m)] # 0 /\ R[next(m)] = R[m]
        /\ Type(H, m) = "hbox" => E[next(m)] < E[m]
  <2> SUFFICES ASSUME NEW m \in 1 .. Count(H), next(m) # NULL
               PROVE  /\ next(m) \in 1 .. Count(H) /\ Type(H, m) \in {"sheet", "hbox"}
                      /\ Type(H, next(m)) = "hbox" /\ E[next(m)] # 0 /\ R[next(m)] = R[m]
                      /\ Type(H, m) = "hbox" => E[next(m)] < E[m]
    OBVIOUS
  <2>1. next(m) \in 1 .. Count(H)
    BY <1>1 DEF Follow, NULL
  <2>2. Type(H, m) \in {"sheet", "hbox"}
    BY <1>1, NodesOf, FieldsOf DEF NULL
  <2>3. QED
    BY <1>2, <2>1, <2>2 DEF NextRight
<1>6. s \in S /\ s # NULL /\ s \in 0 .. Count(H)
  BY <1>1 DEF NULL
<1>7. \A m \in S : m \in 1 .. Count(H) =>
        /\ V[m] \in Int
        /\ next(m) # NULL => next(m) \in S /\ V[next(m)] < V[m]
  <2> SUFFICES ASSUME NEW m \in S, m \in 1 .. Count(H)
               PROVE  V[m] \in Int /\ (next(m) # NULL => next(m) \in S /\ V[next(m)] < V[m])
    OBVIOUS
  <2>1. V[m] \in Int
    BY <1>3
  <2>2. ASSUME next(m) # NULL PROVE next(m) \in S /\ V[next(m)] < V[m]
    <3>1. next(m) \in 1 .. Count(H) /\ Type(H, next(m)) = "hbox" /\ E[next(m)] # 0
          /\ R[next(m)] = s /\ (Type(H, m) = "hbox" => E[next(m)] < E[m])
      BY <1>4, <1>5, <2>2
    <3>2. next(m) # s /\ V[next(m)] = E[next(m)] /\ E[next(m)] \in 0 .. T
      BY <3>1, <1>3
    <3>3. m = s => V[m] = T + 1
      OBVIOUS
    <3>4. m # s => V[m] = E[m] /\ Type(H, m) = "hbox"
      OBVIOUS
    <3> HIDE DEF V
    <3>5. V[next(m)] < V[m]
      BY <3>1, <3>2, <3>3, <3>4, <1>3
    <3>6. QED
      BY <3>1, <3>5
  <2>3. QED
    BY <2>1, <2>2
<1> HIDE DEF V, c, S
<1>8. /\ c \in Seq(1 .. Count(H)) /\ Len(c) \in Nat /\ Len(c) >= 1 /\ c[1] = s
      /\ \A i \in 1 .. Len(c) : c[i] \in S /\ c[i] \in 1 .. Count(H)
      /\ \A i \in 1 .. Len(c) : i < Len(c) => c[i + 1] = next(c[i])
      /\ next(c[Len(c)]) = NULL
      /\ \A i, j \in 1 .. Len(c) : i < j => V[c[j]] < V[c[i]]
  BY <1>1, <1>6, <1>7, ChainFalls DEF c
<1>9. \A i \in 2 .. Len(c) :
        /\ i \in 1 .. Len(c) /\ c[i] \in 1 .. Count(H) /\ c[i] # s
        /\ Type(H, c[i]) = "hbox" /\ R[c[i]] = s /\ E[c[i]] # 0 /\ V[c[i]] = E[c[i]]
  <2> SUFFICES ASSUME NEW i \in 2 .. Len(c)
               PROVE  /\ i \in 1 .. Len(c) /\ c[i] \in 1 .. Count(H) /\ c[i] # s
                      /\ Type(H, c[i]) = "hbox" /\ R[c[i]] = s /\ E[c[i]] # 0 /\ V[c[i]] = E[c[i]]
    OBVIOUS
  <2>1. i \in 1 .. Len(c) /\ 1 \in 1 .. Len(c) /\ 1 < i
    BY <1>8
  <2>2. c[i] \in S /\ c[i] \in 1 .. Count(H) /\ V[c[i]] < V[s]
    BY <1>8, <2>1
  <2>3. V[c[i]] \in Int
    BY <2>2, <1>7
  <2>4. c[i] # s
    BY <2>2, <2>3
  <2>5. QED
    BY <2>1, <2>2, <2>4 DEF S, V
<1>10. \A i, j \in 2 .. Len(c) : i < j => E[c[j]] < E[c[i]]
  BY <1>8, <1>9
<1>11. \A n \in 1 .. Count(H) : Type(H, n) = "hbox" /\ R[n] = s /\ E[n] # 0 =>
         \E i \in 2 .. Len(c) : c[i] = n
  <2> DEFINE lost == {n \in 1 .. Count(H) : /\ Type(H, n) = "hbox" /\ R[n] = s /\ E[n] # 0
                                            /\ ~ \E i \in 2 .. Len(c) : c[i] = n}
             times == {E[n] : n \in lost}
  <2> SUFFICES ASSUME lost # {} PROVE FALSE
    OBVIOUS
  <2>1. times \subseteq 0 .. T /\ times # {}
    BY <1>3
  <2>2. PICK t \in times : \A k \in times : k <= t
    <3> HIDE DEF times
    <3>1. QED
      BY <2>1, <1>3, Largest
  <2>3. PICK n \in lost : E[n] = t
    OBVIOUS
  <2>4. PICK k \in 1 .. Count(H) : next(k) = n
    BY <1>2, <2>3 DEF NextRight
  <2>5. next(k) # NULL /\ n \in 1 .. Count(H) /\ R[n] = s
    BY <2>3, <2>4 DEF NULL
  <2>6. R[k] = s /\ Type(H, k) \in {"sheet", "hbox"} /\ (Type(H, k) = "hbox" => E[n] < E[k])
    BY <1>5, <2>4, <2>5
  <2>7. \E i \in 1 .. Len(c) : c[i] = k
    <3>1. CASE Type(H, k) = "sheet"
      BY <3>1, <2>6, <1>4, <1>8
    <3>2. CASE Type(H, k) = "hbox"
      <4>1. E[n] < E[k] /\ E[n] \in 0 .. T /\ E[k] \in 0 .. T
        BY <3>2, <2>6, <2>3, <1>3
      <4>2. k \notin lost
        <5>1. ~ (E[k] <= t)
          BY <4>1, <2>3
        <5>2. QED
          BY <5>1, <2>2
      <4>3. PICK i \in 2 .. Len(c) : c[i] = k
        BY <4>1, <4>2, <3>2, <2>6
      <4>4. i \in 1 .. Len(c)
        BY <1>9
      <4>5. QED
        BY <4>3, <4>4
    <3>3. QED
      BY <3>1, <3>2, <2>6
  <2>8. PICK i \in 1 .. Len(c) : c[i] = k
    BY <2>7
  <2>9. i < Len(c)
    <3>1. i # Len(c)
      BY <2>4, <2>5, <2>8, <1>8
    <3>2. QED
      BY <3>1, <1>8
  <2>10. c[i + 1] = n /\ i + 1 \in 2 .. Len(c)
    BY <2>4, <2>8, <2>9, <1>8
  <2>11. QED
    BY <2>3, <2>10
<1>12. QED
  BY <1>8, <1>9, <1>10, <1>11 DEF c

(* The place of an element in the list without its head.                   *)
LEMMA PlaceInTail ==
  ASSUME NEW X, NEW c \in Seq(X), Len(c) >= 1
  PROVE  /\ DOMAIN Tail(c) = 1 .. Len(c) - 1
         /\ \A i \in DOMAIN Tail(c) : Tail(c)[i] = c[i + 1] /\ i + 1 \in 2 .. Len(c)
         /\ \A i \in 2 .. Len(c) : i - 1 \in DOMAIN Tail(c) /\ Tail(c)[i - 1] = c[i]
<1>1. Len(c) \in Nat /\ c # <<>>
  BY EmptySeq, LenProperties
<1>2. /\ Tail(c) \in Seq(X) /\ Len(Tail(c)) = Len(c) - 1
      /\ \A i \in 1 .. Len(Tail(c)) : Tail(c)[i] = c[i + 1]
  BY <1>1, HeadTailProperties
<1>3. DOMAIN Tail(c) = 1 .. Len(c) - 1
  BY <1>2
<1>4. QED
  BY <1>1, <1>2, <1>3
==============================================================================
