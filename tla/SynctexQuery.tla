----------------------------- MODULE SynctexQuery -----------------------------
(***************************************************************************)
(* The queries of the synctex parser: from a line of a source file to      *)
(* places on pages (display), from a place on a page to a line of a source *)
(* file (edit), and the iterator through which the results are taken.      *)
(*                                                                         *)
(* They read what SynctexParser has built; a display query also writes     *)
(* weights into the hboxes.  Edit queries look at children through         *)
(* synctex_node_child, which finds the nodes that post processing made     *)
(* below the proxies; only a proxy_last to a box has none, and files with  *)
(* one are not asked.                                                      *)
(***************************************************************************)
EXTENDS SynctexParser

CONSTANTS
  Points,                 \* the points of a page that edit queries ask for
  Pages,                  \* the pages that queries ask for or hint at
  Lines,                  \* the lines that display queries ask for
  PerUnit, XOffset, YOffset,  \* the unit and the offsets of the page's coordinates
  Bound                   \* the size beyond which no larger box is shown

VARIABLES
  iterator,       \* the iterator of the scanner
  asked           \* ghost: the last query

queryVars == <<vars, iterator, asked>>

INT_MAX == 2147483647
Tries == 100

(* The results are handles: [node, weight], those on one page linked by    *)
(* their child, the pages by their sibling.                                *)
Handle(n) == [node |-> n, weight |-> 0]
Iterator(pages) ==
  LET count == FoldLeft(LAMBDA s, page : s + Len(page), 0, pages)
  IN  [pages |-> pages, page |-> 1, at |-> 1, count |-> count, count0 |-> count]
NoIterator == Iterator(<<>>)
Asking == status = "ok"

------------------------------------------------------------------------------
(* Display queries.                                                        *)
AreFriends(H, m, n) == Tag(H, m) = Tag(H, n) /\ Line(H, m) = Line(H, n)
ScannerFriend(H, i) == IF i >= 0 THEN H.list[i % NumberOfLists] ELSE NULL

(* The results of the first page seen are stacked until one of another     *)
(* page comes; from then on a result goes behind the first one of its page,*)
(* and a new page before the others.                                       *)
AddResult(H, pages, n) ==
  LET same == {i \in DOMAIN pages : Page(H, pages[i][1].node) = Page(H, n)}
      k == CHOOSE i \in same : \A j \in same : i <= j
  IN  CASE Len(pages) <= 1 /\ same # {} -> <<<<Handle(n)>> \o pages[1]>>
        [] Len(pages) <= 1 /\ same = {} -> Append(pages, <<Handle(n)>>)
        [] Len(pages) > 1 /\ same # {} -> [pages EXCEPT ![k] = InsertAt(@, 2, Handle(n))]
        [] OTHER -> << <<Handle(n)>> >> \o pages
(* Mutant of DisplayQuery: the list of friends is taken as it is.          *)
DisplayAllFriends(H, first, tag, line, boxes) ==
  FoldLeft(LAMBDA pages, n : AddResult(H, pages, n), <<>>, Chain(H, first, "friend"))
DisplayQuery(H, first, tag, line, boxes) ==
  LET fits(n) == (boxes \/ ~IsBox(H, n)) /\ Tag(H, n) = tag /\ Line(H, n) = line
  IN  FoldLeft(LAMBDA pages, n : AddResult(H, pages, n), <<>>,
               SelectSeq(Chain(H, first, "friend"), fits))

(* Mutant of Weighted: the weights are cleaned afterwards.                 *)
WeightedThenCleaned(H, page) ==
  LET parent(i) == Get(H, page[i].node, "parent")
      friends(n) == Len(SelectSeq(Siblings(H, Get(H, n, "child")),
                                  LAMBDA m : AreFriends(H, m, page[1].node)))
  IN  [heap |-> SetAll(H, [i \in DOMAIN page |-> parent(i)], "weight", 0),
       page |-> [i \in DOMAIN page |->
         IF Get(H, parent(i), "weight") # 0 THEN page[i] ELSE [page[i] EXCEPT !.weight = friends(parent(i))]]]
(* Each hbox weighs as many nodes of that line as it has; only the first   *)
(* handle into an hbox gets the weight, the others are dropped.            *)
Weighted(H, page) ==
  LET parent(i) == Get(H, page[i].node, "parent")
      clean == SetAll(H, [i \in DOMAIN page |-> parent(i)], "weight", 0)
      friends(n) == Len(SelectSeq(Siblings(H, Get(H, n, "child")),
                                  LAMBDA m : AreFriends(H, m, page[1].node)))
      weigh(s, i) ==
        IF Get(s.heap, parent(i), "weight") # 0 THEN s
        ELSE [heap |-> Set(s.heap, parent(i), "weight", friends(parent(i))),
              page |-> [s.page EXCEPT ![i].weight = friends(parent(i))]]
  IN  FoldLeft(weigh, [heap |-> clean, page |-> page], [i \in DOMAIN page |-> i])

(* Mutant of Insert: a handle that weighs nothing is kept.                 *)
InsertAny(page, h) == IF h.weight > page[1].weight THEN <<h>> \o page ELSE Append(page, h)
(* A handle heavier than the first one goes before it; otherwise it goes   *)
(* after the first that is not heavier, the first one apart.               *)
Insert(page, h) ==
  LET stop == {i \in 2 .. Len(page) : h.weight >= page[i].weight}
      k == CHOOSE i \in stop : \A j \in stop : i <= j
  IN  CASE h.weight > page[1].weight -> <<h>> \o page
        [] h.weight = 0 -> page
        [] h.weight \in 1 .. page[1].weight /\ stop # {} -> InsertAt(page, k + 1, h)
        [] OTHER -> Append(page, h)
VerticallySorted(H, page) ==
  LET weighted == Weighted(H, page)
  IN  [heap |-> weighted.heap,
       page |-> FoldLeft(Insert, <<weighted.page[1]>>, Tail(weighted.page))]

(* The page closest to the hint comes first.                               *)
OffHint(H, page, hint) == Magnitude(hint - Page(H, page[1].node))
(* Mutant of PutPage: the pages stay in the order in which they came.      *)
PutPageLast(s, page, hint) ==
  LET sorted == VerticallySorted(s.heap, page)
  IN  [heap |-> sorted.heap, pages |-> Append(s.pages, sorted.page)]
PutPage(s, page, hint) ==
  LET sorted == VerticallySorted(s.heap, page)
      closer == s.pages # <<>> /\ OffHint(s.heap, sorted.page, hint) < OffHint(s.heap, s.pages[1], hint)
  IN  [heap |-> sorted.heap,
       pages |-> IF s.pages = <<>> \/ closer THEN <<sorted.page>> \o s.pages
                 ELSE InsertAt(s.pages, 2, sorted.page)]

(* One line after the other is tried, around the one asked for.            *)
RECURSIVE TryLine(_, _, _, _, _, _)
TryLine(H, tag, line, offset, tries, hint) ==
  LET max == Get(H, InputWithTag(H, tag), "line")
      friend == ScannerFriend(H, tag + line)
      nodes == DisplayQuery(H, friend, tag, line, FALSE)
      found == IF nodes # <<>> THEN nodes ELSE DisplayQuery(H, friend, tag, line, TRUE)
      turned(o) == IF o < 0 THEN 1 - o ELSE -(o + 1)
      next == line + offset
  IN  CASE tries = 0 \/ line > max -> [heap |-> H, pages |-> <<>>]
        [] tries > 0 /\ line <= max /\ found # <<>> ->
             FoldLeft(LAMBDA s, page : PutPage(s, page, hint), [heap |-> H, pages |-> <<>>], found)
        [] tries > 0 /\ line <= max /\ found = <<>> /\ next > 0 ->
             TryLine(H, tag, next, turned(offset), tries - 1, hint)
        [] OTHER ->
             TryLine(H, tag, next + turned(offset), turned(turned(offset)), tries - 1, hint)
DisplayOf(H, tag, line, hint) ==
  LET max == Get(H, InputWithTag(H, tag), "line")
  IN  TryLine(H, tag, IF line > max THEN max ELSE line, 1, Tries, hint)

Answered(found) == heap' = found.heap /\ iterator' = Iterator(found.pages)
Display ==
  /\ Asking
  /\ \E n \in ToSet(Siblings(heap, scanner.input)), line \in Lines, hint \in Pages :
       /\ Answered(DisplayOf(heap, Get(heap, n, "tag"), line, hint))
       /\ asked' = [query |-> "display", tag |-> Get(heap, n, "tag"), line |-> line, hint |-> hint]
  /\ UNCHANGED <<scanner, cur, status, mix>>

------------------------------------------------------------------------------
(* Distances.  An hbox is where its visible contents are, a proxy shifts   *)
(* its target.                                                             *)
RECURSIVE Seen(_, _)
Seen(H, n) ==
  LET target == Get(H, n, "target") IN
  CASE Type(H, n) = "hbox" -> Visible(H, n)
    [] target # NULL -> [Seen(H, target) EXCEPT !.h = @ + Get(H, n, "h"), !.v = @ + Get(H, n, "v")]
    [] OTHER -> SizeOf(H, n)
SeenBox(H, n) == Unsigned(Seen(H, n))
Shifted(H, p, n) == [h |-> p.h - Get(H, n, "h"), v |-> p.v - Get(H, n, "v")]
Boxes == {"hbox", "proxy_hbox", "vbox", "proxy_vbox", "void_hbox", "void_vbox"}

(* A kern is where its nearer edge is, a little farther if the point is    *)
(* beside it.                                                              *)
Half(x) == IF x < 0 THEN -(-x \div 2) ELSE x \div 2
KernDistance(x, k) ==
  LET mid == Half(k.lo + k.hi) IN
  CASE x < k.lo -> k.lo - x + 1
    [] x > k.hi -> k.hi - x - 1
    [] x \in (mid + 1) .. k.hi -> k.hi - x + 1
    [] OTHER -> k.lo - x - 1
RECURSIVE HDistance(_, _, _)
HDistance(H, p, n) ==
  CASE Type(H, n) \in Boxes -> ToInterval(p.h, SeenBox(H, n).min.h, SeenBox(H, n).max.h)
    [] Type(H, n) = "kern" ->
         LET h == Get(H, n, "h")  w == Get(H, n, "width")
         IN  KernDistance(p.h, IF w < 0 THEN [lo |-> h, hi |-> h - w] ELSE [lo |-> h - w, hi |-> h])
    [] Type(H, n) \in {"rule", "glue", "math", "boundary", "box_bdry"} -> Get(H, n, "h") - p.h
    [] Type(H, n) \in {"proxy", "proxy_last"} -> HDistance(H, Shifted(H, p, n), Get(H, n, "target"))
    [] OTHER -> INT_MAX
RECURSIVE VDistance(_, _, _)
VDistance(H, p, n) ==
  LET parent == Get(H, n, "parent")
      beside == Unsigned([SizeOf(H, parent) EXCEPT !.v = Get(H, n, "v")])
  IN  CASE Type(H, n) \in Boxes -> ToInterval(p.v, SeenBox(H, n).min.v, SeenBox(H, n).max.v)
        [] Type(H, n) \in {"rule", "kern", "glue", "math"} ->
             ToInterval(p.v, beside.min.v, beside.max.v)
        [] Type(H, n) \in {"proxy", "proxy_last"} -> VDistance(H, Shifted(H, p, n), Get(H, n, "target"))
        [] OTHER -> INT_MAX
InBox(H, p, n) == HDistance(H, p, n) = 0 /\ VDistance(H, p, n) = 0

Least(a, b) == IF a < b THEN a ELSE b
RECURSIVE NodeDistance(_, _, _)
NodeDistance(H, p, n) ==
  LET at(x, lo, hi) == DistanceToBox(p, [min |-> [h |-> x, v |-> lo], max |-> [h |-> x, v |-> hi]])
      h == Get(H, n, "h")
      v == Get(H, n, "v")
      top == v - Magnitude(Get(H, Get(H, n, "parent"), "height"))
      b == SeenBox(H, n)
  IN  CASE Type(H, n) \in {"vbox", "proxy_vbox", "hbox", "proxy_hbox"} -> DistanceToBox(p, b)
        [] Type(H, n) \in {"void_hbox", "void_vbox"} ->
             Least(at(b.min.h, b.min.v, b.max.v), at(b.max.h, b.min.v, b.max.v))
        [] Type(H, n) = "kern" -> Least(at(h, top, v), at(h - Get(H, n, "width"), top, v))
        [] Type(H, n) \in {"glue", "math", "boundary", "box_bdry"} -> at(h, top, v)
        [] Type(H, n) \in {"proxy", "proxy_last"} ->
             NodeDistance(H, Shifted(H, p, n), Get(H, n, "target"))
        [] OTHER -> INT_MAX

------------------------------------------------------------------------------
(* The box shown for a result: of the hboxes around it the largest whose   *)
(* mean line is the same but for one, or the first that is large.          *)
IsHbox(H, n) == Type(H, Noxy(H, n)) \in {"hbox", "void_hbox"}
MeanLine(H, n) ==
  LET own == IF Get(H, n, "target") # NULL THEN Get(H, n, "target") ELSE n
      parent == Get(H, own, "parent")
  IN  CASE Has(H, own, "mean_line") -> Get(H, own, "mean_line")
        [] ~Has(H, own, "mean_line") /\ Has(H, parent, "mean_line") -> Get(H, parent, "mean_line")
        [] OTHER -> Line(H, own)
Around(H, n) ==
  LET around(m) == IF IsBox(H, m) THEN m ELSE Get(H, m, "parent")
  IN  IF around(n) # NULL THEN around(n) ELSE around(Get(H, n, "target"))
OnOtherLine(H, first, n) == Magnitude(MeanLine(H, first) - MeanLine(H, n)) > 1
(* Mutant of BoxVisible: the mean lines are not compared.                  *)
BoxOfAnyLine(H, n) == LastOf(<<Around(H, n)>> \o
  SelectSeq(Tail(Chain(H, Around(H, n), "parent")), LAMBDA m : IsHbox(H, m)))
BoxVisible(H, n) ==
  LET first == Around(H, n)
      boxes == <<first>> \o SelectSeq(Tail(Chain(H, first, "parent")), LAMBDA m : IsHbox(H, m))
      size(m, f) == Position(H, m, f)
      large(m) == size(m, "width") > Bound \/ size(m, "height") + size(m, "depth") > Bound
      stops == {i \in 2 .. Len(boxes) : OnOtherLine(H, first, boxes[i]) \/ large(boxes[i])}
      stop == CHOOSE i \in stops : \A j \in stops : i <= j
  IN  CASE first = NULL -> NULL
        [] first # NULL /\ stops = {} -> LastOf(boxes)
        [] OTHER -> boxes[IF OnOtherLine(H, first, boxes[stop]) THEN stop - 1 ELSE stop]

(* Its place on the page; PerUnit divides what a file says.                *)
OnPage(s) ==
  [h |-> s.h \div PerUnit + XOffset, v |-> s.v \div PerUnit + YOffset,
   width |-> s.width \div PerUnit, height |-> s.height \div PerUnit, depth |-> s.depth \div PerUnit]
BoxShown(H, n) == OnPage(Seen(H, BoxVisible(H, n)))

------------------------------------------------------------------------------
(* Edit queries.  A node with its distance; ND_0 is none.                  *)
ND_0 == [node |-> NULL, distance |-> INT_MAX]
Kids(H, n) == Siblings(H, Get(H, n, "child"))

(* Mutant of SmallestContainer: the larger one.                            *)
LargestContainer(H, m, n) ==
  LET area(x) == Magnitude(Seen(H, x).width) * (Magnitude(Seen(H, x).depth) + Magnitude(Seen(H, x).height))
  IN  IF area(m) > area(n) THEN m ELSE n
(* The smaller area; for equal areas the wider TeX says the box is.        *)
SmallestContainer(H, m, n) ==
  LET height(x) == Magnitude(Seen(H, x).depth) + Magnitude(Seen(H, x).height)
      area(x) == Magnitude(Seen(H, x).width) * height(x)
      wide(x) == Magnitude(Get(H, x, "width"))
  IN  IF \/ area(m) < area(n)
         \/ area(m) = area(n) /\ wide(m) > wide(n)
         \/ area(m) = area(n) /\ wide(m) = wide(n) /\ height(m) <= height(n)
      THEN m ELSE n

(* The deepest container of a point.  Of the children of a vbox none of    *)
(* which contains it, the closest is taken: the last such one, or, in the  *)
(* second variant, which does not look where the children are, the first.  *)
RECURSIVE DeepestContainer(_, _, _)
DeepestContainer(H, p, n) ==
  LET inside == SelectSeq(Kids(H, n), LAMBDA c : InBox(H, p, c) /\ DeepestContainer(H, p, c) # NULL)
      full == SelectSeq(Kids(H, n), LAMBDA c : Get(H, c, "child") # NULL)
      closest == FoldLeft(LAMBDA b, c : IF NodeDistance(H, p, c) <= NodeDistance(H, p, b) THEN c ELSE b,
                          full[1], full)
  IN  CASE inside # <<>> -> DeepestContainer(H, p, inside[1])
        [] inside = <<>> /\ full # <<>> /\ Type(H, n) \in {"vbox", "proxy_vbox"} -> closest
        [] inside = <<>> /\ (full = <<>> \/ Type(H, n) \notin {"vbox", "proxy_vbox"})
             /\ Kids(H, n) # <<>> /\ InBox(H, p, n) -> n
        [] OTHER -> NULL
RECURSIVE DeepestContainer3(_, _, _)
DeepestContainer3(H, p, n) ==
  LET deep == SelectSeq(Kids(H, n), LAMBDA c : DeepestContainer3(H, p, c).node # NULL)
      full == SelectSeq(Kids(H, n), LAMBDA c : Get(H, c, "child") # NULL)
      closest == FoldLeft(LAMBDA b, c : IF NodeDistance(H, p, c) < b.distance
                                        THEN [node |-> c, distance |-> NodeDistance(H, p, c)] ELSE b,
                          ND_0, full)
  IN  CASE deep # <<>> -> DeepestContainer3(H, p, deep[1])
        [] deep = <<>> /\ full # <<>> /\ Type(H, n) \in {"vbox", "proxy_vbox"} -> closest
        [] deep = <<>> /\ (full = <<>> \/ Type(H, n) \notin {"vbox", "proxy_vbox"})
             /\ Kids(H, n) # <<>> /\ InBox(H, p, n) -> [node |-> n, distance |-> 0]
        [] OTHER -> ND_0

(* The closest node below n that is no box; a kern only if it is closer    *)
(* than what comes before it.                                              *)
RECURSIVE ClosestDeepChild(_, _, _)
ClosestDeepChild(H, p, n) ==
  LET nd(c) == IF IsBox(H, c) THEN ClosestDeepChild(H, p, c)
               ELSE [node |-> c, distance |-> NodeDistance(H, p, c)]
      better(b, c) == IF \/ nd(c).distance < b.distance
                         \/ nd(c).distance = b.distance /\ Type(H, nd(c).node) # "kern"
                      THEN nd(c) ELSE b
  IN  FoldLeft(better, ND_0, Kids(H, n))

(* The closest children of an hbox to the left and to the right of the     *)
(* point, or those of the first child that contains it.  For a vbox the    *)
(* code looks for the children of no node: it finds none.                  *)
Closer(H, b, nd) ==
  IF \/ nd.distance < b.distance
     \/ /\ nd.distance = b.distance /\ b.node # NULL
        /\ Get(H, b.node, "tag") = Get(H, nd.node, "tag")
        /\ Get(H, b.node, "line") > Get(H, nd.node, "line")
  THEN nd ELSE b
Deepened(H, p, nd) ==
  LET deep == DeepestContainer3(H, p, nd.node) IN IF deep.node # NULL THEN deep ELSE nd
WithClosest(H, p, nd) ==
  LET child == ClosestDeepChild(H, p, nd.node) IN
  IF child.node # NULL THEN [nd EXCEPT !.node = child.node] ELSE nd
Narrowed(H, p, nd) == IF nd.node = NULL THEN nd ELSE WithClosest(H, p, Deepened(H, p, nd))
RECURSIVE ClosestChildren(_, _, _)
ClosestChildren(H, p, n) ==
  LET inside == SelectSeq(Kids(H, n), LAMBDA c : HDistance(H, p, c) = 0 /\ Get(H, c, "child") # NULL)
      look(lr, c) ==
        LET d == HDistance(H, p, c)
            nd == [node |-> c, distance |-> Magnitude(d)]
        IN  CASE d > 0 -> [lr EXCEPT !.r = Closer(H, @, nd)]
              [] d = 0 -> [lr EXCEPT !.l = nd]
              [] d < 0 -> [lr EXCEPT !.l = Closer(H, @, nd)]
      both == FoldLeft(look, [l |-> ND_0, r |-> ND_0], Kids(H, n))
  IN  CASE Type(H, n) \in {"hbox", "proxy_hbox"} /\ inside # <<>> -> ClosestChildren(H, p, inside[1])
        [] Type(H, n) \in {"hbox", "proxy_hbox"} /\ inside = <<>> ->
             [side \in {"l", "r"} |-> Narrowed(H, p, both[side])]
        [] OTHER -> [l |-> ND_0, r |-> ND_0]

(* What is answered: both neighbours, the one on the smaller line first,   *)
(* when they come from different places of the source; otherwise the       *)
(* closer one, or else the box.                                            *)
Answer(H, lr, n) ==
  LET l == lr.l  r == lr.r
      line(nd) == Get(H, nd.node, "line")
      differ == Get(H, l.node, "tag") # Get(H, r.node, "tag") \/ line(l) # line(r)
      rightFirst == line(r) < line(l) \/ (line(r) = line(l) /\ l.distance > r.distance)
      both == IF rightFirst THEN <<r.node, l.node>> ELSE <<l.node, r.node>>
      one == CASE l.node # NULL /\ r.node # NULL -> IF l.distance > r.distance THEN r.node ELSE l.node
               [] l.node = NULL /\ r.node # NULL -> r.node
               [] l.node # NULL /\ r.node = NULL -> l.node
               [] OTHER -> n
  IN  CASE l.node # NULL /\ r.node # NULL /\ differ -> << <<Handle(both[1])>>, <<Handle(both[2])>> >>
        [] ~(l.node # NULL /\ r.node # NULL /\ differ) /\ one # NULL -> << <<Handle(one)>> >>
        [] OTHER -> <<>>

Sheet(H, page) ==
  LET found == SelectSeq(Siblings(H, scanner.sheet), LAMBDA s : Get(H, s, "page") = page)
  IN  IF found # <<>> THEN found[1] ELSE IF page = 0 THEN scanner.sheet ELSE NULL
Hit(p) == [h |-> (p.h - XOffset) * PerUnit, v |-> (p.v - YOffset) * PerUnit]
Containing(H, sheet, p) ==
  SelectSeq(Chain(H, Get(H, sheet, "next_hbox"), "next_hbox"), LAMBDA n : InBox(H, p, n))
EditOf(H, page, p) ==
  LET sheet == Sheet(H, page)
      hboxes == Containing(H, sheet, p)
      smallest == FoldLeft(LAMBDA b, n : SmallestContainer(H, n, b), hboxes[1], Tail(hboxes))
      container == DeepestContainer(H, p, smallest)
      first == Get(H, sheet, "child")
  IN  CASE hboxes # <<>> -> Answer(H, ClosestChildren(H, p, container), container)
        [] hboxes = <<>> /\ first # NULL ->
             Answer(H, [l |-> ClosestDeepChild(H, p, first), r |-> [ND_0 EXCEPT !.distance = 0]], first)
        [] OTHER -> <<>>

NoLoneBox == \A n \in Of({"proxy_last"}) : ~IsBox(heap, n)
Edit ==
  /\ Asking /\ NoLoneBox
  /\ \E page \in Pages, p \in Points :
       /\ iterator' = Iterator(EditOf(heap, page, Hit(p)))
       /\ asked' = [query |-> "edit", page |-> page, point |-> Hit(p)]
  /\ UNCHANGED vars

------------------------------------------------------------------------------
(* The results, one after the other: down a page, then to the next one.    *)
NextResult ==
  /\ Asking /\ iterator.count > 0
  /\ iterator' = IF iterator.at < Len(iterator.pages[iterator.page])
                 THEN [iterator EXCEPT !.at = @ + 1, !.count = @ - 1]
                 ELSE [iterator EXCEPT !.page = @ + 1, !.at = 1, !.count = @ - 1]
  /\ UNCHANGED <<vars, asked>>
Reset ==
  /\ Asking /\ iterator.count # iterator.count0
  /\ iterator' = [iterator EXCEPT !.page = 1, !.at = 1, !.count = iterator.count0]
  /\ UNCHANGED <<vars, asked>>

QueryInit == Init /\ iterator = NoIterator /\ asked = [query |-> "none"]
QueryNext ==
  \/ Next /\ UNCHANGED <<iterator, asked>>
  \/ Display \/ Edit \/ NextResult \/ Reset
QuerySpec == QueryInit /\ [][QueryNext]_queryVars
------------------------------------------------------------------------------
(* Properties.                                                             *)
Found == UNION {{iterator.pages[i][j].node : j \in DOMAIN iterator.pages[i]} : i \in DOMAIN iterator.pages}
(* Taking a result changes neither nodes nor results: it is enough to look *)
(* at them before.                                                         *)
Untaken == iterator.count = iterator.count0
Displayed == asked.query = "display" /\ Untaken

(* A display query answers with nodes of the file it was asked about, all  *)
(* of one line, and no node that can be found is on a line closer to the   *)
(* one asked for, as long as that is not beyond the last line.             *)
NearestLine ==
  (Displayed /\ Found # {}) =>
    LET max == Get(heap, InputWithTag(heap, asked.tag), "line")
        wanted == IF asked.line > max THEN max ELSE asked.line
        off(n) == Magnitude(Line(heap, n) - wanted)
    IN  /\ \A n \in Found : Tag(heap, n) = asked.tag
        /\ \A m, n \in Found : Line(heap, m) = Line(heap, n)
        /\ \A n \in Registered \cap Of({"rule", "math", "boundary", "vbox"}), m \in Found :
             Tag(heap, n) = asked.tag => off(m) <= off(n)

(* The first result is on a page that is at least as close to the hint as  *)
(* any other result's, the results of a page follow each other, and the    *)
(* first of a page is in the hbox with most nodes of the line.             *)
BestFirst ==
  Displayed =>
    \A i \in DOMAIN iterator.pages : \A j \in DOMAIN iterator.pages[i] :
      LET page == iterator.pages[i] IN
      /\ OffHint(heap, iterator.pages[1], asked.hint) <= Magnitude(asked.hint - Page(heap, page[j].node))
      /\ Page(heap, page[j].node) = Page(heap, page[1].node)
      /\ page[j].weight \in 1 .. page[1].weight

(* No two results are in the same hbox: of the nodes of the line one for   *)
(* each line of text.  What is shown for each is a box around it whose     *)
(* lines are the same but for one, and the place of the result is seen in  *)
(* it if only hboxes are in between: a vbox or a form widens none.         *)
LinesShown ==
  Displayed =>
    \A m \in Found :
      LET shown == BoxVisible(heap, m)
          within == (Ancestors(heap, m) \ Ancestors(heap, shown)) \cup {shown}
          place == [h |-> Position(heap, m, "h") \div PerUnit + XOffset,
                    v |-> Position(heap, m, "v") \div PerUnit + YOffset]
      IN  /\ \A n \in Found :
               (m # n /\ Get(heap, m, "parent") = Get(heap, n, "parent")) =>
                 Type(heap, Get(heap, m, "parent")) # "hbox"
          /\ shown \in Ancestors(heap, m)
          /\ Magnitude(MeanLine(heap, shown) - MeanLine(heap, Around(heap, m))) <= 1
          /\ (\A n \in within : Type(heap, n) \notin Proxies \cup {"vbox", "sheet"}) =>
               Within(place, BoxOf(BoxShown(heap, m)))

(* The weights that a query leaves behind do not change what a later one   *)
(* answers.                                                                *)
AnswersRepeat ==
  Displayed =>
    DisplayOf(heap, asked.tag, asked.line, asked.hint).pages = iterator.pages

(* An edit query answers with nodes of the page it was asked about; when   *)
(* the point is in an hbox, they are inside an hbox that contains it and   *)
(* that has the least visible area.                                        *)
AreaOf(n) ==
  LET b == SeenBox(heap, n) IN (b.max.h - b.min.h) * (b.max.v - b.min.v)
EditInside ==
  (asked.query = "edit" /\ Untaken) =>
    \A n \in Found :
      LET sheet == Sheet(heap, asked.page)
          hboxes == ToSet(Containing(heap, sheet, asked.point))
          least == {b \in hboxes : \A c \in hboxes : AreaOf(b) <= AreaOf(c)}
      IN  /\ ParentSheet(heap, n) = sheet
          /\ hboxes # {} => \E b \in least : n = b \/ b \in Ancestors(heap, n)
==============================================================================
