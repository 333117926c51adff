---------------------------- MODULE SynctexProofs ----------------------------
(***************************************************************************)
(* The content section of a synctex file.                                  *)
(***************************************************************************)
EXTENDS SynctexContent, SynctexNodeProofs, TLAPS


LEMMA SetTlcTouch ==
  ASSUME NEW H \in TypedHeaps, NEW s \in Seq(1 .. Count(H)), NEW model \in 1 .. Count(H)
  PROVE  /\ Touch(H, SetTlc(H, s, model), {s[i] : i \in 1 .. Len(s)}, {"tag", "line"})
         /\ SetTlc(H, s, model).list = H.list
<1> DEFINE S == {s[i] : i \in 1 .. Len(s)}
           a == Get(H, model, "tag")
           b == Get(H, model, "line")
           K == SetAll(H, s, "tag", a)
           G == SetAll(K, s, "line", b)
<1>1. Count(H) \in Nat /\ model \in 0 .. Count(H) /\ a \in Int /\ b \in Int
  BY TypedOf DEF NumberFields
<1> HIDE DEF a, b
<1>2. s \in Seq(0 .. Count(H))
  <2>1. 1 .. Count(H) \subseteq 0 .. Count(H)
    BY <1>1
  <2>2. QED
    BY <2>1, SeqMonotonic
<1>3. Fit(H, "tag", a)
  BY <1>1 DEF Fit, NumberFields
<1>4. Wrote(H, K, S, "tag", a) /\ K \in TypedHeaps
  BY <1>2, <1>3, SetAllTyped
<1>5. Touch(H, K, S, {"tag"}) /\ K.list = H.list
  BY <1>3, <1>4, WroteTouch
<1>6. s \in Seq(0 .. Count(K))
  BY <1>2, <1>5 DEF Touch
<1> HIDE DEF K
<1>7. Fit(K, "line", b)
  BY <1>1 DEF Fit, NumberFields
<1>8. Wrote(K, G, S, "line", b) /\ G \in TypedHeaps
  BY <1>4, <1>6, <1>7, SetAllTyped
<1>9. Touch(K, G, S, {"line"}) /\ G.list = K.list
  BY <1>4, <1>7, <1>8, WroteTouch
<1> HIDE DEF G, S
<1>10. Touch(H, G, S \cup S, {"tag"} \cup {"line"})
  BY <1>5, <1>9, TouchTwice
<1>11. S \cup S = S /\ {"tag"} \cup {"line"} = {"tag", "line"}
  OBVIOUS
<1>12. Touch(H, G, S, {"tag", "line"}) /\ G.list = H.list
  BY <1>5, <1>9, <1>10, <1>11
<1>13. G = SetTlc(H, s, model)
  BY DEF G, K, a, b, SetTlc
<1>14. QED
  BY <1>12, <1>13 DEF S

(* What TreeCoherent says follows.                                         *)
LEMMA CoherentTree ==
  ASSUME heap \in TypedHeaps, Tree(heap)
  PROVE  TreeCoherent
<1>1. heap \in Heaps /\ Count(heap) \in Nat /\ DOMAIN heap.node = 1 .. Count(heap)
  BY TypedOf, NodesOf
<1>2. Nodes = 1 .. Count(heap)
  <2>1. \A n \in 1 .. Count(heap) : heap.node[n].type \in ContentTypes
    BY <1>1, NodesOf
  <2>2. "freed" \notin ContentTypes
    BY DEF ContentTypes
  <2>3. QED
    BY <1>1, <2>1, <2>2 DEF Nodes
<1>3. ASSUME NEW n \in 1 .. Count(heap)
      PROVE  LET sibling == Get(heap, n, "sibling")
                 parent == Get(heap, n, "parent")
                 children == Siblings(heap, Get(heap, n, "child"))
             IN  /\ ToSet(children) \subseteq Nodes
                 /\ \A c \in ToSet(children) : Has(heap, c, "parent") => Get(heap, c, "parent") = n
                 /\ Has(heap, parent, "child") =>
                      n \in ToSet(Siblings(heap, Get(heap, parent, "child")))
                 /\ Has(heap, sibling, "arg_sibling") => Get(heap, sibling, "arg_sibling") = n
                 /\ Has(heap, n, "last") => Get(heap, n, "last") = LastOf(children)
  <2> DEFINE sibling == Get(heap, n, "sibling")
             parent == Get(heap, n, "parent")
             children == Siblings(heap, Get(heap, n, "child"))
  <2>1. SiblingRight(heap, n) /\ LastRight(heap, n)
        /\ parent \in 0 .. Count(heap) /\ sibling \in 0 .. Count(heap)
        /\ Get(heap, n, "last") \in 0 .. Count(heap)
        /\ (Type(heap, n) \in Boxes <=> Has(heap, n, "last"))
    BY <1>1, TypedOf, ChildOfInner DEF Tree, LinkFields
  <2>2. ToSet(children) = {m \in 1 .. Count(heap) : Get(heap, m, "parent") = n}
        /\ (Get(heap, n, "child") = NULL => LastOf(children) = NULL)
        /\ \A m \in ToSet(children) : Get(heap, m, "sibling") = NULL => m = LastOf(children)
    BY ChildrenOf
  <2> HIDE DEF children
  <2>3. ASSUME Has(heap, parent, "child")
        PROVE  n \in ToSet(Siblings(heap, Get(heap, parent, "child")))
    <3>1. parent \in 1 .. Count(heap)
      BY <2>1, <2>3 DEF Has, NULL
    <3>2. ToSet(Siblings(heap, Get(heap, parent, "child")))
            = {m \in 1 .. Count(heap) : Get(heap, m, "parent") = parent}
      BY <3>1, ChildrenOf
    <3>3. QED
      BY <3>2
  <2>4. Has(heap, sibling, "arg_sibling") => Get(heap, sibling, "arg_sibling") = n
    BY <2>1 DEF SiblingRight, Has
  <2>5. ASSUME Has(heap, n, "last") PROVE Get(heap, n, "last") = LastOf(children)
    <3>1. CASE Get(heap, n, "child") = NULL
      BY <2>1, <2>2, <2>5, <3>1 DEF LastRight
    <3>2. CASE Get(heap, n, "child") # NULL
      <4> DEFINE l == Get(heap, n, "last")
      <4>1. l # NULL /\ Get(heap, l, "parent") = n /\ Get(heap, l, "sibling") = NULL
        BY <2>1, <2>5, <3>2 DEF LastRight
      <4>2. l \in ToSet(children)
        BY <2>1, <2>2, <4>1 DEF NULL
      <4>3. QED
        BY <2>2, <4>1, <4>2
    <3>3. QED
      BY <3>1, <3>2
  <2>6. QED
    BY <1>2, <2>2, <2>3, <2>4, <2>5 DEF children
<1>4. QED
  BY <1>2, <1>3 DEF TreeCoherent
------------------------------------------------------------------------------
(* Where the records are put.                                              *)
Is(H, n, types) == n = NULL \/ (n \in 1 .. Count(H) /\ Type(H, n) \in types)
Cursors(k) ==
  [mode : {"main", "content"}, sheet : 0 .. k, form : 0 .. k, parent : 0 .. k, child : 0 .. k,
   input : 0 .. k, x : Seq(Seq(1 .. k)), last_k : 0 .. k, last_g : 0 .. k,
   form_depth : Nat, skip : BOOLEAN]
Scanners(k) ==
  [sheet : 0 .. k, form : 0 .. k, input : 0 .. k, ref_in_form : 0 .. k, ref_in_sheet : 0 .. k]
HandlesRight(H, C, S) ==
  /\ C \in Cursors(Count(H)) /\ S \in Scanners(Count(H))
  /\ Is(H, C.sheet, {"sheet"}) /\ Is(H, C.form, {"form"}) /\ Is(H, C.input, {"input"})
  /\ Is(H, C.last_k, {"kern"}) /\ Is(H, C.last_g, {"glue"})
  /\ Is(H, S.sheet, {"sheet"}) /\ Is(H, S.form, {"form"}) /\ Is(H, S.input, {"input"})
  /\ Is(H, S.ref_in_form, {"ref"}) /\ Is(H, S.ref_in_sheet, {"ref"})
  /\ Len(C.x) >= 1
PlaceRight(H, C) ==
  C.mode = "content" =>
    /\ C.parent # NULL /\ Type(H, C.parent) \in Roots \cup Boxes
    /\ C.form = NULL => C.sheet # NULL
    /\ C.child # NULL =>
         /\ Get(H, C.child, "sibling") = NULL /\ Get(H, C.child, "parent") # NULL
         /\ \/ Get(H, C.child, "parent") = C.parent
            \/ (Type(H, C.parent) = "sheet" /\ Type(H, Get(H, C.child, "parent")) = "form")
    /\ C.child = NULL =>
         \/ Type(H, C.parent) \in Roots
         \/ Type(H, C.parent) = "vbox" /\ Get(H, C.parent, "child") = NULL
HeadsRight(H) ==
  \A n \in 1 .. Count(H) :
    Type(H, n) = "hbox" =>
      /\ Get(H, n, "child") # NULL /\ Type(H, Get(H, n, "child")) = "box_bdry"
      /\ Get(H, n, "weight") >= 0

(* How deep the boxes that are open are: deeper than what they are in, and *)
(* not as deep as there are lists of heading boundary nodes.  -1 is for    *)
(* what is not open.                                                       *)
Depths(H, D) ==
  /\ D \in [1 .. Count(H) -> Int]
  /\ \A n \in 1 .. Count(H) :
       /\ Type(H, n) \in Roots => D[n] = 0
       /\ Type(H, n) \notin Roots /\ D[n] # -1 =>
            /\ Type(H, n) \in Boxes /\ D[n] >= 1
            /\ Get(H, n, "sibling") = NULL /\ Get(H, n, "parent") # NULL
            /\ 0 <= D[Get(H, n, "parent")] /\ D[Get(H, n, "parent")] < D[n]
Open(C, D) ==
  C.mode = "content" =>
    /\ 0 <= D[C.parent] /\ D[C.parent] < Len(C.x)
    /\ C.child # NULL => D[C.child] = -1
BoxesRight(H, C) == \E D : Depths(H, D) /\ Open(C, D)

TreeInv ==
  /\ heap \in TypedHeaps /\ Tree(heap) /\ HeadsRight(heap)
  /\ HandlesRight(heap, cur, scanner) /\ PlaceRight(heap, cur) /\ BoxesRight(heap, cur)

(* The node before which there is nothing, or else the one after which a   *)
(* new node comes.                                                         *)
Place(H, C) == IF C.child # NULL THEN Get(H, C.child, "parent") ELSE C.parent

LEMMA AttachOf ==
  ASSUME TreeInv, cur.mode = "content", NEW type \in Inner, NEW data, Plain(data)
  PROVE  /\ Attached(heap, Attach(New(heap, type, data), Fresh(heap)), type, data,
                     cur.child, Place(heap, cur))
         /\ At(heap, cur.child, Place(heap, cur))
         /\ cur.child = NULL => Place(heap, cur) = cur.parent
         /\ Type(heap, cur.parent) # "sheet" => Place(heap, cur) = cur.parent
<1> DEFINE c == cur.child
           p == Place(heap, cur)
<1>1. /\ heap \in TypedHeaps /\ Tree(heap) /\ cur \in Cursors(Count(heap))
      /\ PlaceRight(heap, cur) /\ Count(heap) \in Nat
  BY TypedOf DEF TreeInv, HandlesRight
<1>2. /\ c \in 0 .. Count(heap) /\ cur.parent \in 1 .. Count(heap)
      /\ Type(heap, cur.parent) \in Roots \cup Boxes
  BY <1>1 DEF PlaceRight, Cursors, NULL
<1>3. CASE c = NULL
  <2>1. p = cur.parent
    BY <1>3 DEF Place
  <2>2. Attached(heap, SetChild(New(heap, type, data), p, Fresh(heap)), type, data, NULL, p)
    BY <1>1, <1>2, <2>1, ChildAttached
  <2>3. Attach(New(heap, type, data), Fresh(heap)) = SetChild(New(heap, type, data), p, Fresh(heap))
    BY <1>3, <2>1 DEF Attach
  <2>4. QED
    BY <1>2, <1>3, <2>1, <2>2, <2>3 DEF At
<1>4. CASE c # NULL
  <2>1. p = Get(heap, c, "parent") /\ c \in 1 .. Count(heap)
    BY <1>2, <1>4 DEF Place, NULL
  <2>2. Get(heap, c, "sibling") = NULL /\ p # NULL /\ p \in 0 .. Count(heap)
        /\ (p = cur.parent \/ (Type(heap, cur.parent) = "sheet" /\ Type(heap, p) = "form"))
    BY <1>1, <1>4, <2>1, TypedOf DEF PlaceRight, LinkFields
  <2>3. p \in 1 .. Count(heap) /\ Type(heap, p) \in Roots \cup Boxes
    BY <1>1, <1>2, <2>2 DEF NULL, Roots
  <2>4. Attached(heap, SetSibling(New(heap, type, data), c, Fresh(heap)), type, data, c, p)
    BY <1>1, <2>1, <2>3, SiblingAttached
  <2>5. Attach(New(heap, type, data), Fresh(heap)) = SetSibling(New(heap, type, data), c, Fresh(heap))
    BY <1>4 DEF Attach
  <2>6. QED
    BY <1>4, <2>1, <2>2, <2>3, <2>4, <2>5 DEF At
<1>5. QED
  BY <1>3, <1>4

(* What a record gives.                                                    *)
LEMMA RecordOf ==
  ASSUME NEW r \in Records,
         r.kind \in {"vbox", "hbox", "void_vbox", "void_hbox", "kern", "glue", "rule", "math",
                     "boundary"}
  PROVE  r.kind \in Inner /\ Plain(Read_tlchvwhd(r))
<1> DEFINE d == Read_tlchvwhd(r)
<1>1. \A f \in DOMAIN r \cap Fields[r.kind] : f \in box /\ r[f] \in Int
  BY RecordsAssumption
<1>2. DOMAIN d = DOMAIN r \cap Fields[r.kind] /\ \A f \in DOMAIN d : d[f] = r[f]
  BY DEF Read_tlchvwhd
<1>3. box \cap (LinkFields \cup {"target"}) = {}
  BY DEF box, tlchv, LinkFields
<1> HIDE DEF d
<1>4. Plain(d)
  BY <1>1, <1>2, <1>3 DEF Plain
<1>5. QED
  BY <1>4 DEF Inner, ContentTypes, d
------------------------------------------------------------------------------
(* The operations that leave the links alone.                              *)
LEMMA InputWithTagOf ==
  ASSUME NEW H \in TypedHeaps, Tree(H), Is(H, scanner.input, {"input"}), NEW tag
  PROVE  Is(H, InputWithTag(H, tag), {"input"})
<1> DEFINE n == scanner.input
           all == Siblings(H, n)
           found == {i \in DOMAIN all : Get(H, all[i], "tag") = tag}
           S == {m \in 1 .. Count(H) : Type(H, m) = "input"}
<1>1. /\ H \in Heaps /\ Count(H) \in Nat /\ Follow(H, "sibling") /\ n \in 0 .. Count(H)
      /\ n # NULL => n \in S
      /\ \A m \in 1 .. Count(H) : Get(H, m, "sibling") \in 0 .. Count(H)
  BY TypedOf DEF LinkFields, Is, NULL
<1>2. Follows(H, "sibling", all, n, Fresh(H)) /\ Fresh(H) \in Nat
  BY <1>1, ChainOf, NodesOf DEF Siblings
<1>3. ASSUME NEW m \in S, Get(H, m, "sibling") # NULL PROVE Get(H, m, "sibling") \in S
  <2>1. SiblingRight(H, m) /\ Get(H, m, "sibling") \in 1 .. Count(H)
    BY <1>1, <1>3 DEF Tree, NULL
  <2>2. QED
    BY <2>1, <1>3 DEF SiblingRight
<1> HIDE DEF all, S
<1>4. \A i \in 1 .. Len(all) : all[i] \in S
  <2>1. \A m \in S : m \in 1 .. Count(H) /\ Get(H, m, "sibling") # NULL => Get(H, m, "sibling") \in S
    BY <1>3
  <2>2. QED
    BY <1>1, <1>2, <2>1, InChain
<1>5. DOMAIN all = 1 .. Len(all) /\ Len(all) \in Nat
  BY <1>2, LenProperties DEF Follows
<1>6. CASE found = {}
  BY <1>6 DEF InputWithTag, Is, all, NULL
<1>7. CASE found # {}
  <2>1. found \in SUBSET Nat
    BY <1>5
  <2> DEFINE k == CHOOSE i \in found : \A j \in found : i <= j
  <2>2. k \in found
    <3>1. \E i \in found : \A j \in found : i <= j
      <4> HIDE DEF found
      <4>1. QED
        BY <1>7, <2>1, Least
    <3> HIDE DEF found
    <3>2. QED
      BY <3>1
  <2>3. InputWithTag(H, tag) = all[k]
    BY <1>7 DEF InputWithTag, all
  <2> HIDE DEF k
  <2>4. all[k] \in S
    BY <1>4, <1>5, <2>2
  <2>5. QED
    BY <2>3, <2>4 DEF Is, S
<1>8. QED
  BY <1>6, <1>7

LEMMA InputOf ==
  ASSUME NEW H \in TypedHeaps, Tree(H), Is(H, scanner.input, {"input"}),
         Is(H, cur.input, {"input"}), NEW n
  PROVE  Is(H, Input(H, n), {"input"})
BY InputWithTagOf DEF Input

LEMMA RegisterLineOf ==
  ASSUME NEW H \in TypedHeaps, Tree(H), Is(H, scanner.input, {"input"}),
         Is(H, cur.input, {"input"}), NEW n \in 1 .. Count(H)
  PROVE  /\ Touch(H, RegisterLine(H, n), {m \in 1 .. Count(H) : Type(H, m) = "input"}, {"line"})
         /\ RegisterLine(H, n).list = H.list
<1> DEFINE i == Input(H, n)
           S == {m \in 1 .. Count(H) : Type(H, m) = "input"}
<1>1. Is(H, i, {"input"}) /\ Get(H, n, "line") \in Int /\ Count(H) \in Nat
  BY InputOf, TypedOf DEF NumberFields
<1> HIDE DEF i
<1>2. i \in 0 .. Count(H) /\ Fit(H, "line", Get(H, n, "line"))
  BY <1>1 DEF Is, Fit, NumberFields, NULL
<1>3. RegisterLine(H, n) = H \/ RegisterLine(H, n) = Set(H, i, "line", Get(H, n, "line"))
  BY DEF RegisterLine, i
<1>4. Touch(H, H, S, {"line"})
  BY TouchSame
<1>5. /\ Touch(H, Set(H, i, "line", Get(H, n, "line")), {i}, {"line"})
      /\ Set(H, i, "line", Get(H, n, "line")).list = H.list
  BY <1>2, SetTouch
<1>6. Touch(H, Set(H, i, "line", Get(H, n, "line")), S, {"line"})
  <2>1. CASE i = NULL
    <3>1. Set(H, i, "line", Get(H, n, "line")) = H
      BY <2>1 DEF Set, Has
    <3>2. QED
      BY <3>1, <1>4
  <2>2. CASE i # NULL
    <3>1. {i} \subseteq S
      BY <2>2, <1>1 DEF Is
    <3>2. QED
      BY <3>1, <1>5, TouchMore
  <2>3. QED
    BY <2>1, <2>2
<1>7. QED
  BY <1>3, <1>4, <1>5, <1>6

LEMMA VisibleOf ==
  ASSUME NEW H \in TypedHeaps, NEW n \in 1 .. Count(H)
  PROVE  /\ Visible(H, n) \in Size /\ SizeOf(H, n) \in Size
         /\ Type(H, n) = "hbox" => Visible(H, n) = Get(H, n, "visible")
         /\ PointOf(H, n) \in Point
         /\ PointOf(H, n).h = Get(H, n, "h") /\ PointOf(H, n).v = Get(H, n, "v")
<1>1. SizeOf(H, n) \in Size /\ Get(H, n, "h") \in Int /\ Get(H, n, "v") \in Int
  BY TypedOf DEF SizeOf, Size, NumberFields
<1>2. Type(H, n) = "hbox" => Visible(H, n) = Get(H, n, "visible") /\ Get(H, n, "visible") \in Size
  <2>1. ASSUME Type(H, n) = "hbox"
        PROVE  Get(H, n, "visible") = H.node[n].visible /\ Get(H, n, "visible") \in Size
    <3>1. H \in Heaps /\ "visible" \in Fields["hbox"]
      BY TypedOf, FieldsOf DEF ContentTypes
    <3>2. Get(H, n, "visible") = H.node[n]["visible"]
      BY <2>1, <3>1, NodesOf
    <3>3. QED
      BY <2>1, <3>2 DEF TypedHeaps
  <2>2. QED
    BY <2>1 DEF Visible
<1>3. Type(H, n) # "hbox" => Visible(H, n) = SizeOf(H, n)
  BY DEF Visible
<1>4. Position(H, n, "h") = Get(H, n, "h") /\ Position(H, n, "v") = Get(H, n, "v")
  BY OwnOf
<1>5. QED
  BY <1>1, <1>2, <1>3, <1>4 DEF PointOf, Point

LEMMA ContainOf ==
  ASSUME NEW H \in TypedHeaps, NEW n \in 1 .. Count(H), NEW size \in Size
  PROVE  /\ Touch(H, Contain(H, n, size), {n}, {"visible"})
         /\ Contain(H, n, size).list = H.list
         /\ Type(H, n) = "hbox" => Get(Contain(H, n, size), n, "visible") = size
         /\ Type(H, n) # "hbox" => Contain(H, n, size) = H
<1>1. n \in 0 .. Count(H) /\ Fit(H, "visible", size) /\ H \in Heaps
  BY TypedOf DEF Fit
<1>2. CASE Type(H, n) = "hbox"
  <2>1. Contain(H, n, size) = Set(H, n, "visible", size)
    BY <1>2 DEF Contain
  <2>2. Has(H, n, "visible")
    BY <1>1, <1>2, NodesOf, FieldsOf
  <2>3. Wrote(H, Set(H, n, "visible", size), {n}, "visible", size)
    BY <1>1, SetTyped
  <2>4. Get(Set(H, n, "visible", size), n, "visible") = size
    BY <1>1, <2>2, <2>3 DEF Wrote
  <2>5. QED
    BY <1>1, <1>2, <2>1, <2>4, SetTouch
<1>3. CASE Type(H, n) # "hbox"
  <2>1. Contain(H, n, size) = H
    BY <1>3 DEF Contain
  <2>2. QED
    BY <1>3, <2>1, TouchSame
<1>4. QED
  BY <1>2, <1>3

LEMMA HandleSetTlcOf ==
  ASSUME NEW H \in TypedHeaps, NEW x, x[1] \in Seq(1 .. Count(H)), NEW n \in 1 .. Count(H), NEW b
  PROVE  Touch(H, HandleSetTlc(H, x, n, b), {x[1][i] : i \in 1 .. Len(x[1])},
               {"tag", "line", "friend"})
<1> DEFINE S == {x[1][i] : i \in 1 .. Len(x[1])}
           K == SetTlc(H, x[1], n)
<1>1. Touch(H, K, S, {"tag", "line"})
  BY SetTlcTouch
<1>2. K \in TypedHeaps /\ x[1] \in Seq(1 .. Count(K))
  BY <1>1 DEF Touch
<1> HIDE DEF K
<1>3. Touch(K, Befriended(K, x[1]), S, {"friend"})
  BY <1>2, BefriendedTouch
<1> HIDE DEF S
<1>4. Touch(H, Befriended(K, x[1]), S \cup S, {"tag", "line"} \cup {"friend"})
  BY <1>1, <1>3, TouchTwice
<1>5. S \cup S = S /\ {"tag", "line"} \cup {"friend"} = {"tag", "line", "friend"}
  OBVIOUS
<1>6. Touch(H, K, S, {"tag", "line", "friend"})
  BY <1>1, <1>5, TouchMore
<1>7. HandleSetTlc(H, x, n, b) = IF b THEN Befriended(K, x[1]) ELSE K
  BY DEF HandleSetTlc, K
<1>8. Touch(H, Befriended(K, x[1]), S, {"tag", "line", "friend"})
  BY <1>4, <1>5
<1>9. Touch(H, HandleSetTlc(H, x, n, b), S, {"tag", "line", "friend"})
  BY <1>6, <1>7, <1>8
<1>10. QED
  BY <1>9 DEF S
------------------------------------------------------------------------------
(* A heap that grew, and what leads into it.                               *)
Grown(H, G) ==
  /\ Count(H) <= Count(G)
  /\ \A m \in 0 .. Count(H) : Type(G, m) = Type(H, m)

LEMMA GrownTwice ==
  ASSUME NEW H \in TypedHeaps, NEW G \in TypedHeaps, NEW K \in TypedHeaps, Grown(H, G), Grown(G, K)
  PROVE  Grown(H, K)
<1>1. Count(H) \in Nat /\ Count(G) \in Nat /\ Count(K) \in Nat
  BY TypedOf
<1>2. QED
  BY <1>1 DEF Grown

LEMMA TouchGrown ==
  ASSUME NEW H \in TypedHeaps, NEW G, NEW N, NEW F, Touch(H, G, N, F)
  PROVE  Grown(H, G) /\ G \in TypedHeaps /\ Count(G) = Count(H)
<1>1. Count(H) \in Nat
  BY TypedOf
<1>2. QED
  BY <1>1 DEF Touch, Grown

LEMMA AttachedGrown ==
  ASSUME NEW H \in TypedHeaps, NEW G, NEW type, NEW data, NEW c, NEW p,
         Attached(H, G, type, data, c, p)
  PROVE  /\ Grown(H, G) /\ G \in TypedHeaps /\ Count(G) = Count(H) + 1
         /\ Fresh(H) = Count(H) + 1 /\ Fresh(H) \in 1 .. Count(G) /\ Fresh(H) # NULL
         /\ Count(H) \in Nat
<1>1. Count(H) \in Nat /\ Fresh(H) = Count(H) + 1
  BY TypedOf, NodesOf
<1>2. QED
  BY <1>1 DEF Attached, Grown, NULL

LEMMA HandlesGrow ==
  ASSUME NEW H \in TypedHeaps, NEW G \in TypedHeaps, Grown(H, G), NEW C, NEW S,
         HandlesRight(H, C, S)
  PROVE  HandlesRight(G, C, S)
<1>1. Count(H) \in Nat /\ Count(G) \in Nat /\ Count(H) <= Count(G)
  BY TypedOf DEF Grown
<1>2. ASSUME NEW n, NEW T, Is(H, n, T) PROVE Is(G, n, T)
  BY <1>1, <1>2 DEF Is, Grown, NULL
<1>3. 0 .. Count(H) \subseteq 0 .. Count(G) /\ 1 .. Count(H) \subseteq 1 .. Count(G)
  BY <1>1
<1>4. Seq(Seq(1 .. Count(H))) \subseteq Seq(Seq(1 .. Count(G)))
  <2>1. \A s \in Seq(1 .. Count(H)) : s \in Seq(1 .. Count(G))
    BY <1>3, SeqMonotonic
  <2>2. Seq(1 .. Count(H)) \subseteq Seq(1 .. Count(G))
    BY <2>1
  <2>3. \A s \in Seq(Seq(1 .. Count(H))) : s \in Seq(Seq(1 .. Count(G)))
    BY <2>2, SeqMonotonic
  <2>4. QED
    BY <2>3
<1>5. C \in Cursors(Count(G)) /\ S \in Scanners(Count(G))
  <2>1. C \in Cursors(Count(H)) /\ S \in Scanners(Count(H))
    BY DEF HandlesRight
  <2>2. C \in Cursors(Count(G))
    BY <1>3, <1>4, <2>1 DEF Cursors
  <2>3. S \in Scanners(Count(G))
    BY <1>3, <2>1 DEF Scanners
  <2>4. QED
    BY <2>2, <2>3
<1>6. QED
  BY <1>2, <1>5 DEF HandlesRight

(* The boxes that are open when a node is attached.                        *)
LEMMA OpenGrow ==
  ASSUME TreeInv, cur.mode = "content", NEW type \in Inner, NEW data, NEW G, NEW p,
         Attached(heap, G, type, data, cur.child, p), At(heap, cur.child, p),
         cur.child = NULL => p = cur.parent,
         Type(heap, cur.parent) # "sheet" => p = cur.parent,
         NEW d \in Int, d = -1 \/ (type \in Boxes /\ d = Len(cur.x))
  PROVE  \E D : /\ Depths(G, D) /\ D[Fresh(heap)] = d
                /\ 0 <= D[cur.parent] /\ D[cur.parent] < Len(cur.x)
<1> DEFINE n == Fresh(heap)
           c == cur.child
           q == cur.parent
           k == Len(cur.x)
<1>1. /\ heap \in TypedHeaps /\ Tree(heap) /\ cur \in Cursors(Count(heap))
      /\ PlaceRight(heap, cur) /\ Count(heap) \in Nat /\ G \in TypedHeaps
      /\ n = Count(heap) + 1 /\ Count(G) = Count(heap) + 1 /\ n # NULL
  BY AttachedGrown DEF TreeInv, HandlesRight
<1>2. q \in 1 .. Count(heap) /\ Type(heap, q) \in Roots \cup Boxes /\ k \in Nat /\ k >= 1
      /\ c \in 0 .. Count(heap)
  BY <1>1, LenProperties DEF PlaceRight, Cursors, NULL, HandlesRight, TreeInv
<1>3. p \in 1 .. Count(heap) /\ Type(heap, p) \in Roots \cup Boxes
  BY DEF At
<1>4. /\ \A m \in 1 .. Count(G) : m = n \/ m \in 1 .. Count(heap)
      /\ \A m \in 1 .. Count(heap) : m \in 1 .. Count(G) /\ m # n /\ m \in 0 .. Count(heap)
  BY <1>1
<1>5. /\ \A m \in 1 .. Count(heap) :
           /\ Type(G, m) = Type(heap, m)
           /\ Get(G, m, "sibling") = IF c # NULL /\ m = c THEN n ELSE Get(heap, m, "sibling")
           /\ Get(G, m, "parent") = IF c = NULL /\ Get(heap, m, "parent") = p THEN NULL
                                    ELSE Get(heap, m, "parent")
      /\ Type(G, n) = type /\ Get(G, n, "parent") = p /\ Get(G, n, "sibling") = NULL
  BY <1>4 DEF Attached
<1> HIDE DEF n, k
<1>6. CASE Type(heap, q) \in Roots
  <2> DEFINE E == [m \in 1 .. Count(G) |-> IF m = n THEN d ELSE IF Type(G, m) \in Roots THEN 0 ELSE -1]
  <2>1. Type(heap, p) \in Roots
    <3>1. CASE c = NULL
      BY <1>6, <3>1
    <3>2. CASE c # NULL
      <4>1. p = Get(heap, c, "parent")
        BY <3>2 DEF At
      <4>2. p = q \/ Type(heap, p) = "form"
        BY <3>2, <4>1, <1>1 DEF PlaceRight
      <4>3. QED
        BY <4>2, <1>6 DEF Roots
    <3>3. QED
      BY <3>1, <3>2
  <2>2. E \in [1 .. Count(G) -> Int] /\ \A m \in 1 .. Count(G) :
          E[m] = IF m = n THEN d ELSE IF Type(G, m) \in Roots THEN 0 ELSE -1
    OBVIOUS
  <2> HIDE DEF E
  <2>3. E[n] = d /\ E[p] = 0 /\ E[q] = 0
    BY <2>1, <2>2, <1>1, <1>2, <1>3, <1>4, <1>5, <1>6
  <2>4. ASSUME NEW m \in 1 .. Count(G)
        PROVE  /\ Type(G, m) \in Roots => E[m] = 0
               /\ Type(G, m) \notin Roots /\ E[m] # -1 =>
                    /\ Type(G, m) \in Boxes /\ E[m] >= 1
                    /\ Get(G, m, "sibling") = NULL /\ Get(G, m, "parent") # NULL
                    /\ 0 <= E[Get(G, m, "parent")] /\ E[Get(G, m, "parent")] < E[m]
    <3>1. CASE m # n
      BY <3>1, <2>2
    <3>2. CASE m = n
      <4>1. type \notin Roots /\ p # NULL
        BY <1>3 DEF Inner, Roots, NULL
      <4>2. E[m] # -1 => type \in Boxes /\ E[m] = k /\ k >= 1
        BY <3>2, <2>3, <1>2 DEF k
      <4>3. QED
        BY <3>2, <4>1, <4>2, <1>2, <1>5, <2>3
    <3>3. QED
      BY <3>1, <3>2
  <2>5. Depths(G, E)
    BY <2>2, <2>4 DEF Depths
  <2>6. 0 <= E[q] /\ E[q] < k
    BY <2>3, <1>2
  <2>7. QED
    BY <2>3, <2>5, <2>6 DEF n, k
<1>7. CASE Type(heap, q) \notin Roots
  <2>1. PICK D : Depths(heap, D) /\ Open(cur, D)
    BY DEF TreeInv, BoxesRight
  <2>2. p = q /\ Type(heap, q) \in Boxes
    BY <1>2, <1>7 DEF Roots
  <2>3. 0 <= D[q] /\ D[q] < k /\ (c # NULL => D[c] = -1) /\ D \in [1 .. Count(heap) -> Int]
    BY <2>1 DEF Open, Depths, k
  <2> DEFINE E == [m \in 1 .. Count(G) |-> IF m = n THEN d ELSE D[m]]
  <2>4. E \in [1 .. Count(G) -> Int] /\ E[n] = d /\ \A m \in 1 .. Count(heap) : E[m] = D[m]
    <3>1. \A m \in 1 .. Count(G) : m # n => D[m] \in Int
      BY <1>4, <2>3
    <3>2. E \in [1 .. Count(G) -> Int]
      BY <3>1
    <3>3. n \in 1 .. Count(G)
      BY <1>1
    <3>4. QED
      BY <1>4, <3>2, <3>3
  <2> HIDE DEF E
  <2>5. ASSUME NEW m \in 1 .. Count(heap), Type(heap, m) \notin Roots, D[m] # -1
        PROVE  /\ Type(G, m) \in Boxes /\ E[m] >= 1
               /\ Get(G, m, "sibling") = NULL /\ Get(G, m, "parent") # NULL
               /\ 0 <= E[Get(G, m, "parent")] /\ E[Get(G, m, "parent")] < E[m]
    <3> DEFINE l == Get(heap, m, "parent")
    <3>1. /\ Type(heap, m) \in Boxes /\ D[m] >= 1
          /\ Get(heap, m, "sibling") = NULL /\ l # NULL
          /\ 0 <= D[l] /\ D[l] < D[m]
      BY <2>1, <2>5 DEF Depths
    <3>2. l \in 1 .. Count(heap)
      <4>1. l \in 0 .. Count(heap)
        BY <1>1, <1>4, TypedOf DEF LinkFields
      <4>2. QED
        BY <1>1, <3>1, <4>1 DEF NULL
    <3>3. Get(G, m, "sibling") = NULL
      <4>1. c # NULL => m # c
        BY <2>3, <2>5
      <4>2. QED
        BY <3>1, <4>1, <1>5
    <3>4. Get(G, m, "parent") = l
      <4>1. CASE c = NULL /\ l = p
        <5>1. ParentRight(heap, m) /\ Get(heap, p, "child") # NULL
          BY <3>1, <4>1, <1>1 DEF Tree, ParentRight
        <5>2. Get(heap, p, "child") = NULL
          BY <4>1, <2>2, <1>1, <1>7 DEF PlaceRight
        <5>3. QED
          BY <5>1, <5>2
      <4>2. CASE ~ (c = NULL /\ l = p)
        BY <4>2, <1>5
      <4>3. QED
        BY <4>1, <4>2
    <3>5. QED
      BY <3>1, <3>2, <3>3, <3>4, <2>4, <1>5
  <2>6. ASSUME NEW m \in 1 .. Count(G)
        PROVE  /\ Type(G, m) \in Roots => E[m] = 0
               /\ Type(G, m) \notin Roots /\ E[m] # -1 =>
                    /\ Type(G, m) \in Boxes /\ E[m] >= 1
                    /\ Get(G, m, "sibling") = NULL /\ Get(G, m, "parent") # NULL
                    /\ 0 <= E[Get(G, m, "parent")] /\ E[Get(G, m, "parent")] < E[m]
    <3>1. CASE m # n
      <4>1. m \in 1 .. Count(heap) /\ Type(G, m) = Type(heap, m) /\ E[m] = D[m]
        BY <3>1, <1>4, <1>5, <2>4
      <4>2. Type(heap, m) \in Roots => D[m] = 0
        BY <4>1, <2>1 DEF Depths
      <4>3. QED
        BY <4>1, <4>2, <2>5
    <3>2. CASE m = n
      <4>1. type \notin Roots /\ p # NULL
        BY <1>3 DEF Inner, Roots, NULL
      <4>2. E[m] # -1 => type \in Boxes /\ E[m] = k /\ k >= 1
        BY <3>2, <2>4, <1>2 DEF k
      <4>3. E[p] = D[p]
        BY <1>3, <2>4
      <4>4. QED
        BY <3>2, <4>1, <4>2, <4>3, <1>5, <2>2, <2>3
    <3>3. QED
      BY <3>1, <3>2
  <2>7. Depths(G, E)
    BY <2>4, <2>6 DEF Depths
  <2>8. 0 <= E[q] /\ E[q] < k
    BY <2>3, <2>4, <1>2
  <2>9. QED
    BY <2>4, <2>7, <2>8 DEF n, k
<1>8. QED
  BY <1>6, <1>7

LEMMA TouchDepths ==
  ASSUME NEW H \in TypedHeaps, NEW D, Depths(H, D), NEW G, NEW N, NEW F, Touch(H, G, N, F),
         F \cap Links = {}
  PROVE  Depths(G, D)
<1>1. Count(G) = Count(H) /\ Count(H) \in Nat
  BY TypedOf DEF Touch
<1>2. \A m \in 0 .. Count(H) :
        /\ Type(G, m) = Type(H, m)
        /\ Get(G, m, "sibling") = Get(H, m, "sibling") /\ Get(G, m, "parent") = Get(H, m, "parent")
  BY DEF Touch, Links
<1>3. QED
  BY <1>1, <1>2 DEF Depths

LEMMA TouchHeads ==
  ASSUME NEW H \in TypedHeaps, HeadsRight(H), NEW G, NEW N, NEW F, Touch(H, G, N, F),
         F \cap (Links \cup {"weight"}) = {}
  PROVE  HeadsRight(G)
<1>1. Count(G) = Count(H) /\ Count(H) \in Nat
      /\ \A m \in 0 .. Count(H) : Get(H, m, "child") \in 0 .. Count(H)
  BY TypedOf DEF Touch, LinkFields
<1>2. \A m \in 0 .. Count(H) :
        /\ Type(G, m) = Type(H, m)
        /\ Get(G, m, "child") = Get(H, m, "child") /\ Get(G, m, "weight") = Get(H, m, "weight")
  BY DEF Touch, Links
<1>3. QED
  BY <1>1, <1>2 DEF HeadsRight

LEMMA AttachedHeads ==
  ASSUME NEW H \in TypedHeaps, HeadsRight(H), NEW G, NEW type, NEW data, NEW c, NEW p,
         Attached(H, G, type, data, c, p), NEW n \in 1 .. Count(H), Type(H, n) = "hbox",
         c = NULL => n # p
  PROVE  /\ Get(G, n, "child") # NULL /\ Type(G, Get(G, n, "child")) = "box_bdry"
         /\ Get(G, n, "weight") >= 0
<1>1. Count(H) \in Nat /\ n \in 0 .. Count(H) /\ Get(H, n, "child") \in 0 .. Count(H)
  BY TypedOf DEF LinkFields
<1>2. /\ Get(G, n, "child") = Get(H, n, "child") /\ Get(G, n, "weight") = Get(H, n, "weight")
      /\ Type(G, Get(H, n, "child")) = Type(H, Get(H, n, "child"))
  BY <1>1 DEF Attached
<1>3. QED
  BY <1>2 DEF HeadsRight

(* A node that is no box is attached, and what follows leaves links alone. *)
LEMMA LeafKeeps ==
  ASSUME TreeInv, cur.mode = "content", NEW type \in Inner \ Boxes, NEW data, NEW A, NEW p,
         Attached(heap, A, type, data, cur.child, p), At(heap, cur.child, p),
         cur.child = NULL => p = cur.parent,
         Type(heap, cur.parent) # "sheet" => p = cur.parent,
         NEW G, NEW N, NEW F, Touch(A, G, N, F), F \cap (Links \cup {"weight"}) = {},
         NEW C, C.mode = "content", C.parent = cur.parent, C.child = Fresh(heap),
         C.form = cur.form, C.sheet = cur.sheet, Len(C.x) = Len(cur.x)
  PROVE  /\ G \in TypedHeaps /\ Tree(G) /\ HeadsRight(G) /\ Grown(heap, G)
         /\ Count(G) = Count(heap) + 1
         /\ PlaceRight(G, C) /\ BoxesRight(G, C)
<1> DEFINE n == Fresh(heap)
<1>1. /\ heap \in TypedHeaps /\ Tree(heap) /\ cur \in Cursors(Count(heap)) /\ HeadsRight(heap)
      /\ PlaceRight(heap, cur) /\ Count(heap) \in Nat /\ A \in TypedHeaps
      /\ n = Count(heap) + 1 /\ Count(A) = Count(heap) + 1 /\ n # NULL /\ n \in 1 .. Count(A)
      /\ Grown(heap, A)
  BY AttachedGrown DEF TreeInv, HandlesRight
<1>2. G \in TypedHeaps /\ Count(G) = Count(A) /\ Grown(A, G)
  BY <1>1, TouchGrown
<1>3. Grown(heap, G)
  BY <1>1, <1>2, GrownTwice
<1>4. Tree(A)
  BY <1>1, AttachedTree
<1>5. F \cap Links = {}
  OBVIOUS
<1>6. Tree(G)
  BY <1>1, <1>4, <1>5, TouchTree
<1>7. cur.parent \in 1 .. Count(heap) /\ cur.parent \in 0 .. Count(heap)
      /\ Type(heap, cur.parent) \in Roots \cup Boxes
      /\ cur.child \in 0 .. Count(heap)
  BY <1>1 DEF PlaceRight, Cursors, NULL
<1>8. HeadsRight(A)
  <2>1. ASSUME NEW m \in 1 .. Count(A), Type(A, m) = "hbox"
        PROVE  /\ Get(A, m, "child") # NULL /\ Type(A, Get(A, m, "child")) = "box_bdry"
               /\ Get(A, m, "weight") >= 0
    <3>1. m # n
      BY <2>1 DEF Attached, Boxes
    <3>2. m \in 1 .. Count(heap) /\ Type(heap, m) = "hbox"
      BY <3>1, <2>1, <1>1 DEF Grown
    <3>3. cur.child = NULL => m # p
      BY <3>2, <1>1 DEF PlaceRight, Roots
    <3>4. QED
      BY <1>1, <3>2, <3>3, AttachedHeads
  <2>2. QED
    BY <2>1 DEF HeadsRight
<1>9. HeadsRight(G)
  BY <1>1, <1>8, TouchHeads
<1>10. PICK D : /\ Depths(A, D) /\ D[n] = -1
                /\ 0 <= D[cur.parent] /\ D[cur.parent] < Len(cur.x)
  <2>1. -1 \in Int /\ type \in Inner
    OBVIOUS
  <2>2. QED
    BY <2>1, OpenGrow
<1>11. Depths(G, D)
  BY <1>1, <1>5, <1>10, TouchDepths
<1>12. Open(C, D)
  BY <1>10 DEF Open
<1>13. PlaceRight(G, C)
  <2>1. Get(G, n, "sibling") = NULL /\ Get(G, n, "parent") = p
    <3>1. Get(A, n, "sibling") = NULL /\ Get(A, n, "parent") = p
      BY DEF Attached
    <3>2. "sibling" \notin F /\ "parent" \notin F /\ n \in 0 .. Count(A)
      BY <1>1, <1>5 DEF Links
    <3>3. QED
      BY <3>1, <3>2 DEF Touch
  <2>2. p \in 1 .. Count(heap) /\ p \in 0 .. Count(heap) /\ p # NULL
    BY <1>1 DEF At, NULL
  <2>3. p = cur.parent \/ (Type(heap, cur.parent) = "sheet" /\ Type(heap, p) = "form")
    BY <1>1, <1>7 DEF At, PlaceRight
  <2>4. Type(G, cur.parent) = Type(heap, cur.parent) /\ Type(G, p) = Type(heap, p)
    BY <1>3, <1>7, <2>2 DEF Grown
  <2>5. cur.parent # NULL /\ (cur.form = NULL => cur.sheet # NULL)
    BY <1>1 DEF PlaceRight
  <2>6. QED
    BY <2>1, <2>2, <2>3, <2>4, <2>5, <1>1, <1>7 DEF PlaceRight
<1>14. QED
  BY <1>1, <1>2, <1>3, <1>6, <1>9, <1>11, <1>12, <1>13 DEF BoxesRight

(* What is done with a new node that is no box.                            *)
Friended(H, friend) == IF friend /\ cur.form = NULL THEN MakeFriendTlc(H, Fresh(heap)) ELSE H
Followed(H, friend) ==
  HandleSetTlc(Friended(H, friend), cur.x, Fresh(heap), cur.form = NULL)
PlacedHeap(H, friend, size) ==
  RegisterLine(Contain(Followed(H, friend), cur.parent, size), Fresh(heap))
Data == {"tag", "line", "friend", "visible"}

LEMMA FriendedOf ==
  ASSUME NEW A \in TypedHeaps, Fresh(heap) \in 1 .. Count(A), NEW b
  PROVE  Touch(A, Friended(A, b), {Fresh(heap)}, {"friend"})
<1>1. Touch(A, A, {Fresh(heap)}, {"friend"})
  BY TouchSame
<1>2. Befriends(A, MakeFriendTlc(A, Fresh(heap)), Fresh(heap))
  BY MakeFriendOf
<1>3. Touch(A, MakeFriendTlc(A, Fresh(heap)), {Fresh(heap)}, {"friend"})
  BY <1>2, BefriendsTouch
<1>4. QED
  BY <1>1, <1>3 DEF Friended

LEMMA PlacedOf ==
  ASSUME TreeInv, cur.mode = "content", NEW A \in TypedHeaps, Tree(A), Grown(heap, A),
         Fresh(heap) \in 1 .. Count(A), NEW b, NEW size \in Size
  PROVE  /\ Touch(A, Friended(A, b), {Fresh(heap)}, {"friend"})
         /\ Touch(Friended(A, b), Followed(A, b), {cur.x[1][i] : i \in 1 .. Len(cur.x[1])},
                  {"tag", "line", "friend"})
         /\ Touch(Followed(A, b), Contain(Followed(A, b), cur.parent, size), {cur.parent}, {"visible"})
         /\ Touch(Contain(Followed(A, b), cur.parent, size), PlacedHeap(A, b, size),
                  {m \in 1 .. Count(A) : Type(A, m) = "input"}, {"line"})
         /\ PlacedHeap(A, b, size).list = Followed(A, b).list
         /\ Touch(A, PlacedHeap(A, b, size), 0 .. Count(A), Data)
         /\ cur.x[1] \in Seq(1 .. Count(heap)) /\ cur.parent \in 1 .. Count(heap)
<1> DEFINE n == Fresh(heap)
           B == Friended(A, b)
           C == Followed(A, b)
           D == Contain(C, cur.parent, size)
           G == PlacedHeap(A, b, size)
           All == 0 .. Count(A)
           X == {cur.x[1][i] : i \in 1 .. Len(cur.x[1])}
           I == {m \in 1 .. Count(A) : Type(A, m) = "input"}
<1>1. /\ heap \in TypedHeaps /\ cur \in Cursors(Count(heap)) /\ Len(cur.x) >= 1
      /\ Is(heap, scanner.input, {"input"}) /\ Is(heap, cur.input, {"input"})
      /\ Count(heap) \in Nat /\ Count(A) \in Nat /\ Count(heap) <= Count(A)
      /\ PlaceRight(heap, cur) /\ HandlesRight(heap, cur, scanner)
  BY TypedOf DEF TreeInv, HandlesRight, Grown
<1>2. cur.parent \in 1 .. Count(heap)
  BY <1>1 DEF PlaceRight, Cursors, NULL
<1>3. cur.x[1] \in Seq(1 .. Count(heap)) /\ cur.x[1] \in Seq(1 .. Count(A))
  <2>1. cur.x \in Seq(Seq(1 .. Count(heap)))
    BY <1>1 DEF Cursors
  <2>2. 1 \in 1 .. Len(cur.x)
    BY <1>1, <2>1, LenProperties
  <2>3. cur.x[1] \in Seq(1 .. Count(heap))
    BY <2>1, <2>2, ElementOfSeq
  <2>4. 1 .. Count(heap) \subseteq 1 .. Count(A)
    BY <1>1
  <2>5. QED
    BY <2>3, <2>4, SeqMonotonic
<1>4. Touch(A, B, {n}, {"friend"})
  BY FriendedOf
<1>5. B \in TypedHeaps /\ Count(B) = Count(A) /\ Grown(A, B)
  BY <1>4, TouchGrown
<1> HIDE DEF B
<1>6. Touch(B, C, X, {"tag", "line", "friend"})
  <2>1. C = HandleSetTlc(B, cur.x, n, cur.form = NULL)
    BY DEF Followed, B
  <2>2. QED
    BY <2>1, <1>3, <1>5, HandleSetTlcOf
<1>7. C \in TypedHeaps /\ Count(C) = Count(A) /\ Grown(B, C)
  BY <1>5, <1>6, TouchGrown
<1> HIDE DEF C
<1>8. cur.parent \in 1 .. Count(C)
  BY <1>1, <1>2, <1>7
<1>9. Touch(C, D, {cur.parent}, {"visible"}) /\ D.list = C.list
  BY <1>7, <1>8, ContainOf
<1>10. D \in TypedHeaps /\ Count(D) = Count(A) /\ Grown(C, D)
  BY <1>7, <1>9, TouchGrown
<1> HIDE DEF D
<1>11. Touch(A, D, All, Data) /\ Tree(D)
  <2>1. {n} \subseteq All /\ X \subseteq All /\ {cur.parent} \subseteq All
        /\ {"friend"} \subseteq Data /\ {"tag", "line", "friend"} \subseteq Data /\ {"visible"} \subseteq Data
    <3>1. X \subseteq All
      <4>1. \A i \in 1 .. Len(cur.x[1]) : cur.x[1][i] \in 1 .. Count(A)
        BY <1>3, ElementOfSeq
      <4>2. QED
        BY <4>1, <1>1
    <3>2. QED
      BY <3>1, <1>1, <1>2 DEF Data
  <2> HIDE DEF All, X
  <2>2. Touch(A, B, All, Data) /\ Touch(B, C, All, Data) /\ Touch(C, D, All, Data)
    BY <2>1, <1>4, <1>6, <1>9, TouchMore
  <2>3. Touch(A, C, All \cup All, Data \cup Data)
    BY <2>2, TouchTwice
  <2>4. All \cup All = All /\ Data \cup Data = Data
    OBVIOUS
  <2>5. Touch(A, C, All, Data)
    BY <2>3, <2>4
  <2>6. Touch(A, D, All \cup All, Data \cup Data)
    BY <2>2, <2>5, TouchTwice
  <2>7. Touch(A, D, All, Data)
    BY <2>4, <2>6
  <2>8. Data \cap Links = {}
    BY DEF Data, Links
  <2>9. QED
    BY <2>7, <2>8, TouchTree
<1>12. Is(D, scanner.input, {"input"}) /\ Is(D, cur.input, {"input"})
  <2>1. Grown(A, D)
    <3>1. Grown(A, C)
      BY <1>5, <1>7, GrownTwice
    <3>2. QED
      BY <3>1, <1>7, <1>10, GrownTwice
  <2>2. Grown(heap, D)
    BY <2>1, <1>1, <1>10, GrownTwice
  <2>3. HandlesRight(D, cur, scanner)
    BY <2>2, <1>1, <1>10, HandlesGrow
  <2>4. QED
    BY <2>3 DEF HandlesRight
<1>13. n \in 1 .. Count(D)
  BY <1>10
<1>14. Touch(D, G, {m \in 1 .. Count(D) : Type(D, m) = "input"}, {"line"}) /\ G.list = D.list
  <2>1. G = RegisterLine(D, n)
    BY DEF PlacedHeap, D, C
  <2>2. QED
    BY <2>1, <1>10, <1>11, <1>12, <1>13, RegisterLineOf
<1>15. {m \in 1 .. Count(D) : Type(D, m) = "input"} = I
  <2>1. \A m \in 1 .. Count(A) : Type(D, m) = Type(A, m)
    BY <1>1, <1>11 DEF Touch
  <2>2. QED
    BY <2>1, <1>10
<1> HIDE DEF G
<1>16. Touch(A, G, All, Data)
  <2>1. I \subseteq All /\ {"line"} \subseteq Data
    BY <1>1 DEF Data
  <2> HIDE DEF I, All
  <2>2. Touch(D, G, All, Data)
    BY <2>1, <1>14, <1>15, TouchMore
  <2>3. Touch(A, G, All \cup All, Data \cup Data)
    BY <2>2, <1>11, TouchTwice
  <2>4. All \cup All = All /\ Data \cup Data = Data
    OBVIOUS
  <2>5. QED
    BY <2>3, <2>4
<1> HIDE DEF I, All, X
<1>17. Touch(D, G, I, {"line"}) /\ G.list = C.list
  BY <1>9, <1>14, <1>15
<1>18. QED
  BY <1>2, <1>3, <1>4, <1>6, <1>9, <1>16, <1>17 DEF B, C, D, G, I, All, X
------------------------------------------------------------------------------
(* The lists of heading boundary nodes.                                    *)
LEMMA Lists ==
  ASSUME NEW k \in Nat, NEW x \in Seq(Seq(1 .. k)), Len(x) >= 1
  PROVE  /\ <<(<<>>)>> \o x \in Seq(Seq(1 .. k)) /\ Len(<<(<<>>)>> \o x) = Len(x) + 1
         /\ <<(<<>>)>> \o Tail(x) \in Seq(Seq(1 .. k)) /\ Len(<<(<<>>)>> \o Tail(x)) = Len(x)
         /\ Tail(x) \in Seq(Seq(1 .. k)) /\ x[1] \in Seq(1 .. k)
         /\ Len(x) >= 2 =>
              /\ Tail(x)[1] = x[2] /\ x[2] \in Seq(1 .. k)
              /\ <<(<<>>)>> \o Tail(Tail(x)) \in Seq(Seq(1 .. k))
              /\ Len(<<(<<>>)>> \o Tail(Tail(x))) = Len(x) - 1
         /\ \A n \in 1 .. k :
              /\ [x EXCEPT ![1] = <<n>> \o @] \in Seq(Seq(1 .. k))
              /\ Len([x EXCEPT ![1] = <<n>> \o @]) = Len(x)
<1> DEFINE X == Seq(1 .. k)
<1>1. <<>> \in X /\ \A n \in 1 .. k, y \in X : <<n>> \o y \in X
  BY Before, EmptySeq
<1> HIDE DEF X
<1>2. x \in Seq(X) /\ x # <<>> /\ Len(x) \in Nat
  BY DEF X
<1>3. Tail(x) \in Seq(X) /\ Len(Tail(x)) = Len(x) - 1 /\ x[1] \in X
      /\ \A i \in 1 .. Len(Tail(x)) : Tail(x)[i] = x[i + 1]
  BY <1>2, HeadTailProperties, ElementOfSeq
<1>4. <<(<<>>)>> \o x \in Seq(X) /\ Len(<<(<<>>)>> \o x) = Len(x) + 1
  BY <1>1, <1>2, Before
<1>5. <<(<<>>)>> \o Tail(x) \in Seq(X) /\ Len(<<(<<>>)>> \o Tail(x)) = Len(x)
  <2>1. <<(<<>>)>> \o Tail(x) \in Seq(X) /\ Len(<<(<<>>)>> \o Tail(x)) = Len(Tail(x)) + 1
    BY <1>1, <1>3, Before
  <2>2. QED
    BY <2>1, <1>2, <1>3
<1>6. ASSUME Len(x) >= 2
      PROVE  /\ Tail(x)[1] = x[2] /\ x[2] \in X
             /\ <<(<<>>)>> \o Tail(Tail(x)) \in Seq(X)
             /\ Len(<<(<<>>)>> \o Tail(Tail(x))) = Len(x) - 1
  <2> DEFINE l == Len(x)
             t == Len(Tail(x))
  <2>0. l \in Nat /\ l >= 2 /\ t = l - 1
    BY <1>6, <1>2, <1>3
  <2> HIDE DEF l, t
  <2>6. 1 \in 1 .. t /\ 2 \in 1 .. l /\ t # 0
    BY <2>0
  <2>7. Len(<<>>) = 0
    OBVIOUS
  <2>1. Tail(x) # <<>> /\ 1 \in 1 .. Len(Tail(x)) /\ 2 \in 1 .. Len(x)
    BY <2>6, <2>7 DEF l, t
  <2>2. Tail(x)[1] = x[2] /\ x[2] \in X
    BY <2>1, <1>2, <1>3, ElementOfSeq
  <2>3. Tail(Tail(x)) \in Seq(X) /\ Len(Tail(Tail(x))) = Len(Tail(x)) - 1
    BY <2>1, <1>3, HeadTailProperties
  <2>4. /\ <<(<<>>)>> \o Tail(Tail(x)) \in Seq(X)
        /\ Len(<<(<<>>)>> \o Tail(Tail(x))) = Len(Tail(Tail(x))) + 1
    BY <1>1, <2>3, Before
  <2>8. Len(<<(<<>>)>> \o Tail(Tail(x))) = (t - 1) + 1
    BY <2>3, <2>4 DEF t
  <2>5. QED
    BY <2>0, <2>2, <2>4, <2>8 DEF l
<1>7. ASSUME NEW n \in 1 .. k
      PROVE  /\ [x EXCEPT ![1] = <<n>> \o @] \in Seq(X)
             /\ Len([x EXCEPT ![1] = <<n>> \o @]) = Len(x)
  <2> DEFINE y == <<n>> \o x[1]
  <2>1. y \in X
    BY <1>1, <1>3
  <2> HIDE DEF y
  <2>2. [x EXCEPT ![1] = y] \in Seq(X) /\ Len([x EXCEPT ![1] = y]) = Len(x)
    BY <2>1, <1>2, ExceptSeq
  <2>3. QED
    BY <2>2 DEF y
<1>8. QED
  BY <1>3, <1>4, <1>5, <1>6, <1>7 DEF X

(* A node that is no box and what the records of its class do with it.     *)
Leaves == {"void_vbox", "void_hbox", "kern", "glue", "rule", "math"}

LEMMA LeafStep ==
  ASSUME TreeInv, InContent, NEW r \in Records, r.kind \in Leaves,
         NEW b, NEW size \in Size, Placed(Made(r), b, size),
         NEW k, k = NULL \/ k = cur.last_k \/ (r.kind = "kern" /\ k = Fresh(heap)),
         NEW g, g = NULL \/ (r.kind = "glue" /\ g = Fresh(heap)),
         AfterLeaf(Made(r), k, g)
  PROVE  TreeInv'
<1> DEFINE n == Fresh(heap)
           A == Made(r)
           G == PlacedHeap(A, b, size)
           data == Read_tlchvwhd(r)
           p == Place(heap, cur)
<1>1. cur.mode = "content"
  BY DEF InContent
<1>2. r.kind \in Inner \ Boxes /\ Plain(data)
  BY RecordOf DEF Leaves, Boxes
<1>3. /\ Attached(heap, A, r.kind, data, cur.child, p) /\ At(heap, cur.child, p)
      /\ cur.child = NULL => p = cur.parent
      /\ Type(heap, cur.parent) # "sheet" => p = cur.parent
  BY <1>1, <1>2, AttachOf DEF Made
<1> HIDE DEF A
<1>4. /\ heap \in TypedHeaps /\ Tree(heap) /\ A \in TypedHeaps /\ Grown(heap, A)
      /\ Count(A) = Count(heap) + 1 /\ n = Count(heap) + 1 /\ n \in 1 .. Count(A) /\ n # NULL
      /\ Count(heap) \in Nat /\ HandlesRight(heap, cur, scanner)
  BY <1>3, AttachedGrown DEF TreeInv
<1>5. Tree(A)
  BY <1>2, <1>3, <1>4, AttachedTree
<1>6. Touch(A, G, 0 .. Count(A), Data)
  BY <1>1, <1>4, <1>5, PlacedOf
<1>7. heap' = G /\ scanner' = scanner
  BY DEF Placed, PlacedHeap, Followed, Friended, A
<1>8. HandlesRight(A, cur, scanner)
  BY <1>4, HandlesGrow
<1>9. Is(A, Input(A, n), {"input"})
  BY <1>4, <1>5, <1>8, InputOf DEF HandlesRight
<1> DEFINE y == <<(<<>>)>> \o Tail(cur.x)
<1>10. y \in Seq(Seq(1 .. Count(heap))) /\ Len(y) = Len(cur.x) /\ Len(y) >= 1
  <2>1. cur.x \in Seq(Seq(1 .. Count(heap))) /\ Len(cur.x) >= 1
    BY <1>4 DEF HandlesRight, Cursors
  <2>2. QED
    BY <2>1, <1>4, Lists
<1> HIDE DEF y, G
<1>11. cur' = [cur EXCEPT !.child = n, !.x = y, !.input = Input(A, n), !.last_k = k, !.last_g = g]
  BY DEF AfterLeaf, y, A
<1>12. cur \in Cursors(Count(heap))
  BY <1>4 DEF HandlesRight
<1>13. /\ cur'.mode = "content" /\ cur'.parent = cur.parent /\ cur'.child = n /\ cur'.form = cur.form
       /\ cur'.sheet = cur.sheet /\ Len(cur'.x) = Len(cur.x)
  BY <1>1, <1>10, <1>11, <1>12 DEF Cursors
<1>14. /\ G \in TypedHeaps /\ Tree(G) /\ HeadsRight(G) /\ Grown(heap, G)
       /\ Count(G) = Count(heap) + 1 /\ PlaceRight(G, cur') /\ BoxesRight(G, cur')
  <2>1. Data \cap (Links \cup {"weight"}) = {}
    BY DEF Data, Links
  <2>2. QED
    BY <2>1, <1>1, <1>2, <1>3, <1>6, <1>13, LeafKeeps
<1>15. HandlesRight(G, cur', scanner)
  <2>1. HandlesRight(G, cur, scanner) /\ Grown(A, G)
    BY <1>4, <1>6, <1>14, HandlesGrow, TouchGrown
  <2>2. Is(G, Input(A, n), {"input"})
    BY <2>1, <1>4, <1>9, <1>14 DEF Is, Grown
  <2>3. Type(G, n) = r.kind
    BY <2>1, <1>3, <1>4 DEF Grown, Attached
  <2>4. Is(G, k, {"kern"}) /\ Is(G, g, {"glue"})
    BY <2>1, <2>3, <1>4, <1>14 DEF HandlesRight, Is
  <2>5. y \in Seq(Seq(1 .. Count(G)))
    <3>1. 1 .. Count(heap) \subseteq 1 .. Count(G)
      BY <1>4, <1>14
    <3>2. Seq(1 .. Count(heap)) \subseteq Seq(1 .. Count(G))
      BY <3>1, SeqMonotonic
    <3>3. QED
      BY <3>2, <1>10, SeqMonotonic
  <2>6. n \in 0 .. Count(G) /\ Input(A, n) \in 0 .. Count(G) /\ k \in 0 .. Count(G) /\ g \in 0 .. Count(G)
    BY <2>2, <2>4, <1>4, <1>14 DEF Is, NULL
  <2>7. cur \in Cursors(Count(G))
    BY <2>1 DEF HandlesRight
  <2>8. cur' \in Cursors(Count(G))
    BY <2>5, <2>6, <2>7, <1>11 DEF Cursors
  <2>9. /\ cur'.sheet = cur.sheet /\ cur'.form = cur.form /\ cur'.input = Input(A, n)
        /\ cur'.last_k = k /\ cur'.last_g = g /\ Len(cur'.x) >= 1
    BY <1>10, <1>11, <1>12 DEF Cursors
  <2>10. QED
    BY <2>1, <2>2, <2>4, <2>8, <2>9 DEF HandlesRight
<1>16. QED
  BY <1>7, <1>14, <1>15 DEF TreeInv

(* What leaves the heap alone, and keeps the place.                        *)
LEMMA SameTree ==
  ASSUME TreeInv, heap' = heap, HandlesRight(heap, cur', scanner'), PlaceRight(heap, cur'),
         BoxesRight(heap, cur')
  PROVE  TreeInv'
BY DEF TreeInv

(* What each class does with the hbox around it.                           *)
LeafSize(r) ==
  LET seen == Visible(heap, cur.parent)
      n == Fresh(heap)
  IN  CASE r.kind = "void_hbox" -> ContainBox(seen, BoxOf(SizeOf(Made(r), n)))
        [] r.kind = "kern" -> ContainBox(seen, XobOf(SizeOf(Made(r), n)))
        [] r.kind \in {"glue", "math"} -> ContainPoint(seen, PointOf(Made(r), n))
        [] OTHER -> seen
LeafWith(r, b, k, g) ==
  /\ InContent /\ r.kind \in Leaves
  /\ Placed(Made(r), b, LeafSize(r)) /\ AfterLeaf(Made(r), k, g)
  /\ k = NULL \/ k = cur.last_k \/ (r.kind = "kern" /\ k = Fresh(heap))
  /\ g = NULL \/ (r.kind = "glue" /\ g = Fresh(heap))

LEMMA LeafCase ==
  ASSUME VoidVbox \/ VoidHbox \/ Kern \/ Glue \/ Rule \/ Math
  PROVE  \E r \in Records, b \in BOOLEAN : \E k, g : LeafWith(r, b, k, g)
<1>1. CASE VoidVbox
  <2>1. PICK r \in Records : /\ r.kind = "void_vbox" /\ InContent
                             /\ Placed(Made(r), FALSE, Visible(heap, cur.parent))
                             /\ AfterLeaf(Made(r), NULL, NULL)
    BY <1>1 DEF VoidVbox, Reading
  <2>2. LeafSize(r) = Visible(heap, cur.parent)
    BY <2>1 DEF LeafSize
  <2>3. LeafWith(r, FALSE, NULL, NULL)
    BY <2>1, <2>2 DEF LeafWith, Leaves
  <2>4. QED
    BY <2>3
<1>2. CASE VoidHbox
  <2>1. PICK r \in Records :
          /\ r.kind = "void_hbox" /\ InContent
          /\ Placed(Made(r), FALSE, ContainBox(Visible(heap, cur.parent), BoxOf(SizeOf(Made(r), Fresh(heap)))))
          /\ AfterLeaf(Made(r), NULL, NULL)
    BY <1>2 DEF VoidHbox, Reading
  <2>2. LeafSize(r) = ContainBox(Visible(heap, cur.parent), BoxOf(SizeOf(Made(r), Fresh(heap))))
    BY <2>1 DEF LeafSize
  <2>3. LeafWith(r, FALSE, NULL, NULL)
    BY <2>1, <2>2 DEF LeafWith, Leaves
  <2>4. QED
    BY <2>3
<1>3. CASE Kern
  <2>1. PICK r \in Records :
          /\ r.kind = "kern" /\ InContent
          /\ Placed(Made(r), TRUE, ContainBox(Visible(heap, cur.parent), XobOf(SizeOf(Made(r), Fresh(heap)))))
          /\ AfterLeaf(Made(r), Fresh(heap), NULL)
    BY <1>3 DEF Kern, Reading
  <2>2. LeafSize(r) = ContainBox(Visible(heap, cur.parent), XobOf(SizeOf(Made(r), Fresh(heap))))
    BY <2>1 DEF LeafSize
  <2>3. LeafWith(r, TRUE, Fresh(heap), NULL)
    BY <2>1, <2>2 DEF LeafWith, Leaves
  <2>4. QED
    BY <2>3
<1>4. CASE Glue
  <2> DEFINE g == IF cur.last_k # NULL THEN Fresh(heap) ELSE NULL
  <2>1. PICK r \in Records :
          /\ r.kind = "glue" /\ InContent
          /\ Placed(Made(r), TRUE, ContainPoint(Visible(heap, cur.parent), PointOf(Made(r), Fresh(heap))))
          /\ AfterLeaf(Made(r), cur.last_k, g)
    BY <1>4 DEF Glue, Reading
  <2>2. LeafSize(r) = ContainPoint(Visible(heap, cur.parent), PointOf(Made(r), Fresh(heap)))
    BY <2>1 DEF LeafSize
  <2>3. g = NULL \/ g = Fresh(heap)
    OBVIOUS
  <2> HIDE DEF g
  <2>4. LeafWith(r, TRUE, cur.last_k, g)
    BY <2>1, <2>2, <2>3 DEF LeafWith, Leaves
  <2>5. QED
    BY <2>4
<1>5. CASE Rule
  <2>1. PICK r \in Records : /\ r.kind = "rule" /\ InContent
                             /\ Placed(Made(r), TRUE, Visible(heap, cur.parent))
                             /\ AfterLeaf(Made(r), NULL, NULL)
    BY <1>5 DEF Rule, Reading
  <2>2. LeafSize(r) = Visible(heap, cur.parent)
    BY <2>1 DEF LeafSize
  <2>3. LeafWith(r, TRUE, NULL, NULL)
    BY <2>1, <2>2 DEF LeafWith, Leaves
  <2>4. QED
    BY <2>3
<1>6. CASE Math
  <2>1. PICK r \in Records :
          /\ r.kind = "math" /\ InContent
          /\ Placed(Made(r), TRUE, ContainPoint(Visible(heap, cur.parent), PointOf(Made(r), Fresh(heap))))
          /\ AfterLeaf(Made(r), NULL, NULL)
    BY <1>6 DEF Math, Reading
  <2>2. LeafSize(r) = ContainPoint(Visible(heap, cur.parent), PointOf(Made(r), Fresh(heap)))
    BY <2>1 DEF LeafSize
  <2>3. LeafWith(r, TRUE, NULL, NULL)
    BY <2>1, <2>2 DEF LeafWith, Leaves
  <2>4. QED
    BY <2>3
<1>7. QED
  BY <1>1, <1>2, <1>3, <1>4, <1>5, <1>6

LEMMA LeafSizeOf ==
  ASSUME TreeInv, InContent, NEW r \in Records, r.kind \in Leaves
  PROVE  /\ LeafSize(r) \in Size /\ Visible(heap, cur.parent) \in Size
         /\ SizeOf(Made(r), Fresh(heap)) \in Size /\ PointOf(Made(r), Fresh(heap)) \in Point
<1>1. /\ Visible(heap, cur.parent) \in Size
      /\ SizeOf(Made(r), Fresh(heap)) \in Size /\ PointOf(Made(r), Fresh(heap)) \in Point
  <2>1. cur.parent \in 1 .. Count(heap) /\ heap \in TypedHeaps /\ cur.mode = "content"
    BY DEF InContent, TreeInv, PlaceRight, HandlesRight, Cursors, NULL
  <2>2. Attached(heap, Made(r), r.kind, Read_tlchvwhd(r), cur.child, Place(heap, cur))
    BY <2>1, AttachOf, RecordOf DEF Made, Leaves
  <2>3. Made(r) \in TypedHeaps /\ Fresh(heap) \in 1 .. Count(Made(r))
    BY <2>1, <2>2, AttachedGrown
  <2>4. QED
    BY <2>1, <2>3, VisibleOf
<1>2. ASSUME NEW s \in Size, NEW o \in Size, NEW q \in Point
      PROVE  ContainBox(s, BoxOf(o)) \in Size /\ ContainBox(s, XobOf(o)) \in Size
             /\ ContainPoint(s, q) \in Size
  <2>1. /\ BoxOf(o).min \in Point /\ BoxOf(o).max \in Point
        /\ XobOf(o).min \in Point /\ XobOf(o).max \in Point
    BY DEF Size, Point, BoxOf, XobOf, Rectangle, Between
  <2>2. QED
    BY <2>1, KeepsSize DEF ContainBox, ContainPoint
<1>3. QED
  BY <1>1, <1>2 DEF LeafSize

LEMMA LeavesRight ==
  ASSUME TreeInv, VoidVbox \/ VoidHbox \/ Kern \/ Glue \/ Rule \/ Math
  PROVE  TreeInv'
<1>1. PICK r \in Records, b \in BOOLEAN : \E k, g : LeafWith(r, b, k, g)
  BY LeafCase
<1>2. PICK k, g : LeafWith(r, b, k, g)
  BY <1>1
<1>3. LeafSize(r) \in Size
  BY <1>2, LeafSizeOf DEF LeafWith
<1>4. QED
  BY <1>2, <1>3, LeafStep DEF LeafWith

(* The boundary nodes: a friend at once, or at the head of its box.        *)
BoundedHeap(H, friend, size) ==
  RegisterLine(Contain(Friended(H, friend), cur.parent, size), Fresh(heap))

LEMMA BoundedOf ==
  ASSUME TreeInv, cur.mode = "content", NEW A \in TypedHeaps, Tree(A), Grown(heap, A),
         Fresh(heap) \in 1 .. Count(A), NEW b, NEW size \in Size
  PROVE  LET B == Friended(A, b)
             D == Contain(B, cur.parent, size)
             G == BoundedHeap(A, b, size)
         IN  /\ Touch(A, B, {Fresh(heap)}, {"friend"})
             /\ Touch(B, D, {cur.parent}, {"visible"})
             /\ Touch(D, G, {m \in 1 .. Count(D) : Type(D, m) = "input"}, {"line"})
             /\ G.list = B.list
             /\ Touch(A, G, 0 .. Count(A), Data)
             /\ cur.parent \in 1 .. Count(heap)
<1> DEFINE n == Fresh(heap)
           B == Friended(A, b)
           D == Contain(B, cur.parent, size)
           G == BoundedHeap(A, b, size)
           All == 0 .. Count(A)
           I == {m \in 1 .. Count(D) : Type(D, m) = "input"}
<1>1. /\ heap \in TypedHeaps /\ Count(heap) \in Nat /\ Count(A) \in Nat /\ Count(heap) <= Count(A)
      /\ PlaceRight(heap, cur) /\ HandlesRight(heap, cur, scanner)
  BY TypedOf DEF TreeInv, HandlesRight, Grown
<1>2. cur.parent \in 1 .. Count(heap)
  BY <1>1 DEF PlaceRight, HandlesRight, Cursors, NULL
<1>3. Touch(A, B, {n}, {"friend"})
  BY FriendedOf
<1>4. B \in TypedHeaps /\ Count(B) = Count(A) /\ Grown(A, B) /\ cur.parent \in 1 .. Count(B)
  BY <1>1, <1>2, <1>3, TouchGrown
<1> HIDE DEF B
<1>5. Touch(B, D, {cur.parent}, {"visible"}) /\ D.list = B.list
  BY <1>4, ContainOf
<1>6. D \in TypedHeaps /\ Count(D) = Count(A) /\ Grown(B, D)
  BY <1>4, <1>5, TouchGrown
<1> HIDE DEF D
<1>7. Grown(A, D) /\ Grown(heap, D)
  <2>1. Grown(A, D)
    BY <1>4, <1>6, GrownTwice
  <2>2. QED
    BY <2>1, <1>1, <1>6, GrownTwice
<1>8. Is(D, scanner.input, {"input"}) /\ Is(D, cur.input, {"input"})
  <2>1. HandlesRight(D, cur, scanner)
    BY <1>1, <1>6, <1>7, HandlesGrow
  <2>2. QED
    BY <2>1 DEF HandlesRight
<1>9. {n} \subseteq All /\ {cur.parent} \subseteq All /\ I \subseteq All
      /\ {"friend"} \subseteq Data /\ {"visible"} \subseteq Data /\ {"line"} \subseteq Data
      /\ Data \cap Links = {} /\ All \cup All = All /\ Data \cup Data = Data
  BY <1>1, <1>2, <1>6 DEF Data, Links
<1> HIDE DEF All
<1>10. Touch(A, B, All, Data) /\ Touch(B, D, All, Data)
  BY <1>3, <1>5, <1>9, TouchMore
<1>11. Touch(A, D, All, Data)
  <2>1. Touch(A, D, All \cup All, Data \cup Data)
    BY <1>10, TouchTwice
  <2>2. QED
    BY <2>1, <1>9
<1>12. Tree(D)
  BY <1>9, <1>11, TouchTree
<1>13. Touch(D, G, I, {"line"}) /\ G.list = D.list
  <2>1. G = RegisterLine(D, n) /\ n \in 1 .. Count(D)
    BY <1>6 DEF BoundedHeap, D, B
  <2>2. QED
    BY <2>1, <1>6, <1>8, <1>12, RegisterLineOf
<1> HIDE DEF G
<1>14. Touch(A, G, All, Data)
  <2>1. Touch(D, G, All, Data)
    BY <1>9, <1>13, TouchMore
  <2>2. Touch(A, G, All \cup All, Data \cup Data)
    BY <2>1, <1>11, TouchTwice
  <2>3. QED
    BY <2>2, <1>9
<1>15. G.list = B.list
  BY <1>5, <1>13
<1>16. QED
  BY <1>2, <1>3, <1>5, <1>13, <1>14, <1>15 DEF B, D, G, I, All

LEMMA BoundaryRight ==
  ASSUME TreeInv, Boundary
  PROVE  TreeInv'
<1> DEFINE n == Fresh(heap)
           friend == ~ Heading
           A(r) == Made(r)
           size(r) == ContainPoint(Visible(heap, cur.parent), PointOf(A(r), n))
           x == IF Heading THEN <<n>> \o cur.x[1] ELSE cur.x[1]
<1>1. PICK r \in Records :
        /\ r.kind = "boundary" /\ InContent /\ scanner' = scanner
        /\ heap' = BoundedHeap(A(r), friend, size(r))
        /\ cur' = [cur EXCEPT !.child = n, !.input = Input(A(r), n),
                              !.x[1] = IF Heading THEN <<n>> \o @ ELSE @,
                              !.last_k = NULL, !.last_g = NULL]
  BY DEF Boundary, Reading, BoundedHeap, Friended
<1> DEFINE B == A(r)
           G == BoundedHeap(B, friend, size(r))
           p == Place(heap, cur)
           data == Read_tlchvwhd(r)
<1> HIDE DEF friend
<1>2. cur.mode = "content"
  BY <1>1 DEF InContent
<1>3. r.kind \in Inner \ Boxes /\ Plain(data)
  BY <1>1, RecordOf DEF Boxes
<1>4. /\ Attached(heap, B, r.kind, data, cur.child, p) /\ At(heap, cur.child, p)
      /\ cur.child = NULL => p = cur.parent
      /\ Type(heap, cur.parent) # "sheet" => p = cur.parent
  BY <1>2, <1>3, AttachOf DEF Made
<1>5. heap' = G
  BY <1>1
<1> HIDE DEF A
<1>6. /\ heap \in TypedHeaps /\ Tree(heap) /\ B \in TypedHeaps /\ Grown(heap, B)
      /\ Count(B) = Count(heap) + 1 /\ n = Count(heap) + 1 /\ n \in 1 .. Count(B) /\ n # NULL
      /\ Count(heap) \in Nat /\ HandlesRight(heap, cur, scanner)
  BY <1>4, AttachedGrown DEF TreeInv
<1>7. Tree(B)
  BY <1>3, <1>4, <1>6, AttachedTree
<1>8. cur.parent \in 1 .. Count(heap)
  BY <1>2, <1>6 DEF TreeInv, PlaceRight, HandlesRight, Cursors, NULL
<1>9. size(r) \in Size
  <2>1. Visible(heap, cur.parent) \in Size /\ PointOf(B, n) \in Point
    BY <1>6, <1>8, VisibleOf
  <2>2. QED
    BY <2>1, KeepsSize DEF ContainPoint
<1> HIDE DEF size
<1>10. Touch(B, G, 0 .. Count(B), Data)
  BY <1>2, <1>6, <1>7, <1>9, BoundedOf
<1>11. HandlesRight(B, cur, scanner)
  BY <1>6, HandlesGrow
<1>12. Is(B, Input(B, n), {"input"})
  BY <1>6, <1>7, <1>11, InputOf DEF HandlesRight
<1>13. cur \in Cursors(Count(heap)) /\ cur \in Cursors(Count(B)) /\ Len(cur.x) >= 1
  BY <1>6, <1>11 DEF HandlesRight
<1> DEFINE y == IF Heading THEN [cur.x EXCEPT ![1] = <<n>> \o @] ELSE cur.x
<1>14. y \in Seq(Seq(1 .. Count(B))) /\ Len(y) = Len(cur.x)
  <2>1. cur.x \in Seq(Seq(1 .. Count(B))) /\ Count(B) \in Nat
    BY <1>6, <1>13 DEF Cursors
  <2>2. /\ [cur.x EXCEPT ![1] = <<n>> \o @] \in Seq(Seq(1 .. Count(B)))
        /\ Len([cur.x EXCEPT ![1] = <<n>> \o @]) = Len(cur.x)
    BY <2>1, <1>6, <1>13, Lists
  <2>3. QED
    BY <2>1, <2>2
<1>15. cur' = [cur EXCEPT !.child = n, !.input = Input(B, n), !.x = y,
                          !.last_k = NULL, !.last_g = NULL]
  <2>1. CASE Heading
    BY <2>1, <1>1, <1>13 DEF Cursors
  <2>2. CASE ~ Heading
    <3>1. [cur.x EXCEPT ![1] = @] = cur.x
      <4>1. cur.x \in Seq(Seq(1 .. Count(B)))
        BY <1>13 DEF Cursors
      <4>2. cur.x = [i \in 1 .. Len(cur.x) |-> cur.x[i]] /\ DOMAIN cur.x = 1 .. Len(cur.x)
        BY <4>1
      <4>3. QED
        BY <4>2
    <3>2. QED
      BY <2>2, <3>1, <1>1, <1>13 DEF Cursors
  <2>3. QED
    BY <2>1, <2>2
<1> HIDE DEF y, G
<1>16. /\ cur'.mode = "content" /\ cur'.parent = cur.parent /\ cur'.child = n /\ cur'.form = cur.form
       /\ cur'.sheet = cur.sheet /\ Len(cur'.x) = Len(cur.x)
  BY <1>2, <1>13, <1>14, <1>15 DEF Cursors
<1>17. /\ G \in TypedHeaps /\ Tree(G) /\ HeadsRight(G) /\ Grown(heap, G)
       /\ Count(G) = Count(heap) + 1 /\ PlaceRight(G, cur') /\ BoxesRight(G, cur')
  <2>1. Data \cap (Links \cup {"weight"}) = {}
    BY DEF Data, Links
  <2>2. QED
    BY <2>1, <1>2, <1>3, <1>4, <1>10, <1>16, LeafKeeps
<1>18. HandlesRight(G, cur', scanner)
  <2>1. HandlesRight(G, cur, scanner) /\ Grown(B, G)
    BY <1>6, <1>10, <1>17, HandlesGrow, TouchGrown
  <2>2. Is(G, Input(B, n), {"input"})
    BY <2>1, <1>6, <1>12, <1>17 DEF Is, Grown
  <2>3. n \in 0 .. Count(G) /\ Input(B, n) \in 0 .. Count(G) /\ NULL \in 0 .. Count(G)
    BY <2>2, <1>6, <1>17 DEF Is, NULL
  <2>4. cur \in Cursors(Count(G)) /\ y \in Seq(Seq(1 .. Count(G)))
    BY <2>1, <1>6, <1>14, <1>17 DEF HandlesRight
  <2>5. cur' \in Cursors(Count(G))
    BY <2>3, <2>4, <1>15 DEF Cursors
  <2>6. /\ cur'.sheet = cur.sheet /\ cur'.form = cur.form /\ cur'.input = Input(B, n)
        /\ cur'.last_k = NULL /\ cur'.last_g = NULL /\ Len(cur'.x) >= 1
    BY <1>13, <1>14, <1>15 DEF Cursors
  <2>7. QED
    BY <2>1, <2>2, <2>5, <2>6 DEF HandlesRight, Is
<1>19. QED
  BY <1>1, <1>5, <1>17, <1>18 DEF TreeInv

(* A ref: a node that is no box, in a list of its own.                     *)
LEMMA FormRefRight ==
  ASSUME TreeInv, FormRef
  PROVE  TreeInv'
<1> DEFINE n == Fresh(heap)
           refs == IF cur.form # NULL THEN "ref_in_form" ELSE "ref_in_sheet"
           data(r) == [tag |-> r.tag, h |-> r.h, v |-> r.v]
<1>1. PICK r \in Records :
        /\ r.kind = "ref" /\ InContent
        /\ heap' = Set(Attach(NewRef(r), n), n, "friend", scanner[refs])
        /\ scanner' = [scanner EXCEPT ![refs] = n]
        /\ cur' = [cur EXCEPT !.child = n, !.last_k = NULL, !.last_g = NULL]
  BY DEF FormRef, Reading
<1> DEFINE A == Attach(New(heap, "ref", data(r)), n)
           G == Set(A, n, "friend", scanner[refs])
           p == Place(heap, cur)
<1>2. cur.mode = "content"
  BY <1>1 DEF InContent
<1>3. "ref" \in Inner \ Boxes
  BY DEF Inner, ContentTypes, Boxes
<1>4. Plain(data(r))
  <2>1. r.tag \in Int /\ r.h \in Int /\ r.v \in Int
    BY <1>1, RecordsAssumption
  <2>2. DOMAIN data(r) = {"tag", "h", "v"} /\ \A f \in DOMAIN data(r) : data(r)[f] \in Int
    BY <2>1
  <2>3. QED
    BY <2>2 DEF Plain, LinkFields
<1>5. heap' = G
  BY <1>1 DEF NewRef
<1> HIDE DEF data
<1>6. /\ Attached(heap, A, "ref", data(r), cur.child, p) /\ At(heap, cur.child, p)
      /\ cur.child = NULL => p = cur.parent
      /\ Type(heap, cur.parent) # "sheet" => p = cur.parent
  BY <1>2, <1>3, <1>4, AttachOf
<1> HIDE DEF A
<1>7. /\ heap \in TypedHeaps /\ A \in TypedHeaps /\ Grown(heap, A)
      /\ Count(A) = Count(heap) + 1 /\ n = Count(heap) + 1 /\ n \in 1 .. Count(A) /\ n # NULL
      /\ Count(heap) \in Nat /\ HandlesRight(heap, cur, scanner) /\ Type(A, n) = "ref"
  BY <1>6, AttachedGrown DEF TreeInv, Attached
<1>8. scanner \in Scanners(Count(heap)) /\ cur \in Cursors(Count(heap)) /\ Len(cur.x) >= 1
  BY <1>7 DEF HandlesRight
<1>9. scanner[refs] \in 0 .. Count(A)
  BY <1>7, <1>8 DEF Scanners
<1>10. Touch(A, G, {n}, {"friend"})
  BY <1>7, <1>9, SetTouch DEF Fit, LinkFields
<1> HIDE DEF G
<1>11. /\ cur'.mode = "content" /\ cur'.parent = cur.parent /\ cur'.child = n /\ cur'.form = cur.form
       /\ cur'.sheet = cur.sheet /\ cur'.x = cur.x /\ cur'.input = cur.input
       /\ cur'.last_k = NULL /\ cur'.last_g = NULL
  BY <1>1, <1>2, <1>8 DEF Cursors
<1>12. /\ G \in TypedHeaps /\ Tree(G) /\ HeadsRight(G) /\ Grown(heap, G)
       /\ Count(G) = Count(heap) + 1 /\ PlaceRight(G, cur') /\ BoxesRight(G, cur')
  <2>1. {"friend"} \cap (Links \cup {"weight"}) = {}
    BY DEF Links
  <2>2. QED
    BY <2>1, <1>2, <1>3, <1>6, <1>10, <1>11, LeafKeeps
<1>13. HandlesRight(G, cur', scanner')
  <2>1. HandlesRight(G, cur, scanner) /\ Grown(A, G)
    BY <1>7, <1>10, <1>12, HandlesGrow, TouchGrown
  <2>2. n \in 0 .. Count(G) /\ NULL \in 0 .. Count(G) /\ Is(G, n, {"ref"})
    BY <2>1, <1>7, <1>12 DEF NULL, Is, Grown
  <2>3. cur \in Cursors(Count(G)) /\ scanner \in Scanners(Count(G))
    BY <2>1 DEF HandlesRight
  <2>4. cur' \in Cursors(Count(G)) /\ scanner' \in Scanners(Count(G))
    BY <2>2, <2>3, <1>1 DEF Cursors, Scanners
  <2>5. /\ scanner'.sheet = scanner.sheet /\ scanner'.form = scanner.form
        /\ scanner'.input = scanner.input
        /\ scanner'.ref_in_form \in {n, scanner.ref_in_form}
        /\ scanner'.ref_in_sheet \in {n, scanner.ref_in_sheet}
    BY <1>1, <1>8 DEF Scanners
  <2>6. QED
    BY <2>1, <2>2, <2>4, <2>5, <1>8, <1>11 DEF HandlesRight, Is
<1>14. QED
  BY <1>5, <1>12, <1>13 DEF TreeInv
------------------------------------------------------------------------------
(* A box is entered.                                                       *)
LEMMA EnteredRight ==
  ASSUME TreeInv, InContent, NEW r, NEW H \in TypedHeaps, NEW child, Entered(r, H, child),
         Tree(H), HeadsRight(H), Grown(heap, H),
         Fresh(heap) \in 1 .. Count(H), Type(H, Fresh(heap)) \in Boxes,
         NEW D, Depths(H, D), D[Fresh(heap)] = Len(cur.x),
         child = NULL => Type(H, Fresh(heap)) = "vbox" /\ Get(H, Fresh(heap), "child") = NULL,
         child # NULL => /\ child \in 1 .. Count(H) /\ D[child] = -1
                         /\ Get(H, child, "sibling") = NULL
                         /\ Get(H, child, "parent") = Fresh(heap)
  PROVE  TreeInv'
<1> DEFINE n == Fresh(heap)
           G == RegisterLine(H, n)
           y == <<(<<>>)>> \o cur.x
<1>1. /\ heap \in TypedHeaps /\ HandlesRight(heap, cur, scanner) /\ PlaceRight(heap, cur)
      /\ cur.mode = "content" /\ Count(heap) \in Nat /\ Count(H) \in Nat
  BY TypedOf DEF TreeInv, InContent
<1>2. HandlesRight(H, cur, scanner)
  BY <1>1, HandlesGrow
<1>3. Is(H, scanner.input, {"input"}) /\ Is(H, cur.input, {"input"}) /\ Is(H, Input(H, n), {"input"})
  BY <1>2, InputOf DEF HandlesRight
<1>4. Touch(H, G, {m \in 1 .. Count(H) : Type(H, m) = "input"}, {"line"})
  BY <1>3, RegisterLineOf
<1>5. heap' = G /\ scanner' = scanner
      /\ cur' = [cur EXCEPT !.parent = n, !.child = child, !.x = y,
                            !.input = Input(H, n), !.last_k = NULL, !.last_g = NULL]
  BY DEF Entered
<1>6. {"line"} \cap Links = {} /\ {"line"} \cap (Links \cup {"weight"}) = {}
  BY DEF Links
<1> HIDE DEF G
<1>7. /\ G \in TypedHeaps /\ Count(G) = Count(H) /\ Grown(H, G) /\ Tree(G) /\ HeadsRight(G)
      /\ Depths(G, D)
  BY <1>4, <1>6, TouchGrown, TouchTree, TouchHeads, TouchDepths
<1>8. HandlesRight(G, cur, scanner) /\ Is(G, Input(H, n), {"input"})
  BY <1>2, <1>3, <1>7, HandlesGrow DEF Is, Grown
<1>9. cur \in Cursors(Count(G)) /\ Len(cur.x) >= 1
  BY <1>8 DEF HandlesRight
<1>10. y \in Seq(Seq(1 .. Count(G))) /\ Len(y) = Len(cur.x) + 1
  <2>1. cur.x \in Seq(Seq(1 .. Count(G))) /\ Count(G) \in Nat
    BY <1>1, <1>7, <1>9 DEF Cursors
  <2>2. QED
    BY <2>1, <1>9, Lists
<1> HIDE DEF y
<1>11. n # NULL /\ n \in 0 .. Count(G) /\ child \in 0 .. Count(G) /\ Input(H, n) \in 0 .. Count(G)
       /\ NULL \in 0 .. Count(G) /\ Len(cur.x) \in Nat
  <2>1. child \in 0 .. Count(G)
    BY <1>1, <1>7 DEF NULL
  <2>2. Len(cur.x) \in Nat
    BY <1>9 DEF Cursors
  <2>3. QED
    BY <2>1, <2>2, <1>1, <1>7, <1>8 DEF NULL, Is
<1>12. /\ cur'.mode = "content" /\ cur'.parent = n /\ cur'.child = child /\ cur'.form = cur.form
       /\ cur'.sheet = cur.sheet /\ cur'.x = y /\ cur'.input = Input(H, n)
       /\ cur'.last_k = NULL /\ cur'.last_g = NULL
  BY <1>1, <1>5, <1>9 DEF Cursors
<1>13. cur' \in Cursors(Count(G))
  BY <1>5, <1>9, <1>10, <1>11 DEF Cursors
<1>14. HandlesRight(G, cur', scanner)
  <2>1. Len(y) >= 1
    BY <1>10, <1>11
  <2>2. QED
    BY <2>1, <1>8, <1>12, <1>13 DEF HandlesRight, Is
<1>15. /\ Type(G, n) = Type(H, n) /\ Get(G, n, "child") = Get(H, n, "child")
       /\ child # NULL => Get(G, child, "sibling") = NULL /\ Get(G, child, "parent") = n
  <2>1. \A m \in 0 .. Count(H), f \in Links : Get(G, m, f) = Get(H, m, f) /\ Type(G, m) = Type(H, m)
    BY <1>4 DEF Touch, Links
  <2>2. n \in 0 .. Count(H) /\ child \in 0 .. Count(H) /\ {"sibling", "parent", "child"} \subseteq Links
    BY <1>7, <1>11 DEF Links
  <2>3. QED
    BY <2>1, <2>2
<1>16. PlaceRight(G, cur')
  <2>1. cur.form = NULL => cur.sheet # NULL
    BY <1>1 DEF PlaceRight
  <2>2. QED
    BY <2>1, <1>11, <1>12, <1>15 DEF PlaceRight
<1>17. Open(cur', D)
  <2>1. 0 <= Len(cur.x) /\ Len(cur.x) < Len(cur.x) + 1
    BY <1>11
  <2>2. QED
    BY <2>1, <1>10, <1>12 DEF Open
<1>18. QED
  BY <1>5, <1>7, <1>14, <1>16, <1>17 DEF TreeInv, BoxesRight

(* The boxes there are keep their first node when another node comes.      *)
LEMMA OldHeads ==
  ASSUME TreeInv, cur.mode = "content", NEW A, NEW type, NEW data, NEW p,
         Attached(heap, A, type, data, cur.child, p), cur.child = NULL => p = cur.parent,
         NEW m \in 1 .. Count(heap), Type(heap, m) = "hbox"
  PROVE  /\ Get(A, m, "child") # NULL /\ Type(A, Get(A, m, "child")) = "box_bdry"
         /\ Get(A, m, "weight") >= 0
<1>1. heap \in TypedHeaps /\ HeadsRight(heap) /\ PlaceRight(heap, cur)
  BY DEF TreeInv
<1>2. cur.child = NULL => m # p
  BY <1>1 DEF PlaceRight, Roots
<1>3. QED
  BY <1>1, <1>2, AttachedHeads

LEMMA BeginVboxRight ==
  ASSUME TreeInv, BeginVbox
  PROVE  TreeInv'
<1> DEFINE n == Fresh(heap)
<1>1. PICK r \in Records : r.kind = "vbox" /\ InContent /\ Entered(r, Made(r), NULL)
  BY DEF BeginVbox, Reading
<1> DEFINE A == Made(r)
           p == Place(heap, cur)
           data == Read_tlchvwhd(r)
<1>2. cur.mode = "content" /\ Len(cur.x) \in Int
  BY <1>1 DEF InContent, TreeInv, HandlesRight, Cursors
<1>3. r.kind \in Inner /\ Plain(data) /\ r.kind \in Boxes
  BY <1>1, RecordOf DEF Boxes
<1>4. /\ Attached(heap, A, r.kind, data, cur.child, p) /\ At(heap, cur.child, p)
      /\ cur.child = NULL => p = cur.parent
      /\ Type(heap, cur.parent) # "sheet" => p = cur.parent
  BY <1>2, <1>3, AttachOf DEF Made
<1>5. Entered(r, A, NULL)
  BY <1>1
<1> HIDE DEF A
<1>6. /\ heap \in TypedHeaps /\ Tree(heap) /\ A \in TypedHeaps /\ Grown(heap, A)
      /\ Count(A) = Count(heap) + 1 /\ n = Count(heap) + 1 /\ n \in 1 .. Count(A) /\ n # NULL
      /\ Count(heap) \in Nat
  BY <1>4, AttachedGrown DEF TreeInv
<1>7. Tree(A)
  BY <1>3, <1>4, <1>6, AttachedTree
<1>8. Type(A, n) = "vbox" /\ Get(A, n, "child") = NULL
  BY <1>1, <1>4 DEF Attached
<1>9. HeadsRight(A)
  <2>1. ASSUME NEW m \in 1 .. Count(A), Type(A, m) = "hbox"
        PROVE  /\ Get(A, m, "child") # NULL /\ Type(A, Get(A, m, "child")) = "box_bdry"
               /\ Get(A, m, "weight") >= 0
    <3>1. m # n
      BY <2>1, <1>8
    <3>2. m \in 1 .. Count(heap) /\ Type(heap, m) = "hbox"
      BY <3>1, <2>1, <1>6 DEF Grown
    <3>3. QED
      BY <1>2, <1>4, <3>2, OldHeads
  <2>2. QED
    BY <2>1 DEF HeadsRight
<1>10. PICK D : Depths(A, D) /\ D[n] = Len(cur.x)
  BY <1>2, <1>3, <1>4, OpenGrow
<1>11. QED
  BY <1>1, <1>3, <1>5, <1>6, <1>7, <1>8, <1>9, <1>10, EnteredRight DEF Boxes

LEMMA BeginHboxRight ==
  ASSUME TreeInv, BeginHbox
  PROVE  TreeInv'
<1> DEFINE n == Fresh(heap)
           bdry == n + 1
           own(A) == [f \in tlchv |-> Get(A, n, f)]
           headed(A) == SetChild(New(A, "box_bdry", own(A)), n, bdry)
           final(A) == IF cur.form = NULL THEN MakeFriendTlc(headed(A), bdry) ELSE headed(A)
<1>1. PICK r \in Records : r.kind = "hbox" /\ InContent /\ Entered(r, final(Made(r)), bdry)
  BY DEF BeginHbox, Reading
<1> DEFINE A == Made(r)
           p == Place(heap, cur)
           data == Read_tlchvwhd(r)
<1>2. cur.mode = "content" /\ Len(cur.x) \in Int
  BY <1>1 DEF InContent, TreeInv, HandlesRight, Cursors
<1>3. r.kind \in Inner /\ Plain(data) /\ r.kind \in Boxes
  BY <1>1, RecordOf DEF Boxes
<1>4. /\ Attached(heap, A, r.kind, data, cur.child, p) /\ At(heap, cur.child, p)
      /\ cur.child = NULL => p = cur.parent
      /\ Type(heap, cur.parent) # "sheet" => p = cur.parent
  BY <1>2, <1>3, AttachOf DEF Made
<1>5. Given(data, "weight") = 0
  <2>1. "weight" \notin DOMAIN r \cap Fields[r.kind]
    BY <1>1, RecordsAssumption DEF box, tlchv
  <2>2. DOMAIN data = DOMAIN r \cap Fields[r.kind]
    BY DEF Read_tlchvwhd
  <2>3. QED
    BY <2>1, <2>2 DEF Given
<1>6. Entered(r, final(A), bdry)
  BY <1>1
<1> HIDE DEF A
<1>7. /\ heap \in TypedHeaps /\ Tree(heap) /\ A \in TypedHeaps /\ Grown(heap, A)
      /\ Count(A) = Count(heap) + 1 /\ n = Count(heap) + 1 /\ n \in 1 .. Count(A) /\ n # NULL
      /\ Count(heap) \in Nat
  BY <1>4, AttachedGrown DEF TreeInv
<1>8. Tree(A)
  BY <1>3, <1>4, <1>7, AttachedTree
<1>9. Type(A, n) = "hbox" /\ Get(A, n, "sibling") = NULL /\ Get(A, n, "parent") = p
  BY <1>1, <1>4 DEF Attached
<1>10. Get(A, n, "weight") = 0
  <2>1. Get(A, n, "weight") = IF "weight" \in Fields[r.kind] THEN Given(data, "weight") ELSE 0
    BY <1>4 DEF Attached, Links
  <2>2. QED
    BY <2>1, <1>5
<1>11. PICK D : Depths(A, D) /\ D[n] = Len(cur.x)
  BY <1>2, <1>3, <1>4, OpenGrow
<1>12. Plain(own(A)) /\ "box_bdry" \in Inner
  <2>1. tlchv \subseteq NumberFields /\ tlchv \cap (LinkFields \cup {"target"}) = {}
    BY DEF tlchv, NumberFields, LinkFields
  <2>2. \A f \in tlchv : Get(A, n, f) \in Int
    BY <2>1, <1>7, TypedOf
  <2>3. DOMAIN own(A) = tlchv /\ \A f \in DOMAIN own(A) : own(A)[f] \in Int
    BY <2>2
  <2>4. QED
    BY <2>1, <2>3 DEF Plain, Inner, ContentTypes
<1> DEFINE B == headed(A)
<1>13. bdry = Fresh(A) /\ bdry = Count(A) + 1 /\ bdry # NULL
  <2>1. Fresh(A) = Count(A) + 1
    BY DEF Fresh, Count
  <2>2. QED
    BY <2>1, <1>7 DEF NULL
<1> HIDE DEF own
<1>14. Attached(A, B, "box_bdry", own(A), NULL, n)
  <2>1. Type(A, n) \in Roots \cup Boxes
    BY <1>9 DEF Boxes
  <2>2. QED
    BY <2>1, <1>7, <1>8, <1>12, <1>13, ChildAttached
<1> HIDE DEF headed, bdry
<1>15. B \in TypedHeaps /\ Count(B) = Count(A) + 1 /\ Grown(A, B) /\ bdry \in 1 .. Count(B)
  BY <1>7, <1>13, <1>14, AttachedGrown
<1>16. Tree(B)
  <2>1. At(A, NULL, n)
    BY <1>7, <1>9 DEF At, Boxes, NULL
  <2>2. QED
    BY <2>1, <1>7, <1>8, <1>12, <1>14, AttachedTree
<1>17. /\ Get(B, n, "child") = bdry /\ Type(B, bdry) = "box_bdry" /\ Get(B, n, "weight") = 0
       /\ Type(B, n) = "hbox" /\ Get(B, bdry, "sibling") = NULL /\ Get(B, bdry, "parent") = n
  <2>1. n \in 0 .. Count(A)
    BY <1>7
  <2>2. QED
    BY <2>1, <1>7, <1>9, <1>10, <1>13, <1>14 DEF Attached
<1>18. HeadsRight(B)
  <2>1. ASSUME NEW m \in 1 .. Count(B), Type(B, m) = "hbox"
        PROVE  /\ Get(B, m, "child") # NULL /\ Type(B, Get(B, m, "child")) = "box_bdry"
               /\ Get(B, m, "weight") >= 0
    <3>1. CASE m = n
      BY <3>1, <1>13, <1>17
    <3>2. CASE m # n
      <4>1. m # bdry
        BY <2>1, <1>17
      <4>2. m \in 1 .. Count(A) /\ m \in 1 .. Count(heap) /\ m \in 0 .. Count(heap)
        BY <3>2, <4>1, <1>7, <1>13, <1>15
      <4>3. Type(A, m) = "hbox" /\ Type(heap, m) = "hbox"
        BY <2>1, <4>2, <1>7, <1>15 DEF Grown
      <4>4. /\ Get(A, m, "child") # NULL /\ Type(A, Get(A, m, "child")) = "box_bdry"
            /\ Get(A, m, "weight") >= 0
        BY <4>2, <4>3, <1>2, <1>4, OldHeads
      <4>5. m \in 0 .. Count(A) /\ Get(A, m, "child") \in 0 .. Count(A)
        BY <4>2, <1>7, TypedOf DEF LinkFields
      <4>6. Get(B, m, "child") = Get(A, m, "child") /\ Get(B, m, "weight") = Get(A, m, "weight")
            /\ Type(B, Get(A, m, "child")) = Type(A, Get(A, m, "child"))
        BY <3>2, <4>5, <1>14 DEF Attached
      <4>7. QED
        BY <4>4, <4>6
    <3>3. QED
      BY <3>1, <3>2
  <2>2. QED
    BY <2>1 DEF HeadsRight
<1> DEFINE E == [m \in 1 .. Count(B) |-> IF m = bdry THEN -1 ELSE D[m]]
<1>19. /\ E \in [1 .. Count(B) -> Int] /\ E[bdry] = -1 /\ E[n] = Len(cur.x)
       /\ \A m \in 1 .. Count(A) : E[m] = D[m] /\ m # bdry /\ m \in 1 .. Count(B)
  <2>1. D \in [1 .. Count(A) -> Int] /\ Count(A) \in Nat
    BY <1>7, <1>11 DEF Depths
  <2>2. \A m \in 1 .. Count(B) : m # bdry => m \in 1 .. Count(A)
    BY <2>1, <1>13, <1>15
  <2>3. \A m \in 1 .. Count(A) : m # bdry /\ m \in 1 .. Count(B)
    BY <2>1, <1>13, <1>15
  <2>4. QED
    BY <2>1, <2>2, <2>3, <1>7, <1>11, <1>15
<1> HIDE DEF E
<1>20. Depths(B, E)
  <2>1. ASSUME NEW m \in 1 .. Count(B)
        PROVE  /\ Type(B, m) \in Roots => E[m] = 0
               /\ Type(B, m) \notin Roots /\ E[m] # -1 =>
                    /\ Type(B, m) \in Boxes /\ E[m] >= 1
                    /\ Get(B, m, "sibling") = NULL /\ Get(B, m, "parent") # NULL
                    /\ 0 <= E[Get(B, m, "parent")] /\ E[Get(B, m, "parent")] < E[m]
    <3>1. CASE m = bdry
      BY <3>1, <1>17, <1>19 DEF Roots
    <3>2. CASE m # bdry
      <4> DEFINE l == Get(A, m, "parent")
      <4>1. m \in 1 .. Count(A) /\ m \in 0 .. Count(A) /\ E[m] = D[m] /\ Count(A) \in Nat
        BY <3>2, <1>7, <1>13, <1>15, <1>19
      <4>2. Type(B, m) = Type(A, m) /\ Get(B, m, "sibling") = Get(A, m, "sibling")
        BY <4>1, <1>14 DEF Attached
      <4>3. ASSUME Type(A, m) \notin Roots, D[m] # -1
            PROVE  /\ Type(A, m) \in Boxes /\ D[m] >= 1
                   /\ Get(A, m, "sibling") = NULL /\ l # NULL
                   /\ 0 <= D[l] /\ D[l] < D[m]
        BY <4>1, <4>3, <1>11 DEF Depths
      <4>4. ASSUME l # NULL PROVE l \in 1 .. Count(A) /\ Get(B, m, "parent") = l /\ E[l] = D[l]
        <5>1. l \in 0 .. Count(A)
          BY <4>1, <1>7, TypedOf DEF LinkFields
        <5>2. l \in 1 .. Count(A)
          BY <5>1, <4>4, <4>1 DEF NULL
        <5>3. l < m
          BY <4>1, <4>4, <1>8 DEF Tree, ParentRight
        <5>4. l # n
          BY <4>1, <5>2, <5>3, <1>7
        <5>5. Get(B, m, "parent") = l
          BY <4>1, <5>4, <1>14 DEF Attached
        <5>6. QED
          BY <5>2, <5>5, <1>19
      <4>5. Type(A, m) \in Roots => D[m] = 0
        BY <4>1, <1>11 DEF Depths
      <4> HIDE DEF l
      <4>6. QED
        BY <4>1, <4>2, <4>3, <4>4, <4>5
    <3>3. QED
      BY <3>1, <3>2
  <2>2. QED
    BY <2>1, <1>19 DEF Depths
<1> HIDE DEF B
<1> DEFINE G == final(A)
<1>21. Touch(B, G, {bdry}, {"friend"})
  <2>1. G = IF cur.form = NULL THEN MakeFriendTlc(B, bdry) ELSE B
    BY DEF B
  <2>2. Touch(B, MakeFriendTlc(B, bdry), {bdry}, {"friend"})
    BY <1>15, MakeFriendOf, BefriendsTouch
  <2>3. Touch(B, B, {bdry}, {"friend"})
    BY <1>15, TouchSame
  <2>4. QED
    BY <2>1, <2>2, <2>3
<1>22. Entered(r, G, bdry)
  BY <1>6
<1> HIDE DEF final, G
<1>23. {"friend"} \cap Links = {} /\ {"friend"} \cap (Links \cup {"weight"}) = {}
  BY DEF Links
<1>24. /\ G \in TypedHeaps /\ Count(G) = Count(B) /\ Grown(B, G) /\ Tree(G) /\ HeadsRight(G)
       /\ Depths(G, E)
  BY <1>15, <1>16, <1>18, <1>20, <1>21, <1>23, TouchGrown, TouchTree, TouchHeads, TouchDepths
<1>25. Grown(heap, G) /\ n \in 1 .. Count(G) /\ n \in 0 .. Count(B)
  <2>1. Grown(heap, B)
    BY <1>7, <1>15, GrownTwice
  <2>2. Grown(heap, G)
    BY <2>1, <1>7, <1>15, <1>24, GrownTwice
  <2>3. QED
    BY <2>2, <1>7, <1>15, <1>24
<1>26. /\ Type(G, n) \in Boxes /\ Get(G, bdry, "sibling") = NULL /\ Get(G, bdry, "parent") = n
  <2>1. Type(G, n) = Type(B, n) /\ bdry \in 0 .. Count(B)
    BY <1>15, <1>24, <1>25 DEF Grown
  <2>2. QED
    BY <2>1, <1>17, <1>21 DEF Touch, Boxes
<1>27. QED
  BY <1>1, <1>13, <1>15, <1>19, <1>22, <1>24, <1>25, <1>26, EnteredRight
------------------------------------------------------------------------------
(* A box is left.                                                          *)
LEMMA LeftOf ==
  ASSUME NEW H \in TypedHeaps, cur.x \in Seq(Seq(1 .. Count(H))), Len(cur.x) >= 2,
         cur.parent \in 1 .. Count(H)
  PROVE  LET free == cur.form = NULL
             own == IF free THEN HandleMakeFriendTlc(H, cur.x) ELSE H
         IN  /\ cur.x[1] \in Seq(1 .. Count(H)) /\ cur.x[2] \in Seq(1 .. Count(H))
             /\ Touch(H, own, {cur.x[1][i] : i \in 1 .. Len(cur.x[1])}, {"friend"})
             /\ Touch(own, Left(H), {cur.x[2][i] : i \in 1 .. Len(cur.x[2])},
                      {"tag", "line", "friend"})
             /\ Touch(H, Left(H), 0 .. Count(H), {"tag", "line", "friend"})
<1> DEFINE free == cur.form = NULL
           own == IF free THEN HandleMakeFriendTlc(H, cur.x) ELSE H
           x == Tail(cur.x)
           X1 == {cur.x[1][i] : i \in 1 .. Len(cur.x[1])}
           X2 == {cur.x[2][i] : i \in 1 .. Len(cur.x[2])}
           All == 0 .. Count(H)
           F == {"tag", "line", "friend"}
<1>1. Count(H) \in Nat /\ Len(cur.x) >= 1
  BY TypedOf DEF Cursors
<1>2. /\ cur.x[1] \in Seq(1 .. Count(H)) /\ cur.x[2] \in Seq(1 .. Count(H)) /\ x[1] = cur.x[2]
  BY <1>1, Lists
<1>3. Touch(H, own, X1, {"friend"})
  <2>1. Touch(H, HandleMakeFriendTlc(H, cur.x), X1, {"friend"})
    BY <1>2, BefriendedTouch DEF HandleMakeFriendTlc
  <2>2. Touch(H, H, X1, {"friend"})
    BY TouchSame
  <2> HIDE DEF X1
  <2>3. QED
    BY <2>1, <2>2
<1>4. own \in TypedHeaps /\ Count(own) = Count(H)
  BY <1>3, TouchGrown
<1>5. Left(H) = HandleSetTlc(own, x, cur.parent, free)
  BY DEF Left
<1> HIDE DEF own, free, x
<1>6. Touch(own, Left(H), X2, F)
  <2>1. /\ x[1] \in Seq(1 .. Count(own)) /\ cur.parent \in 1 .. Count(own)
        /\ {x[1][i] : i \in 1 .. Len(x[1])} = X2
    BY <1>2, <1>4
  <2> HIDE DEF X2
  <2>2. QED
    BY <2>1, <1>4, <1>5, HandleSetTlcOf
<1>7. X1 \subseteq All /\ X2 \subseteq All
  <2>1. \A i \in 1 .. Len(cur.x[1]) : cur.x[1][i] \in 1 .. Count(H)
    BY <1>2, ElementOfSeq
  <2>2. \A i \in 1 .. Len(cur.x[2]) : cur.x[2][i] \in 1 .. Count(H)
    BY <1>2, ElementOfSeq
  <2>3. QED
    BY <2>1, <2>2, <1>1
<1> HIDE DEF X1, X2, All
<1>8. Touch(H, Left(H), All, F)
  <2>1. Touch(H, own, All, F) /\ Touch(own, Left(H), All, F)
    BY <1>3, <1>6, <1>7, TouchMore
  <2>2. Touch(H, Left(H), All \cup All, F \cup F)
    BY <2>1, TouchTwice
  <2>3. All \cup All = All /\ F \cup F = F
    OBVIOUS
  <2>4. QED
    BY <2>2, <2>3
<1>9. QED
  BY <1>2, <1>3, <1>6, <1>8 DEF own, free, X1, X2, All

LEMMA LeaveRight ==
  ASSUME TreeInv, InContent, Type(heap, cur.parent) \in Boxes, NEW G \in TypedHeaps,
         Tree(G), HeadsRight(G), Grown(heap, G), heap' = G,
         Get(G, cur.parent, "parent") = Get(heap, cur.parent, "parent"),
         NEW D, Depths(G, D), 0 <= D[cur.parent], D[cur.parent] < Len(cur.x),
         cur' = LeftCur, scanner' = scanner
  PROVE  TreeInv'
<1> DEFINE n == cur.parent
           q == Get(heap, n, "parent")
           y == <<(<<>>)>> \o Tail(Tail(cur.x))
<1>1. /\ heap \in TypedHeaps /\ HandlesRight(heap, cur, scanner) /\ PlaceRight(heap, cur)
      /\ cur.mode = "content" /\ Count(heap) \in Nat /\ Count(G) \in Nat /\ Count(heap) <= Count(G)
  BY TypedOf DEF TreeInv, InContent, Grown
<1>2. HandlesRight(G, cur, scanner)
  BY <1>1, HandlesGrow
<1>3. cur \in Cursors(Count(G)) /\ n \in 1 .. Count(heap) /\ n \in 1 .. Count(G) /\ n # NULL
  BY <1>1, <1>2 DEF HandlesRight, PlaceRight, Cursors, NULL
<1>4. Type(G, n) \in Boxes /\ Type(G, n) \notin Roots
  BY <1>3 DEF Grown, Boxes, Roots
<1>5. /\ D \in [1 .. Count(G) -> Int] /\ D[n] >= 1 /\ Get(G, n, "sibling") = NULL
      /\ q # NULL /\ 0 <= D[q] /\ D[q] < D[n]
  BY <1>3, <1>4 DEF Depths
<1>6. q \in 1 .. Count(G) /\ q \in 0 .. Count(G) /\ Type(G, q) \in Roots \cup Boxes
  <2>1. q \in 0 .. Count(G)
    <3>1. n \in 0 .. Count(G) /\ "parent" \in LinkFields
      BY <1>1, <1>3 DEF LinkFields
    <3>2. Get(G, n, "parent") \in 0 .. Count(G)
      BY <3>1, TypedOf
    <3>3. QED
      BY <3>2
  <2>2. ParentRight(G, n)
    BY <1>3 DEF Tree
  <2>3. QED
    BY <2>1, <2>2, <1>1, <1>5 DEF ParentRight, NULL
<1>7. y \in Seq(Seq(1 .. Count(G))) /\ Len(y) = Len(cur.x) - 1 /\ Len(cur.x) \in Nat /\ Len(cur.x) >= 2
  <2>1. cur.x \in Seq(Seq(1 .. Count(G))) /\ Len(cur.x) \in Nat
    BY <1>3 DEF Cursors
  <2>2. Len(cur.x) >= 2
    BY <2>1, <1>3, <1>5
  <2>3. Len(cur.x) >= 1
    BY <2>1, <2>2
  <2>4. Len(cur.x) >= 2 =>
          /\ <<(<<>>)>> \o Tail(Tail(cur.x)) \in Seq(Seq(1 .. Count(G)))
          /\ Len(<<(<<>>)>> \o Tail(Tail(cur.x))) = Len(cur.x) - 1
    BY <2>1, <2>3, <1>1, Lists
  <2>5. QED
    BY <2>1, <2>2, <2>4
<1>8. cur' = [cur EXCEPT !.child = n, !.parent = q, !.x = y, !.last_k = NULL, !.last_g = NULL]
  BY <1>3 DEF LeftCur, Cursors
<1> HIDE DEF y
<1>9. /\ cur'.mode = "content" /\ cur'.parent = q /\ cur'.child = n /\ cur'.form = cur.form
      /\ cur'.sheet = cur.sheet /\ cur'.x = y /\ cur'.input = cur.input
      /\ cur'.last_k = NULL /\ cur'.last_g = NULL
  BY <1>1, <1>3, <1>8 DEF Cursors
<1>10. HandlesRight(G, cur', scanner)
  <2>1. n \in 0 .. Count(G) /\ NULL \in 0 .. Count(G) /\ Len(y) >= 1
    BY <1>1, <1>3, <1>7 DEF NULL
  <2>2. cur' \in Cursors(Count(G))
    BY <2>1, <1>3, <1>6, <1>7, <1>8 DEF Cursors
  <2>3. QED
    BY <2>1, <2>2, <1>2, <1>9 DEF HandlesRight, Is
<1>11. PlaceRight(G, cur')
  <2>1. cur.form = NULL => cur.sheet # NULL
    BY <1>1 DEF PlaceRight
  <2>2. QED
    BY <2>1, <1>3, <1>5, <1>6, <1>9 DEF PlaceRight
<1> DEFINE E == [m \in 1 .. Count(G) |->
                   IF Type(G, m) \in Roots THEN 0 ELSE IF D[m] < D[n] THEN D[m] ELSE -1]
<1>12. E \in [1 .. Count(G) -> Int] /\ E[n] = -1 /\ E[q] = D[q]
  <2>1. Type(G, q) \in Roots => D[q] = 0
    BY <1>6 DEF Depths
  <2>2. QED
    BY <2>1, <1>3, <1>4, <1>5, <1>6
<1>13. ASSUME NEW m \in 1 .. Count(G), Type(G, m) \notin Roots, E[m] # -1
       PROVE  /\ Type(G, m) \in Boxes /\ E[m] >= 1
              /\ Get(G, m, "sibling") = NULL /\ Get(G, m, "parent") # NULL
              /\ 0 <= E[Get(G, m, "parent")] /\ E[Get(G, m, "parent")] < E[m]
  <2> DEFINE l == Get(G, m, "parent")
  <2>1. D[m] < D[n] /\ E[m] = D[m] /\ D[m] # -1
    BY <1>13
  <2>2. /\ Type(G, m) \in Boxes /\ D[m] >= 1 /\ Get(G, m, "sibling") = NULL /\ l # NULL
        /\ 0 <= D[l] /\ D[l] < D[m]
    BY <1>13, <2>1 DEF Depths
  <2>3. l \in 1 .. Count(G)
    <3>1. l \in 0 .. Count(G)
      BY TypedOf DEF LinkFields
    <3>2. QED
      BY <3>1, <2>2, <1>1 DEF NULL
  <2>4. E[l] = D[l]
    <3>1. D[l] \in Int /\ D[m] \in Int /\ D[n] \in Int
      BY <1>3, <1>5, <2>3
    <3>2. D[l] < D[n]
      BY <3>1, <2>1, <2>2
    <3>3. Type(G, l) \in Roots => D[l] = 0
      BY <2>3 DEF Depths
    <3>4. QED
      BY <3>2, <3>3, <2>3
  <2> HIDE DEF E, l
  <2>5. 0 <= E[l] /\ E[l] < E[m] /\ E[m] >= 1
    BY <2>1, <2>2, <2>4
  <2>6. QED
    BY <2>2, <2>5 DEF l
<1>14. Depths(G, E)
  <2>1. \A m \in 1 .. Count(G) : Type(G, m) \in Roots => E[m] = 0
    OBVIOUS
  <2> HIDE DEF E
  <2>2. QED
    BY <2>1, <1>12, <1>13 DEF Depths
<1> HIDE DEF E
<1>15. Open(cur', E)
  <2>1. D[n] \in Int /\ D[q] \in Int
    BY <1>3, <1>5, <1>6
  <2>2. 0 <= E[q] /\ E[q] < Len(y)
    BY <2>1, <1>5, <1>7, <1>12
  <2>3. QED
    BY <2>2, <1>9, <1>12 DEF Open
<1>16. QED
  BY <1>10, <1>11, <1>14, <1>15 DEF TreeInv, BoxesRight

(* The depth of the box that is left.                                      *)
LEMMA LastList ==
  ASSUME TreeInv, InContent, Type(heap, cur.parent) \in Boxes
  PROVE  /\ cur.parent \in 1 .. Count(heap) /\ Len(cur.x) \in Nat /\ Len(cur.x) >= 2
         /\ cur.x \in Seq(Seq(1 .. Count(heap)))
         /\ \E D : /\ Depths(heap, D) /\ D[cur.parent] >= 1 /\ D[cur.parent] < Len(cur.x)
                   /\ cur.child # NULL => D[cur.child] = -1
<1>1. /\ heap \in TypedHeaps /\ HandlesRight(heap, cur, scanner) /\ PlaceRight(heap, cur)
      /\ cur.mode = "content"
  BY DEF TreeInv, InContent
<1>2. cur \in Cursors(Count(heap)) /\ cur.parent \in 1 .. Count(heap)
  BY <1>1 DEF HandlesRight, PlaceRight, Cursors, NULL
<1>3. cur.x \in Seq(Seq(1 .. Count(heap))) /\ Len(cur.x) \in Nat
  BY <1>2 DEF Cursors
<1>4. PICK D : Depths(heap, D) /\ Open(cur, D)
  BY DEF TreeInv, BoxesRight
<1>5. /\ D \in [1 .. Count(heap) -> Int] /\ 0 <= D[cur.parent] /\ D[cur.parent] < Len(cur.x)
      /\ cur.child # NULL => D[cur.child] = -1
  BY <1>1, <1>4 DEF Depths, Open
<1>6. D[cur.parent] >= 1
  <2>1. Type(heap, cur.parent) \notin Roots
    BY DEF Boxes, Roots
  <2>2. QED
    BY <2>1, <1>2, <1>4, <1>5 DEF Depths
<1>7. D[cur.parent] \in Int
  BY <1>2, <1>5
<1>8. Len(cur.x) >= 2
  BY <1>3, <1>5, <1>6, <1>7
<1>9. QED
  BY <1>2, <1>3, <1>4, <1>5, <1>6, <1>8

LEMMA EndVboxRight ==
  ASSUME TreeInv, EndVbox
  PROVE  TreeInv'
<1> DEFINE n == cur.parent
           B == IF Get(heap, cur.parent, "child") = NULL /\ cur.form = NULL
                THEN MakeFriendTlc(heap, cur.parent) ELSE heap
           G == Left(B)
<1>1. /\ InContent /\ Type(heap, n) = "vbox" /\ heap' = G /\ cur' = LeftCur /\ scanner' = scanner
  BY DEF EndVbox
<1>2. /\ heap \in TypedHeaps /\ Tree(heap) /\ HeadsRight(heap) /\ n \in 1 .. Count(heap)
      /\ Len(cur.x) >= 2 /\ cur.x \in Seq(Seq(1 .. Count(heap))) /\ Count(heap) \in Nat
  BY <1>1, LastList, TypedOf DEF TreeInv, Boxes
<1>3. PICK D : Depths(heap, D) /\ D[n] >= 1 /\ D[n] < Len(cur.x)
  BY <1>1, LastList DEF Boxes
<1>4. Touch(heap, B, {n}, {"friend"})
  <2>1. Touch(heap, MakeFriendTlc(heap, n), {n}, {"friend"})
    BY <1>2, MakeFriendOf, BefriendsTouch
  <2>2. Touch(heap, heap, {n}, {"friend"})
    BY <1>2, TouchSame
  <2>3. QED
    BY <2>1, <2>2
<1>5. B \in TypedHeaps /\ Count(B) = Count(heap)
  BY <1>2, <1>4, TouchGrown
<1> HIDE DEF B
<1>6. Touch(B, G, 0 .. Count(B), {"tag", "line", "friend"})
  BY <1>2, <1>5, LeftOf
<1> DEFINE N == 0 .. Count(B)
           F == {"tag", "line", "friend"}
<1> HIDE DEF G
<1>7. Touch(heap, G, N, F)
  <2>1. {n} \subseteq N /\ {"friend"} \subseteq F
    BY <1>2, <1>5
  <2> HIDE DEF N, F
  <2>2. Touch(heap, B, N, F)
    BY <2>1, <1>4, TouchMore
  <2>5. Touch(B, G, N, F)
    BY <1>6 DEF N, F
  <2>3. Touch(heap, G, N \cup N, F \cup F)
    BY <2>2, <2>5, TouchTwice
  <2>4. N \cup N = N /\ F \cup F = F
    OBVIOUS
  <2>6. QED
    BY <2>3, <2>4
<1>8. F \cap Links = {} /\ F \cap (Links \cup {"weight"}) = {}
  BY DEF Links
<1>9. /\ G \in TypedHeaps /\ Grown(heap, G) /\ Tree(G) /\ HeadsRight(G) /\ Depths(G, D)
  BY <1>2, <1>3, <1>7, <1>8, TouchGrown, TouchTree, TouchHeads, TouchDepths
<1>10. Get(G, n, "parent") = Get(heap, n, "parent")
  <2>1. n \in 0 .. Count(heap) /\ "parent" \notin F
    BY <1>2
  <2> HIDE DEF F
  <2>2. QED
    BY <2>1, <1>7 DEF Touch
<1>11. 0 <= D[n]
  BY <1>2, <1>3 DEF Depths
<1>12. QED
  BY <1>1, <1>3, <1>9, <1>10, <1>11, LeaveRight DEF Boxes

(* The mean line: what it is, nobody needs to know here; the weight counts *)
(* the nodes of the box.                                                   *)
LEMMA SetMeanLineOf ==
  ASSUME NEW H \in TypedHeaps, Tree(H), HeadsRight(H), NEW n \in 1 .. Count(H),
         Type(H, n) = "hbox"
  PROVE  /\ Touch(H, SetMeanLine(H, n), {n, Get(H, n, "child")}, {"line", "mean_line", "weight"})
         /\ HeadsRight(SetMeanLine(H, n))
         /\ Get(SetMeanLine(H, n), n, "weight") >= 1
         /\ SetMeanLine(H, n).list = H.list
<1> DEFINE c == Get(H, n, "child")
           nodes == Siblings(H, c)
           counted == Tail(nodes)
           ws == [i \in DOMAIN counted |-> WeightOf(H, counted[i])]
           ls == [i \in DOMAIN counted |-> LineOf(H, counted[i]) * WeightOf(H, counted[i])]
           weight == Added(ws)
           lines == Added(ls)
           N == {n, c}
           F == {"line", "mean_line", "weight"}
           G == SetMeanLine(H, n)
<1>1. Count(H) \in Nat /\ n \in 0 .. Count(H) /\ c # NULL /\ c \in 1 .. Count(H) /\ c # n
  <2>1. Count(H) \in Nat /\ n \in 0 .. Count(H) /\ c \in 0 .. Count(H) /\ c # NULL
    BY TypedOf DEF HeadsRight, LinkFields
  <2>2. Type(H, c) = "box_bdry"
    BY DEF HeadsRight
  <2>3. QED
    BY <2>1, <2>2 DEF NULL
<1>2. nodes \in Seq(1 .. Count(H)) /\ Len(nodes) >= 1 /\ nodes[1] = c
  BY <1>1, ChildrenOf
<1>3. \A m \in 1 .. Count(H) :
        /\ WeightOf(H, m) \in Int /\ WeightOf(H, m) >= 1 /\ LineOf(H, m) \in Int
  <2>1. ASSUME NEW m \in 1 .. Count(H)
        PROVE  WeightOf(H, m) \in Int /\ WeightOf(H, m) >= 1 /\ LineOf(H, m) \in Int
    <3>1. Get(H, m, "weight") \in Int /\ Get(H, m, "mean_line") \in Int /\ Line(H, m) \in Int
      BY <1>1, TypedOf, OwnOf DEF NumberFields
    <3>2. Type(H, m) = "hbox" => Get(H, m, "weight") >= 0
      BY DEF HeadsRight
    <3>3. QED
      BY <3>1, <3>2 DEF WeightOf, LineOf
  <2>2. QED
    BY <2>1
<1>4. F \cap Links = {} /\ N \cup N = N
  BY DEF Links
<1>5. ASSUME NEW K, NEW k \in Nat, k >= 1, Touch(H, K, N, F), Get(K, n, "weight") = k
      PROVE  HeadsRight(K) /\ Get(K, n, "weight") >= 1
  <2>1. ASSUME NEW m \in 1 .. Count(K), Type(K, m) = "hbox"
        PROVE  /\ Get(K, m, "child") # NULL /\ Type(K, Get(K, m, "child")) = "box_bdry"
               /\ Get(K, m, "weight") >= 0
    <3>1. m \in 1 .. Count(H) /\ m \in 0 .. Count(H) /\ Type(H, m) = "hbox"
      BY <1>5, <2>1, <1>1 DEF Touch
    <3>2. Get(K, m, "child") = Get(H, m, "child") /\ Get(H, m, "child") \in 0 .. Count(H)
      BY <3>1, <1>5, TypedOf DEF Touch, LinkFields
    <3>3. Get(H, m, "child") # NULL /\ Type(H, Get(H, m, "child")) = "box_bdry"
          /\ Get(H, m, "weight") >= 0
      BY <3>1 DEF HeadsRight
    <3>4. Type(K, Get(H, m, "child")) = "box_bdry"
      BY <3>2, <3>3, <1>5 DEF Touch
    <3>5. Get(K, m, "weight") >= 0
      <4>1. CASE m = n
        BY <4>1, <1>5
      <4>2. CASE m # n
        <5>1. m # c
          <6>1. Type(H, c) = "box_bdry"
            BY DEF HeadsRight
          <6>2. QED
            BY <6>1, <3>1
        <5>2. Get(K, m, "weight") = Get(H, m, "weight")
          BY <4>2, <5>1, <3>1, <1>5 DEF Touch
        <5>3. QED
          BY <5>2, <3>3
      <4>3. QED
        BY <4>1, <4>2
    <3>6. QED
      BY <3>2, <3>3, <3>4, <3>5
  <2>2. QED
    BY <2>1, <1>5 DEF HeadsRight
<1>6. ASSUME NEW K \in TypedHeaps, Touch(H, K, N, F), K.list = H.list,
             NEW m \in N, NEW f \in F, NEW x \in Int
      PROVE  /\ Touch(H, Set(K, m, f, x), N, F) /\ Set(K, m, f, x).list = H.list
             /\ Set(K, m, f, x) \in TypedHeaps
             /\ m = n /\ f = "weight" => Get(Set(K, m, f, x), n, "weight") = x
  <2>1. Fit(K, f, x) /\ m \in 0 .. Count(K) /\ Count(K) = Count(H)
    BY <1>1, <1>6 DEF Fit, NumberFields, Touch
  <2>2. Touch(K, Set(K, m, f, x), {m}, {f}) /\ Set(K, m, f, x).list = K.list
        /\ Wrote(K, Set(K, m, f, x), {m}, f, x) /\ Set(K, m, f, x) \in TypedHeaps
    BY <2>1, SetTouch, SetTyped
  <2>3. {m} \subseteq N /\ {f} \subseteq F /\ N \cup N = N /\ F \cup F = F
    OBVIOUS
  <2>4. Touch(K, Set(K, m, f, x), N, F)
    BY <2>2, <2>3, TouchMore
  <2>5. Touch(H, Set(K, m, f, x), N \cup N, F \cup F)
    BY <2>4, <1>6, TouchTwice
  <2>6. Touch(H, Set(K, m, f, x), N, F)
    BY <2>3, <2>5
  <2>7. ASSUME m = n, f = "weight" PROVE Get(Set(K, m, f, x), n, "weight") = x
    <3>1. Has(H, n, "weight")
      <4>1. H \in Heaps /\ "weight" \in Fields["hbox"] /\ "hbox" \in ContentTypes
        BY TypedOf, FieldsOf DEF ContentTypes
      <4>2. QED
        BY <4>1, NodesOf
    <3>2. Has(K, n, "weight")
      BY <3>1, <1>1, <1>6 DEF Touch
    <3>3. QED
      BY <3>2, <2>1, <2>2, <2>7, <1>1 DEF Wrote
  <2>8. QED
    BY <1>6, <2>2, <2>6, <2>7
<1>7. Touch(H, H, N, F)
  BY TouchSame
<1>8. Get(H, n, "line") \in Int /\ \A m \in 1 .. Count(H) : Get(H, m, "line") \in Int
  BY <1>1, TypedOf DEF NumberFields
<1>9. CASE Len(nodes) < 2
  <2> DEFINE A == Set(H, n, "mean_line", Get(H, n, "line"))
             B == Set(A, n, "weight", 1)
  <2>1. G = B
    BY <1>9 DEF SetMeanLine
  <2> HIDE DEF N, F, G
  <2>2. n \in N /\ "mean_line" \in F /\ "weight" \in F
    BY DEF N, F
  <2>3. Touch(H, A, N, F) /\ A.list = H.list /\ A \in TypedHeaps
    BY <2>2, <1>6, <1>7, <1>8
  <2> HIDE DEF A
  <2>4. Touch(H, B, N, F) /\ B.list = H.list /\ Get(B, n, "weight") = 1
    BY <2>2, <2>3, <1>6
  <2> HIDE DEF B
  <2>5. HeadsRight(B) /\ Get(B, n, "weight") >= 1
    BY <2>4, <1>5
  <2>6. QED
    BY <2>1, <2>4, <2>5 DEF N, F, G
<1>10. CASE ~ (Len(nodes) < 2)
  <2> DEFINE l == (lines + weight \div 2) \div weight
             A == Set(H, nodes[1], "line", Get(H, nodes[2], "line"))
             B == Set(A, n, "mean_line", l)
             D == Set(B, n, "weight", weight)
  <2>1. G = D
    BY <1>10 DEF SetMeanLine
  <2>2. nodes[2] \in 1 .. Count(H) /\ counted \in Seq(1 .. Count(H)) /\ Len(counted) >= 1
        /\ Len(counted) \in Nat
    <3>1. Len(nodes) \in Nat /\ Len(nodes) >= 2
      BY <1>2, <1>10
    <3>2. 2 \in 1 .. Len(nodes) /\ nodes # <<>>
      BY <3>1
    <3>3. Len(counted) = Len(nodes) - 1 /\ counted \in Seq(1 .. Count(H))
      BY <3>2, <1>2, HeadTailProperties
    <3>4. nodes[2] \in 1 .. Count(H)
      BY <3>2, <1>2, ElementOfSeq
    <3>5. \A j \in Nat : j >= 2 => j - 1 >= 1 /\ j - 1 \in Nat
      OBVIOUS
    <3> HIDE DEF nodes
    <3>6. QED
      BY <3>1, <3>3, <3>4, <3>5
  <2>3. /\ ws \in Seq(Int) /\ Len(ws) = Len(counted) /\ \A i \in 1 .. Len(ws) : ws[i] >= 1
        /\ ls \in Seq(Int)
    <3> HIDE DEF counted, nodes
    <3>1. DOMAIN counted = 1 .. Len(counted)
      BY <2>2
    <3>2. \A i \in 1 .. Len(counted) : counted[i] \in 1 .. Count(H)
      BY <2>2, ElementOfSeq
    <3>3. /\ \A i \in 1 .. Len(counted) : WeightOf(H, counted[i]) \in Int /\ WeightOf(H, counted[i]) >= 1
          /\ \A i \in 1 .. Len(counted) : LineOf(H, counted[i]) \in Int
      BY <3>2, <1>3
    <3>4. \A i \in 1 .. Len(counted) : LineOf(H, counted[i]) * WeightOf(H, counted[i]) \in Int
      BY <3>3
    <3>5. ws \in [1 .. Len(counted) -> Int] /\ ls \in [1 .. Len(counted) -> Int]
      BY <3>1, <3>3, <3>4
    <3>6. QED
      BY <2>2, <3>1, <3>3, <3>5
  <2> HIDE DEF ws, ls
  <2>4. weight \in Int /\ weight >= 1 /\ lines \in Int
    <3>1. weight \in Int /\ weight >= Len(ws) /\ lines \in Int
      BY <2>3, AddedOf
    <3>2. QED
      BY <3>1, <2>2, <2>3
  <2> HIDE DEF weight, lines, counted, nodes
  <2>5. l \in Int /\ weight \in Nat
    BY <2>4
  <2> HIDE DEF l, N, F, G
  <2>6. /\ n \in N /\ nodes[1] \in N /\ "mean_line" \in F /\ "weight" \in F /\ "line" \in F
        /\ Get(H, nodes[2], "line") \in Int
    BY <1>2, <1>8, <2>2 DEF N, F
  <2>7. Touch(H, A, N, F) /\ A.list = H.list /\ A \in TypedHeaps
    BY <2>6, <1>6, <1>7
  <2> HIDE DEF A
  <2>8. Touch(H, B, N, F) /\ B.list = H.list /\ B \in TypedHeaps
    BY <2>5, <2>6, <2>7, <1>6
  <2> HIDE DEF B
  <2>9. Touch(H, D, N, F) /\ D.list = H.list /\ Get(D, n, "weight") = weight
    BY <2>4, <2>6, <2>8, <1>6
  <2> HIDE DEF D
  <2>10. HeadsRight(D) /\ Get(D, n, "weight") >= 1
    BY <2>4, <2>5, <2>9, <1>5
  <2>11. QED
    BY <2>1, <2>9, <2>10 DEF N, F, G
<1>11. QED
  BY <1>9, <1>10

LEMMA NextHboxOf ==
  ASSUME NEW H \in TypedHeaps, NEW n \in 1 .. Count(H), cur.sheet \in 0 .. Count(H)
  PROVE  /\ Touch(H, NextHbox(H, n), {n, cur.sheet}, {"next_hbox"})
         /\ NextHbox(H, n).list = H.list
<1> DEFINE x == Get(H, cur.sheet, "next_hbox")
           A == Set(H, n, "next_hbox", x)
           G == Set(A, cur.sheet, "next_hbox", n)
<1>1. x \in 0 .. Count(H) /\ n \in 0 .. Count(H) /\ Count(H) \in Nat
  BY TypedOf DEF LinkFields
<1>2. Touch(H, A, {n}, {"next_hbox"}) /\ A.list = H.list
  BY <1>1, SetTouch DEF Fit, LinkFields
<1>3. A \in TypedHeaps /\ Count(A) = Count(H)
  BY <1>2, TouchGrown
<1> HIDE DEF A
<1>4. Touch(A, G, {cur.sheet}, {"next_hbox"}) /\ G.list = A.list
  BY <1>1, <1>3, SetTouch DEF Fit, LinkFields
<1>5. Touch(H, G, {n} \cup {cur.sheet}, {"next_hbox"} \cup {"next_hbox"})
  <2> HIDE DEF G
  <2>1. QED
    BY <1>2, <1>4, TouchTwice
<1>6. {n} \cup {cur.sheet} = {n, cur.sheet} /\ {"next_hbox"} \cup {"next_hbox"} = {"next_hbox"}
  OBVIOUS
<1>7. NextHbox(H, n) = G
  BY DEF NextHbox, A
<1> HIDE DEF G
<1>8. QED
  BY <1>2, <1>4, <1>5, <1>6, <1>7

(* The boundary nodes that frame an hbox.                                  *)
Closing(H, n) ==
  LET seen == H.node[n].visible IN [h |-> seen.h + seen.width, v |-> seen.v]
Closed(H, n) == SetSibling(New(H, "box_bdry", Closing(H, n)), cur.child, Fresh(H))
FramedFields == {"tag", "line", "h", "v"}

LEMMA ClosingPlain ==
  ASSUME NEW H \in TypedHeaps, NEW n \in 1 .. Count(H), Type(H, n) = "hbox"
  PROVE  Plain(Closing(H, n))
<1> DEFINE seen == H.node[n].visible
<1>1. seen.h \in Int /\ seen.v \in Int /\ seen.width \in Int
  <2>1. "visible" \in Fields["hbox"] /\ "hbox" \in ContentTypes
    BY FieldsOf DEF ContentTypes
  <2>2. Get(H, n, "visible") = seen /\ Get(H, n, "visible") \in Size
    BY <2>1, NodesOf DEF TypedHeaps
  <2>3. QED
    BY <2>2 DEF Size
<1>2. Closing(H, n) = [h |-> seen.h + seen.width, v |-> seen.v]
  BY DEF Closing
<1> HIDE DEF seen
<1> DEFINE data == [h |-> seen.h + seen.width, v |-> seen.v]
<1>3. DOMAIN data = {"h", "v"} /\ \A f \in DOMAIN data : data[f] \in Int
  BY <1>1
<1>4. Plain(data)
  BY <1>3 DEF Plain, LinkFields
<1> HIDE DEF data
<1>5. QED
  BY <1>2, <1>4 DEF data

LEMMA FramedOf ==
  ASSUME NEW H \in TypedHeaps, Tree(H), HeadsRight(H), NEW n \in 1 .. Count(H),
         Type(H, n) = "hbox", cur.child \in 1 .. Count(H), Get(H, cur.child, "parent") = n
  PROVE  /\ Attached(H, Closed(H, n), "box_bdry", Closing(H, n), cur.child, n)
         /\ \E K : /\ Touch(Closed(H, n), K, {Fresh(H)}, {"tag", "line"})
                   /\ Touch(K, Framed(H, n), {Get(H, n, "child")}, {"h", "v"})
         /\ Framed(H, n).list = H.list
         /\ Touch(Closed(H, n), Framed(H, n), 0 .. Count(Closed(H, n)), FramedFields)
<1> DEFINE c == Get(H, n, "child")
           nodes == Siblings(H, c)
           plain == {i \in DOMAIN nodes : Type(H, nodes[i]) # "ref"}
           i0 == CHOOSE i \in plain : \A j \in plain : j <= i
           model == nodes[i0]
           seen == H.node[n].visible
           data == Closing(H, n)
           B == Closed(H, n)
           K == SetTlc(B, <<Fresh(H)>>, model)
           L == Set(K, nodes[1], "h", seen.h)
           G == Set(L, nodes[1], "v", seen.v)
           All == 0 .. Count(B)
           F == FramedFields
<1>1. /\ Count(H) \in Nat /\ H \in Heaps /\ c # NULL /\ c \in 1 .. Count(H)
      /\ Type(H, c) = "box_bdry"
  BY TypedOf DEF HeadsRight, LinkFields, NULL
<1>2. nodes \in Seq(1 .. Count(H)) /\ Len(nodes) >= 1 /\ nodes[1] = c
  BY <1>1, ChildrenOf
<1>3. model \in 1 .. Count(H)
  <2>1. Len(nodes) \in Nat /\ DOMAIN nodes = 1 .. Len(nodes)
    BY <1>2
  <2>2. 1 \in plain /\ plain \subseteq 0 .. Len(nodes) /\ plain \subseteq 1 .. Len(nodes)
    <3>1. 1 \in DOMAIN nodes
      BY <2>1, <1>2
    <3> HIDE DEF nodes
    <3>2. Type(H, nodes[1]) # "ref"
      BY <1>1, <1>2
    <3>3. QED
      BY <3>1, <3>2, <2>1
  <2>3. \E i \in plain : \A j \in plain : j <= i
    <3> HIDE DEF plain
    <3>1. QED
      BY <2>1, <2>2, Largest
  <2>4. i0 \in plain
    <3> HIDE DEF plain
    <3>1. QED
      BY <2>3
  <2>5. i0 \in 1 .. Len(nodes)
    BY <2>2, <2>4
  <2> HIDE DEF i0, nodes
  <2>6. QED
    BY <2>5, <1>2, ElementOfSeq
<1>4. seen \in Size /\ seen.h \in Int /\ seen.v \in Int /\ seen.width \in Int
  <2>1. "visible" \in Fields["hbox"] /\ "hbox" \in ContentTypes
    BY FieldsOf DEF ContentTypes
  <2>2. Get(H, n, "visible") = seen /\ Get(H, n, "visible") \in Size
    BY <1>1, <2>1, NodesOf DEF TypedHeaps
  <2>3. QED
    BY <2>2 DEF Size
<1>5. data = [h |-> seen.h + seen.width, v |-> seen.v]
  BY DEF Closing
<1>6. G = Framed(H, n)
  BY <1>5 DEF Framed, Closed
<1> HIDE DEF seen, nodes, plain, i0, model
<1>7. Plain(data) /\ "box_bdry" \in Inner
  BY ClosingPlain DEF Inner, ContentTypes
<1> HIDE DEF data
<1>8. Attached(H, B, "box_bdry", data, cur.child, n)
  BY <1>7, SiblingAttached DEF Closed, data
<1> HIDE DEF B
<1>9. B \in TypedHeaps /\ Count(B) = Count(H) + 1 /\ Fresh(H) \in 1 .. Count(B) /\ B.list = H.list
  BY <1>8, AttachedGrown DEF Attached
<1>10. c \in 1 .. Count(B) /\ model \in 1 .. Count(B)
  BY <1>1, <1>3, <1>9
<1>11. Touch(B, K, {Fresh(H)}, {"tag", "line"}) /\ K.list = B.list
  <2> DEFINE s == <<Fresh(H)>>
  <2>1. s \in Seq(1 .. Count(B)) /\ {s[i] : i \in 1 .. Len(s)} = {Fresh(H)}
    BY <1>9
  <2> HIDE DEF s
  <2>2. Touch(B, SetTlc(B, s, model), {s[i] : i \in 1 .. Len(s)}, {"tag", "line"})
        /\ SetTlc(B, s, model).list = B.list
    BY <2>1, <1>9, <1>10, SetTlcTouch
  <2>3. QED
    BY <2>1, <2>2 DEF s
<1>12. K \in TypedHeaps /\ Count(K) = Count(B)
  BY <1>9, <1>11, TouchGrown
<1> HIDE DEF K
<1>13. c \in 0 .. Count(B) /\ nodes[1] = c
  BY <1>2, <1>9, <1>10
<1>14. Touch(K, L, {c}, {"h"}) /\ L.list = K.list
  BY <1>4, <1>12, <1>13, SetTouch DEF Fit, NumberFields
<1>15. L \in TypedHeaps /\ Count(L) = Count(B)
  BY <1>12, <1>14, TouchGrown
<1> HIDE DEF L
<1>16. Touch(L, G, {c}, {"v"}) /\ G.list = L.list
  BY <1>4, <1>13, <1>15, SetTouch DEF Fit, NumberFields
<1> HIDE DEF G
<1>17. Touch(K, G, {c}, {"h", "v"})
  <2>1. Touch(K, G, {c} \cup {c}, {"h"} \cup {"v"})
    BY <1>14, <1>16, TouchTwice
  <2>2. {c} \cup {c} = {c} /\ {"h"} \cup {"v"} = {"h", "v"}
    OBVIOUS
  <2>3. QED
    BY <2>1, <2>2
<1>18. Touch(B, G, All, F)
  <2>1. {c} \subseteq All /\ {Fresh(H)} \subseteq All /\ {"tag", "line"} \subseteq F /\ {"h", "v"} \subseteq F
    BY <1>9, <1>13 DEF FramedFields
  <2> HIDE DEF All, F, c
  <2>2. Touch(B, K, All, F) /\ Touch(K, G, All, F)
    BY <2>1, <1>11, <1>17, TouchMore
  <2>3. Touch(B, G, All \cup All, F \cup F)
    BY <2>2, TouchTwice
  <2>4. All \cup All = All /\ F \cup F = F
    OBVIOUS
  <2>5. QED
    BY <2>3, <2>4
<1>19. G.list = H.list
  BY <1>9, <1>11, <1>14, <1>16
<1>20. QED
  BY <1>6, <1>8, <1>11, <1>17, <1>18, <1>19 DEF B, data

(* The infinite glue of a paragraph.                                       *)
LEMMA EndGlueOf ==
  ASSUME NEW H \in TypedHeaps, Tree(H), NEW n \in 1 .. Count(H),
         cur.last_k \in 0 .. Count(H), cur.last_g \in 0 .. Count(H)
  PROVE  /\ Touch(H, EndGlue(H, n), {cur.last_k, cur.last_g}, {"tag", "line"})
         /\ EndGlue(H, n).list = H.list
<1> DEFINE nodes == Siblings(H, Get(H, n, "child"))
           before == {nodes[i] : i \in {j \in 1 .. Len(nodes) - 1 : nodes[j + 1] = cur.last_k}}
           model == CHOOSE m \in before : TRUE
           s == <<cur.last_k, cur.last_g>>
           skip == cur.last_k = NULL \/ cur.last_g = NULL \/ before = {}
<1>1. EndGlue(H, n) = IF skip THEN H ELSE SetTlc(H, s, model)
  BY DEF EndGlue
<1>2. nodes \in Seq(1 .. Count(H))
  BY ChildrenOf
<1>3. before \subseteq 1 .. Count(H)
  <2>1. \A i \in 1 .. Len(nodes) : nodes[i] \in 1 .. Count(H)
    BY <1>2, ElementOfSeq
  <2>2. \A j \in 1 .. Len(nodes) - 1 : j \in 1 .. Len(nodes)
    BY <1>2, LenProperties
  <2> HIDE DEF nodes
  <2>3. QED
    BY <2>1, <2>2
<1>4. CASE skip
  BY <1>1, <1>4, TouchSame
<1>5. CASE ~ skip
  <2> HIDE DEF before
  <2>1. model \in 1 .. Count(H)
    BY <1>3, <1>5
  <2>2. s \in Seq(1 .. Count(H)) /\ {s[i] : i \in 1 .. Len(s)} = {cur.last_k, cur.last_g}
    <3>1. cur.last_k \in 1 .. Count(H) /\ cur.last_g \in 1 .. Count(H)
      BY <1>5 DEF NULL
    <3>2. QED
      BY <3>1
  <2> HIDE DEF s, model
  <2>3. /\ Touch(H, SetTlc(H, s, model), {s[i] : i \in 1 .. Len(s)}, {"tag", "line"})
        /\ SetTlc(H, s, model).list = H.list
    BY <2>1, <2>2, SetTlcTouch
  <2>4. QED
    BY <2>2, <2>3, <1>1, <1>5
<1>6. QED
  BY <1>4, <1>5

(* The boxes that are open when a node comes after one that is no open box.*)
LEMMA DepthsGrow ==
  ASSUME NEW H \in TypedHeaps, NEW D, Depths(H, D), NEW G, NEW type \in Inner, NEW data,
         NEW c \in 1 .. Count(H), NEW p \in 1 .. Count(H), Attached(H, G, type, data, c, p), D[c] = -1
  PROVE  \E E : Depths(G, E) /\ \A m \in 1 .. Count(H) : E[m] = D[m]
<1> DEFINE n == Fresh(H)
           E == [m \in 1 .. Count(G) |-> IF m = n THEN -1 ELSE D[m]]
<1>1. /\ Count(H) \in Nat /\ Count(G) = Count(H) + 1 /\ n = Count(H) + 1 /\ n # NULL
      /\ D \in [1 .. Count(H) -> Int] /\ c # NULL
  BY AttachedGrown DEF Depths, NULL
<1>2. /\ E \in [1 .. Count(G) -> Int] /\ E[n] = -1
      /\ \A m \in 1 .. Count(H) : E[m] = D[m] /\ m # n /\ m \in 0 .. Count(H)
  <2>1. \A m \in 1 .. Count(G) : m # n => m \in 1 .. Count(H)
    BY <1>1
  <2>2. n \in 1 .. Count(G) /\ \A m \in 1 .. Count(H) : m # n /\ m \in 1 .. Count(G) /\ m \in 0 .. Count(H)
    BY <1>1
  <2>3. QED
    BY <2>1, <2>2, <1>1
<1> HIDE DEF E
<1>3. ASSUME NEW m \in 1 .. Count(G)
      PROVE  /\ Type(G, m) \in Roots => E[m] = 0
             /\ Type(G, m) \notin Roots /\ E[m] # -1 =>
                  /\ Type(G, m) \in Boxes /\ E[m] >= 1
                  /\ Get(G, m, "sibling") = NULL /\ Get(G, m, "parent") # NULL
                  /\ 0 <= E[Get(G, m, "parent")] /\ E[Get(G, m, "parent")] < E[m]
  <2>1. CASE m = n
    <3>1. Type(G, m) \notin Roots
      BY <2>1 DEF Attached, Inner, Roots
    <3>2. QED
      BY <2>1, <3>1, <1>2
  <2>2. CASE m # n
    <3> DEFINE l == Get(H, m, "parent")
    <3>1. m \in 1 .. Count(H) /\ m \in 0 .. Count(H) /\ E[m] = D[m]
      BY <2>2, <1>1, <1>2
    <3>2. Type(G, m) = Type(H, m) /\ Get(G, m, "parent") = l
      BY <3>1, <1>1 DEF Attached
    <3>3. ASSUME Type(H, m) \notin Roots, D[m] # -1
          PROVE  /\ Type(H, m) \in Boxes /\ D[m] >= 1
                 /\ Get(H, m, "sibling") = NULL /\ l # NULL
                 /\ 0 <= D[l] /\ D[l] < D[m] /\ E[l] = D[l] /\ m # c
      <4>1. /\ Type(H, m) \in Boxes /\ D[m] >= 1
            /\ Get(H, m, "sibling") = NULL /\ l # NULL
            /\ 0 <= D[l] /\ D[l] < D[m]
        BY <3>1, <3>3 DEF Depths
      <4>2. l \in 0 .. Count(H)
        BY <3>1, TypedOf DEF LinkFields
      <4>3. l \in 1 .. Count(H)
        BY <4>1, <4>2, <1>1 DEF NULL
      <4>4. QED
        BY <4>1, <4>3, <1>2, <3>3
    <3>4. m # c => Get(G, m, "sibling") = Get(H, m, "sibling")
      BY <3>1 DEF Attached
    <3>5. Type(H, m) \in Roots => D[m] = 0
      BY <3>1 DEF Depths
    <3> HIDE DEF l
    <3>6. QED
      BY <3>1, <3>2, <3>3, <3>4, <3>5
  <2>3. QED
    BY <2>1, <2>2
<1>4. Depths(G, E)
  BY <1>2, <1>3 DEF Depths
<1>5. QED
  BY <1>2, <1>4

(* What the end of an hbox does, in its order.                             *)
ChainedHeap == IF cur.form = NULL THEN NextHbox(heap, cur.parent) ELSE heap
MeanHeap == SetMeanLine(ChainedHeap, cur.parent)
FramedHeap == Framed(MeanHeap, cur.parent)
GluedHeap == EndGlue(FramedHeap, cur.parent)
LeftHeap == Left(GluedHeap)
Outer == Get(heap, cur.parent, "parent")
SeenHeap ==
  Contain(LeftHeap, Outer, ContainBox(Visible(LeftHeap, Outer), BoxOf(Visible(LeftHeap, cur.parent))))

LEMMA EndHboxOf ==
  ASSUME TreeInv, EndHbox
  PROVE  LET n == cur.parent
             c == Get(heap, n, "child")
         IN  /\ InContent /\ Type(heap, n) = "hbox" /\ n \in 1 .. Count(heap)
             /\ heap' = SeenHeap /\ cur' = LeftCur /\ scanner' = scanner
             /\ cur.child \in 1 .. Count(heap) /\ Outer \in 1 .. Count(heap)
             /\ c \in 1 .. Count(heap) /\ Type(heap, c) = "box_bdry"
             /\ Get(MeanHeap, n, "child") = c
             /\ Touch(heap, ChainedHeap, {n, cur.sheet}, {"next_hbox"}) /\ ChainedHeap.list = heap.list
             /\ Touch(ChainedHeap, MeanHeap, {n, c}, {"line", "mean_line", "weight"})
             /\ MeanHeap.list = ChainedHeap.list /\ HeadsRight(MeanHeap)
             /\ Get(MeanHeap, n, "weight") >= 1
             /\ Attached(MeanHeap, Closed(MeanHeap, n), "box_bdry", Closing(MeanHeap, n), cur.child, n)
             /\ \E K : /\ Touch(Closed(MeanHeap, n), K, {Fresh(MeanHeap)}, {"tag", "line"})
                       /\ Touch(K, FramedHeap, {c}, {"h", "v"})
             /\ FramedHeap.list = MeanHeap.list
             /\ Touch(Closed(MeanHeap, n), FramedHeap, 0 .. Count(Closed(MeanHeap, n)), FramedFields)
             /\ Touch(FramedHeap, GluedHeap, {cur.last_k, cur.last_g}, {"tag", "line"})
             /\ GluedHeap.list = FramedHeap.list
             /\ Touch(GluedHeap, LeftHeap, 0 .. Count(GluedHeap), {"tag", "line", "friend"})
             /\ Touch(LeftHeap, SeenHeap, {Outer}, {"visible"}) /\ SeenHeap.list = LeftHeap.list
             /\ Count(MeanHeap) = Count(heap) /\ Count(LeftHeap) = Count(heap) + 1
             /\ Tree(MeanHeap) /\ Tree(FramedHeap) /\ Tree(SeenHeap)
             /\ SeenHeap \in TypedHeaps /\ HeadsRight(SeenHeap) /\ Grown(heap, SeenHeap)
             /\ Get(SeenHeap, n, "parent") = Get(heap, n, "parent")
             /\ cur.x \in Seq(Seq(1 .. Count(GluedHeap))) /\ Len(cur.x) >= 2
             /\ \E D : Depths(SeenHeap, D) /\ 0 <= D[n] /\ D[n] < Len(cur.x)
<1> DEFINE n == cur.parent
           c == Get(heap, n, "child")
           B == Closed(MeanHeap, n)
<1>1. /\ InContent /\ Type(heap, n) = "hbox" /\ heap' = SeenHeap /\ cur' = LeftCur
      /\ scanner' = scanner
  BY DEF EndHbox, SeenHeap, LeftHeap, GluedHeap, FramedHeap, MeanHeap, ChainedHeap, Outer
<1>2. /\ heap \in TypedHeaps /\ Tree(heap) /\ HeadsRight(heap) /\ n \in 1 .. Count(heap)
      /\ Len(cur.x) >= 2 /\ cur.x \in Seq(Seq(1 .. Count(heap))) /\ Count(heap) \in Nat
      /\ cur.mode = "content" /\ PlaceRight(heap, cur) /\ HandlesRight(heap, cur, scanner)
      /\ cur \in Cursors(Count(heap))
  BY <1>1, LastList, TypedOf DEF TreeInv, Boxes, InContent, HandlesRight
<1>3. PICK D : /\ Depths(heap, D) /\ D[n] >= 1 /\ D[n] < Len(cur.x)
               /\ cur.child # NULL => D[cur.child] = -1
  BY <1>1, LastList DEF Boxes
<1>4. /\ cur.child \in 1 .. Count(heap) /\ Get(heap, cur.child, "parent") = n
      /\ Get(heap, cur.child, "sibling") = NULL
  <2>1. cur.child # NULL
    BY <1>1, <1>2 DEF PlaceRight, Roots
  <2>2. Get(heap, cur.child, "parent") = n /\ Get(heap, cur.child, "sibling") = NULL
    BY <2>1, <1>1, <1>2 DEF PlaceRight
  <2>3. cur.child \in 1 .. Count(heap)
    BY <2>1, <1>2 DEF Cursors, NULL
  <2>4. QED
    BY <2>2, <2>3
<1>0. \A f \in LinkFields : Get(heap, n, f) \in 0 .. Count(heap)
  BY <1>2, TypedOf
<1>5. c \in 1 .. Count(heap) /\ Type(heap, c) = "box_bdry"
  <2>1. c # NULL /\ Type(heap, c) = "box_bdry"
    BY <1>1, <1>2 DEF HeadsRight
  <2>2. c \in 0 .. Count(heap)
    BY <1>0 DEF LinkFields
  <2>3. QED
    BY <2>1, <2>2 DEF NULL
<1>6. Outer \in 1 .. Count(heap)
  <2>1. Outer \in 0 .. Count(heap)
    BY <1>0 DEF Outer, LinkFields
  <2>2. Type(heap, n) \notin Roots /\ D[n] # -1
    BY <1>1, <1>2, <1>3 DEF Roots, Depths
  <2>3. Outer # NULL
    BY <1>2, <1>3, <2>2 DEF Depths, Outer
  <2>4. QED
    BY <2>1, <2>3 DEF NULL
<1>7. cur.sheet \in 0 .. Count(heap) /\ cur.last_k \in 0 .. Count(heap) /\ cur.last_g \in 0 .. Count(heap)
  BY <1>2 DEF Cursors
<1>8. Touch(heap, ChainedHeap, {n, cur.sheet}, {"next_hbox"}) /\ ChainedHeap.list = heap.list
  BY <1>2, <1>7, NextHboxOf, TouchSame DEF ChainedHeap
<1> DEFINE All == 0 .. Count(heap)
<1>9. /\ ChainedHeap \in TypedHeaps /\ Count(ChainedHeap) = Count(heap) /\ Grown(heap, ChainedHeap)
      /\ Tree(ChainedHeap) /\ HeadsRight(ChainedHeap) /\ Depths(ChainedHeap, D)
  <2>1. {"next_hbox"} \cap Links = {} /\ {"next_hbox"} \cap (Links \cup {"weight"}) = {}
    BY DEF Links
  <2>2. QED
    BY <2>1, <1>2, <1>3, <1>8, TouchGrown, TouchTree, TouchHeads, TouchDepths
<1>10. \A m \in All, f \in Links : Get(ChainedHeap, m, f) = Get(heap, m, f)
                                   /\ Type(ChainedHeap, m) = Type(heap, m)
  BY <1>8 DEF Touch, Links
<1>11. /\ Type(ChainedHeap, n) = "hbox" /\ Get(ChainedHeap, n, "child") = c
       /\ n \in All /\ c \in All /\ cur.child \in All
  BY <1>1, <1>2, <1>4, <1>5, <1>10 DEF Links
<1>12. /\ Touch(ChainedHeap, MeanHeap, {n, c}, {"line", "mean_line", "weight"})
       /\ MeanHeap.list = ChainedHeap.list /\ HeadsRight(MeanHeap)
       /\ Get(MeanHeap, n, "weight") >= 1
  <2>1. /\ n \in 1 .. Count(ChainedHeap) /\ Type(ChainedHeap, n) = "hbox"
        /\ Get(ChainedHeap, n, "child") = c
    BY <1>2, <1>9, <1>11
  <2> HIDE DEF n, c
  <2>2. /\ Touch(ChainedHeap, SetMeanLine(ChainedHeap, n), {n, Get(ChainedHeap, n, "child")},
                 {"line", "mean_line", "weight"})
        /\ HeadsRight(SetMeanLine(ChainedHeap, n))
        /\ Get(SetMeanLine(ChainedHeap, n), n, "weight") >= 1
        /\ SetMeanLine(ChainedHeap, n).list = ChainedHeap.list
    BY <2>1, <1>9, SetMeanLineOf
  <2>3. MeanHeap = SetMeanLine(ChainedHeap, n)
    BY DEF MeanHeap, n
  <2>4. QED
    BY <2>1, <2>2, <2>3
<1>13. /\ MeanHeap \in TypedHeaps /\ Count(MeanHeap) = Count(heap) /\ Grown(ChainedHeap, MeanHeap)
       /\ Tree(MeanHeap) /\ Depths(MeanHeap, D)
  <2>1. {"line", "mean_line", "weight"} \cap Links = {}
    BY DEF Links
  <2>2. QED
    BY <2>1, <1>9, <1>12, TouchGrown, TouchTree, TouchDepths
<1>14. \A m \in All, f \in Links : Get(MeanHeap, m, f) = Get(heap, m, f)
                                   /\ Type(MeanHeap, m) = Type(heap, m)
  <2>1. \A m \in All, f \in Links : Get(MeanHeap, m, f) = Get(ChainedHeap, m, f)
                                    /\ Type(MeanHeap, m) = Type(ChainedHeap, m)
    BY <1>9, <1>12 DEF Touch, Links
  <2>2. QED
    BY <2>1, <1>10
<1>15. /\ Type(MeanHeap, n) = "hbox" /\ Get(MeanHeap, n, "child") = c
       /\ Get(MeanHeap, cur.child, "parent") = n /\ n \in 1 .. Count(MeanHeap)
       /\ cur.child \in 1 .. Count(MeanHeap) /\ Get(MeanHeap, cur.child, "sibling") = NULL
       /\ Get(MeanHeap, n, "parent") = Outer
  BY <1>1, <1>2, <1>4, <1>11, <1>13, <1>14 DEF Links, Outer
<1>16. /\ Attached(MeanHeap, B, "box_bdry", Closing(MeanHeap, n), cur.child, n)
       /\ \E K : /\ Touch(B, K, {Fresh(MeanHeap)}, {"tag", "line"})
                 /\ Touch(K, FramedHeap, {c}, {"h", "v"})
       /\ FramedHeap.list = MeanHeap.list
       /\ Touch(B, FramedHeap, 0 .. Count(B), FramedFields)
  <2> HIDE DEF n, c
  <2>1. /\ Attached(MeanHeap, Closed(MeanHeap, n), "box_bdry", Closing(MeanHeap, n), cur.child, n)
        /\ \E K : /\ Touch(Closed(MeanHeap, n), K, {Fresh(MeanHeap)}, {"tag", "line"})
                  /\ Touch(K, Framed(MeanHeap, n), {Get(MeanHeap, n, "child")}, {"h", "v"})
        /\ Framed(MeanHeap, n).list = MeanHeap.list
        /\ Touch(Closed(MeanHeap, n), Framed(MeanHeap, n), 0 .. Count(Closed(MeanHeap, n)),
                 FramedFields)
    BY <1>12, <1>13, <1>15, FramedOf
  <2>2. FramedHeap = Framed(MeanHeap, n)
    BY DEF FramedHeap, n
  <2>3. QED
    BY <2>1, <2>2, <1>15
<1>17. /\ B \in TypedHeaps /\ Count(B) = Count(heap) + 1 /\ Grown(MeanHeap, B)
       /\ Fresh(MeanHeap) = Count(heap) + 1 /\ Tree(B) /\ HeadsRight(B)
  <2>1. B \in TypedHeaps /\ Count(B) = Count(heap) + 1 /\ Grown(MeanHeap, B)
        /\ Fresh(MeanHeap) = Count(heap) + 1
    BY <1>13, <1>16, AttachedGrown
  <2>2. At(MeanHeap, cur.child, n)
    BY <1>15 DEF At, Boxes
  <2>3. Tree(B)
    BY <2>2, <1>13, <1>16, AttachedTree DEF Inner, ContentTypes
  <2>4. ASSUME NEW m \in 1 .. Count(B), Type(B, m) = "hbox"
        PROVE  /\ Get(B, m, "child") # NULL /\ Type(B, Get(B, m, "child")) = "box_bdry"
               /\ Get(B, m, "weight") >= 0
    <3>1. m # Fresh(MeanHeap)
      BY <2>4, <1>16 DEF Attached
    <3>2. m \in 1 .. Count(MeanHeap) /\ Type(MeanHeap, m) = "hbox"
      BY <3>1, <2>1, <2>4, <1>2, <1>13 DEF Grown
    <3>3. cur.child # NULL
      BY <1>4 DEF NULL
    <3>4. QED
      BY <3>2, <3>3, <1>12, <1>13, <1>16, AttachedHeads
  <2>5. HeadsRight(B)
    BY <2>4 DEF HeadsRight
  <2>6. QED
    BY <2>1, <2>3, <2>5
<1>18. PICK E : Depths(B, E) /\ \A m \in 1 .. Count(MeanHeap) : E[m] = D[m]
  <2>1. D[cur.child] = -1 /\ "box_bdry" \in Inner
    BY <1>3, <1>4 DEF NULL, Inner, ContentTypes
  <2> HIDE DEF B
  <2>2. QED
    BY <2>1, <1>13, <1>15, <1>16, DepthsGrow
<1> HIDE DEF B
<1>19. /\ FramedHeap \in TypedHeaps /\ Count(FramedHeap) = Count(B) /\ Grown(B, FramedHeap)
       /\ Tree(FramedHeap) /\ HeadsRight(FramedHeap) /\ Depths(FramedHeap, E)
  <2>1. FramedFields \cap Links = {} /\ FramedFields \cap (Links \cup {"weight"}) = {}
    BY DEF Links, FramedFields
  <2>2. QED
    BY <2>1, <1>16, <1>17, <1>18, TouchGrown, TouchTree, TouchHeads, TouchDepths
<1>20. Touch(FramedHeap, GluedHeap, {cur.last_k, cur.last_g}, {"tag", "line"})
       /\ GluedHeap.list = FramedHeap.list
  <2>1. n \in 1 .. Count(FramedHeap) /\ cur.last_k \in 0 .. Count(FramedHeap)
        /\ cur.last_g \in 0 .. Count(FramedHeap)
    BY <1>2, <1>7, <1>17, <1>19
  <2>2. QED
    BY <2>1, <1>19, EndGlueOf DEF GluedHeap
<1>21. /\ GluedHeap \in TypedHeaps /\ Count(GluedHeap) = Count(B) /\ Grown(FramedHeap, GluedHeap)
       /\ Tree(GluedHeap) /\ HeadsRight(GluedHeap) /\ Depths(GluedHeap, E)
  <2>1. {"tag", "line"} \cap Links = {} /\ {"tag", "line"} \cap (Links \cup {"weight"}) = {}
    BY DEF Links
  <2>2. QED
    BY <2>1, <1>19, <1>20, TouchGrown, TouchTree, TouchHeads, TouchDepths
<1>22. cur.x \in Seq(Seq(1 .. Count(GluedHeap)))
  <2>1. 1 .. Count(heap) \subseteq 1 .. Count(GluedHeap)
    BY <1>2, <1>17, <1>21
  <2>2. Seq(1 .. Count(heap)) \subseteq Seq(1 .. Count(GluedHeap))
    BY <2>1, SeqMonotonic
  <2>3. QED
    BY <2>2, <1>2, SeqMonotonic
<1>23. Touch(GluedHeap, LeftHeap, 0 .. Count(GluedHeap), {"tag", "line", "friend"})
  <2>1. cur.parent \in 1 .. Count(GluedHeap)
    BY <1>2, <1>17, <1>21
  <2>2. QED
    BY <2>1, <1>2, <1>21, <1>22, LeftOf DEF LeftHeap
<1>24. /\ LeftHeap \in TypedHeaps /\ Count(LeftHeap) = Count(B) /\ Grown(GluedHeap, LeftHeap)
       /\ Tree(LeftHeap) /\ HeadsRight(LeftHeap) /\ Depths(LeftHeap, E)
  <2>1. /\ {"tag", "line", "friend"} \cap Links = {}
        /\ {"tag", "line", "friend"} \cap (Links \cup {"weight"}) = {}
    BY DEF Links
  <2>2. QED
    BY <2>1, <1>21, <1>23, TouchGrown, TouchTree, TouchHeads, TouchDepths
<1>25. Touch(LeftHeap, SeenHeap, {Outer}, {"visible"}) /\ SeenHeap.list = LeftHeap.list
  <2> DEFINE s == Visible(LeftHeap, Outer)
             o == Visible(LeftHeap, n)
  <2>1. Outer \in 1 .. Count(LeftHeap) /\ n \in 1 .. Count(LeftHeap)
    BY <1>2, <1>6, <1>17, <1>24
  <2>2. s \in Size /\ o \in Size
    BY <2>1, <1>24, VisibleOf
  <2>3. SeenHeap = Contain(LeftHeap, Outer, ContainBox(s, BoxOf(o)))
    BY DEF SeenHeap
  <2> HIDE DEF s, o
  <2>4. BoxOf(o).min \in Point /\ BoxOf(o).max \in Point
    BY <2>2 DEF Size, Point, BoxOf, Rectangle, Between
  <2>5. ContainBox(s, BoxOf(o)) \in Size
    BY <2>2, <2>4, KeepsSize DEF ContainBox
  <2>6. QED
    BY <2>1, <2>3, <2>5, <1>24, ContainOf
<1>26. /\ SeenHeap \in TypedHeaps /\ Count(SeenHeap) = Count(B) /\ Grown(LeftHeap, SeenHeap)
       /\ Tree(SeenHeap) /\ HeadsRight(SeenHeap) /\ Depths(SeenHeap, E)
  <2>1. {"visible"} \cap Links = {} /\ {"visible"} \cap (Links \cup {"weight"}) = {}
    BY DEF Links
  <2>2. QED
    BY <2>1, <1>24, <1>25, TouchGrown, TouchTree, TouchHeads, TouchDepths
<1>27. Grown(heap, SeenHeap)
  <2>1. Grown(LeftHeap, SeenHeap) /\ Grown(GluedHeap, LeftHeap) /\ Grown(FramedHeap, GluedHeap)
        /\ Grown(B, FramedHeap) /\ Grown(MeanHeap, B) /\ Grown(ChainedHeap, MeanHeap)
        /\ Grown(heap, ChainedHeap)
    BY <1>9, <1>13, <1>17, <1>19, <1>21, <1>24, <1>26
  <2>2. Grown(heap, MeanHeap)
    BY <2>1, <1>2, <1>9, <1>13, GrownTwice
  <2>3. Grown(heap, B)
    BY <2>1, <2>2, <1>2, <1>13, <1>17, GrownTwice
  <2>4. Grown(heap, FramedHeap)
    BY <2>1, <2>3, <1>2, <1>17, <1>19, GrownTwice
  <2>5. Grown(heap, GluedHeap)
    BY <2>1, <2>4, <1>2, <1>19, <1>21, GrownTwice
  <2>6. Grown(heap, LeftHeap)
    BY <2>1, <2>5, <1>2, <1>21, <1>24, GrownTwice
  <2>7. QED
    BY <2>1, <2>6, <1>2, <1>24, <1>26, GrownTwice
<1>28. Get(SeenHeap, n, "parent") = Outer
  <2>1. n \in 0 .. Count(MeanHeap) /\ n \in 0 .. Count(B)
    BY <1>2, <1>13, <1>17
  <2>2. Get(B, n, "parent") = Get(MeanHeap, n, "parent")
    <3>1. cur.child # NULL
      BY <1>4 DEF NULL
    <3>2. QED
      BY <2>1, <3>1, <1>16 DEF Attached
  <2>3. Get(FramedHeap, n, "parent") = Get(B, n, "parent")
    BY <2>1, <1>16 DEF Touch, FramedFields
  <2>4. Get(GluedHeap, n, "parent") = Get(FramedHeap, n, "parent")
    BY <2>1, <1>19, <1>20 DEF Touch
  <2>5. Get(LeftHeap, n, "parent") = Get(GluedHeap, n, "parent")
    BY <2>1, <1>21, <1>23 DEF Touch
  <2>6. Get(SeenHeap, n, "parent") = Get(LeftHeap, n, "parent")
    BY <2>1, <1>24, <1>25 DEF Touch
  <2>7. QED
    BY <2>2, <2>3, <2>4, <2>5, <2>6, <1>15
<1>29. 0 <= E[n] /\ E[n] < Len(cur.x)
  <2>1. E[n] = D[n] /\ D[n] \in Int
    BY <1>2, <1>3, <1>13, <1>18 DEF Depths
  <2>2. QED
    BY <2>1, <1>3
<1>30. \E K : /\ Touch(Closed(MeanHeap, cur.parent), K, {Fresh(MeanHeap)}, {"tag", "line"})
              /\ Touch(K, FramedHeap, {c}, {"h", "v"})
  BY <1>16 DEF B
<1>31. Count(LeftHeap) = Count(heap) + 1
  BY <1>17, <1>24
<1>32. \E F : Depths(SeenHeap, F) /\ 0 <= F[n] /\ F[n] < Len(cur.x)
  BY <1>26, <1>29
<1> DEFINE cc == c
           nn == n
<1>33. /\ Attached(MeanHeap, Closed(MeanHeap, nn), "box_bdry", Closing(MeanHeap, nn), cur.child, nn)
       /\ Touch(Closed(MeanHeap, nn), FramedHeap, 0 .. Count(Closed(MeanHeap, nn)), FramedFields)
  BY <1>16 DEF B
<1>34. Get(SeenHeap, n, "parent") = Get(heap, n, "parent")
  BY <1>28 DEF Outer
<1>35. QED
  BY <1>1, <1>2, <1>4, <1>5, <1>6, <1>8, <1>12, <1>13, <1>15, <1>16, <1>19, <1>20, <1>22, <1>23,
     <1>25, <1>26, <1>27, <1>30, <1>31, <1>32, <1>33, <1>34

LEMMA EndHboxRight ==
  ASSUME TreeInv, EndHbox
  PROVE  TreeInv'
<1>1. /\ InContent /\ Type(heap, cur.parent) \in Boxes
      /\ heap' = SeenHeap /\ cur' = LeftCur /\ scanner' = scanner
      /\ Tree(SeenHeap) /\ SeenHeap \in TypedHeaps /\ HeadsRight(SeenHeap) /\ Grown(heap, SeenHeap)
      /\ Get(SeenHeap, cur.parent, "parent") = Get(heap, cur.parent, "parent")
      /\ \E D : Depths(SeenHeap, D) /\ 0 <= D[cur.parent] /\ D[cur.parent] < Len(cur.x)
  BY EndHboxOf DEF Boxes
<1>2. QED
  BY <1>1, LeaveRight
------------------------------------------------------------------------------
(* A sheet, a form or an input more.                                       *)
Rooted(H, G, type) ==
  LET n == Fresh(H) IN
  /\ G \in TypedHeaps /\ Count(G) = Count(H) + 1 /\ G.list = H.list
  /\ \A m \in 0 .. Count(H) :
       /\ Type(G, m) = Type(H, m)
       /\ \A g : g # "type" => (Has(G, m, g) <=> Has(H, m, g))
       /\ \A g : g # "type" /\ (g # "sibling" \/ Type(H, m) # type) => Get(G, m, g) = Get(H, m, g)
  /\ Type(G, n) = type
  /\ \A f \in LinkFields \ {"sibling"} : Get(G, n, f) = NULL

LEMMA RootedOf ==
  ASSUME NEW H \in TypedHeaps, Tree(H), NEW type \in Roots, NEW data,
         \A f \in DOMAIN data : data[f] \in Int, DOMAIN data \cap (LinkFields \cup {"target"}) = {},
         NEW first, Is(H, first, {type})
  PROVE  LET G == Appended(New(H, type, data), first, Fresh(H)) IN Rooted(H, G, type) /\ Tree(G)
<1> DEFINE n == Fresh(H)
           A == New(H, type, data)
           all == Siblings(A, first)
           l == LastOf(all)
           G == Appended(A, first, n)
<1>1. type \in ContentTypes /\ Plain(data)
  BY DEF Roots, ContentTypes, Plain
<1>2. Made1(H, A, type, data) /\ A \in TypedHeaps /\ \A f \in LinkFields : Get(A, n, f) = NULL
  BY <1>1, NewPlain
<1> HIDE DEF A
<1>3. Tree(A)
  BY <1>1, <1>2, TreeNew
<1>4. /\ Count(H) \in Nat /\ n = Count(H) + 1 /\ Count(A) = n /\ n # NULL /\ n \in 1 .. Count(A)
      /\ A.list = H.list /\ Type(A, n) = type
      /\ \A m \in 0 .. Count(H) : Type(A, m) = Type(H, m) /\ m \in 0 .. Count(A)
      /\ \A m \in 0 .. Count(H) : \A g : g # "type" =>
           (Has(A, m, g) <=> Has(H, m, g)) /\ Get(A, m, g) = Get(H, m, g)
  <2>1. H \in Heaps /\ Count(H) \in Nat /\ n = Count(H) + 1
    BY TypedOf, NodesOf
  <2>2. /\ Count(A) = Count(H) + 1 /\ A.list = H.list /\ Type(A, n) = type
        /\ \A m \in 0 .. Count(H) :
             /\ Type(A, m) = Type(H, m)
             /\ \A g : g # "type" => (Has(A, m, g) <=> Has(H, m, g)) /\ Get(A, m, g) = Get(H, m, g)
    BY <1>2 DEF Made1
  <2>3. \A m \in 0 .. Count(H) : m \in 0 .. Count(A)
    BY <2>1, <2>2
  <2> HIDE DEF n
  <2>4. n # NULL /\ n \in 1 .. Count(A)
    BY <2>1, <2>2 DEF NULL
  <2>5. QED
    BY <2>1, <2>2, <2>3, <2>4
<1>5. CASE first = NULL
  <2>1. G = A
    BY <1>5 DEF Appended
  <2>2. Rooted(H, A, type)
    <3>1. \A f \in LinkFields \ {"sibling"} : Get(A, n, f) = NULL
      BY <1>2
    <3>2. QED
      BY <3>1, <1>2, <1>4 DEF Rooted
  <2>3. QED
    BY <2>1, <2>2, <1>3 DEF A
<1>6. CASE first # NULL
  <2> DEFINE S == {m \in 1 .. Count(H) : Type(A, m) = type}
  <2>1. first \in S /\ first \in 0 .. Count(A)
    BY <1>4, <1>6 DEF Is
  <2>2. ASSUME NEW m \in S, Get(A, m, "sibling") # NULL
        PROVE  Get(A, m, "sibling") \in S /\ Get(A, m, "sibling") > m
    <3>1. m \in 1 .. Count(A) /\ m \in 1 .. Count(H) /\ m \in 0 .. Count(H)
      BY <1>4
    <3>2. SiblingRight(A, m)
      BY <3>1, <1>3 DEF Tree
    <3>3. Get(A, m, "sibling") \in 0 .. Count(H)
      BY <3>1, <1>4, TypedOf DEF LinkFields
    <3>4. QED
      BY <3>2, <3>3, <2>2 DEF SiblingRight, Roots, NULL
  <2>3. /\ A \in Heaps /\ Follow(A, "sibling")
    BY <1>2, TypedOf DEF LinkFields
  <2>4. /\ l \in S /\ Get(A, l, "sibling") = NULL
    <3>1. \A m \in S : m \in 1 .. Count(A) /\ Get(A, m, "sibling") # NULL =>
                         Get(A, m, "sibling") \in S /\ Get(A, m, "sibling") > m
      BY <2>2
    <3> HIDE DEF S
    <3>2. /\ ToSet(Chain(A, first, "sibling")) \subseteq S \cap 1 .. Count(A)
          /\ LastOf(Chain(A, first, "sibling")) \in ToSet(Chain(A, first, "sibling"))
          /\ Get(A, LastOf(Chain(A, first, "sibling")), "sibling") = NULL
      BY <3>1, <2>1, <2>3, <1>6, ChainUp
    <3>3. QED
      BY <3>2 DEF Siblings
  <2>5. G = Set(A, l, "sibling", n)
    BY <1>6 DEF Appended
  <2>6. l \in 1 .. Count(H) /\ Type(A, l) = type /\ l # NULL /\ l \in 0 .. Count(A) /\ l # n
    BY <2>4, <1>4 DEF NULL
  <2> HIDE DEF l, G, S
  <2>7. Wrote(A, G, {l}, "sibling", n) /\ G \in TypedHeaps
    BY <2>5, <2>6, <1>2, <1>4, SetTyped DEF Fit, LinkFields
  <2>8. /\ Count(G) = Count(A) /\ G.list = A.list
        /\ \A m \in 0 .. Count(A) :
             /\ Type(G, m) = Type(A, m)
             /\ \A g : g # "type" => (Has(G, m, g) <=> Has(A, m, g))
             /\ \A g : g # "type" /\ (g # "sibling" \/ m # l) => Get(G, m, g) = Get(A, m, g)
    BY <2>7 DEF Wrote
  <2>9. Get(G, l, "sibling") = n
    <3>1. Has(A, l, "sibling")
      <4>1. A \in Heaps /\ l \in 1 .. Count(A)
        BY <2>3, <2>6, <1>4
      <4>2. "sibling" \in Fields[Type(A, l)]
        BY <2>6, <1>1, FieldsOf
      <4>3. QED
        BY <4>1, <4>2, NodesOf
    <3>2. QED
      BY <3>1, <2>6, <2>7 DEF Wrote
  <2>10. Rooted(H, G, type)
    <3>1. \A f \in LinkFields \ {"sibling"} : Get(G, n, f) = NULL
      <4>1. \A f \in LinkFields : f # "type"
        BY DEF LinkFields
      <4>2. n \in 0 .. Count(A)
        BY <1>4
      <4>3. QED
        BY <4>1, <4>2, <2>8, <1>2
    <3>2. Type(G, n) = type
      BY <2>8, <1>4
    <3>3. ASSUME NEW m \in 0 .. Count(H)
          PROVE  /\ Type(G, m) = Type(H, m)
                 /\ \A g : g # "type" => (Has(G, m, g) <=> Has(H, m, g))
                 /\ \A g : g # "type" /\ (g # "sibling" \/ Type(H, m) # type) =>
                      Get(G, m, g) = Get(H, m, g)
      <4>1. m \in 0 .. Count(A) /\ Type(A, m) = Type(H, m)
        BY <1>4
      <4>2. Type(H, m) # type => m # l
        BY <4>1, <2>6
      <4>3. QED
        BY <4>1, <4>2, <2>8, <1>4
    <3>4. G \in TypedHeaps /\ Count(G) = Count(H) + 1 /\ G.list = H.list
      BY <2>7, <2>8, <1>4
    <3>5. QED
      BY <3>1, <3>2, <3>3, <3>4 DEF Rooted
  <2>11. ASSUME NEW m \in 1 .. Count(G)
         PROVE  ParentRight(G, m) /\ SiblingRight(G, m) /\ ChildRight(G, m) /\ LastRight(G, m)
    <3>1. /\ m \in 1 .. Count(A) /\ m \in 0 .. Count(A)
          /\ Get(A, m, "parent") \in 0 .. Count(A) /\ Get(A, m, "child") \in 0 .. Count(A)
          /\ Get(A, m, "last") \in 0 .. Count(A) /\ Get(A, m, "sibling") \in 0 .. Count(A)
      BY <2>8, <1>2, TypedOf DEF LinkFields
    <3>2. ParentRight(A, m) /\ SiblingRight(A, m) /\ ChildRight(A, m) /\ LastRight(A, m)
      BY <3>1, <1>3 DEF Tree
    <3>3. Get(A, l, "parent") = NULL /\ Type(A, l) \in Roots
      <4>1. l \in 1 .. Count(A) /\ A \in Heaps
        BY <2>3, <2>6, <1>4
      <4>2. "parent" \notin Fields[Type(A, l)]
        BY <2>6, <1>1, FieldsOf DEF Roots
      <4>3. QED
        BY <4>1, <4>2, <2>6, NodesOf DEF NULL
    <3>4. ParentRight(G, m)
      <4>1. \A k \in 1 .. Count(A) :
              k \in 0 .. Count(A) /\ (Get(A, k, "sibling") = m => k # l) /\ k \in 1 .. Count(G)
        BY <3>1, <2>4, <2>8 DEF NULL
      <4>2. QED
        BY <4>1, <3>1, <3>2, <2>8 DEF ParentRight
    <3>5. SiblingRight(G, m)
      <4>1. CASE m = l
        <5>1. n > l
          BY <2>6, <1>4
        <5>2. ~ Has(G, n, "arg_sibling")
          <6>1. A \in Heaps /\ "arg_sibling" \notin Fields[type]
            BY <2>3, <1>1, FieldsOf DEF Roots
          <6>2. ~ Has(A, n, "arg_sibling")
            BY <6>1, <1>4, NodesOf
          <6>3. n \in 0 .. Count(A)
            BY <1>4
          <6>4. QED
            BY <6>2, <6>3, <2>8
        <5>3. Type(G, n) = type /\ Type(G, l) = type
          BY <2>6, <2>8, <1>4
        <5>4. type \notin Inner /\ type # "input"
          BY DEF Inner, Roots
        <5>5. QED
          BY <4>1, <5>1, <5>2, <5>3, <5>4, <2>9 DEF SiblingRight
      <4>2. CASE m # l
        <5>1. Get(G, m, "sibling") = Get(A, m, "sibling") /\ Type(G, m) = Type(A, m)
              /\ Get(G, m, "parent") = Get(A, m, "parent")
          BY <4>2, <3>1, <2>8
        <5>2. \A k \in 0 .. Count(A) :
                /\ Type(G, k) = Type(A, k) /\ Get(G, k, "parent") = Get(A, k, "parent")
                /\ Has(G, k, "arg_sibling") <=> Has(A, k, "arg_sibling")
                /\ Get(G, k, "arg_sibling") = Get(A, k, "arg_sibling")
          BY <2>8
        <5>3. QED
          BY <5>1, <5>2, <3>1, <3>2 DEF SiblingRight
      <4>3. QED
        BY <4>1, <4>2
    <3>6. ChildRight(G, m)
      BY <3>1, <3>2, <2>8 DEF ChildRight
    <3>7. LastRight(G, m)
      <4>1. \A k \in 0 .. Count(A) : Get(A, k, "parent") = m => k # l
        BY <3>1, <3>3 DEF NULL
      <4>2. QED
        BY <4>1, <3>1, <3>2, <2>8 DEF LastRight
    <3>8. QED
      BY <3>4, <3>5, <3>6, <3>7
  <2>12. Tree(G)
    BY <2>11 DEF Tree
  <2>13. QED
    BY <2>10, <2>12 DEF G, A
<1>7. QED
  BY <1>5, <1>6

LEMMA InputRooted ==
  ASSUME NEW H \in TypedHeaps, Tree(H), NEW tag \in Int, NEW s, Is(H, s, {"input"}),
         NEW G, G = New(H, "input", [tag |-> tag, sibling |-> s])
  PROVE  Rooted(H, G, "input") /\ Tree(G)
<1> DEFINE n == Fresh(H)
           data == [tag |-> tag, sibling |-> s]
<1>1. Count(H) \in Nat /\ s \in 0 .. Count(H) /\ H \in Heaps /\ n = Count(H) + 1 /\ n # NULL
  BY TypedOf, NodesOf DEF Is, NULL
<1>2. /\ DOMAIN data = {"tag", "sibling"} /\ data["tag"] = tag /\ data["sibling"] = s
  OBVIOUS
<1> HIDE DEF data
<1>3. G = New(H, "input", data)
  BY DEF data
<1>4. Made1(H, G, "input", data) /\ G \in TypedHeaps
  <2>1. /\ \A f \in DOMAIN data : data[f] \in Int
        /\ \A f \in DOMAIN data \cap LinkFields : data[f] \in 0 .. Count(H)
        /\ "target" \notin DOMAIN data /\ "input" \in ContentTypes
    BY <1>1, <1>2 DEF LinkFields, ContentTypes
  <2>2. QED
    BY <2>1, <1>3, NewTyped
<1>5. \A f \in LinkFields \ {"sibling"} : Get(G, n, f) = NULL
  <2>1. \A f \in LinkFields \ {"sibling"} : f \notin {"type", "visible"} /\ Given(data, f) = 0
    BY <1>2 DEF LinkFields, Given
  <2>2. QED
    BY <2>1, <1>4 DEF Made1, NULL
<1>6. Get(G, n, "sibling") = s /\ Type(G, n) = "input"
  <2>1. "sibling" \in Fields["input"] /\ Given(data, "sibling") = s
    BY <1>2, FieldsOf DEF ContentTypes, Given
  <2>2. QED
    BY <2>1, <1>4 DEF Made1
<1>7. SiblingRight(G, n)
  <2>1. CASE s = NULL
    BY <2>1, <1>6 DEF SiblingRight
  <2>2. CASE s # NULL
    <3>1. Type(H, s) = "input" /\ s < n /\ s \in 1 .. Count(H)
      BY <2>2, <1>1 DEF Is
    <3>2. Type(G, s) = "input" /\ (Has(G, s, "arg_sibling") <=> Has(H, s, "arg_sibling"))
      BY <3>1, <1>1, <1>4 DEF Made1
    <3>3. ~ Has(H, s, "arg_sibling")
      <4>1. "arg_sibling" \notin Fields["input"]
        BY FieldsOf DEF ContentTypes
      <4>2. QED
        BY <4>1, <3>1, <1>1, NodesOf
    <3>4. QED
      BY <3>1, <3>2, <3>3, <1>6 DEF SiblingRight, Roots, Inner
  <2>3. QED
    BY <2>1, <2>2
<1>8. Tree(G)
  BY <1>4, <1>5, <1>7, TreeMore DEF ContentTypes
<1>9. Rooted(H, G, "input")
  BY <1>4, <1>5, <1>6 DEF Rooted, Made1
<1>10. QED
  BY <1>8, <1>9

LEMMA RootedKeeps ==
  ASSUME NEW H \in TypedHeaps, HeadsRight(H), NEW D, Depths(H, D),
         NEW type \in Roots \cup {"input"}, NEW G, Rooted(H, G, type)
  PROVE  /\ Grown(H, G) /\ HeadsRight(G) /\ Count(H) \in Nat
         /\ Fresh(H) = Count(H) + 1 /\ Fresh(H) \in 1 .. Count(G) /\ Fresh(H) # NULL
         /\ \E E : Depths(G, E) /\ E[Fresh(H)] = IF type \in Roots THEN 0 ELSE -1
<1> DEFINE n == Fresh(H)
           E == [m \in 1 .. Count(G) |->
                   IF m = n THEN (IF type \in Roots THEN 0 ELSE -1) ELSE D[m]]
<1>1. /\ Count(H) \in Nat /\ n = Count(H) + 1 /\ Count(G) = n /\ n # NULL /\ n \in 1 .. Count(G)
  <2>1. H \in Heaps /\ Count(H) \in Nat /\ n = Count(H) + 1 /\ Count(G) = Count(H) + 1
    BY TypedOf, NodesOf DEF Rooted
  <2>2. QED
    BY <2>1 DEF NULL
<1>2. \A m \in 0 .. Count(H) :
        /\ Type(G, m) = Type(H, m)
        /\ \A g : g # "type" /\ (g # "sibling" \/ Type(H, m) # type) => Get(G, m, g) = Get(H, m, g)
  BY DEF Rooted
<1>3. Grown(H, G)
  BY <1>1, <1>2 DEF Grown
<1>4. \A m \in 1 .. Count(G) : m # n => m \in 1 .. Count(H) /\ m \in 0 .. Count(H)
  BY <1>1
<1>5. \A m \in 0 .. Count(H), f \in LinkFields : Get(H, m, f) \in 0 .. Count(H)
  BY TypedOf
<1>6. Type(G, n) = type /\ type \notin Inner
  BY DEF Rooted, Inner, Roots
<1>7. HeadsRight(G)
  <2>1. ASSUME NEW m \in 1 .. Count(G), Type(G, m) = "hbox"
        PROVE  /\ Get(G, m, "child") # NULL /\ Type(G, Get(G, m, "child")) = "box_bdry"
               /\ Get(G, m, "weight") >= 0
    <3>1. m # n
      BY <2>1, <1>6 DEF Roots
    <3>2. m \in 1 .. Count(H) /\ m \in 0 .. Count(H) /\ Get(H, m, "child") \in 0 .. Count(H)
      BY <3>1, <1>4, <1>5 DEF LinkFields
    <3>3. Get(G, m, "child") = Get(H, m, "child") /\ Get(G, m, "weight") = Get(H, m, "weight")
          /\ Type(H, m) = "hbox" /\ Type(G, Get(H, m, "child")) = Type(H, Get(H, m, "child"))
      BY <2>1, <3>2, <1>2
    <3>4. QED
      BY <3>2, <3>3 DEF HeadsRight
  <2>2. QED
    BY <2>1 DEF HeadsRight
<1>8. /\ E \in [1 .. Count(G) -> Int] /\ E[n] = (IF type \in Roots THEN 0 ELSE -1)
      /\ \A m \in 1 .. Count(H) : E[m] = D[m]
  <2>1. D \in [1 .. Count(H) -> Int]
    BY DEF Depths
  <2>2. \A m \in 1 .. Count(H) : m # n /\ m \in 1 .. Count(G)
    BY <1>1
  <2>3. QED
    BY <2>1, <2>2, <1>1, <1>4
<1> HIDE DEF E
<1>9. ASSUME NEW m \in 1 .. Count(G)
      PROVE  /\ Type(G, m) \in Roots => E[m] = 0
             /\ Type(G, m) \notin Roots /\ E[m] # -1 =>
                  /\ Type(G, m) \in Boxes /\ E[m] >= 1
                  /\ Get(G, m, "sibling") = NULL /\ Get(G, m, "parent") # NULL
                  /\ 0 <= E[Get(G, m, "parent")] /\ E[Get(G, m, "parent")] < E[m]
  <2>1. CASE m = n
    BY <2>1, <1>6, <1>8
  <2>2. CASE m # n
    <3> DEFINE l == Get(H, m, "parent")
    <3>1. m \in 1 .. Count(H) /\ m \in 0 .. Count(H) /\ E[m] = D[m]
      BY <2>2, <1>4, <1>8
    <3>2. Type(G, m) = Type(H, m) /\ Get(G, m, "parent") = l
      BY <3>1, <1>2
    <3>3. ASSUME Type(H, m) \notin Roots, D[m] # -1
          PROVE  /\ Type(H, m) \in Boxes /\ D[m] >= 1
                 /\ Get(H, m, "sibling") = NULL /\ l # NULL
                 /\ 0 <= D[l] /\ D[l] < D[m] /\ E[l] = D[l]
                 /\ Get(G, m, "sibling") = Get(H, m, "sibling")
      <4>1. /\ Type(H, m) \in Boxes /\ D[m] >= 1
            /\ Get(H, m, "sibling") = NULL /\ l # NULL
            /\ 0 <= D[l] /\ D[l] < D[m]
        BY <3>1, <3>3 DEF Depths
      <4>2. l \in 1 .. Count(H)
        BY <4>1, <3>1, <1>1, <1>5 DEF LinkFields, NULL
      <4>3. Type(H, m) # type
        BY <4>1 DEF Boxes, Roots
      <4>4. Get(G, m, "sibling") = Get(H, m, "sibling")
        BY <4>3, <3>1, <1>2
      <4>5. QED
        BY <4>1, <4>2, <4>4, <1>8
    <3>4. Type(H, m) \in Roots => D[m] = 0
      BY <3>1 DEF Depths
    <3> HIDE DEF l
    <3>5. QED
      BY <3>1, <3>2, <3>3, <3>4
  <2>3. QED
    BY <2>1, <2>2
<1>10. Depths(G, E)
  BY <1>8, <1>9 DEF Depths
<1>11. QED
  BY <1>1, <1>3, <1>7, <1>8, <1>10

LEMMA SheetRooted ==
  ASSUME TreeInv, NEW r \in Records, r.kind = "sheet"
  PROVE  Rooted(heap, NewSheet(r), "sheet") /\ Tree(NewSheet(r))
<1> DEFINE data == [page |-> r.page]
<1>1. /\ heap \in TypedHeaps /\ Tree(heap) /\ HandlesRight(heap, cur, scanner)
      /\ Is(heap, scanner.sheet, {"sheet"})
  BY DEF TreeInv, HandlesRight
<1>2. r.page \in Int
  BY RecordsAssumption
<1>3. DOMAIN data = {"page"} /\ \A f \in DOMAIN data : data[f] \in Int
  BY <1>2
<1>4. DOMAIN data \cap (LinkFields \cup {"target"}) = {} /\ "sheet" \in Roots
  BY <1>3 DEF LinkFields, Roots
<1>5. NewSheet(r) = Appended(New(heap, "sheet", data), scanner.sheet, Fresh(heap))
  BY DEF NewSheet
<1> HIDE DEF data
<1>6. QED
  BY <1>1, <1>3, <1>4, <1>5, RootedOf

LEMMA BeginSheetRight ==
  ASSUME TreeInv, BeginSheet
  PROVE  TreeInv'
<1> DEFINE n == Fresh(heap)
<1>1. PICK r \in Records :
        /\ r.kind = "sheet" /\ InMain
        /\ heap' = NewSheet(r)
        /\ scanner' = [scanner EXCEPT !.sheet = IF @ = NULL THEN n ELSE @]
        /\ cur' = [cur EXCEPT !.mode = "content", !.sheet = n, !.form = NULL,
                              !.parent = n, !.child = NULL, !.last_k = NULL, !.last_g = NULL]
  BY DEF BeginSheet, Reading
<1> DEFINE G == NewSheet(r)
<1>2. /\ heap \in TypedHeaps /\ Tree(heap) /\ HeadsRight(heap) /\ HandlesRight(heap, cur, scanner)
      /\ Is(heap, scanner.sheet, {"sheet"})
  BY DEF TreeInv, HandlesRight
<1>3. PICK D : Depths(heap, D)
  BY DEF TreeInv, BoxesRight
<1>4. Rooted(heap, G, "sheet") /\ Tree(G)
  BY <1>1, SheetRooted
<1> HIDE DEF G
<1>5. /\ Grown(heap, G) /\ HeadsRight(G) /\ n \in 1 .. Count(G) /\ n # NULL /\ G \in TypedHeaps
      /\ Type(G, n) = "sheet" /\ \E E : Depths(G, E) /\ E[n] = 0
  BY <1>2, <1>3, <1>4, RootedKeeps DEF Rooted, Roots
<1>6. HandlesRight(G, cur, scanner)
  BY <1>2, <1>5, HandlesGrow
<1>7. cur \in Cursors(Count(G)) /\ scanner \in Scanners(Count(G)) /\ Len(cur.x) \in Nat /\ Len(cur.x) >= 1
      /\ Count(G) \in Nat
  BY <1>5, <1>6, TypedOf DEF HandlesRight, Cursors
<1>8. /\ cur'.mode = "content" /\ cur'.parent = n /\ cur'.child = NULL /\ cur'.form = NULL
      /\ cur'.sheet = n /\ cur'.x = cur.x /\ cur'.input = cur.input
      /\ cur'.last_k = NULL /\ cur'.last_g = NULL
  BY <1>1, <1>7 DEF Cursors
<1>9. HandlesRight(G, cur', scanner')
  <2>1. n \in 0 .. Count(G) /\ NULL \in 0 .. Count(G) /\ Is(G, n, {"sheet"})
    BY <1>5, <1>7 DEF NULL, Is
  <2>2. cur' \in Cursors(Count(G)) /\ scanner' \in Scanners(Count(G))
    BY <2>1, <1>1, <1>7 DEF Cursors, Scanners
  <2>3. /\ scanner'.sheet \in {n, scanner.sheet} /\ scanner'.form = scanner.form
        /\ scanner'.input = scanner.input
        /\ scanner'.ref_in_form = scanner.ref_in_form /\ scanner'.ref_in_sheet = scanner.ref_in_sheet
    BY <1>1, <1>7 DEF Scanners
  <2>4. QED
    BY <2>1, <2>2, <2>3, <1>6, <1>7, <1>8 DEF HandlesRight, Is
<1>10. PlaceRight(G, cur')
  BY <1>5, <1>8 DEF PlaceRight, Roots
<1>11. BoxesRight(G, cur')
  <2>1. PICK E : Depths(G, E) /\ E[n] = 0
    BY <1>5
  <2>2. 0 <= E[n] /\ E[n] < Len(cur.x)
    BY <2>1, <1>7
  <2>3. QED
    BY <2>1, <2>2, <1>8 DEF BoxesRight, Open
<1>12. heap' = G
  BY <1>1 DEF G
<1>13. QED
  BY <1>4, <1>5, <1>9, <1>10, <1>11, <1>12 DEF TreeInv

LEMMA FormRooted ==
  ASSUME TreeInv, NEW r \in Records, r.kind = "form"
  PROVE  Rooted(heap, NewForm(r), "form") /\ Tree(NewForm(r))
<1> DEFINE data == [tag |-> r.tag]
<1>1. /\ heap \in TypedHeaps /\ Tree(heap) /\ HandlesRight(heap, cur, scanner)
      /\ Is(heap, scanner.form, {"form"})
  BY DEF TreeInv, HandlesRight
<1>2. r.tag \in Int
  BY RecordsAssumption
<1>3. DOMAIN data = {"tag"} /\ \A f \in DOMAIN data : data[f] \in Int
  BY <1>2
<1>4. DOMAIN data \cap (LinkFields \cup {"target"}) = {} /\ "form" \in Roots
  BY <1>3 DEF LinkFields, Roots
<1>5. NewForm(r) = Appended(New(heap, "form", data), scanner.form, Fresh(heap))
  BY DEF NewForm
<1> HIDE DEF data
<1>6. QED
  BY <1>1, <1>3, <1>4, <1>5, RootedOf

LEMMA BeginFormRight ==
  ASSUME TreeInv, BeginForm
  PROVE  TreeInv'
<1> DEFINE n == Fresh(heap)
<1>1. PICK r \in Records :
        /\ r.kind = "form"
        /\ heap' = NewForm(r)
        /\ scanner' = [scanner EXCEPT !.form = IF @ = NULL THEN n ELSE @]
        /\ cur' = [cur EXCEPT !.mode = "content", !.form = n, !.parent = n,
                              !.child = NULL, !.last_k = NULL, !.last_g = NULL,
                              !.form_depth = @ + 1]
  BY DEF BeginForm, Reading
<1> DEFINE G == NewForm(r)
<1>2. /\ heap \in TypedHeaps /\ Tree(heap) /\ HeadsRight(heap) /\ HandlesRight(heap, cur, scanner)
      /\ Is(heap, scanner.form, {"form"})
  BY DEF TreeInv, HandlesRight
<1>3. PICK D : Depths(heap, D)
  BY DEF TreeInv, BoxesRight
<1>4. Rooted(heap, G, "form") /\ Tree(G)
  BY <1>1, FormRooted
<1> HIDE DEF G
<1>5. /\ Grown(heap, G) /\ HeadsRight(G) /\ n \in 1 .. Count(G) /\ n # NULL /\ G \in TypedHeaps
      /\ Type(G, n) = "form" /\ \E E : Depths(G, E) /\ E[n] = 0
  BY <1>2, <1>3, <1>4, RootedKeeps DEF Rooted, Roots
<1>6. HandlesRight(G, cur, scanner)
  BY <1>2, <1>5, HandlesGrow
<1>7. cur \in Cursors(Count(G)) /\ scanner \in Scanners(Count(G)) /\ Len(cur.x) \in Nat /\ Len(cur.x) >= 1
      /\ Count(G) \in Nat
  BY <1>5, <1>6, TypedOf DEF HandlesRight, Cursors
<1>8. /\ cur'.mode = "content" /\ cur'.parent = n /\ cur'.child = NULL /\ cur'.form = n
      /\ cur'.sheet = cur.sheet /\ cur'.x = cur.x /\ cur'.input = cur.input
      /\ cur'.last_k = NULL /\ cur'.last_g = NULL
  BY <1>1, <1>7 DEF Cursors
<1>9. HandlesRight(G, cur', scanner')
  <2>1. n \in 0 .. Count(G) /\ NULL \in 0 .. Count(G) /\ Is(G, n, {"form"})
    BY <1>5, <1>7 DEF NULL, Is
  <2>2. cur' \in Cursors(Count(G)) /\ scanner' \in Scanners(Count(G))
    <3> DEFINE k == Count(G)
    <3>1. /\ scanner' = [scanner EXCEPT !.form = IF @ = NULL THEN n ELSE @]
          /\ cur' = [cur EXCEPT !.mode = "content", !.form = n, !.parent = n, !.child = NULL,
                                !.last_k = NULL, !.last_g = NULL, !.form_depth = @ + 1]
      BY <1>1
    <3>2. n \in 0 .. k /\ NULL \in 0 .. k /\ cur \in Cursors(k) /\ scanner \in Scanners(k)
      BY <2>1, <1>7
    <3> DEFINE d == cur.form_depth + 1
    <3>a. d \in Nat
      BY <3>2 DEF Cursors
    <3>b. cur' = [cur EXCEPT !.mode = "content", !.form = n, !.parent = n, !.child = NULL,
                             !.last_k = NULL, !.last_g = NULL, !.form_depth = d]
      BY <3>1
    <3> HIDE DEF k, n, d
    <3>3. cur' \in Cursors(k)
      BY <3>a, <3>b, <3>2 DEF Cursors
    <3>4. scanner' \in Scanners(k)
      BY <3>1, <3>2 DEF Scanners
    <3>5. QED
      BY <3>3, <3>4 DEF k
  <2>3. /\ scanner'.form \in {n, scanner.form} /\ scanner'.sheet = scanner.sheet
        /\ scanner'.input = scanner.input
        /\ scanner'.ref_in_form = scanner.ref_in_form /\ scanner'.ref_in_sheet = scanner.ref_in_sheet
    BY <1>1, <1>7 DEF Scanners
  <2>4. QED
    BY <2>1, <2>2, <2>3, <1>6, <1>7, <1>8 DEF HandlesRight, Is
<1>10. PlaceRight(G, cur')
  BY <1>5, <1>8 DEF PlaceRight, Roots
<1>11. BoxesRight(G, cur')
  <2>1. PICK E : Depths(G, E) /\ E[n] = 0
    BY <1>5
  <2>2. 0 <= E[n] /\ E[n] < Len(cur.x)
    BY <2>1, <1>7
  <2>3. QED
    BY <2>1, <2>2, <1>8 DEF BoxesRight, Open
<1>12. heap' = G
  BY <1>1 DEF G
<1>13. QED
  BY <1>4, <1>5, <1>9, <1>10, <1>11, <1>12 DEF TreeInv

LEMMA MoreInputRight ==
  ASSUME TreeInv, MoreInput
  PROVE  TreeInv'
<1> DEFINE n == Fresh(heap)
<1>1. PICK r \in Records :
        /\ r.kind = "input" /\ InMain
        /\ heap' = New(heap, "input", [tag |-> r.tag, sibling |-> scanner.input])
        /\ scanner' = [scanner EXCEPT !.input = n]
        /\ cur' = [cur EXCEPT !.input = NULL]
  BY DEF MoreInput, Reading
<1>2. /\ heap \in TypedHeaps /\ Tree(heap) /\ HeadsRight(heap) /\ HandlesRight(heap, cur, scanner)
      /\ Is(heap, scanner.input, {"input"}) /\ r.tag \in Int
  BY <1>1, RecordsAssumption DEF TreeInv, HandlesRight
<1>3. PICK D : Depths(heap, D)
  BY DEF TreeInv, BoxesRight
<1> DEFINE G == heap'
<1>4. Rooted(heap, G, "input") /\ Tree(G)
  BY <1>1, <1>2, InputRooted
<1>5. /\ Grown(heap, G) /\ HeadsRight(G) /\ n \in 1 .. Count(G) /\ n # NULL /\ G \in TypedHeaps
      /\ Type(G, n) = "input" /\ \E E : Depths(G, E)
  <2> HIDE DEF G
  <2>1. QED
    BY <1>2, <1>3, <1>4, RootedKeeps DEF Rooted
<1>6. HandlesRight(G, cur, scanner)
  BY <1>2, <1>5, HandlesGrow
<1>7. cur \in Cursors(Count(G)) /\ scanner \in Scanners(Count(G)) /\ Count(G) \in Nat
  BY <1>5, <1>6, TypedOf DEF HandlesRight
<1>8. cur.mode = "main"
  BY <1>1 DEF InMain
<1>9. /\ cur'.mode = "main" /\ cur'.form = cur.form /\ cur'.sheet = cur.sheet /\ cur'.x = cur.x
      /\ cur'.input = NULL /\ cur'.last_k = cur.last_k /\ cur'.last_g = cur.last_g
  BY <1>1, <1>7, <1>8 DEF Cursors
<1>10. HandlesRight(G, cur', scanner')
  <2>1. n \in 0 .. Count(G) /\ NULL \in 0 .. Count(G) /\ Is(G, n, {"input"})
    BY <1>5, <1>7 DEF NULL, Is
  <2>2. cur' \in Cursors(Count(G)) /\ scanner' \in Scanners(Count(G))
    <3>1. cur' = [cur EXCEPT !.input = NULL] /\ scanner' = [scanner EXCEPT !.input = n]
      BY <1>1
    <3> DEFINE k == Count(G)
    <3>2. n \in 0 .. k /\ NULL \in 0 .. k /\ cur \in Cursors(k) /\ scanner \in Scanners(k)
      BY <2>1, <1>7
    <3> HIDE DEF k, n
    <3>3. cur' \in Cursors(k)
      BY <3>1, <3>2 DEF Cursors
    <3>4. scanner' \in Scanners(k)
      BY <3>1, <3>2 DEF Scanners
    <3>5. QED
      BY <3>3, <3>4 DEF k
  <2>3. /\ scanner'.form = scanner.form /\ scanner'.sheet = scanner.sheet
        /\ scanner'.input = n
        /\ scanner'.ref_in_form = scanner.ref_in_form /\ scanner'.ref_in_sheet = scanner.ref_in_sheet
    BY <1>1, <1>7 DEF Scanners
  <2> HIDE DEF G
  <2>4. QED
    BY <2>1, <2>2, <2>3, <1>6, <1>9 DEF HandlesRight, Is
<1>11. PlaceRight(G, cur') /\ BoxesRight(G, cur')
  BY <1>5, <1>9 DEF PlaceRight, BoxesRight, Open
<1>12. QED
  BY <1>4, <1>5, <1>10, <1>11 DEF TreeInv
------------------------------------------------------------------------------
(* What leaves the heap alone.                                             *)
LEMMA EndSheetRight ==
  ASSUME TreeInv, EndSheet
  PROVE  TreeInv'
<1>1. /\ heap' = heap /\ scanner' = scanner
      /\ cur' = [cur EXCEPT !.mode = "main", !.parent = NULL, !.sheet = NULL,
                            !.child = NULL, !.form = NULL]
      /\ HandlesRight(heap, cur, scanner) /\ heap \in TypedHeaps /\ Count(heap) \in Nat
  BY TypedOf DEF EndSheet, TreeInv
<1>2. cur \in Cursors(Count(heap)) /\ NULL \in 0 .. Count(heap)
  BY <1>1 DEF HandlesRight, NULL
<1>3. /\ cur'.mode = "main" /\ cur'.form = NULL /\ cur'.sheet = NULL /\ cur'.x = cur.x
      /\ cur'.input = cur.input /\ cur'.last_k = cur.last_k /\ cur'.last_g = cur.last_g
  BY <1>1, <1>2 DEF Cursors
<1>4. cur' \in Cursors(Count(heap))
  BY <1>1, <1>2 DEF Cursors
<1>5. HandlesRight(heap, cur', scanner')
  BY <1>1, <1>3, <1>4 DEF HandlesRight, Is
<1>6. PlaceRight(heap, cur') /\ BoxesRight(heap, cur')
  BY <1>3 DEF TreeInv, PlaceRight, BoxesRight, Open
<1>7. QED
  BY <1>1, <1>5, <1>6, SameTree

LEMMA EndFormRight ==
  ASSUME TreeInv, EndForm
  PROVE  TreeInv'
<1>1. /\ heap' = heap /\ scanner' = scanner /\ InContent /\ cur.form # NULL /\ cur.parent = cur.form
      /\ cur.form_depth > 0
      /\ cur' = IF cur.sheet # NULL
                THEN [cur EXCEPT !.form = NULL, !.parent = cur.sheet, !.form_depth = @ - 1,
                                 !.child = LastOf(Siblings(heap, @))]
                ELSE [cur EXCEPT !.mode = "main", !.form = NULL, !.parent = NULL,
                                 !.child = NULL, !.form_depth = @ - 1]
      /\ HandlesRight(heap, cur, scanner) /\ heap \in TypedHeaps /\ Count(heap) \in Nat
      /\ PlaceRight(heap, cur) /\ cur.mode = "content"
  BY TypedOf DEF EndForm, TreeInv, InContent
<1>2. cur \in Cursors(Count(heap)) /\ NULL \in 0 .. Count(heap) /\ cur.form_depth - 1 \in Nat
      /\ Len(cur.x) \in Nat /\ Len(cur.x) >= 1
  BY <1>1 DEF HandlesRight, NULL, Cursors
<1>3. LastOf(Siblings(heap, cur.child)) = cur.child
  <2>1. cur.child \in 0 .. Count(heap) /\ heap \in Heaps /\ Follow(heap, "sibling")
    BY <1>1, <1>2, TypedOf DEF Cursors, LinkFields
  <2>2. cur.child # NULL => Get(heap, cur.child, "sibling") = NULL
    BY <1>1 DEF PlaceRight
  <2>3. QED
    BY <2>1, <2>2, ChainEnds DEF Siblings
<1>4. PICK D : Depths(heap, D)
  BY DEF TreeInv, BoxesRight
<1>5. CASE cur.sheet # NULL
  <2>1. cur' = [cur EXCEPT !.form = NULL, !.parent = cur.sheet, !.form_depth = @ - 1,
                           !.child = cur.child]
    BY <1>1, <1>3, <1>5, <1>2 DEF Cursors
  <2>2. /\ cur'.mode = "content" /\ cur'.form = NULL /\ cur'.sheet = cur.sheet /\ cur'.x = cur.x
        /\ cur'.input = cur.input /\ cur'.last_k = cur.last_k /\ cur'.last_g = cur.last_g
        /\ cur'.parent = cur.sheet /\ cur'.child = cur.child
    BY <2>1, <1>1, <1>2 DEF Cursors
  <2>3. cur' \in Cursors(Count(heap))
    BY <2>1, <1>2 DEF Cursors
  <2>4. HandlesRight(heap, cur', scanner')
    BY <2>2, <2>3, <1>1 DEF HandlesRight, Is
  <2>5. Type(heap, cur.sheet) = "sheet" /\ Type(heap, cur.form) = "form"
        /\ cur.sheet \in 1 .. Count(heap)
    BY <1>1, <1>5 DEF HandlesRight, Is
  <2>6. PlaceRight(heap, cur')
    BY <2>2, <2>5, <1>1, <1>5 DEF PlaceRight, Roots
  <2> DEFINE E == [m \in 1 .. Count(heap) |-> IF Type(heap, m) \in Roots THEN 0 ELSE -1]
  <2>7. Depths(heap, E)
    BY DEF Depths
  <2>8. cur.child # NULL => E[cur.child] = -1
    <3>1. ASSUME cur.child # NULL PROVE cur.child \in 1 .. Count(heap) /\ Type(heap, cur.child) \notin Roots
      <4>1. cur.child \in 1 .. Count(heap)
        BY <3>1, <1>2 DEF Cursors, NULL
      <4>2. Get(heap, cur.child, "parent") # NULL
        BY <3>1, <1>1 DEF PlaceRight
      <4>3. QED
        BY <4>1, <4>2, <1>1, ChildOfInner DEF Inner, Roots
    <3>2. QED
      BY <3>1
  <2>9. E[cur.sheet] = 0
    BY <2>5 DEF Roots
  <2> HIDE DEF E
  <2>10. 0 <= E[cur.sheet] /\ E[cur.sheet] < Len(cur.x)
    BY <2>9, <1>2
  <2>11. BoxesRight(heap, cur')
    BY <2>2, <2>7, <2>8, <2>10 DEF BoxesRight, Open
  <2>12. QED
    BY <2>4, <2>6, <2>11, <1>1, SameTree
<1>6. CASE cur.sheet = NULL
  <2>1. cur' = [cur EXCEPT !.mode = "main", !.form = NULL, !.parent = NULL,
                           !.child = NULL, !.form_depth = @ - 1]
    BY <1>1, <1>6
  <2>2. /\ cur'.mode = "main" /\ cur'.form = NULL /\ cur'.sheet = cur.sheet /\ cur'.x = cur.x
        /\ cur'.input = cur.input /\ cur'.last_k = cur.last_k /\ cur'.last_g = cur.last_g
    BY <2>1, <1>2 DEF Cursors
  <2>3. cur' \in Cursors(Count(heap))
    BY <2>1, <1>2 DEF Cursors
  <2>4. HandlesRight(heap, cur', scanner')
    BY <2>2, <2>3, <1>1 DEF HandlesRight, Is
  <2>5. PlaceRight(heap, cur') /\ BoxesRight(heap, cur')
    BY <2>2, <1>4 DEF PlaceRight, BoxesRight, Open
  <2>6. QED
    BY <2>4, <2>5, <1>1, SameTree
<1>7. QED
  BY <1>5, <1>6

LEMMA PassRight ==
  ASSUME TreeInv, PassOver \/ BadRecord \/ LoseRecord
  PROVE  TreeInv'
<1>1. /\ heap' = heap /\ scanner' = scanner
      /\ \E s \in BOOLEAN, k \in {NULL, cur.last_k}, g \in {NULL, cur.last_g} :
           cur' = [cur EXCEPT !.skip = s, !.last_k = k, !.last_g = g]
      /\ HandlesRight(heap, cur, scanner) /\ heap \in TypedHeaps /\ Count(heap) \in Nat
      /\ PlaceRight(heap, cur) /\ BoxesRight(heap, cur)
  <2>1. HandlesRight(heap, cur, scanner) /\ heap \in TypedHeaps /\ Count(heap) \in Nat
        /\ PlaceRight(heap, cur) /\ BoxesRight(heap, cur)
    BY TypedOf DEF TreeInv
  <2>2. cur \in Cursors(Count(heap))
    BY <2>1 DEF HandlesRight
  <2>3. CASE PassOver
    <3>1. cur' = [cur EXCEPT !.skip = cur.skip, !.last_k = NULL, !.last_g = NULL] /\ cur.skip \in BOOLEAN
      BY <2>2, <2>3 DEF PassOver, Cursors
    <3>2. QED
      BY <2>1, <2>3, <3>1 DEF PassOver
  <2>4. CASE BadRecord
    BY <2>1, <2>4 DEF BadRecord
  <2>5. CASE LoseRecord
    <3>1. cur' = [cur EXCEPT !.skip = FALSE, !.last_k = cur.last_k, !.last_g = cur.last_g]
      BY <2>2, <2>5 DEF LoseRecord, Cursors
    <3>2. QED
      BY <2>1, <2>5, <3>1 DEF LoseRecord
  <2>6. QED
    BY <2>3, <2>4, <2>5
<1>2. PICK s \in BOOLEAN, k \in {NULL, cur.last_k}, g \in {NULL, cur.last_g} :
        cur' = [cur EXCEPT !.skip = s, !.last_k = k, !.last_g = g]
  BY <1>1
<1>3. cur \in Cursors(Count(heap)) /\ NULL \in 0 .. Count(heap)
  BY <1>1 DEF HandlesRight, NULL
<1>4. cur' \in Cursors(Count(heap))
  BY <1>2, <1>3 DEF Cursors
<1>5. /\ cur'.mode = cur.mode /\ cur'.form = cur.form /\ cur'.sheet = cur.sheet /\ cur'.x = cur.x
      /\ cur'.input = cur.input /\ cur'.last_k = k /\ cur'.last_g = g
      /\ cur'.parent = cur.parent /\ cur'.child = cur.child
  BY <1>2, <1>3 DEF Cursors
<1>6. HandlesRight(heap, cur', scanner')
  BY <1>1, <1>4, <1>5 DEF HandlesRight, Is
<1>7. PlaceRight(heap, cur') /\ BoxesRight(heap, cur')
  BY <1>1, <1>5 DEF PlaceRight, BoxesRight, Open
<1>8. QED
  BY <1>1, <1>6, <1>7, SameTree

LEMMA EmptyTyped == EmptyHeap \in TypedHeaps /\ Count(EmptyHeap) = 0
<1>1. EmptyHeap.node = <<>> /\ Count(EmptyHeap) = 0
  BY DEF EmptyHeap, Count
<1>2. <<>> \in Seq(AllNodes)
  BY EmptySeq
<1>3. EmptyHeap.list \in [Slots -> 0 .. 0] /\ EmptyHeap.list \in [Slots -> Int]
  BY DEF EmptyHeap, Slots, NULL
<1>4. EmptyHeap \in Heaps
  BY <1>1, <1>2, <1>3 DEF Heaps, EmptyHeap
<1>5. QED
  BY <1>1, <1>3, <1>4 DEF TypedHeaps

LEMMA StartRight ==
  ASSUME NEW k \in Nat
  PROVE  startCur \in Cursors(k) /\ Len(startCur.x) = 1
<1>1. << <<>> >> \in Seq(Seq(1 .. k)) /\ Len(<< <<>> >>) = 1
  <2>1. <<>> \in Seq(1 .. k)
    BY EmptySeq
  <2> DEFINE X == Seq(1 .. k)
  <2> HIDE DEF X
  <2>2. << <<>> >> \in Seq(X)
    BY <2>1 DEF X
  <2>3. QED
    BY <2>2 DEF X
<1>2. QED
  BY <1>1 DEF startCur, Cursors, NULL

LEMMA EndRight ==
  ASSUME TreeInv, EndOfContent \/ EndOfFile
  PROVE  TreeInv'
<1>1. /\ heap \in TypedHeaps /\ Count(heap) \in Nat /\ scanner \in Scanners(Count(heap))
      /\ HandlesRight(heap, cur, scanner)
  BY TypedOf DEF TreeInv, HandlesRight
<1>2. /\ startCur.sheet = NULL /\ startCur.form = NULL /\ startCur.input = NULL
      /\ startCur.last_k = NULL /\ startCur.last_g = NULL /\ startCur.mode = "main"
  BY DEF startCur
<1>3. CASE EndOfContent
  <2>1. heap' = heap /\ cur' = startCur
        /\ scanner' = [scanner EXCEPT !.ref_in_form = NULL, !.ref_in_sheet = NULL]
    BY <1>3 DEF EndOfContent, Postamble
  <2>2. scanner' \in Scanners(Count(heap)) /\ scanner'.ref_in_form = NULL
        /\ scanner'.ref_in_sheet = NULL /\ scanner'.sheet = scanner.sheet
        /\ scanner'.form = scanner.form /\ scanner'.input = scanner.input
    <3> DEFINE k == Count(heap)
    <3>1. /\ scanner' = [scanner EXCEPT !.ref_in_form = NULL, !.ref_in_sheet = NULL]
          /\ NULL \in 0 .. k /\ scanner \in Scanners(k)
      BY <1>1, <2>1 DEF NULL
    <3> HIDE DEF k
    <3>2. scanner' \in Scanners(k)
      BY <3>1 DEF Scanners
    <3>3. /\ scanner'.ref_in_form = NULL
          /\ scanner'.ref_in_sheet = NULL /\ scanner'.sheet = scanner.sheet
          /\ scanner'.form = scanner.form /\ scanner'.input = scanner.input
      BY <3>1 DEF Scanners
    <3>4. QED
      BY <3>2, <3>3 DEF k
  <2>3. startCur \in Cursors(Count(heap)) /\ Len(startCur.x) = 1
    BY <1>1, StartRight
  <2>4. HandlesRight(heap, cur', scanner')
    BY <1>1, <1>2, <2>1, <2>2, <2>3 DEF HandlesRight, Is
  <2>5. PlaceRight(heap, cur') /\ BoxesRight(heap, cur')
    BY <1>2, <2>1 DEF TreeInv, PlaceRight, BoxesRight, Open
  <2>6. QED
    BY <2>1, <2>4, <2>5, SameTree
<1>4. CASE EndOfFile
  <2>1. heap' = EmptyHeap /\ cur' = startCur /\ scanner' = [k \in DOMAIN scanner |-> NULL]
    BY <1>4 DEF EndOfFile
  <2>2. EmptyHeap \in TypedHeaps /\ Count(EmptyHeap) = 0
    BY EmptyTyped
  <2>3. Tree(EmptyHeap) /\ HeadsRight(EmptyHeap) /\ \E D : Depths(EmptyHeap, D)
    <3> DEFINE D == [n \in 1 .. 0 |-> 0]
    <3>1. \A n \in 1 .. Count(EmptyHeap) : FALSE
      BY <2>2
    <3>2. D \in [1 .. Count(EmptyHeap) -> Int]
      BY <2>2
    <3> HIDE DEF D
    <3>3. QED
      BY <3>1, <3>2 DEF Tree, HeadsRight, Depths
  <2>4. scanner' = [sheet |-> NULL, form |-> NULL, input |-> NULL,
                    ref_in_form |-> NULL, ref_in_sheet |-> NULL]
    <3>1. DOMAIN scanner = {"sheet", "form", "input", "ref_in_form", "ref_in_sheet"}
      BY <1>1 DEF Scanners
    <3>2. QED
      BY <2>1, <3>1
  <2>5. HandlesRight(EmptyHeap, startCur, scanner')
    <3>1. startCur \in Cursors(0) /\ Len(startCur.x) = 1
      BY StartRight
    <3>2. scanner' \in Scanners(0)
      BY <2>4 DEF Scanners, NULL
    <3>3. QED
      BY <3>1, <3>2, <2>2, <2>4, <1>2 DEF HandlesRight, Is
  <2>6. PlaceRight(EmptyHeap, startCur) /\ BoxesRight(EmptyHeap, startCur)
    BY <1>2, <2>3 DEF PlaceRight, BoxesRight, Open
  <2>7. QED
    BY <2>1, <2>2, <2>3, <2>5, <2>6 DEF TreeInv
<1>5. QED
  BY <1>3, <1>4

------------------------------------------------------------------------------
(* The start: the inputs of the preamble, each before the ones until then. *)
Early == {r \in Records : r.kind = "input" /\ r.early}

LEMMA InputsOf ==
  /\ inputs \in Seq(Early) /\ Len(inputs) \in Nat /\ DOMAIN inputs = 1 .. Len(inputs)
  /\ \A i \in 1 .. Len(inputs) : inputs[i].tag \in Int
<1> DEFINE m == Cardinality(Early)
           F == [1 .. m -> Early]
<1>1. IsFiniteSet(Early) /\ m \in Nat
  BY RecordsAssumption, FS_CardinalityType DEF Early
<1>2. \E f \in F : IsInjective(f)
  <2>1. ExistsBijection(1 .. m, Early)
    BY <1>1, FS_CardinalityType
  <2>2. PICK f \in Bijection(1 .. m, Early) : TRUE
    BY <2>1 DEF ExistsBijection
  <2>3. f \in F /\ \A a, b \in 1 .. m : f[a] = f[b] => a = b
    BY <2>2 DEF Bijection, Injection, Surjection, IsInjective
  <2>4. IsInjective(f)
    BY <2>3 DEF IsInjective
  <2>5. QED
    BY <2>3, <2>4
<1>3. inputs = CHOOSE f \in F : IsInjective(f)
  BY DEF inputs, SetToSeq, Early
<1>4. inputs \in F
  BY <1>2, <1>3
<1>5. inputs \in Seq(Early) /\ Len(inputs) = m /\ DOMAIN inputs = 1 .. m
  BY <1>1, <1>4, LenProperties
<1>6. \A i \in 1 .. m : inputs[i].tag \in Int
  BY <1>4, RecordsAssumption DEF Early
<1> HIDE DEF m
<1>7. QED
  BY <1>1, <1>5, <1>6

LEMMA WithInputsOf ==
  /\ withInputs \in TypedHeaps /\ Count(withInputs) = Len(inputs)
  /\ \A n \in 1 .. Count(withInputs) :
       /\ Type(withInputs, n) = "input"
       /\ Get(withInputs, n, "sibling") = n - 1
       /\ \A f : f \notin {"type", "sibling", "tag"} => Get(withInputs, n, f) = 0
  /\ withInputs.list = EmptyHeap.list
<1> DEFINE k == Len(inputs)
           data(i) == [tag |-> inputs[i].tag, sibling |-> i - 1]
           one(i) == New(EmptyHeap, "input", data(i))
<1>1. k \in Nat /\ DOMAIN inputs = 1 .. k /\ \A i \in 1 .. k : inputs[i].tag \in Int
  BY InputsOf
<1>2. EmptyHeap \in TypedHeaps /\ Count(EmptyHeap) = 0 /\ EmptyHeap \in Heaps
      /\ Fresh(EmptyHeap) = 1
  BY EmptyTyped, TypedOf DEF Fresh, Count
<1>3. /\ withInputs.node = [i \in 1 .. k |-> one(i).node[1]]
      /\ withInputs.list = EmptyHeap.list
      /\ withInputs = [node |-> [i \in 1 .. k |-> one(i).node[1]], list |-> EmptyHeap.list]
  <2>1. withInputs = [EmptyHeap EXCEPT !.node = [i \in DOMAIN inputs |-> one(i).node[1]]]
    BY DEF withInputs
  <2> DEFINE X == [i \in 1 .. k |-> one(i).node[1]]
  <2>2. withInputs = [EmptyHeap EXCEPT !.node = X]
    BY <1>1, <2>1
  <2>3. EmptyHeap = [node |-> <<>>, list |-> EmptyHeap.list]
    BY DEF EmptyHeap
  <2> HIDE DEF X
  <2>4. withInputs = [node |-> X, list |-> EmptyHeap.list]
    BY <2>2, <2>3
  <2>5. withInputs.node = X /\ withInputs.list = EmptyHeap.list
    BY <2>4
  <2>6. QED
    BY <2>4, <2>5 DEF X
<1>4. ASSUME NEW i \in 1 .. k
      PROVE  /\ one(i).node[1] \in NodeOf("input")
             /\ one(i).node[1]["sibling"] = i - 1
             /\ one(i).node[1]["tag"] \in Int
             /\ \A f \in Fields["input"] : f \notin {"sibling", "tag"} => one(i).node[1][f] = 0
  <2>1. inputs[i].tag \in Int /\ i - 1 \in Int
    BY <1>1
  <2>2. DOMAIN data(i) = {"tag", "sibling"} /\ data(i)["tag"] \in Int /\ data(i)["sibling"] = i - 1
        /\ \A f \in DOMAIN data(i) : data(i)[f] \in Int
    BY <2>1
  <2>3. "input" \in ContentTypes
    BY DEF ContentTypes
  <2> DEFINE A == one(i)
  <2>4. Made1(EmptyHeap, A, "input", data(i))
    <3> HIDE DEF data
    <3>1. QED
      BY <1>2, <2>2, <2>3, NewOf
  <2>5. A \in Heaps /\ Count(A) = 1 /\ Type(A, 1) = "input"
        /\ \A f : f \notin {"type", "visible"} =>
             Get(A, 1, f) = IF f \in Fields["input"] THEN Given(data(i), f) ELSE 0
    <3> HIDE DEF A, data
    <3>1. QED
      BY <1>2, <2>4 DEF Made1
  <2> HIDE DEF A
  <2>6. A.node[1] \in NodeOf("input") /\ \A f \in Fields["input"] : f # "type" => Get(A, 1, f) = A.node[1][f]
    BY <2>5, NodesOf
  <2>7. /\ "sibling" \in Fields["input"] /\ "tag" \in Fields["input"]
        /\ "visible" \notin Fields["input"] /\ "type" \notin Fields["input"]
    BY DEF Fields, inputFields
  <2>8. \A f \in Fields["input"] : A.node[1][f] = Given(data(i), f)
    BY <2>5, <2>6, <2>7
  <2>9. /\ Given(data(i), "sibling") = i - 1 /\ Given(data(i), "tag") \in Int
        /\ \A f : f \notin {"sibling", "tag"} => Given(data(i), f) = 0
    BY <2>2 DEF Given
  <2>10. QED
    BY <2>6, <2>7, <2>8, <2>9 DEF A
<1> HIDE DEF one
<1>5. withInputs.node \in Seq(AllNodes) /\ Count(withInputs) = k
  <2>1. \A i \in 1 .. k : one(i).node[1] \in AllNodes
    BY <1>4 DEF AllNodes, ContentTypes
  <2> HIDE DEF k
  <2>2. QED
    BY <1>1, <1>3, <2>1, LenProperties DEF Count
<1>6. withInputs \in Heaps
  <2>1. EmptyHeap.list \in [Slots -> Int]
    BY <1>2 DEF Heaps
  <2>2. QED
    BY <1>3, <1>5, <2>1 DEF Heaps
<1> HIDE DEF k
<1>7. \A n \in 1 .. Count(withInputs) :
        /\ Type(withInputs, n) = "input"
        /\ Get(withInputs, n, "sibling") = n - 1
        /\ Get(withInputs, n, "tag") \in Int
        /\ \A f : f \notin {"type", "sibling", "tag"} => Get(withInputs, n, f) = 0
  <2> TAKE n \in 1 .. Count(withInputs)
  <2>1. withInputs.node[n] = one(n).node[1] /\ n \in 1 .. k
    BY <1>3, <1>5
  <2>2. withInputs.node[n] \in NodeOf("input")
    BY <1>4, <2>1
  <2>3. withInputs.node[n].type = "input"
    BY <2>2 DEF NodeOf
  <2>4. Type(withInputs, n) = "input"
    BY <1>6, <2>3, NodesOf
  <2>5. \A f : f # "type" =>
          /\ f \in Fields["input"] => Get(withInputs, n, f) = withInputs.node[n][f]
          /\ f \notin Fields["input"] => Get(withInputs, n, f) = 0
    BY <1>6, <2>4, NodesOf
  <2>6. "sibling" \in Fields["input"] /\ "tag" \in Fields["input"]
    BY DEF Fields, inputFields
  <2>7. QED
    BY <1>4, <2>1, <2>4, <2>5, <2>6
<1>8. withInputs.list \in [Slots -> 0 .. Count(withInputs)]
  <2>1. EmptyHeap.list \in [Slots -> 0 .. 0]
    BY <1>2 DEF TypedHeaps
  <2>2. 0 .. 0 \subseteq 0 .. k
    BY <1>1
  <2>3. QED
    BY <1>3, <1>5, <2>1, <2>2
<1>9. withInputs \in TypedHeaps
  <2>1. ASSUME NEW n \in 1 .. Count(withInputs)
        PROVE  /\ \A f \in LinkFields : Get(withInputs, n, f) \in 0 .. Count(withInputs)
               /\ \A f \in NumberFields : Get(withInputs, n, f) \in Int
               /\ Get(withInputs, n, "target") = NULL
               /\ Type(withInputs, n) # "hbox"
    <3>1. /\ Get(withInputs, n, "sibling") \in 0 .. k /\ 0 \in 0 .. k
          /\ Get(withInputs, n, "tag") \in Int /\ Type(withInputs, n) = "input"
          /\ \A f : f \notin {"type", "sibling", "tag"} => Get(withInputs, n, f) = 0
      BY <1>1, <1>5, <1>7
    <3>2. "type" \notin LinkFields \cup NumberFields
      BY DEF LinkFields, NumberFields
    <3>3. \A f \in LinkFields : Get(withInputs, n, f) \in 0 .. k
      BY <3>1, <3>2 DEF LinkFields
    <3>4. \A f \in NumberFields : Get(withInputs, n, f) \in Int
      BY <3>1, <3>2 DEF NumberFields
    <3>5. QED
      BY <1>5, <3>1, <3>3, <3>4 DEF NULL
  <2>2. QED
    BY <1>6, <1>8, <2>1 DEF TypedHeaps
<1>10. QED
  BY <1>3, <1>5, <1>7, <1>9 DEF k

LEMMA InitRight ==
  ASSUME Init
  PROVE  TreeInv
<1> DEFINE k == Count(withInputs)
<1>1. /\ heap = withInputs /\ cur = startCur
      /\ scanner = [sheet |-> NULL, form |-> NULL, input |-> k,
                    ref_in_form |-> NULL, ref_in_sheet |-> NULL]
  BY DEF Init, Count
<1>2. heap \in TypedHeaps /\ k \in Nat
  BY <1>1, WithInputsOf, TypedOf
<1>3. \A n \in 1 .. k :
        /\ Type(heap, n) = "input" /\ Get(heap, n, "sibling") = n - 1
        /\ \A f : f \notin {"type", "sibling", "tag"} => Get(heap, n, f) = NULL
  BY <1>1, WithInputsOf DEF NULL
<1>4. Tree(heap)
  <2>1. ASSUME NEW n \in 1 .. k
        PROVE  ParentRight(heap, n) /\ SiblingRight(heap, n) /\ ChildRight(heap, n) /\ LastRight(heap, n)
    <3>1. /\ Get(heap, n, "parent") = NULL /\ Get(heap, n, "child") = NULL
          /\ Get(heap, n, "last") = NULL /\ Type(heap, n) = "input"
      BY <1>3
    <3>2. SiblingRight(heap, n)
      <4>1. CASE n = 1
        BY <1>3, <4>1 DEF SiblingRight, NULL
      <4>2. CASE n # 1
        <5> DEFINE s == n - 1
        <5>1. s \in 1 .. k /\ s < n /\ Get(heap, n, "sibling") = s
          BY <1>2, <1>3, <4>2
        <5>2. Type(heap, s) = "input" /\ ~ Has(heap, s, "arg_sibling")
          <6>1. heap \in Heaps
            BY <1>2, TypedOf
          <6>2. Type(heap, s) = "input"
            BY <1>3, <5>1
          <6>3. "arg_sibling" \notin Fields["input"]
            BY DEF Fields, inputFields
          <6> HIDE DEF s
          <6>4. QED
            BY <1>1, <5>1, <6>1, <6>2, <6>3, NodesOf
        <5> HIDE DEF s
        <5>3. QED
          BY <3>1, <5>1, <5>2 DEF SiblingRight, Roots, Inner
      <4>3. QED
        BY <4>1, <4>2
    <3>3. QED
      BY <3>1, <3>2 DEF ParentRight, ChildRight, LastRight, Boxes
  <2>2. QED
    BY <1>1, <2>1 DEF Tree
<1>5. HeadsRight(heap)
  BY <1>1, <1>3 DEF HeadsRight
<1>6. HandlesRight(heap, cur, scanner)
  <2>1. startCur \in Cursors(k) /\ Len(startCur.x) = 1
    BY <1>2, StartRight
  <2>2. /\ startCur.sheet = NULL /\ startCur.form = NULL /\ startCur.input = NULL
        /\ startCur.last_k = NULL /\ startCur.last_g = NULL
    BY DEF startCur
  <2> HIDE DEF k
  <2>3. scanner \in Scanners(k)
    BY <1>1, <1>2 DEF Scanners, NULL
  <2>4. Is(heap, k, {"input"})
    BY <1>1, <1>2, <1>3 DEF Is, NULL, k
  <2>5. QED
    BY <1>1, <2>1, <2>2, <2>3, <2>4 DEF HandlesRight, Is, k
<1>7. PlaceRight(heap, cur) /\ BoxesRight(heap, cur)
  <2>1. cur.mode = "main"
    BY <1>1 DEF startCur
  <2> DEFINE D == [n \in 1 .. k |-> -1]
  <2>2. Depths(heap, D)
    BY <1>1, <1>3 DEF Depths, Roots
  <2>3. QED
    BY <2>1, <2>2 DEF PlaceRight, BoxesRight, Open
<1>8. QED
  BY <1>2, <1>4, <1>5, <1>6, <1>7 DEF TreeInv

(* While a file is read, and after it if it has no refs, whatever records  *)
(* come and in whatever order, the handles the parser keeps lead to nodes  *)
(* of the classes it takes them for, the node it attaches the next one to  *)
(* is the last of its siblings, and there is a list of heading boundary    *)
(* nodes for each box that is open.                                        *)
THEOREM Attaching == ContentSpec => []TreeInv
<1>1. Init => TreeInv
  BY InitRight
<1>2. TreeInv /\ [ContentNext]_vars => TreeInv'
  <2> SUFFICES ASSUME TreeInv, [ContentNext]_vars
               PROVE  TreeInv'
    OBVIOUS
  <2>1. CASE BeginSheet
    BY <2>1, BeginSheetRight
  <2>2. CASE EndSheet
    BY <2>2, EndSheetRight
  <2>3. CASE BeginForm
    BY <2>3, BeginFormRight
  <2>4. CASE EndForm
    BY <2>4, EndFormRight
  <2>5. CASE MoreInput
    BY <2>5, MoreInputRight
  <2>6. CASE BeginVbox
    BY <2>6, BeginVboxRight
  <2>7. CASE EndVbox
    BY <2>7, EndVboxRight
  <2>8. CASE BeginHbox
    BY <2>8, BeginHboxRight
  <2>9. CASE EndHbox
    BY <2>9, EndHboxRight
  <2>10. CASE VoidVbox \/ VoidHbox \/ Kern \/ Glue \/ Rule \/ Math
    BY <2>10, LeavesRight
  <2>11. CASE Boundary
    BY <2>11, BoundaryRight
  <2>12. CASE FormRef
    BY <2>12, FormRefRight
  <2>13. CASE PassOver \/ BadRecord \/ LoseRecord
    BY <2>13, PassRight
  <2>14. CASE EndOfContent \/ EndOfFile
    BY <2>14, EndRight
  <2>15. CASE UNCHANGED vars
    <3>1. heap' = heap /\ cur' = cur /\ scanner' = scanner
      BY <2>15 DEF vars
    <3>2. HandlesRight(heap, cur', scanner') /\ PlaceRight(heap, cur') /\ BoxesRight(heap, cur')
      BY <3>1 DEF TreeInv
    <3>3. QED
      BY <3>1, <3>2, SameTree
  <2>16. QED
    BY <2>1, <2>2, <2>3, <2>4, <2>5, <2>6, <2>7, <2>8, <2>9, <2>10, <2>11, <2>12, <2>13,
       <2>14, <2>15 DEF ContentNext, Read
<1>3. QED
  BY <1>1, <1>2, PTL DEF ContentSpec

(* The links between the nodes agree at any time while a file is read:     *)
(* whatever records come, a node is in the list of the children of its     *)
(* parent, siblings have one parent, and last children and previous        *)
(* siblings are what they say.                                             *)
THEOREM LinksAgree == ContentSpec => []TreeCoherent
<1>1. TreeInv => TreeCoherent
  BY CoherentTree DEF TreeInv
<1>2. QED
  BY <1>1, Attaching, PTL

------------------------------------------------------------------------------
(* The lists of friends.  L says in which list a node is, -1 in none: what *)
(* leads a list is in it, a friend is in the list of the node that has it, *)
(* nothing else leads to it, and a node whose tag and line do not change   *)
(* is in their list.  The refs have two lists of their own, which the      *)
(* scanner leads.                                                          *)
Sorted == {"rule", "math", "boundary", "vbox"}
FriendRight(H, L, n) ==
  LET f == Get(H, n, "friend") IN
  /\ L[n] = -1 \/ L[n] \in Slots
  /\ Type(H, n) = "ref" => L[n] = -1
  /\ f # NULL =>
       /\ L[f] = L[n]
       /\ L[n] = -1 => Type(H, n) = "ref" /\ Type(H, f) = "ref"
       /\ \A m \in 1 .. Count(H) : Get(H, m, "friend") = f => m = n
       /\ \A i \in Slots : H.list[i] # f
  /\ Type(H, n) \in Sorted /\ L[n] # -1 =>
       (Get(H, n, "tag") + Get(H, n, "line")) % NumberOfLists = L[n]
Unled(H, n) == n # NULL => \A m \in 1 .. Count(H) : Get(H, m, "friend") # n
FriendsRight(H, L, S) ==
  /\ L \in [1 .. Count(H) -> Int]
  /\ \A n \in 1 .. Count(H) : FriendRight(H, L, n)
  /\ \A i \in Slots : H.list[i] # NULL => L[H.list[i]] = i
  /\ Unled(H, S.ref_in_form) /\ Unled(H, S.ref_in_sheet)
  /\ S.ref_in_form # NULL => S.ref_in_form # S.ref_in_sheet

(* What FriendLists says follows.                                          *)
LEMMA ListedFriends ==
  ASSUME heap \in TypedHeaps, NEW L, FriendsRight(heap, L, scanner)
  PROVE  FriendLists
<1>1. heap \in Heaps /\ Count(heap) \in Nat /\ Follow(heap, "friend")
      /\ heap.list \in [Slots -> 0 .. Count(heap)]
      /\ \A n \in 1 .. Count(heap) : Get(heap, n, "friend") \in 0 .. Count(heap)
  BY TypedOf DEF TypedHeaps, LinkFields
<1>2. \A n : n \in Nodes <=> n \in 1 .. Count(heap)
  <2>1. DOMAIN heap.node = 1 .. Count(heap)
    BY <1>1, NodesOf
  <2>2. \A n \in 1 .. Count(heap) : heap.node[n].type \in ContentTypes
    BY <1>1, NodesOf
  <2>3. "freed" \notin ContentTypes
    BY DEF ContentTypes
  <2>4. QED
    BY <2>1, <2>2, <2>3 DEF Nodes
<1>3. DOMAIN heap.list = Slots
  BY <1>1
<1>4. \A n \in 1 .. Count(heap) : FriendRight(heap, L, n)
  BY DEF FriendsRight
<1>5. \A i \in Slots : heap.list[i] # NULL => L[heap.list[i]] = i
  BY DEF FriendsRight
<1>6. \A m, n \in Nodes :
        (m # n /\ Get(heap, m, "friend") # NULL) => Get(heap, m, "friend") # Get(heap, n, "friend")
  BY <1>2, <1>4 DEF FriendRight
<1>7. \A n \in Nodes : Get(heap, n, "friend") \notin Heads
  BY <1>2, <1>3, <1>4 DEF FriendRight, Heads
<1>8. Registered \subseteq Nodes
  BY <1>1, <1>2, <1>3 DEF Registered, Heads, NULL
<1>9. \A i, j \in DOMAIN heap.list : (i # j /\ heap.list[i] # NULL) => heap.list[i] # heap.list[j]
  BY <1>3, <1>5
<1>10. \A i \in DOMAIN heap.list : \A n \in ToSet(Chain(heap, heap.list[i], "friend")) :
         Type(heap, n) \in {"rule", "math", "boundary", "vbox"} =>
           (Tag(heap, n) + Line(heap, n)) % NumberOfLists = i
  <2> TAKE i \in DOMAIN heap.list
  <2> DEFINE c == Chain(heap, heap.list[i], "friend")
             T == {m \in 1 .. Count(heap) : L[m] = i}
  <2>1. heap.list[i] \in 0 .. Count(heap) /\ i \in Slots
    BY <1>1, <1>3
  <2>2. Follows(heap, "friend", c, heap.list[i], Fresh(heap))
    BY <1>1, <2>1, ChainOf
  <2>3. Fresh(heap) \in Nat
    BY <1>1, NodesOf
  <2>4. heap.list[i] # NULL => heap.list[i] \in T
    BY <1>5, <2>1 DEF NULL
  <2>5. \A m \in T : m \in 1 .. Count(heap) /\ Get(heap, m, "friend") # NULL => Get(heap, m, "friend") \in T
    BY <1>1, <1>4 DEF FriendRight, NULL
  <2>6. c \in Seq(1 .. Count(heap))
    BY <2>2 DEF Follows
  <2> HIDE DEF c, T
  <2>7. \A j \in 1 .. Len(c) : c[j] \in T
    BY <1>1, <2>1, <2>2, <2>3, <2>4, <2>5, InChain
  <2>8. \A n \in ToSet(c) : n \in T
    BY <2>6, <2>7, ElementOfSeq DEF ToSet
  <2>9. ASSUME NEW n \in ToSet(c), Type(heap, n) \in {"rule", "math", "boundary", "vbox"}
        PROVE  (Tag(heap, n) + Line(heap, n)) % NumberOfLists = i
    <3>1. n \in 1 .. Count(heap) /\ L[n] = i
      BY <2>8, <2>9 DEF T
    <3>2. Tag(heap, n) = Get(heap, n, "tag") /\ Line(heap, n) = Get(heap, n, "line")
      BY <3>1, <2>9, OwnOf
    <3>3. L[n] # -1
      BY <2>1, <3>1, ListsAssumption DEF Slots
    <3>4. QED
      BY <3>1, <3>2, <3>3, <2>9, <1>4 DEF FriendRight, Sorted
  <2>10. QED
    BY <2>9 DEF c
<1>11. QED
  BY <1>6, <1>7, <1>8, <1>9, <1>10 DEF FriendLists

(* What leaves the friends alone, and the tags and lines they go by.       *)
LEMMA KeepsFriends ==
  ASSUME NEW H \in TypedHeaps, NEW L, NEW S, FriendsRight(H, L, S), NEW G, NEW N, NEW F,
         Touch(H, G, N, F), "friend" \notin F, G.list = H.list,
         \A n \in 1 .. Count(H) :
           n \in N /\ Type(H, n) \in Sorted /\ L[n] # -1 => "tag" \notin F /\ "line" \notin F
  PROVE  FriendsRight(G, L, S)
<1>1. /\ Count(G) = Count(H)
      /\ \A m \in 1 .. Count(H) :
           /\ Type(G, m) = Type(H, m) /\ Get(G, m, "friend") = Get(H, m, "friend")
           /\ m \notin N \/ "tag" \notin F => Get(G, m, "tag") = Get(H, m, "tag")
           /\ m \notin N \/ "line" \notin F => Get(G, m, "line") = Get(H, m, "line")
  <2>1. \A m \in 1 .. Count(H) : m \in 0 .. Count(H)
    BY TypedOf
  <2>2. QED
    BY <2>1 DEF Touch
<1>2. ASSUME NEW n \in 1 .. Count(H)
      PROVE  FriendRight(G, L, n)
  <2>1. FriendRight(H, L, n)
    BY DEF FriendsRight
  <2>2. Get(H, n, "friend") \in 0 .. Count(H) /\ Count(H) \in Nat
    BY TypedOf DEF LinkFields, TypedHeaps
  <2>3. Get(H, n, "friend") # NULL => Get(H, n, "friend") \in 1 .. Count(H)
    BY <2>2 DEF NULL
  <2>4. QED
    BY <1>1, <2>1, <2>3 DEF FriendRight
<1>3. QED
  BY <1>1, <1>2 DEF FriendsRight, Unled

(* A node more, that has no friend.                                        *)
Longer(H, G) ==
  /\ G \in TypedHeaps /\ Count(G) = Count(H) + 1 /\ G.list = H.list
  /\ \A m \in 1 .. Count(H) :
       /\ Type(G, m) = Type(H, m)
       /\ \A g \in {"friend", "tag", "line"} : Get(G, m, g) = Get(H, m, g)
  /\ Get(G, Fresh(H), "friend") = NULL
More(H, L) == [n \in 1 .. Count(H) + 1 |-> IF n \in 1 .. Count(H) THEN L[n] ELSE -1]

LEMMA MoreFriends ==
  ASSUME NEW H \in TypedHeaps, NEW L, NEW S \in Scanners(Count(H)), FriendsRight(H, L, S),
         NEW G, Longer(H, G)
  PROVE  /\ FriendsRight(G, More(H, L), S) /\ More(H, L)[Fresh(H)] = -1
         /\ \A n \in 1 .. Count(H) : More(H, L)[n] = L[n]
<1> DEFINE k == Count(H)
           M == More(H, L)
<1>1. k \in Nat /\ Fresh(H) = k + 1 /\ Count(G) = k + 1 /\ H.list \in [Slots -> 0 .. k]
      /\ \A n \in 1 .. k : Get(H, n, "friend") \in 0 .. k
  BY TypedOf, NodesOf DEF Longer, LinkFields, TypedHeaps
<1>2. /\ L \in [1 .. k -> Int] /\ \A n \in 1 .. k : FriendRight(H, L, n)
      /\ \A i \in Slots : H.list[i] # NULL => L[H.list[i]] = i
      /\ Unled(H, S.ref_in_form) /\ Unled(H, S.ref_in_sheet)
      /\ S.ref_in_form # NULL => S.ref_in_form # S.ref_in_sheet
  BY DEF FriendsRight
<1>3. /\ G.list = H.list
      /\ \A m \in 1 .. k : /\ Type(G, m) = Type(H, m) /\ Get(G, m, "friend") = Get(H, m, "friend")
                           /\ Get(G, m, "tag") = Get(H, m, "tag") /\ Get(G, m, "line") = Get(H, m, "line")
      /\ Get(G, k + 1, "friend") = NULL
  BY <1>1 DEF Longer
<1>4. M \in [1 .. k + 1 -> Int] /\ M[k + 1] = -1 /\ \A n \in 1 .. k : M[n] = L[n]
  BY <1>1, <1>2 DEF More
<1>5. \A n \in 1 .. k : n \in 1 .. k + 1
  BY <1>1
<1>6. \A n \in 1 .. k + 1 : n \in 1 .. k \/ n = k + 1
  BY <1>1
<1> HIDE DEF k, M
<1>7. ASSUME NEW n \in 1 .. k
      PROVE  FriendRight(G, M, n)
  <2>1. FriendRight(H, L, n)
    BY <1>2
  <2>2. Get(H, n, "friend") # NULL => Get(H, n, "friend") \in 1 .. k
    BY <1>1 DEF NULL
  <2>3. \A m \in 1 .. Count(G) : Get(G, m, "friend") # NULL =>
          m \in 1 .. k /\ Get(G, m, "friend") = Get(H, m, "friend")
    BY <1>1, <1>3, <1>6
  <2>4. \A m \in 1 .. k : Get(H, m, "friend") = Get(H, n, "friend") /\ Get(H, n, "friend") # NULL => m = n
    BY <2>1 DEF FriendRight, k
  <2>5. QED
    BY <1>3, <1>4, <2>1, <2>2, <2>3, <2>4 DEF FriendRight
<1>8. FriendRight(G, M, k + 1)
  BY <1>3, <1>4 DEF FriendRight
<1>9. \A i \in Slots : G.list[i] # NULL => M[G.list[i]] = i
  BY <1>1, <1>2, <1>3, <1>4 DEF NULL
<1>10. Unled(G, S.ref_in_form) /\ Unled(G, S.ref_in_sheet)
  <2>1. \A m \in 1 .. Count(G) : \/ m \in 1 .. k /\ Get(G, m, "friend") = Get(H, m, "friend")
                                 \/ Get(G, m, "friend") = NULL
    BY <1>1, <1>3, <1>6
  <2>2. QED
    BY <1>2, <2>1 DEF Unled, k
<1>11. QED
  BY <1>1, <1>2, <1>4, <1>6, <1>7, <1>8, <1>9, <1>10 DEF FriendsRight, k, M

LEMMA AttachedLonger ==
  ASSUME NEW H \in TypedHeaps, NEW G, NEW type, NEW data, NEW c, NEW p,
         Attached(H, G, type, data, c, p), Plain(data)
  PROVE  Longer(H, G)
<1>1. \A m \in 1 .. Count(H) : m \in 0 .. Count(H)
  BY TypedOf
<1>2. \A g \in {"friend", "tag", "line"} :
        g \notin {"type", "sibling", "parent", "child", "last"} /\ g \notin Links \cup {"type", "visible"}
  BY DEF Links
<1>3. Get(G, Fresh(H), "friend") = IF "friend" \in Fields[type] THEN Given(data, "friend") ELSE 0
  BY <1>2 DEF Attached
<1>4. Given(data, "friend") = 0
  BY DEF Given, Plain, LinkFields
<1>5. QED
  BY <1>1, <1>2, <1>3, <1>4 DEF Attached, Longer, NULL

LEMMA RootedLonger ==
  ASSUME NEW H \in TypedHeaps, NEW G, NEW type, Rooted(H, G, type)
  PROVE  Longer(H, G)
<1>1. \A m \in 1 .. Count(H) : m \in 0 .. Count(H)
  BY TypedOf
<1>2. \A g \in {"friend", "tag", "line"} : g # "type" /\ g # "sibling"
  OBVIOUS
<1>3. "friend" \in LinkFields \ {"sibling"}
  BY DEF LinkFields
<1>4. QED
  BY <1>1, <1>2, <1>3 DEF Rooted, Longer

(* A node that is in no list yet is put into the one it belongs to.        *)
RefsOf(H, S) == Is(H, S.ref_in_form, {"ref"}) /\ Is(H, S.ref_in_sheet, {"ref"})

LEMMA OneFriend ==
  ASSUME NEW H \in TypedHeaps, NEW L, NEW S, FriendsRight(H, L, S), RefsOf(H, S),
         NEW n \in 1 .. Count(H), Has(H, n, "friend"), Type(H, n) # "ref", L[n] = -1,
         NEW G, Befriends(H, G, n)
  PROVE  \E L2 : FriendsRight(G, L2, S) /\ \A m \in 1 .. Count(H) : m # n => L2[m] = L[m]
<1> DEFINE N == Count(H)
           i == Get(H, n, "tag") + Get(H, n, "line")
           k == i % NumberOfLists
<1>1. H \in Heaps /\ N \in Nat /\ H.list \in [Slots -> 0 .. N]
      /\ \A m \in 1 .. N : Get(H, m, "friend") \in 0 .. N
  BY TypedOf DEF TypedHeaps, LinkFields
<1>2. /\ L \in [1 .. N -> Int] /\ \A m \in 1 .. N : FriendRight(H, L, m)
      /\ \A j \in Slots : H.list[j] # NULL => L[H.list[j]] = j
      /\ Unled(H, S.ref_in_form) /\ Unled(H, S.ref_in_sheet)
      /\ S.ref_in_form # NULL => S.ref_in_form # S.ref_in_sheet
  BY DEF FriendsRight
<1>3. Tag(H, n) + Line(H, n) = i
  <2>1. Type(H, n) \in ContentTypes /\ "friend" \in Fields[Type(H, n)]
    BY <1>1, NodesOf
  <2>2. Type(H, n) \notin {"ref", "input", "sheet", "form"}
    BY <2>1, FieldsOf
  <2>3. QED
    BY <2>2, OwnOf
<1>4. /\ G \in TypedHeaps /\ Count(G) = N
      /\ \A m \in 1 .. N :
           /\ Type(G, m) = Type(H, m)
           /\ Get(G, m, "tag") = Get(H, m, "tag") /\ Get(G, m, "line") = Get(H, m, "line")
  <2>1. \A m \in 1 .. N : m \in 0 .. N
    BY <1>1
  <2>2. QED
    BY <2>1 DEF Befriends
<1>5. CASE i < 0
  <2>1. G.list = H.list /\ \A m \in 1 .. N : Get(G, m, "friend") = Get(H, m, "friend")
    <3>1. \A m \in 1 .. N : m \in 0 .. N
      BY <1>1
    <3>2. QED
      BY <1>3, <1>5, <3>1 DEF Befriends
  <2> HIDE DEF i, k
  <2>2. ASSUME NEW m \in 1 .. N
        PROVE  FriendRight(G, L, m)
    <3>1. FriendRight(H, L, m)
      BY <1>2
    <3>2. Get(H, m, "friend") # NULL => Get(H, m, "friend") \in 1 .. N
      BY <1>1 DEF NULL
    <3>3. QED
      BY <1>4, <2>1, <3>1, <3>2 DEF FriendRight
  <2>3. FriendsRight(G, L, S)
    BY <1>2, <1>4, <2>1, <2>2 DEF FriendsRight, Unled
  <2>4. QED
    BY <2>3
<1>6. CASE ~(i < 0)
  <2> DEFINE M == [L EXCEPT ![n] = k]
  <2>1. /\ k \in Slots /\ G.list = [H.list EXCEPT ![k] = n]
        /\ \A m \in 1 .. N : Get(G, m, "friend") = IF m = n THEN H.list[k] ELSE Get(H, m, "friend")
    <3>1. \A m \in 1 .. N : m \in 0 .. N
      BY <1>1
    <3>2. QED
      BY <1>3, <1>6, <3>1 DEF Befriends
  <2>2. k \in Int /\ k # -1
    BY <2>1, ListsAssumption DEF Slots
  <2>3. M \in [1 .. N -> Int] /\ M[n] = k /\ \A m \in 1 .. N : m # n => M[m] = L[m]
    BY <1>2, <2>2
  <2>4. (Get(G, n, "tag") + Get(G, n, "line")) % NumberOfLists = k
    BY <1>4
  <2> HIDE DEF i, k, M, N
  <2>5. H.list[k] \in 0 .. N /\ (H.list[k] # NULL => L[H.list[k]] = k /\ H.list[k] # n /\ H.list[k] \in 1 .. N)
    BY <1>1, <1>2, <2>1, <2>2 DEF NULL
  <2>6. G.list[k] = n /\ \A j \in Slots : j # k => G.list[j] = H.list[j]
    BY <1>1, <2>1
  <2>7. n # NULL /\ \A j \in Slots : H.list[j] # n
    BY <1>1, <1>2, ListsAssumption DEF NULL, Slots, N
  <2>8. FriendRight(G, M, n)
    <3>1. ASSUME H.list[k] # NULL
          PROVE  /\ M[H.list[k]] = M[n]
                 /\ \A m \in 1 .. N : Get(G, m, "friend") = H.list[k] => m = n
                 /\ \A j \in Slots : G.list[j] # H.list[k]
      <4>1. M[H.list[k]] = M[n]
        BY <2>3, <2>5, <3>1
      <4>2. \A m \in 1 .. N : Get(G, m, "friend") = H.list[k] => m = n
        BY <1>2, <2>1, <3>1 DEF FriendRight
      <4>3. \A j \in Slots : j # k => H.list[j] # H.list[k]
        BY <1>2, <2>5, <3>1
      <4>4. QED
        BY <4>1, <4>2, <4>3, <2>5, <2>6, <3>1
    <3>2. Type(G, n) # "ref" /\ Get(G, n, "friend") = H.list[k] /\ n \in 1 .. N
      BY <1>4, <2>1 DEF N
    <3>3. QED
      BY <1>4, <2>1, <2>2, <2>3, <2>4, <3>1, <3>2 DEF FriendRight
  <2>9. ASSUME NEW m \in 1 .. N, m # n
        PROVE  FriendRight(G, M, m)
    <3> DEFINE f == Get(H, m, "friend")
    <3>1. FriendRight(H, L, m)
      BY <1>2
    <3>2. Get(G, m, "friend") = f /\ M[m] = L[m]
      BY <2>1, <2>3, <2>9
    <3>3. ASSUME f # NULL
          PROVE  /\ f \in 1 .. N /\ f # n /\ M[f] = M[m]
                 /\ \A o \in 1 .. N : Get(G, o, "friend") = f => o = m
                 /\ \A j \in Slots : G.list[j] # f
      <4>1. f \in 1 .. N
        BY <1>1, <3>3 DEF NULL
      <4>2. f # n
        BY <3>1, <3>3 DEF FriendRight
      <4>3. \A o \in 1 .. N : Get(H, o, "friend") = f => o = m
        BY <3>1, <3>3 DEF FriendRight, N
      <4>4. \A j \in Slots : H.list[j] # f
        BY <3>1, <3>3 DEF FriendRight
      <4>5. L[f] = L[m]
        BY <3>1, <3>3 DEF FriendRight
      <4> HIDE DEF f
      <4>6. M[f] = M[m]
        BY <2>3, <3>2, <4>1, <4>2, <4>5
      <4>7. \A o \in 1 .. N : Get(G, o, "friend") = f => o = m
        BY <2>1, <4>3, <4>4
      <4>8. \A j \in Slots : G.list[j] # f
        BY <2>6, <4>2, <4>4
      <4>9. QED
        BY <4>1, <4>2, <4>6, <4>7, <4>8
    <3>4. Type(G, m) = Type(H, m) /\ (f # NULL => Type(G, f) = Type(H, f))
      BY <1>4, <3>3
    <3>5. QED
      BY <1>4, <3>1, <3>2, <3>3, <3>4 DEF FriendRight
  <2>10. \A j \in Slots : G.list[j] # NULL => M[G.list[j]] = j
    <3> TAKE j \in Slots
    <3>1. CASE j = k
      BY <2>3, <2>6, <3>1
    <3>2. CASE j # k /\ G.list[j] # NULL
      <4>1. G.list[j] = H.list[j] /\ H.list[j] \in 1 .. N /\ H.list[j] # n /\ L[H.list[j]] = j
        BY <1>1, <1>2, <2>6, <2>7, <3>2 DEF NULL
      <4>2. QED
        BY <2>3, <4>1
    <3>3. QED
      BY <3>1, <3>2
  <2>11. ASSUME NEW r, Unled(H, r), Is(H, r, {"ref"})
         PROVE  Unled(G, r)
    <3>1. SUFFICES ASSUME r # NULL
                   PROVE  \A m \in 1 .. N : Get(G, m, "friend") # r
      BY <1>4 DEF Unled
    <3>2. r \in 1 .. N /\ Type(H, r) = "ref" /\ \A m \in 1 .. N : Get(H, m, "friend") # r
      BY <2>11, <3>1 DEF Is, Unled, N
    <3>3. L[r] = -1
      BY <1>2, <3>2 DEF FriendRight
    <3>4. H.list[k] # r
      BY <2>2, <2>5, <3>1, <3>3
    <3>5. QED
      BY <2>1, <3>2, <3>4
  <2>12. FriendsRight(G, M, S)
    BY <1>2, <1>4, <2>3, <2>8, <2>9, <2>10, <2>11 DEF FriendsRight, RefsOf
  <2>13. QED
    BY <2>3, <2>12 DEF N
<1>7. QED
  BY <1>5, <1>6

(* Several nodes that are in no list yet, each once.                       *)
LEMMA SomeFriends ==
  ASSUME NEW H \in TypedHeaps, NEW L, NEW S, FriendsRight(H, L, S), RefsOf(H, S),
         NEW s \in Seq(1 .. Count(H)),
         \A a, b \in 1 .. Len(s) : s[a] = s[b] => a = b,
         \A a \in 1 .. Len(s) : Has(H, s[a], "friend") /\ Type(H, s[a]) # "ref" /\ L[s[a]] = -1
  PROVE  \E L2 : /\ FriendsRight(Befriended(H, s), L2, S)
                 /\ \A m \in 1 .. Count(H) : (\A a \in 1 .. Len(s) : s[a] # m) => L2[m] = L[m]
<1>1. PICK after \in [0 .. Len(s) -> TypedHeaps] :
        /\ after[0] = H /\ Befriended(H, s) = after[Len(s)]
        /\ \A i \in 0 .. Len(s) : Count(after[i]) = Count(H)
        /\ \A i \in 1 .. Len(s) : Befriends(after[i - 1], after[i], s[i])
  BY BefriendedOf
<1> DEFINE l == Len(s)
           N == Count(H)
           Right(i, M) ==
             /\ FriendsRight(after[i], M, S)
             /\ \A m \in 0 .. N : Type(after[i], m) = Type(H, m)
                                  /\ (Has(after[i], m, "friend") <=> Has(H, m, "friend"))
             /\ \A m \in 1 .. N : (\A a \in 1 .. l : a <= i => s[a] # m) => M[m] = L[m]
           T == {i \in 0 .. l : \E M : Right(i, M)}
<1>2. l \in Nat /\ N \in Nat /\ \A a \in 1 .. l : s[a] \in 1 .. N
  BY LenProperties, TypedOf, ElementOfSeq
<1>3. 0 \in T
  BY <1>1, <1>2
<1>4. ASSUME NEW i \in 0 .. l, i < l /\ i \in T
      PROVE  i + 1 \in T
  <2> DEFINE j == i + 1
  <2>1. SUFFICES \E M : Right(j, M)
    BY <1>2, <1>4
  <2>2. i \in 0 .. l /\ j \in 1 .. l /\ j - 1 = i /\ i <= l /\ j \in 0 .. l
        /\ \A a \in 1 .. l : a <= i => a # j /\ a <= j
    BY <1>2, <1>4
  <2>3. PICK M : Right(i, M)
    BY <1>4
  <2>4. /\ after[i] \in TypedHeaps /\ Count(after[i]) = N /\ Count(after[j]) = N
        /\ Befriends(after[i], after[j], s[j]) /\ s[j] \in 1 .. N
    BY <1>1, <1>2, <2>2
  <2>5. /\ Has(after[i], s[j], "friend") /\ Type(after[i], s[j]) # "ref" /\ M[s[j]] = -1
    <3>1. s[j] \in 0 .. N /\ Has(H, s[j], "friend") /\ Type(H, s[j]) # "ref" /\ L[s[j]] = -1
      BY <1>2, <2>2, <2>4
    <3>2. \A a \in 1 .. l : a <= i => s[a] # s[j]
      BY <2>2
    <3>3. QED
      BY <2>3, <2>4, <3>1, <3>2
  <2>6. RefsOf(after[i], S)
    BY <2>3, <2>4, <1>2 DEF RefsOf, Is
  <2> HIDE DEF l, N, j
  <2>7. PICK K : /\ FriendsRight(after[j], K, S)
                 /\ \A m \in 1 .. N : m # s[j] => K[m] = M[m]
    BY <2>3, <2>4, <2>5, <2>6, OneFriend
  <2>8. \A m \in 0 .. N : Type(after[j], m) = Type(H, m)
                          /\ (Has(after[j], m, "friend") <=> Has(H, m, "friend"))
    BY <2>3, <2>4 DEF Befriends
  <2>9. \A m \in 1 .. N : (\A a \in 1 .. l : a <= j => s[a] # m) => K[m] = L[m]
    <3> TAKE m \in 1 .. N
    <3>1. SUFFICES ASSUME \A a \in 1 .. l : a <= j => s[a] # m
                   PROVE  K[m] = L[m]
      OBVIOUS
    <3>2. s[j] # m
      BY <3>1, <2>2, <1>2 DEF j
    <3>3. \A a \in 1 .. l : a <= i => s[a] # m
      BY <3>1, <2>2
    <3>4. QED
      BY <2>3, <2>7, <3>2, <3>3
  <2>10. QED
    BY <2>7, <2>8, <2>9
<1>5. 0 .. l \subseteq T
  <2> HIDE DEF T, l
  <2>1. QED
    BY <1>2, <1>3, <1>4, Induction
<1>6. PICK M : Right(l, M)
  BY <1>2, <1>5
<1>7. FriendsRight(Befriended(H, s), M, S)
  BY <1>1, <1>6
<1>8. \A m \in 1 .. N : (\A a \in 1 .. l : s[a] # m) => M[m] = L[m]
  BY <1>2, <1>6
<1>9. QED
  BY <1>7, <1>8

(* The nodes that wait in the lists of heading boundary nodes: each once,  *)
(* and in no list of friends.                                              *)
Waits(H, L, x) ==
  \A i \in 1 .. Len(x) : \A a \in 1 .. Len(x[i]) :
    /\ Type(H, x[i][a]) = "boundary" /\ L[x[i][a]] = -1
    /\ \A j \in 1 .. Len(x) : \A b \in 1 .. Len(x[j]) : x[i][a] = x[j][b] => i = j /\ a = b
(* A vbox becomes a friend when nothing was put into it, and is left then. *)
Childless(H, L, p) ==
  \A n \in 1 .. Count(H) :
    Type(H, n) = "vbox" /\ L[n] # -1 => Get(H, n, "child") = NULL /\ n # p
FriendInv ==
  \E L : FriendsRight(heap, L, scanner) /\ Waits(heap, L, cur.x) /\ Childless(heap, L, cur.parent)

(* The waiting nodes of one list become friends.                           *)
Waiting(H, L, s) ==
  /\ s \in Seq(1 .. Count(H)) /\ \A a, b \in 1 .. Len(s) : s[a] = s[b] => a = b
  /\ \A a \in 1 .. Len(s) : Type(H, s[a]) = "boundary" /\ L[s[a]] = -1
Apart(k, L, M, s) == \A m \in 1 .. k : (\A a \in 1 .. Len(s) : s[a] # m) => M[m] = L[m]

LEMMA WaitsOf ==
  ASSUME NEW H, NEW x \in Seq(Seq(1 .. Count(H))), NEW L, Waits(H, L, x), NEW i \in 1 .. Len(x)
  PROVE  Waiting(H, L, x[i])
<1>1. x[i] \in Seq(1 .. Count(H))
  BY ElementOfSeq
<1>2. QED
  BY <1>1 DEF Waits, Waiting

LEMMA WaitingBefriended ==
  ASSUME NEW H \in TypedHeaps, NEW L, NEW S, FriendsRight(H, L, S), RefsOf(H, S),
         NEW s, Waiting(H, L, s)
  PROVE  \E M : FriendsRight(Befriended(H, s), M, S) /\ Apart(Count(H), L, M, s)
<1>1. s \in Seq(1 .. Count(H)) /\ \A a, b \in 1 .. Len(s) : s[a] = s[b] => a = b
  BY DEF Waiting
<1>2. ASSUME NEW a \in 1 .. Len(s)
      PROVE  Has(H, s[a], "friend") /\ Type(H, s[a]) # "ref" /\ L[s[a]] = -1
  <2>1. s[a] \in 1 .. Count(H) /\ Type(H, s[a]) = "boundary" /\ L[s[a]] = -1
    BY <1>1, ElementOfSeq DEF Waiting
  <2>2. H \in Heaps /\ "boundary" \in ContentTypes
    BY TypedOf DEF ContentTypes
  <2>3. "friend" \in Fields["boundary"]
    BY <2>2, FieldsOf
  <2>4. Has(H, s[a], "friend")
    BY <2>1, <2>2, <2>3, NodesOf
  <2>5. QED
    BY <2>1, <2>4
<1>3. QED
  BY <1>1, <1>2, SomeFriends DEF Apart

LEMMA WaitingSet ==
  ASSUME NEW H \in TypedHeaps, NEW L, NEW S, FriendsRight(H, L, S), RefsOf(H, S),
         NEW x, Waiting(H, L, x[1]), NEW child \in 1 .. Count(H), NEW b
  PROVE  \E M : FriendsRight(HandleSetTlc(H, x, child, b), M, S) /\ Apart(Count(H), L, M, x[1])
<1> DEFINE s == x[1]
           N == {s[i] : i \in 1 .. Len(s)}
           G == SetTlc(H, s, child)
<1>1. s \in Seq(1 .. Count(H)) /\ \A a \in 1 .. Len(s) : L[s[a]] = -1
  BY DEF Waiting
<1>2. Touch(H, G, N, {"tag", "line"}) /\ G.list = H.list
  BY <1>1, SetTlcTouch
<1>3. \A n \in 1 .. Count(H) : n \in N => L[n] = -1
  BY <1>1
<1>4. G \in TypedHeaps /\ Count(G) = Count(H) /\ \A m \in 0 .. Count(H) : Type(G, m) = Type(H, m)
  BY <1>2 DEF Touch
<1> HIDE DEF G, N
<1>5. FriendsRight(G, L, S)
  BY <1>2, <1>3, KeepsFriends
<1>6. RefsOf(G, S)
  BY <1>4, TypedOf DEF RefsOf, Is
<1>7. Waiting(G, L, s)
  <2>1. \A a \in 1 .. Len(s) : s[a] \in 0 .. Count(H)
    BY <1>1, ElementOfSeq, TypedOf
  <2>2. QED
    BY <1>4, <2>1 DEF Waiting
<1>8. CASE b
  <2>1. HandleSetTlc(H, x, child, b) = Befriended(G, s)
    BY <1>8 DEF HandleSetTlc, G
  <2>2. QED
    BY <1>4, <1>5, <1>6, <1>7, <2>1, WaitingBefriended
<1>9. CASE ~b
  <2>1. HandleSetTlc(H, x, child, b) = G
    BY <1>9 DEF HandleSetTlc, G
  <2>2. QED
    BY <1>5, <2>1 DEF Apart
<1>10. QED
  BY <1>8, <1>9

(* The lists move: y has nothing but lists of x behind the first j.        *)
Shifted(y, x, d, j) ==
  \A i \in 1 .. Len(y) : Len(y[i]) = 0 \/ (i + d \in 1 .. Len(x) /\ i + d > j /\ y[i] = x[i + d])

LEMMA Shifts ==
  ASSUME NEW k \in Nat, NEW x \in Seq(Seq(1 .. k)), Len(x) >= 1
  PROVE  /\ Shifted(<<(<<>>)>> \o x, x, -1, 0)
         /\ Shifted(<<(<<>>)>> \o Tail(x), x, 0, 1)
         /\ Len(x) >= 2 => Shifted(<<(<<>>)>> \o Tail(Tail(x)), x, 1, 2)
<1> DEFINE X == Seq(1 .. k)
           l == Len(x)
<1>1. <<>> \in X /\ Len(<<>>) = 0 /\ l \in Nat /\ l >= 1
  BY EmptySeq, LenProperties
<1> HIDE DEF X
<1>2. ASSUME NEW s \in Seq(X)
      PROVE  /\ Len(<<(<<>>)>> \o s) = Len(s) + 1 /\ (<<(<<>>)>> \o s)[1] = <<>>
             /\ \A i \in 1 .. Len(s) : (<<(<<>>)>> \o s)[i + 1] = s[i]
             /\ Len(s) \in Nat
  BY <1>1, Before, LenProperties
<1>3. ASSUME NEW s \in Seq(X), NEW d \in Int, NEW j \in Int, NEW i \in 1 .. Len(<<(<<>>)>> \o s),
             \A n \in 1 .. Len(s) : n + 1 + d \in 1 .. Len(x) /\ n + 1 + d > j /\ s[n] = x[n + 1 + d]
      PROVE  LET y == <<(<<>>)>> \o s IN
             Len(y[i]) = 0 \/ (i + d \in 1 .. Len(x) /\ i + d > j /\ y[i] = x[i + d])
  <2> DEFINE y == <<(<<>>)>> \o s
  <2>1. CASE i = 1
    BY <1>1, <1>2, <2>1
  <2>2. CASE i # 1
    <3>1. PICK n \in 1 .. Len(s) : i = n + 1
      <4>1. i - 1 \in 1 .. Len(s) /\ i = (i - 1) + 1
        BY <1>2, <2>2
      <4>2. QED
        BY <4>1
    <3>2. y[i] = s[n]
      BY <1>2, <3>1
    <3>3. n + 1 + d = i + d
      BY <3>1
    <3>4. QED
      BY <1>3, <3>1, <3>2, <3>3
  <2>3. QED
    BY <2>1, <2>2
<1>4. x \in Seq(X) /\ Tail(x) \in Seq(X) /\ Len(Tail(x)) = l - 1
      /\ \A n \in 1 .. Len(Tail(x)) : Tail(x)[n] = x[n + 1]
  BY <1>1, HeadTailProperties DEF X
<1>5. Shifted(<<(<<>>)>> \o x, x, -1, 0)
  <2>1. \A n \in 1 .. Len(x) : n + 1 + (-1) \in 1 .. Len(x) /\ n + 1 + (-1) > 0 /\ x[n] = x[n + 1 + (-1)]
    <3>1. \A n \in 1 .. l : n + 1 + (-1) = n /\ n > 0
      BY <1>1
    <3>2. QED
      BY <3>1
  <2>2. QED
    BY <1>3, <1>4, <2>1 DEF Shifted
<1>6. Shifted(<<(<<>>)>> \o Tail(x), x, 0, 1)
  <2>1. \A n \in 1 .. Len(Tail(x)) :
          n + 1 + 0 \in 1 .. Len(x) /\ n + 1 + 0 > 1 /\ Tail(x)[n] = x[n + 1 + 0]
    <3>1. \A n \in 1 .. l - 1 : n + 1 + 0 = n + 1 /\ n + 1 \in 1 .. l /\ n + 1 > 1
      BY <1>1
    <3>2. QED
      BY <1>4, <3>1
  <2>2. QED
    BY <1>3, <1>4, <2>1 DEF Shifted
<1>7. ASSUME l >= 2
      PROVE  Shifted(<<(<<>>)>> \o Tail(Tail(x)), x, 1, 2)
  <2> DEFINE t == Tail(x)
             u == Tail(t)
  <2>1. t \in Seq(X) /\ Len(t) = l - 1 /\ \A n \in 1 .. l - 1 : t[n] = x[n + 1]
    BY <1>4
  <2> HIDE DEF t, l
  <2>2. t # <<>>
    BY <1>1, <1>7, <2>1
  <2>3. u \in Seq(X) /\ Len(u) = l - 2 /\ \A n \in 1 .. l - 2 : u[n] = t[n + 1]
    BY <1>1, <1>7, <2>1, <2>2, HeadTailProperties
  <2> HIDE DEF u
  <2>4. \A n \in 1 .. l - 2 : n + 1 \in 1 .. l - 1 /\ n + 1 + 1 \in 1 .. l /\ n + 1 + 1 > 2
    BY <1>1
  <2>5. \A n \in 1 .. l - 2 : u[n] = x[n + 1 + 1]
    <3> TAKE n \in 1 .. l - 2
    <3>1. n + 1 \in 1 .. l - 1 /\ u[n] = t[n + 1]
      BY <2>3, <2>4
    <3>2. \A m \in 1 .. l - 1 : t[m] = x[m + 1]
      BY <2>1
    <3>3. QED
      BY <3>1, <3>2
  <2>6. \A n \in 1 .. Len(u) : n + 1 + 1 \in 1 .. Len(x) /\ n + 1 + 1 > 2 /\ u[n] = x[n + 1 + 1]
    BY <2>3, <2>4, <2>5 DEF l
  <2>7. Shifted(<<(<<>>)>> \o u, x, 1, 2)
    BY <1>3, <2>3, <2>6 DEF Shifted
  <2>8. QED
    BY <2>7 DEF u, t
<1>8. QED
  BY <1>5, <1>6, <1>7

(* What still waits, waits.                                                *)
LEMMA WaitsShifted ==
  ASSUME NEW H, NEW L, NEW x, Waits(H, L, x), Len(x) \in Nat, NEW y, Len(y) \in Nat,
         NEW d \in Int, NEW j \in Int, Shifted(y, x, d, j), NEW G, NEW M,
         \A i \in 1 .. Len(x) : \A a \in 1 .. Len(x[i]) :
           i > j => Type(G, x[i][a]) = "boundary" /\ M[x[i][a]] = -1
  PROVE  Waits(G, M, y)
<1>1. SUFFICES ASSUME NEW i \in 1 .. Len(y), NEW a \in 1 .. Len(y[i])
               PROVE  /\ Type(G, y[i][a]) = "boundary" /\ M[y[i][a]] = -1
                      /\ \A n \in 1 .. Len(y) : \A b \in 1 .. Len(y[n]) :
                           y[i][a] = y[n][b] => i = n /\ a = b
  BY DEF Waits
<1> DEFINE m == i + d
<1>2. m \in 1 .. Len(x) /\ m > j /\ y[i] = x[m]
  <2>1. Len(y[i]) # 0
    <3> DEFINE l == Len(y[i])
    <3>1. a \in 1 .. l
      OBVIOUS
    <3> HIDE DEF l
    <3>2. l # 0
      BY <3>1
    <3>3. QED
      BY <3>2 DEF l
  <2>2. QED
    BY <2>1 DEF Shifted
<1>3. ASSUME NEW n \in 1 .. Len(y), NEW b \in 1 .. Len(y[n]), y[i][a] = y[n][b]
      PROVE  i = n /\ a = b
  <2> DEFINE o == n + d
  <2>1. o \in 1 .. Len(x) /\ y[n] = x[o]
    <3>1. Len(y[n]) # 0
      <4> DEFINE l == Len(y[n])
      <4>1. b \in 1 .. l
        OBVIOUS
      <4> HIDE DEF l
      <4>2. l # 0
        BY <4>1
      <4>3. QED
        BY <4>2 DEF l
    <3>2. QED
      BY <3>1 DEF Shifted
  <2>2. m = o => i = n
    OBVIOUS
  <2> HIDE DEF m, o
  <2>3. m = o /\ a = b
    BY <1>2, <1>3, <2>1 DEF Waits
  <2>4. QED
    BY <2>2, <2>3
<1> HIDE DEF m
<1>4. QED
  BY <1>2, <1>3

(* The friends, the nodes that wait in x and the vboxes that p is none of. *)
Stage(H, L, x, p) ==
  /\ H \in TypedHeaps /\ RefsOf(H, scanner) /\ FriendsRight(H, L, scanner)
  /\ x \in Seq(Seq(1 .. Count(H))) /\ Waits(H, L, x) /\ Childless(H, L, p)
Staged(H, x, p) == \E L : Stage(H, L, x, p)

LEMMA StageOf ==
  ASSUME NEW H, NEW L, NEW x, NEW p, Stage(H, L, x, p)
  PROVE  /\ Len(x) \in Nat /\ Count(H) \in Nat
         /\ \A i \in 1 .. Len(x) : x[i] \in Seq(1 .. Count(H)) /\ Len(x[i]) \in Nat /\ Waiting(H, L, x[i])
         /\ \A i \in 1 .. Len(x) : \A a \in 1 .. Len(x[i]) :
              x[i][a] \in 1 .. Count(H) /\ x[i][a] \in 0 .. Count(H)
<1> DEFINE k == Count(H)
<1>1. k \in Nat /\ x \in Seq(Seq(1 .. k)) /\ Len(x) \in Nat
  BY TypedOf, LenProperties DEF Stage
<1>2. \A i \in 1 .. Len(x) : Waiting(H, L, x[i])
  BY WaitsOf DEF Stage
<1> HIDE DEF k
<1>3. \A i \in 1 .. Len(x) : x[i] \in Seq(1 .. k) /\ Len(x[i]) \in Nat
  BY <1>1, ElementOfSeq, LenProperties
<1>4. ASSUME NEW i \in 1 .. Len(x), NEW a \in 1 .. Len(x[i])
      PROVE  x[i][a] \in 1 .. k /\ x[i][a] \in 0 .. k
  BY <1>1, <1>3, ElementOfSeq
<1>5. QED
  BY <1>1, <1>2, <1>3, <1>4 DEF k

(* A node is attached.                                                     *)
LEMMA StageAttached ==
  ASSUME NEW H, NEW x, NEW p, Staged(H, x, p), scanner \in Scanners(Count(H)),
         NEW G, NEW type \in Inner, NEW data, Plain(data), NEW c, NEW q,
         Attached(H, G, type, data, c, q), c = NULL => q = p
  PROVE  \E M : Stage(G, M, x, p) /\ M[Fresh(H)] = -1
<1>1. PICK L : Stage(H, L, x, p)
  BY DEF Staged
<1> DEFINE M == More(H, L)
           k == Count(H)
<1>2. H \in TypedHeaps /\ Longer(H, G) /\ k \in Nat /\ Fresh(H) = k + 1 /\ Count(G) = k + 1
      /\ G \in TypedHeaps /\ \A m \in 0 .. k : Type(G, m) = Type(H, m)
  <2>1. H \in TypedHeaps
    BY <1>1 DEF Stage
  <2>2. Longer(H, G)
    BY <2>1, AttachedLonger
  <2>3. k \in Nat /\ Fresh(H) = k + 1 /\ Count(G) = k + 1 /\ G \in TypedHeaps
    BY <2>1, AttachedGrown
  <2>4. \A m \in 0 .. k : Type(G, m) = Type(H, m)
    BY DEF Attached
  <2>5. QED
    BY <2>1, <2>2, <2>3, <2>4
<1>3. FriendsRight(G, M, scanner) /\ M[Fresh(H)] = -1 /\ \A n \in 1 .. k : M[n] = L[n]
  BY <1>1, <1>2, MoreFriends DEF Stage
<1> HIDE DEF M, k
<1>4. RefsOf(G, scanner)
  <2>1. \A n \in 1 .. k : n \in 1 .. Count(G) /\ n \in 0 .. k
    BY <1>2
  <2>2. QED
    BY <1>1, <1>2, <2>1 DEF Stage, RefsOf, Is, k
<1>5. x \in Seq(Seq(1 .. Count(G)))
  <2>1. 1 .. k \subseteq 1 .. k + 1
    BY <1>2
  <2>2. Seq(1 .. k) \subseteq Seq(1 .. k + 1)
    BY <2>1, SeqMonotonic
  <2>3. Seq(Seq(1 .. k)) \subseteq Seq(Seq(1 .. k + 1))
    BY <2>2, SeqMonotonic
  <2>4. QED
    BY <1>1, <1>2, <2>3 DEF Stage, k
<1>6. Waits(G, M, x)
  <2>1. \A i \in 1 .. Len(x) : \A a \in 1 .. Len(x[i]) : x[i][a] \in 1 .. k /\ x[i][a] \in 0 .. k
    BY <1>1, StageOf DEF k
  <2>2. QED
    BY <1>1, <1>2, <1>3, <2>1 DEF Stage, Waits
<1>7. Childless(G, M, p)
  <2> SUFFICES ASSUME NEW n \in 1 .. Count(G), Type(G, n) = "vbox", M[n] # -1
               PROVE  Get(G, n, "child") = NULL /\ n # p
    BY DEF Childless
  <2>1. n \in 1 .. k /\ n \in 0 .. k
    BY <1>2, <1>3
  <2>2. Get(H, n, "child") = NULL /\ n # p
    BY <1>1, <1>2, <1>3, <2>1 DEF Stage, Childless, k
  <2>3. Get(G, n, "child") = IF c = NULL /\ n = q THEN Fresh(H) ELSE Get(H, n, "child")
    BY <2>1 DEF Attached, k
  <2>4. QED
    BY <2>2, <2>3
<1>8. QED
  BY <1>1, <1>2, <1>3, <1>4, <1>5, <1>6, <1>7 DEF Stage

(* What is not about friends.                                              *)
LEMMA StageTouch ==
  ASSUME NEW H, NEW L, NEW x, NEW p, Stage(H, L, x, p), NEW G, NEW N, NEW F, Touch(H, G, N, F),
         "friend" \notin F, "child" \notin F, G.list = H.list,
         \A n \in 1 .. Count(H) :
           n \in N /\ Type(H, n) \in Sorted /\ L[n] # -1 => "tag" \notin F /\ "line" \notin F
  PROVE  Stage(G, L, x, p)
<1>1. /\ G \in TypedHeaps /\ Count(G) = Count(H)
      /\ \A m \in 0 .. Count(H) : Type(G, m) = Type(H, m) /\ Get(G, m, "child") = Get(H, m, "child")
  BY DEF Touch
<1>2. FriendsRight(G, L, scanner)
  BY KeepsFriends DEF Stage
<1>3. \A n \in 1 .. Count(H) : n \in 0 .. Count(H)
  BY TypedOf DEF Stage
<1>4. RefsOf(G, scanner)
  BY <1>1, <1>3 DEF Stage, RefsOf, Is
<1>5. Waits(G, L, x)
  <2>1. \A i \in 1 .. Len(x) : \A a \in 1 .. Len(x[i]) : x[i][a] \in 0 .. Count(H)
    BY StageOf
  <2>2. QED
    BY <1>1, <2>1 DEF Stage, Waits
<1>6. Childless(G, L, p)
  BY <1>1, <1>3 DEF Stage, Childless
<1>7. QED
  BY <1>1, <1>2, <1>4, <1>5, <1>6 DEF Stage

(* A node that does not wait becomes a friend.                             *)
LEMMA StageFriend ==
  ASSUME NEW H, NEW L, NEW x, NEW p, Stage(H, L, x, p), NEW n \in 1 .. Count(H),
         Has(H, n, "friend"), Type(H, n) # "ref", L[n] = -1,
         \A i \in 1 .. Len(x) : \A a \in 1 .. Len(x[i]) : x[i][a] # n,
         NEW q, q \in 1 .. Count(H) => q = p \/ Type(H, q) # "vbox" \/ Get(H, q, "child") # NULL,
         Type(H, n) = "vbox" => Get(H, n, "child") = NULL /\ q # n
  PROVE  Staged(MakeFriendTlc(H, n), x, q)
<1> DEFINE G == MakeFriendTlc(H, n)
<1>1. H \in TypedHeaps /\ Befriends(H, G, n)
  BY MakeFriendOf DEF Stage
<1> HIDE DEF G
<1>2. PICK M : FriendsRight(G, M, scanner) /\ \A m \in 1 .. Count(H) : m # n => M[m] = L[m]
  BY <1>1, OneFriend DEF Stage
<1>3. /\ G \in TypedHeaps /\ Count(G) = Count(H)
      /\ \A m \in 0 .. Count(H) : Type(G, m) = Type(H, m) /\ Get(G, m, "child") = Get(H, m, "child")
  BY <1>1 DEF Befriends
<1>4. \A m \in 1 .. Count(H) : m \in 0 .. Count(H)
  BY <1>1, TypedOf
<1>5. RefsOf(G, scanner)
  BY <1>3, <1>4 DEF Stage, RefsOf, Is
<1>6. Waits(G, M, x)
  <2>1. ASSUME NEW i \in 1 .. Len(x), NEW a \in 1 .. Len(x[i])
        PROVE  Type(G, x[i][a]) = "boundary" /\ M[x[i][a]] = -1
    <3>1. x[i][a] \in 1 .. Count(H)
      BY StageOf
    <3>2. Type(H, x[i][a]) = "boundary" /\ L[x[i][a]] = -1
      BY DEF Stage, Waits
    <3>3. x[i][a] # n
      OBVIOUS
    <3>4. QED
      BY <1>2, <1>3, <1>4, <3>1, <3>2, <3>3
  <2>2. Waits(H, L, x)
    BY DEF Stage
  <2>3. QED
    BY <2>1, <2>2 DEF Waits
<1>7. Childless(G, M, q)
  <2> SUFFICES ASSUME NEW m \in 1 .. Count(H), Type(G, m) = "vbox", M[m] # -1
               PROVE  Get(G, m, "child") = NULL /\ m # q
    BY <1>3 DEF Childless
  <2>1. Type(H, m) = "vbox" /\ Get(G, m, "child") = Get(H, m, "child")
    BY <1>3, <1>4
  <2>2. CASE m = n
    BY <2>1, <2>2
  <2>3. CASE m # n
    <3>1. Get(H, m, "child") = NULL /\ m # p
      BY <1>2, <2>1, <2>3 DEF Stage, Childless
    <3>2. m # q
      BY <2>1, <3>1
    <3>3. QED
      BY <2>1, <3>1, <3>2
  <2>4. QED
    BY <2>2, <2>3
<1>8. Stage(G, M, x, q)
  BY <1>2, <1>3, <1>5, <1>6, <1>7 DEF Stage
<1>9. QED
  BY <1>8 DEF Staged, G

(* The first list of waiting nodes becomes one of friends: y has the other *)
(* ones.                                                                   *)
LEMMA StageApart ==
  ASSUME NEW H, NEW L, NEW x, NEW p, Stage(H, L, x, p), Len(x) >= 1, NEW y \in Seq(Seq(1 .. Count(H))),
         NEW d \in Int, Shifted(y, x, d, 1), NEW G, NEW N, NEW F, Touch(H, G, N, F), "child" \notin F,
         NEW M, FriendsRight(G, M, scanner), Apart(Count(H), L, M, x[1])
  PROVE  Stage(G, M, y, p)
<1>1. /\ H \in TypedHeaps /\ G \in TypedHeaps /\ Count(G) = Count(H)
      /\ \A m \in 0 .. Count(H) : Type(G, m) = Type(H, m) /\ Get(G, m, "child") = Get(H, m, "child")
  BY DEF Touch, Stage
<1>2. \A m \in 1 .. Count(H) : m \in 0 .. Count(H)
  BY <1>1, TypedOf
<1>3. RefsOf(G, scanner)
  BY <1>1, <1>2 DEF Stage, RefsOf, Is
<1>4. Len(x) \in Nat /\ Len(y) \in Nat /\ 1 \in 1 .. Len(x)
  BY StageOf, LenProperties
<1>5. \A i \in 1 .. Len(x) : \A a \in 1 .. Len(x[i]) :
        x[i][a] \in 1 .. Count(H) /\ Type(H, x[i][a]) = "boundary" /\ L[x[i][a]] = -1
  BY StageOf DEF Stage, Waits
<1>6. ASSUME NEW i \in 1 .. Len(x), NEW a \in 1 .. Len(x[i]), i > 1
      PROVE  Type(G, x[i][a]) = "boundary" /\ M[x[i][a]] = -1
  <2> DEFINE w == x[i][a]
  <2>1. w \in 1 .. Count(H) /\ Type(H, w) = "boundary" /\ L[w] = -1
    BY <1>5
  <2>2. \A b \in 1 .. Len(x[1]) : x[1][b] # w
    <3>1. \A b \in 1 .. Len(x[1]) : w = x[1][b] => i = 1
      BY <1>4 DEF Stage, Waits
    <3>2. QED
      BY <1>6, <3>1
  <2> HIDE DEF w
  <2>3. M[w] = L[w]
    BY <2>1, <2>2 DEF Apart
  <2>4. QED
    BY <1>1, <1>2, <2>1, <2>3 DEF w
<1>7. Waits(G, M, y)
  <2>1. Waits(H, L, x) /\ 1 \in Int
    BY DEF Stage
  <2>2. QED
    BY <1>4, <1>6, <2>1, WaitsShifted
<1>8. Childless(G, M, p)
  <2> SUFFICES ASSUME NEW m \in 1 .. Count(H), Type(G, m) = "vbox", M[m] # -1
               PROVE  Get(G, m, "child") = NULL /\ m # p
    BY <1>1 DEF Childless
  <2>1. Type(H, m) = "vbox" /\ Get(G, m, "child") = Get(H, m, "child")
    BY <1>1, <1>2
  <2>2. \A b \in 1 .. Len(x[1]) : x[1][b] # m
    BY <1>4, <1>5, <2>1
  <2>3. L[m] # -1
    BY <2>2 DEF Apart
  <2>4. QED
    BY <2>1, <2>3 DEF Stage, Childless
<1>9. QED
  BY <1>1, <1>3, <1>7, <1>8 DEF Stage

LEMMA StageSet ==
  ASSUME NEW H, NEW x, NEW p, Staged(H, x, p), Len(x) >= 1, NEW y \in Seq(Seq(1 .. Count(H))),
         NEW d \in Int, Shifted(y, x, d, 1), NEW child \in 1 .. Count(H), NEW b
  PROVE  Staged(HandleSetTlc(H, x, child, b), y, p)
<1>1. PICK L : Stage(H, L, x, p)
  BY DEF Staged
<1>2. Waiting(H, L, x[1]) /\ x[1] \in Seq(1 .. Count(H)) /\ H \in TypedHeaps
  <2>1. 1 \in 1 .. Len(x)
    BY <1>1, StageOf
  <2>2. QED
    BY <1>1, <2>1, StageOf DEF Stage
<1> DEFINE G == HandleSetTlc(H, x, child, b)
<1>3. PICK M : FriendsRight(G, M, scanner) /\ Apart(Count(H), L, M, x[1])
  BY <1>1, <1>2, WaitingSet DEF Stage
<1>4. Touch(H, G, {x[1][i] : i \in 1 .. Len(x[1])}, {"tag", "line", "friend"})
  BY <1>2, HandleSetTlcOf
<1> HIDE DEF G
<1>5. Stage(G, M, y, p)
  BY <1>1, <1>3, <1>4, StageApart
<1>6. QED
  BY <1>5 DEF Staged, G

LEMMA StageBefriended ==
  ASSUME NEW H, NEW x, NEW p, Staged(H, x, p), Len(x) >= 1, NEW y \in Seq(Seq(1 .. Count(H))),
         NEW d \in Int, Shifted(y, x, d, 1)
  PROVE  Staged(Befriended(H, x[1]), y, p)
<1>1. PICK L : Stage(H, L, x, p)
  BY DEF Staged
<1>2. Waiting(H, L, x[1]) /\ x[1] \in Seq(1 .. Count(H)) /\ H \in TypedHeaps
  <2>1. 1 \in 1 .. Len(x)
    BY <1>1, StageOf
  <2>2. QED
    BY <1>1, <2>1, StageOf DEF Stage
<1> DEFINE G == Befriended(H, x[1])
<1>3. PICK M : FriendsRight(G, M, scanner) /\ Apart(Count(H), L, M, x[1])
  BY <1>1, <1>2, WaitingBefriended DEF Stage
<1>4. Touch(H, G, {x[1][i] : i \in 1 .. Len(x[1])}, {"friend"})
  BY <1>2, BefriendedTouch
<1> HIDE DEF G
<1>5. Stage(G, M, y, p)
  BY <1>1, <1>3, <1>4, StageApart
<1>6. QED
  BY <1>5 DEF Staged, G

(* Another place, or other lists.                                          *)
LEMMA StageLists ==
  ASSUME NEW H, NEW L, NEW x, NEW p, Stage(H, L, x, p), NEW y \in Seq(Seq(1 .. Count(H))),
         NEW d \in Int, NEW j \in Int, Shifted(y, x, d, j),
         NEW q, q \in 1 .. Count(H) =>
                  q = p \/ Type(H, q) # "vbox" \/ Get(H, q, "child") # NULL \/ L[q] = -1
  PROVE  Stage(H, L, y, q)
<1>1. Waits(H, L, y)
  <2>1. Len(x) \in Nat /\ Len(y) \in Nat
    BY StageOf, LenProperties
  <2>2. Waits(H, L, x) /\ \A i \in 1 .. Len(x) : \A a \in 1 .. Len(x[i]) :
          Type(H, x[i][a]) = "boundary" /\ L[x[i][a]] = -1
    BY DEF Stage, Waits
  <2>3. QED
    BY <2>1, <2>2, WaitsShifted
<1>2. Childless(H, L, q)
  BY DEF Stage, Childless
<1>3. QED
  BY <1>1, <1>2 DEF Stage

------------------------------------------------------------------------------
(* Each record keeps the friends right.                                    *)
LEMMA InStage ==
  ASSUME TreeInv, FriendInv
  PROVE  /\ Staged(heap, cur.x, cur.parent) /\ scanner \in Scanners(Count(heap))
         /\ heap \in TypedHeaps /\ Len(cur.x) >= 1 /\ Len(cur.x) \in Nat
         /\ cur.x \in Seq(Seq(1 .. Count(heap)))
         /\ cur \in Cursors(Count(heap)) /\ Count(heap) \in Nat /\ Fresh(heap) = Count(heap) + 1
<1>1. /\ heap \in TypedHeaps /\ HandlesRight(heap, cur, scanner) /\ Count(heap) \in Nat
      /\ Fresh(heap) = Count(heap) + 1
  BY TypedOf, NodesOf DEF TreeInv
<1>2. /\ scanner \in Scanners(Count(heap)) /\ cur \in Cursors(Count(heap)) /\ Len(cur.x) >= 1
      /\ RefsOf(heap, scanner)
  BY <1>1 DEF HandlesRight, RefsOf
<1>3. cur.x \in Seq(Seq(1 .. Count(heap)))
  BY <1>2 DEF Cursors
<1>4. Len(cur.x) \in Nat
  BY <1>3, LenProperties
<1>5. Staged(heap, cur.x, cur.parent)
  BY <1>1, <1>2, <1>3 DEF FriendInv, Staged, Stage
<1>6. QED
  BY <1>1, <1>2, <1>3, <1>4, <1>5

LEMMA OutStage ==
  ASSUME NEW G, heap' = G, NEW y, cur'.x = y, NEW p, cur'.parent = p, Staged(G, y, p),
         scanner'.ref_in_form = scanner.ref_in_form, scanner'.ref_in_sheet = scanner.ref_in_sheet
  PROVE  FriendInv'
<1>1. PICK L : Stage(G, L, y, p)
  BY DEF Staged
<1>2. FriendsRight(G, L, scanner')
  BY <1>1 DEF Stage, FriendsRight
<1>3. Waits(G, L, y) /\ Childless(G, L, p)
  BY <1>1 DEF Stage
<1>4. QED
  BY <1>2, <1>3 DEF FriendInv

(* The line of an input and the visible size of a box are no one's list.   *)
LEMMA StageLine ==
  ASSUME NEW H, NEW x, NEW p, Staged(H, x, p), NEW G,
         Touch(H, G, {m \in 1 .. Count(H) : Type(H, m) = "input"}, {"line"}), G.list = H.list
  PROVE  Staged(G, x, p)
<1>1. PICK L : Stage(H, L, x, p)
  BY DEF Staged
<1>2. \A n \in 1 .. Count(H) :
        n \in {m \in 1 .. Count(H) : Type(H, m) = "input"} => Type(H, n) \notin Sorted
  BY DEF Sorted
<1>3. Stage(G, L, x, p)
  <2> DEFINE N == {m \in 1 .. Count(H) : Type(H, m) = "input"}
  <2>1. Touch(H, G, N, {"line"}) /\ \A n \in 1 .. Count(H) : n \in N => Type(H, n) \notin Sorted
    BY <1>2
  <2> HIDE DEF N
  <2>2. QED
    BY <1>1, <2>1, StageTouch
<1>4. QED
  BY <1>3 DEF Staged

LEMMA StagePlain ==
  ASSUME NEW H, NEW x, NEW p, Staged(H, x, p), NEW G, NEW N, NEW F, Touch(H, G, N, F),
         F \cap {"friend", "child", "tag", "line"} = {}, G.list = H.list
  PROVE  Staged(G, x, p)
<1>1. PICK L : Stage(H, L, x, p)
  BY DEF Staged
<1>2. Stage(G, L, x, p)
  BY <1>1, StageTouch
<1>3. QED
  BY <1>2 DEF Staged

LEMMA LeafFriends ==
  ASSUME TreeInv, FriendInv, InContent, NEW r \in Records, r.kind \in Leaves,
         NEW b, NEW size \in Size, Placed(Made(r), b, size), NEW k, NEW g, AfterLeaf(Made(r), k, g)
  PROVE  FriendInv'
<1> DEFINE n == Fresh(heap)
           A == Made(r)
           B == Friended(A, b)
           C == Followed(A, b)
           D == Contain(C, cur.parent, size)
           G == PlacedHeap(A, b, size)
           data == Read_tlchvwhd(r)
           p == Place(heap, cur)
           x == cur.x
           y == <<(<<>>)>> \o Tail(x)
<1>1. cur.mode = "content"
  BY DEF InContent
<1>2. r.kind \in Inner \ Boxes /\ Plain(data)
  BY RecordOf DEF Leaves, Boxes
<1>3. /\ Attached(heap, A, r.kind, data, cur.child, p) /\ At(heap, cur.child, p)
      /\ cur.child = NULL => p = cur.parent
  BY <1>1, <1>2, AttachOf DEF Made
<1>4. heap' = G /\ scanner' = scanner /\ cur'.x = y /\ cur'.parent = cur.parent
  <2>1. heap' = G /\ scanner' = scanner
    BY DEF Placed, PlacedHeap, Followed, Friended, A
  <2>2. cur' = [cur EXCEPT !.child = n, !.x = y, !.input = Input(A, n), !.last_k = k, !.last_g = g]
    BY DEF AfterLeaf
  <2>3. cur \in Cursors(Count(heap))
    BY InStage
  <2> HIDE DEF y, G, A
  <2>4. QED
    BY <2>1, <2>2, <2>3 DEF Cursors
<1> HIDE DEF A, x
<1>5. /\ Staged(heap, x, cur.parent) /\ scanner \in Scanners(Count(heap)) /\ heap \in TypedHeaps
      /\ Len(x) >= 1 /\ x \in Seq(Seq(1 .. Count(heap))) /\ Count(heap) \in Nat
  BY InStage DEF x
<1>6. /\ A \in TypedHeaps /\ Grown(heap, A) /\ Count(A) = Count(heap) + 1 /\ n \in 1 .. Count(A)
      /\ n = Count(heap) + 1 /\ Tree(A)
  <2>1. Tree(heap)
    BY DEF TreeInv
  <2>2. QED
    BY <2>1, <1>2, <1>3, <1>5, AttachedGrown, AttachedTree
<1>7. PICK L : Stage(A, L, x, cur.parent) /\ L[n] = -1
  BY <1>2, <1>3, <1>5, StageAttached
<1>8. Staged(B, x, cur.parent)
  <2>1. CASE b /\ cur.form = NULL
    <3>1. B = MakeFriendTlc(A, n)
      BY <2>1 DEF Friended
    <3>2. Type(A, n) = r.kind /\ r.kind \notin {"ref", "boundary", "vbox"} /\ r.kind \in ContentTypes
      BY <1>2, <1>3 DEF Attached, Leaves, Inner
    <3>3. Has(A, n, "friend")
      <4>1. "friend" \in Fields[r.kind]
        BY <3>2, <1>2, FieldsOf DEF Inner
      <4>2. A \in Heaps
        BY <1>6, TypedOf
      <4>3. QED
        BY <4>1, <4>2, <3>2, <1>6, NodesOf
    <3>4. \A i \in 1 .. Len(x) : \A a \in 1 .. Len(x[i]) : x[i][a] # n
      <4>1. PICK M : Stage(heap, M, x, cur.parent)
        BY <1>5 DEF Staged
      <4>2. \A i \in 1 .. Len(x) : \A a \in 1 .. Len(x[i]) : x[i][a] \in 1 .. Count(heap)
        BY <4>1, StageOf
      <4>3. n \notin 1 .. Count(heap)
        BY <1>5, <1>6
      <4>4. QED
        BY <4>2, <4>3
    <3>5. QED
      BY <1>6, <1>7, <3>1, <3>2, <3>3, <3>4, StageFriend
  <2>2. CASE ~(b /\ cur.form = NULL)
    BY <1>7, <2>2 DEF Friended, Staged
  <2>3. QED
    BY <2>1, <2>2
<1>9. Touch(A, B, {n}, {"friend"}) /\ B \in TypedHeaps /\ Count(B) = Count(A)
  <2>1. Touch(A, B, {n}, {"friend"})
    BY <1>6, FriendedOf
  <2>2. QED
    BY <2>1 DEF Touch
<1> HIDE DEF n, B
<1>10. Staged(C, y, cur.parent)
  <2>1. C = HandleSetTlc(B, x, n, cur.form = NULL)
    BY DEF Followed, n, x, B
  <2>2. Shifted(y, x, 0, 1) /\ y \in Seq(Seq(1 .. Count(heap)))
    BY <1>5, Shifts, Lists
  <2>3. y \in Seq(Seq(1 .. Count(B)))
    <3>1. 1 .. Count(heap) \subseteq 1 .. Count(B)
      BY <1>5, <1>6, <1>9
    <3>2. Seq(1 .. Count(heap)) \subseteq Seq(1 .. Count(B))
      BY <3>1, SeqMonotonic
    <3>3. QED
      BY <3>2, <2>2, SeqMonotonic
  <2> HIDE DEF y, C
  <2>4. QED
    BY <1>5, <1>6, <1>8, <1>9, <2>1, <2>2, <2>3, StageSet
<1>11. C \in TypedHeaps
  BY <1>10 DEF Staged, Stage
<1>12. /\ Touch(C, D, {cur.parent}, {"visible"}) /\ D.list = C.list
       /\ Touch(D, G, {m \in 1 .. Count(A) : Type(A, m) = "input"}, {"line"}) /\ G.list = C.list
       /\ Count(D) = Count(A) /\ \A m \in 1 .. Count(A) : Type(D, m) = Type(A, m)
  <2>1. /\ Touch(A, B, {n}, {"friend"})
        /\ Touch(B, C, {cur.x[1][i] : i \in 1 .. Len(cur.x[1])}, {"tag", "line", "friend"})
        /\ Touch(C, D, {cur.parent}, {"visible"})
        /\ Touch(D, G, {m \in 1 .. Count(A) : Type(A, m) = "input"}, {"line"})
        /\ G.list = C.list /\ cur.parent \in 1 .. Count(heap)
    BY <1>1, <1>6, PlacedOf DEF n, B
  <2> HIDE DEF C, D, G
  <2>2. Grown(A, B) /\ Grown(B, C) /\ Grown(C, D) /\ Count(C) = Count(A) /\ Count(D) = Count(A)
    BY <2>1, <1>6, <1>9, <1>11, TouchGrown
  <2>3. \A m \in 1 .. Count(A) : Type(D, m) = Type(A, m)
    <3>1. \A m \in 1 .. Count(A) : m \in 0 .. Count(A)
      BY <1>6, TypedOf
    <3>2. QED
      BY <3>1, <2>2, <1>9 DEF Grown
  <2>4. D.list = C.list
    <3>1. cur.parent \in 1 .. Count(C)
      BY <1>5, <1>6, <2>1, <2>2
    <3>2. QED
      BY <1>11, <3>1, ContainOf DEF D
  <2>5. QED
    BY <2>1, <2>2, <2>3, <2>4
<1> HIDE DEF C, D, G
<1>13. Staged(D, y, cur.parent)
  BY <1>10, <1>12, StagePlain
<1>14. Staged(G, y, cur.parent)
  <2>1. {m \in 1 .. Count(A) : Type(A, m) = "input"} = {m \in 1 .. Count(D) : Type(D, m) = "input"}
    BY <1>12
  <2>2. QED
    BY <1>12, <1>13, <2>1, StageLine
<1>15. QED
  BY <1>4, <1>14, OutStage

(* A heading boundary node waits in the innermost list.                    *)
LEMMA StageHead ==
  ASSUME NEW H, NEW L, NEW x, NEW p, Stage(H, L, x, p), Len(x) >= 1, NEW n \in 1 .. Count(H),
         Type(H, n) = "boundary", L[n] = -1,
         \A i \in 1 .. Len(x) : \A a \in 1 .. Len(x[i]) : x[i][a] # n
  PROVE  Stage(H, L, [x EXCEPT ![1] = <<n>> \o @], p)
<1> DEFINE k == Count(H)
           z == <<n>> \o x[1]
           y == [x EXCEPT ![1] = <<n>> \o @]
<1>1. k \in Nat /\ x \in Seq(Seq(1 .. k)) /\ Len(x) \in Nat /\ Waits(H, L, x) /\ n \in 1 .. k
  BY StageOf DEF Stage
<1>2. x[1] \in Seq(1 .. k) /\ 1 \in 1 .. Len(x)
  BY <1>1, ElementOfSeq
<1>3. /\ Len(z) = Len(x[1]) + 1 /\ z[1] = n /\ \A i \in 1 .. Len(x[1]) : z[i + 1] = x[1][i]
      /\ Len(x[1]) \in Nat
  BY <1>1, <1>2, Before, LenProperties
<1>4. y \in Seq(Seq(1 .. k)) /\ Len(y) = Len(x)
  BY <1>1, Lists
<1>5. y[1] = z /\ \A i \in 1 .. Len(x) : i # 1 => y[i] = x[i]
  BY <1>1, <1>2
<1> HIDE DEF z, y, k
<1>6. ASSUME NEW a \in 1 .. Len(z)
      PROVE  a = 1 \/ \E b \in 1 .. Len(x[1]) : a = b + 1 /\ z[a] = x[1][b]
  <2>1. a # 1 => a - 1 \in 1 .. Len(x[1]) /\ a = (a - 1) + 1
    BY <1>3
  <2>2. QED
    BY <1>3, <2>1
<1>7. ASSUME NEW i \in 1 .. Len(x), NEW a \in 1 .. Len(y[i])
      PROVE  \/ i = 1 /\ a = 1 /\ y[i][a] = n
             \/ \E b \in 1 .. Len(x[i]) : y[i][a] = x[i][b] /\ b = IF i = 1 THEN a - 1 ELSE a
  <2>1. CASE i = 1
    <3>1. a \in 1 .. Len(z) /\ y[i] = z
      BY <1>5, <2>1
    <3>2. CASE a = 1
      BY <1>3, <2>1, <3>1, <3>2
    <3>3. CASE a # 1
      <4>1. PICK b \in 1 .. Len(x[1]) : a = b + 1 /\ z[a] = x[1][b]
        BY <1>6, <3>1, <3>3
      <4>2. b = a - 1
        BY <1>3, <4>1
      <4>3. QED
        BY <2>1, <3>1, <4>1, <4>2
    <3>4. QED
      BY <3>2, <3>3
  <2>2. CASE i # 1
    BY <1>5, <2>2
  <2>3. QED
    BY <2>1, <2>2
<1>8. Waits(H, L, y)
  <2> SUFFICES ASSUME NEW i \in 1 .. Len(x), NEW a \in 1 .. Len(y[i])
               PROVE  /\ Type(H, y[i][a]) = "boundary" /\ L[y[i][a]] = -1
                      /\ \A j \in 1 .. Len(x) : \A b \in 1 .. Len(y[j]) :
                           y[i][a] = y[j][b] => i = j /\ a = b
    BY <1>4 DEF Waits
  <2>1. Type(H, y[i][a]) = "boundary" /\ L[y[i][a]] = -1
    <3>1. CASE y[i][a] = n
      BY <3>1
    <3>2. CASE y[i][a] # n
      <4>1. PICK b \in 1 .. Len(x[i]) : y[i][a] = x[i][b]
        BY <1>7, <3>2
      <4>2. Type(H, x[i][b]) = "boundary" /\ L[x[i][b]] = -1
        BY <1>1 DEF Waits
      <4>3. QED
        BY <4>1, <4>2
    <3>3. QED
      BY <3>1, <3>2
  <2>2. ASSUME NEW j \in 1 .. Len(x), NEW b \in 1 .. Len(y[j]), y[i][a] = y[j][b]
        PROVE  i = j /\ a = b
    <3>1. \/ i = 1 /\ a = 1 /\ y[i][a] = n
          \/ \E c \in 1 .. Len(x[i]) : y[i][a] = x[i][c] /\ c = IF i = 1 THEN a - 1 ELSE a
      BY <1>7
    <3>2. \/ j = 1 /\ b = 1 /\ y[j][b] = n
          \/ \E c \in 1 .. Len(x[j]) : y[j][b] = x[j][c] /\ c = IF j = 1 THEN b - 1 ELSE b
      BY <1>7
    <3>3. CASE y[i][a] = n
      BY <2>2, <3>1, <3>2, <3>3
    <3>4. CASE y[i][a] # n
      <4>1. PICK c \in 1 .. Len(x[i]) : y[i][a] = x[i][c] /\ c = IF i = 1 THEN a - 1 ELSE a
        BY <3>1, <3>4
      <4>2. PICK d \in 1 .. Len(x[j]) : y[j][b] = x[j][d] /\ d = IF j = 1 THEN b - 1 ELSE b
        BY <2>2, <3>2, <3>4
      <4>3. i = j /\ c = d
        <5>1. \A o \in 1 .. Len(x) : \A e \in 1 .. Len(x[o]) : x[i][c] = x[o][e] => i = o /\ c = e
          BY <1>1 DEF Waits
        <5>2. x[i][c] = x[j][d]
          BY <2>2, <4>1, <4>2
        <5>3. QED
          BY <5>1, <5>2
      <4>4. a \in Int /\ b \in Int
        OBVIOUS
      <4>5. QED
        BY <4>1, <4>2, <4>3, <4>4
    <3>5. QED
      BY <3>3, <3>4
  <2>3. QED
    BY <2>1, <2>2
<1>9. QED
  BY <1>4, <1>8 DEF Stage, y, k

(* A box is left.                                                          *)
LEMMA StageLeft ==
  ASSUME NEW H, NEW p, Staged(H, cur.x, p), Len(cur.x) >= 2, cur.parent \in 1 .. Count(H)
  PROVE  Staged(Left(H), <<(<<>>)>> \o Tail(Tail(cur.x)), p)
<1> DEFINE x == cur.x
           t == Tail(x)
           y == <<(<<>>)>> \o Tail(t)
           free == cur.form = NULL
           own == IF free THEN HandleMakeFriendTlc(H, x) ELSE H
           k == Count(H)
<1>1. PICK L : Stage(H, L, x, p)
  BY DEF Staged
<1>2. k \in Nat /\ x \in Seq(Seq(1 .. k)) /\ Len(x) \in Nat /\ Len(x) >= 2 /\ H \in TypedHeaps
  BY <1>1, StageOf DEF Stage
<1>3. /\ t \in Seq(Seq(1 .. k)) /\ y \in Seq(Seq(1 .. k))
  <2>1. Len(x) >= 1
    BY <1>2
  <2> HIDE DEF x, k
  <2>2. QED
    BY <1>2, <2>1, Lists
<1>4. Len(t) >= 1
  <2>1. x # <<>>
    BY <1>2
  <2>2. Len(t) = Len(x) - 1
    BY <1>2, <2>1, HeadTailProperties
  <2>3. QED
    BY <1>2, <2>2
<1>5. Shifted(t, x, 1, 1)
  <2>1. x # <<>>
    BY <1>2
  <2>2. Len(t) = Len(x) - 1 /\ \A i \in 1 .. Len(t) : t[i] = x[i + 1]
    BY <1>2, <2>1, HeadTailProperties
  <2> DEFINE l == Len(x)
  <2> HIDE DEF t, l
  <2>3. \A i \in 1 .. l - 1 : i + 1 \in 1 .. l /\ i + 1 > 1
    BY <1>2 DEF l
  <2>4. QED
    BY <2>2, <2>3 DEF Shifted, l
<1>6. Shifted(y, t, 0, 1)
  <2> HIDE DEF t
  <2>1. QED
    BY <1>2, <1>3, <1>4, Shifts
<1>7. Staged(own, t, p) /\ Count(own) = k
  <2>1. CASE free
    <3>1. own = Befriended(H, x[1])
      BY <2>1 DEF HandleMakeFriendTlc
    <3>2. Touch(H, own, {cur.x[1][i] : i \in 1 .. Len(cur.x[1])}, {"friend"})
      BY <1>2, LeftOf
    <3>3. Count(own) = k
      BY <3>2 DEF Touch
    <3> HIDE DEF t, own, x
    <3>4. Staged(Befriended(H, x[1]), t, p)
      <4>1. Staged(H, x, p) /\ Len(x) >= 1
        BY <1>1, <1>2 DEF Staged
      <4>2. QED
        BY <1>3, <1>5, <4>1, StageBefriended
    <3>5. QED
      BY <3>1, <3>3, <3>4
  <2>2. CASE ~ free
    <3>1. own = H
      BY <2>2
    <3> HIDE DEF t, own, x
    <3>2. Stage(H, L, t, p)
      BY <1>1, <1>3, <1>5, StageLists
    <3>3. QED
      BY <3>1, <3>2 DEF Staged
  <2>3. QED
    BY <2>1, <2>2
<1>8. Left(H) = HandleSetTlc(own, t, cur.parent, free)
  BY DEF Left
<1> HIDE DEF own, t, y, free
<1>9. Staged(HandleSetTlc(own, t, cur.parent, free), y, p)
  BY <1>3, <1>4, <1>6, <1>7, StageSet
<1>10. QED
  BY <1>8, <1>9 DEF y, t

LEMMA LeavesFriends ==
  ASSUME TreeInv, FriendInv, VoidVbox \/ VoidHbox \/ Kern \/ Glue \/ Rule \/ Math
  PROVE  FriendInv'
<1>1. PICK r \in Records, b \in BOOLEAN : \E k, g : LeafWith(r, b, k, g)
  BY LeafCase
<1>2. PICK k, g : LeafWith(r, b, k, g)
  BY <1>1
<1>3. LeafSize(r) \in Size
  BY <1>2, LeafSizeOf DEF LeafWith
<1>4. QED
  BY <1>2, <1>3, LeafFriends DEF LeafWith

LEMMA BoundaryFriends ==
  ASSUME TreeInv, FriendInv, Boundary
  PROVE  FriendInv'
<1> DEFINE n == Fresh(heap)
           x == cur.x
           friend == ~ Heading
           A(r) == Made(r)
           size(r) == ContainPoint(Visible(heap, cur.parent), PointOf(A(r), n))
           y == IF Heading THEN [x EXCEPT ![1] = <<n>> \o @] ELSE x
<1>1. PICK r \in Records :
        /\ r.kind = "boundary" /\ InContent /\ scanner' = scanner
        /\ heap' = BoundedHeap(A(r), friend, size(r))
        /\ cur' = [cur EXCEPT !.child = n, !.input = Input(A(r), n),
                              !.x[1] = IF Heading THEN <<n>> \o @ ELSE @,
                              !.last_k = NULL, !.last_g = NULL]
  BY DEF Boundary, Reading, BoundedHeap, Friended
<1> DEFINE B == A(r)
           C == Friended(B, friend)
           D == Contain(C, cur.parent, size(r))
           G == BoundedHeap(B, friend, size(r))
           p == Place(heap, cur)
           data == Read_tlchvwhd(r)
<1> HIDE DEF friend
<1>2. cur.mode = "content"
  BY <1>1 DEF InContent
<1>3. r.kind \in Inner \ Boxes /\ Plain(data)
  BY <1>1, RecordOf DEF Boxes
<1>4. /\ Attached(heap, B, r.kind, data, cur.child, p) /\ At(heap, cur.child, p)
      /\ cur.child = NULL => p = cur.parent
  BY <1>2, <1>3, AttachOf DEF Made
<1>5. heap' = G
  BY <1>1
<1>6. /\ Staged(heap, x, cur.parent) /\ scanner \in Scanners(Count(heap)) /\ heap \in TypedHeaps
      /\ Len(x) >= 1 /\ Len(x) \in Nat /\ x \in Seq(Seq(1 .. Count(heap)))
      /\ cur \in Cursors(Count(heap)) /\ Count(heap) \in Nat
  BY InStage
<1>7. cur'.x = y /\ cur'.parent = cur.parent
  <2>1. CASE Heading
    BY <2>1, <1>1, <1>6 DEF Cursors
  <2>2. CASE ~ Heading
    <3>1. [x EXCEPT ![1] = @] = x
      <4>1. x = [i \in 1 .. Len(x) |-> x[i]] /\ DOMAIN x = 1 .. Len(x)
        BY <1>6
      <4>2. QED
        BY <4>1
    <3>2. QED
      BY <2>2, <3>1, <1>1, <1>6 DEF Cursors
  <2>3. QED
    BY <2>1, <2>2
<1> HIDE DEF A, x
<1>8. /\ Tree(heap) /\ B \in TypedHeaps /\ Grown(heap, B) /\ Tree(B)
      /\ Count(B) = Count(heap) + 1 /\ n = Count(heap) + 1 /\ n \in 1 .. Count(B)
  <2>1. Tree(heap)
    BY DEF TreeInv
  <2>2. QED
    BY <2>1, <1>3, <1>4, <1>6, AttachedGrown, AttachedTree
<1>9. PICK L : Stage(B, L, x, cur.parent) /\ L[n] = -1
  BY <1>3, <1>4, <1>6, StageAttached
<1>10. Type(B, n) = "boundary" /\ Has(B, n, "friend")
  <2>1. Type(B, n) = "boundary"
    BY <1>1, <1>4 DEF Attached
  <2>2. "boundary" \in ContentTypes
    BY DEF ContentTypes
  <2>3. "friend" \in Fields["boundary"]
    BY <2>2, FieldsOf
  <2>4. B \in Heaps
    BY <1>8, TypedOf
  <2>5. QED
    BY <2>1, <2>3, <2>4, <1>8, NodesOf
<1>11. \A i \in 1 .. Len(x) : \A a \in 1 .. Len(x[i]) : x[i][a] # n
  <2>1. PICK M : Stage(heap, M, x, cur.parent)
    BY <1>6 DEF Staged
  <2>2. \A i \in 1 .. Len(x) : \A a \in 1 .. Len(x[i]) : x[i][a] \in 1 .. Count(heap)
    BY <2>1, StageOf
  <2>3. n \notin 1 .. Count(heap)
    BY <1>6, <1>8
  <2>4. QED
    BY <2>2, <2>3
<1>12. cur.parent \in 1 .. Count(heap) /\ size(r) \in Size
  <2>1. cur.parent \in 1 .. Count(heap)
    BY <1>2, <1>6 DEF TreeInv, PlaceRight, Cursors, NULL
  <2>2. Visible(heap, cur.parent) \in Size /\ PointOf(B, n) \in Point
    BY <2>1, <1>6, <1>8, VisibleOf
  <2>3. QED
    BY <2>1, <2>2, KeepsSize DEF ContainPoint
<1> HIDE DEF size
<1>13. /\ Touch(B, C, {n}, {"friend"}) /\ Touch(C, D, {cur.parent}, {"visible"})
       /\ Touch(D, G, {m \in 1 .. Count(D) : Type(D, m) = "input"}, {"line"}) /\ G.list = C.list
  BY <1>2, <1>8, <1>12, BoundedOf
<1> HIDE DEF n
<1>14. Staged(C, y, cur.parent)
  <2>1. CASE Heading
    <3>1. C = B
      BY <2>1 DEF Friended, friend
    <3>2. Stage(B, L, y, cur.parent)
      BY <2>1, <1>6, <1>8, <1>9, <1>10, <1>11, StageHead
    <3>3. QED
      BY <3>1, <3>2 DEF Staged
  <2>2. CASE ~ Heading /\ cur.form = NULL
    <3>1. C = MakeFriendTlc(B, n)
      BY <2>2 DEF Friended, friend, n
    <3> HIDE DEF C
    <3>2. Staged(C, x, cur.parent)
      BY <3>1, <1>8, <1>9, <1>10, <1>11, StageFriend
    <3>3. QED
      BY <2>2, <3>2
  <2>3. CASE ~ Heading /\ cur.form # NULL
    <3>1. C = B
      BY <2>3 DEF Friended
    <3>2. QED
      BY <2>3, <3>1, <1>9 DEF Staged
  <2>4. QED
    BY <2>1, <2>2, <2>3
<1> HIDE DEF y, C
<1>15. C \in TypedHeaps /\ Count(C) = Count(B)
  BY <1>8, <1>13, TouchGrown
<1>16. D.list = C.list
  <2>1. cur.parent \in 1 .. Count(C)
    BY <1>6, <1>8, <1>12, <1>15
  <2>2. QED
    BY <2>1, <1>12, <1>15, ContainOf
<1> HIDE DEF D, G
<1>17. Staged(D, y, cur.parent)
  BY <1>13, <1>14, <1>16, StagePlain
<1>18. Staged(G, y, cur.parent)
  BY <1>13, <1>16, <1>17, StageLine
<1>19. QED
  BY <1>1, <1>5, <1>7, <1>18, OutStage

(* A ref comes at the head of its own list.                                *)
LEMMA RefFriend ==
  ASSUME NEW A \in TypedHeaps, NEW L, NEW S, FriendsRight(A, L, S), RefsOf(A, S),
         NEW n \in 1 .. Count(A), Type(A, n) = "ref", L[n] = -1, Unled(A, n),
         NEW s, s \in {S.ref_in_form, S.ref_in_sheet}, s # n, s \in 0 .. Count(A),
         NEW G, Wrote(A, G, {n}, "friend", s),
         NEW S2, \/ s = S.ref_in_form /\ S2.ref_in_form = n /\ S2.ref_in_sheet = S.ref_in_sheet
                 \/ s = S.ref_in_sheet /\ S2.ref_in_sheet = n /\ S2.ref_in_form = S.ref_in_form,
         S.ref_in_form # n, S.ref_in_sheet # n
  PROVE  FriendsRight(G, L, S2)
<1> DEFINE k == Count(A)
<1>1. /\ L \in [1 .. k -> Int] /\ \A m \in 1 .. k : FriendRight(A, L, m)
      /\ \A i \in Slots : A.list[i] # NULL => L[A.list[i]] = i
      /\ Unled(A, S.ref_in_form) /\ Unled(A, S.ref_in_sheet)
      /\ S.ref_in_form # NULL => S.ref_in_form # S.ref_in_sheet
  BY DEF FriendsRight
<1>2. A \in Heaps /\ k \in Nat /\ \A m \in 1 .. k : Get(A, m, "friend") \in 0 .. k
  BY TypedOf DEF TypedHeaps, LinkFields
<1>3. Has(A, n, "friend")
  <2>1. "ref" \in ContentTypes
    BY DEF ContentTypes
  <2>2. "friend" \in Fields["ref"]
    BY <2>1, FieldsOf
  <2>3. QED
    BY <2>2, <1>2, NodesOf
<1>4. /\ Count(G) = k /\ G.list = A.list
      /\ \A m \in 1 .. k :
           /\ Type(G, m) = Type(A, m)
           /\ Get(G, m, "friend") = IF m = n THEN s ELSE Get(A, m, "friend")
           /\ Get(G, m, "tag") = Get(A, m, "tag") /\ Get(G, m, "line") = Get(A, m, "line")
  <2>1. \A m \in 1 .. k : m \in 0 .. k
    BY <1>2
  <2>2. QED
    BY <2>1, <1>3 DEF Wrote
<1>5. Is(A, s, {"ref"}) /\ Unled(A, s)
  BY <1>1 DEF RefsOf
<1> HIDE DEF k
<1>6. n # NULL /\ n \in 1 .. k
  BY <1>2 DEF NULL, k
<1>7. ASSUME s # NULL
      PROVE  /\ s \in 1 .. k /\ Type(A, s) = "ref" /\ L[s] = -1
             /\ \A m \in 1 .. k : Get(A, m, "friend") # s
             /\ \A i \in Slots : A.list[i] # s
  <2>1. s \in 1 .. k /\ Type(A, s) = "ref" /\ \A m \in 1 .. k : Get(A, m, "friend") # s
    BY <1>5, <1>7 DEF Is, Unled, k
  <2>2. L[s] = -1
    BY <1>1, <2>1 DEF FriendRight
  <2>3. \A i \in Slots : A.list[i] # s
    BY <1>1, <1>7, <2>2, ListsAssumption DEF Slots
  <2>4. QED
    BY <2>1, <2>2, <2>3
<1>8. FriendRight(G, L, n)
  BY <1>4, <1>6, <1>7 DEF FriendRight, Sorted
<1>9. ASSUME NEW m \in 1 .. k, m # n
      PROVE  FriendRight(G, L, m)
  <2> DEFINE f == Get(A, m, "friend")
  <2>1. FriendRight(A, L, m)
    BY <1>1
  <2>2. Get(G, m, "friend") = f /\ f \in 0 .. k
    BY <1>2, <1>4, <1>9
  <2>3. ASSUME f # NULL
        PROVE  /\ f \in 1 .. k /\ L[f] = L[m]
               /\ \A o \in 1 .. k : Get(G, o, "friend") = f => o = m
               /\ \A i \in Slots : G.list[i] # f
    <3>1. f \in 1 .. k
      BY <1>2, <2>2, <2>3 DEF NULL
    <3>2. /\ \A o \in 1 .. k : Get(A, o, "friend") = f => o = m
          /\ \A i \in Slots : A.list[i] # f /\ L[f] = L[m]
      BY <2>1, <2>3 DEF FriendRight, k
    <3>3. s # f
      BY <1>7, <2>3
    <3>4. L[f] = L[m]
      BY <2>1, <2>3 DEF FriendRight
    <3>5. QED
      BY <3>1, <3>2, <3>3, <3>4, <1>4
  <2>4. Type(G, m) = Type(A, m) /\ (f # NULL => Type(G, f) = Type(A, f))
    BY <1>4, <2>3
  <2>5. QED
    BY <1>4, <2>1, <2>2, <2>3, <2>4 DEF FriendRight
<1>10. ASSUME NEW r, r = n \/ (Unled(A, r) /\ (s # NULL => r # s))
       PROVE  Unled(G, r)
  <2>1. CASE r = n
    <3>1. \A m \in 1 .. k : Get(A, m, "friend") # n
      BY <1>6 DEF Unled, k
    <3>2. QED
      BY <2>1, <3>1, <1>4 DEF Unled
  <2>2. CASE r # n
    BY <1>10, <2>2, <1>4 DEF Unled, k
  <2>3. QED
    BY <2>1, <2>2
<1>11. Unled(G, S2.ref_in_form) /\ Unled(G, S2.ref_in_sheet)
       /\ (S2.ref_in_form # NULL => S2.ref_in_form # S2.ref_in_sheet)
  <2>1. CASE s = S.ref_in_form /\ S2.ref_in_form = n /\ S2.ref_in_sheet = S.ref_in_sheet
    BY <1>1, <1>10, <2>1
  <2>2. CASE s = S.ref_in_sheet /\ S2.ref_in_sheet = n /\ S2.ref_in_form = S.ref_in_form
    <3>1. s # NULL => S.ref_in_form # s
      BY <1>1, <2>2
    <3>2. QED
      BY <1>1, <1>10, <2>2, <3>1
  <2>3. QED
    BY <2>1, <2>2
<1>12. QED
  BY <1>1, <1>4, <1>8, <1>9, <1>11 DEF FriendsRight, k

LEMMA FormRefFriends ==
  ASSUME TreeInv, FriendInv, FormRef
  PROVE  FriendInv'
<1> DEFINE n == Fresh(heap)
           x == cur.x
           refs == IF cur.form # NULL THEN "ref_in_form" ELSE "ref_in_sheet"
           s == scanner[refs]
           data(r) == [tag |-> r.tag, h |-> r.h, v |-> r.v]
<1>1. PICK r \in Records :
        /\ r.kind = "ref" /\ InContent
        /\ heap' = Set(Attach(NewRef(r), n), n, "friend", s)
        /\ scanner' = [scanner EXCEPT ![refs] = n]
        /\ cur' = [cur EXCEPT !.child = n, !.last_k = NULL, !.last_g = NULL]
  BY DEF FormRef, Reading
<1> DEFINE A == Attach(New(heap, "ref", data(r)), n)
           G == Set(A, n, "friend", s)
           p == Place(heap, cur)
<1>2. cur.mode = "content"
  BY <1>1 DEF InContent
<1>3. "ref" \in Inner
  BY DEF Inner, ContentTypes
<1>4. Plain(data(r))
  <2>1. r.tag \in Int /\ r.h \in Int /\ r.v \in Int
    BY <1>1, RecordsAssumption
  <2>2. DOMAIN data(r) = {"tag", "h", "v"} /\ \A f \in DOMAIN data(r) : data(r)[f] \in Int
    BY <2>1
  <2>3. QED
    BY <2>2 DEF Plain, LinkFields
<1>5. heap' = G
  BY <1>1 DEF NewRef
<1> HIDE DEF data
<1>6. /\ Attached(heap, A, "ref", data(r), cur.child, p)
      /\ cur.child = NULL => p = cur.parent
  BY <1>2, <1>3, <1>4, AttachOf
<1> HIDE DEF A
<1>7. /\ Staged(heap, x, cur.parent) /\ scanner \in Scanners(Count(heap)) /\ heap \in TypedHeaps
      /\ cur \in Cursors(Count(heap)) /\ Count(heap) \in Nat
  BY InStage
<1>8. /\ A \in TypedHeaps /\ Count(A) = Count(heap) + 1 /\ n = Count(heap) + 1 /\ n \in 1 .. Count(A)
      /\ Type(A, n) = "ref"
  <2>1. /\ A \in TypedHeaps /\ Count(A) = Count(heap) + 1 /\ n = Count(heap) + 1
    BY <1>3, <1>4, <1>6, <1>7, AttachedGrown DEF Fresh
  <2>2. n \in 1 .. Count(A)
    BY <1>7, <2>1
  <2>3. Type(A, n) = "ref"
    BY <1>6 DEF Attached
  <2>4. QED
    BY <2>1, <2>2, <2>3
<1>9. PICK L : Stage(A, L, x, cur.parent) /\ L[n] = -1
  BY <1>3, <1>4, <1>6, <1>7, StageAttached
<1>10. /\ scanner.ref_in_form \in 0 .. Count(heap) /\ scanner.ref_in_sheet \in 0 .. Count(heap)
       /\ s \in {scanner.ref_in_form, scanner.ref_in_sheet}
  BY <1>7 DEF Scanners
<1>11. /\ n \notin 0 .. Count(heap) /\ s \in 0 .. Count(heap) /\ s # n
       /\ scanner.ref_in_form # n /\ scanner.ref_in_sheet # n /\ s \in 0 .. Count(A)
  BY <1>7, <1>8, <1>10
<1>12. Unled(A, n)
  <2>1. ASSUME NEW m \in 1 .. Count(A)
        PROVE  Get(A, m, "friend") # n
    <3>1. Longer(heap, A)
      BY <1>4, <1>6, <1>7, AttachedLonger
    <3>2. CASE m = n
      BY <3>1, <3>2, <1>11 DEF Longer, NULL
    <3>3. CASE m # n
      <4>1. m \in 1 .. Count(heap) /\ m \in 0 .. Count(heap)
        BY <3>3, <1>7, <1>8
      <4>2. Get(A, m, "friend") = Get(heap, m, "friend")
        BY <3>1, <4>1 DEF Longer
      <4>3. Get(heap, m, "friend") \in 0 .. Count(heap)
        BY <4>1, <1>7, TypedOf DEF LinkFields
      <4>4. QED
        BY <4>2, <4>3, <1>11
    <3>4. QED
      BY <3>2, <3>3
  <2>2. QED
    BY <2>1 DEF Unled
<1>13. Wrote(A, G, {n}, "friend", s) /\ G \in TypedHeaps
  <2>1. n \in 0 .. Count(A) /\ Fit(A, "friend", s)
    BY <1>7, <1>8, <1>11 DEF Fit, LinkFields
  <2> HIDE DEF n, s
  <2>2. QED
    BY <2>1, <1>8, SetTyped
<1>14. \/ s = scanner.ref_in_form /\ scanner'.ref_in_form = n
                                  /\ scanner'.ref_in_sheet = scanner.ref_in_sheet
       \/ s = scanner.ref_in_sheet /\ scanner'.ref_in_sheet = n
                                   /\ scanner'.ref_in_form = scanner.ref_in_form
  <2> HIDE DEF n
  <2>1. QED
    BY <1>1, <1>7 DEF Scanners
<1> HIDE DEF G, s, n, x
<1>15. FriendsRight(G, L, scanner')
  <2>1. FriendsRight(A, L, scanner) /\ RefsOf(A, scanner)
    BY <1>9 DEF Stage
  <2>2. QED
    BY <2>1, <1>8, <1>9, <1>10, <1>11, <1>12, <1>13, <1>14, RefFriend
<1>16. Waits(G, L, x) /\ Childless(G, L, cur.parent)
  <2>1. /\ Count(G) = Count(A)
        /\ \A m \in 0 .. Count(A) : Type(G, m) = Type(A, m) /\ Get(G, m, "child") = Get(A, m, "child")
    BY <1>13 DEF Wrote
  <2>2. \A m \in 1 .. Count(A) : m \in 0 .. Count(A)
    BY <1>8, TypedOf
  <2>3. \A i \in 1 .. Len(x) : \A a \in 1 .. Len(x[i]) : x[i][a] \in 0 .. Count(A)
    BY <1>9, StageOf
  <2>4. QED
    BY <2>1, <2>2, <2>3, <1>9 DEF Stage, Waits, Childless
<1>17. cur'.x = x /\ cur'.parent = cur.parent
  BY <1>1, <1>7 DEF Cursors, x
<1>18. QED
  BY <1>5, <1>15, <1>16, <1>17 DEF FriendInv

(* The same lists, at another place.                                       *)
LEMMA StagePlace ==
  ASSUME NEW H, NEW L, NEW x, NEW p, Stage(H, L, x, p),
         NEW q, q \in 1 .. Count(H) =>
                  q = p \/ Type(H, q) # "vbox" \/ Get(H, q, "child") # NULL \/ L[q] = -1
  PROVE  Stage(H, L, x, q)
<1>1. Len(x) \in Nat /\ x \in Seq(Seq(1 .. Count(H))) /\ 0 \in Int
  BY StageOf DEF Stage
<1>2. Shifted(x, x, 0, 0)
  BY <1>1 DEF Shifted
<1>3. QED
  BY <1>1, <1>2, StageLists

(* A box is entered.                                                       *)
LEMMA EnteredFriends ==
  ASSUME TreeInv, FriendInv, NEW r, NEW H, NEW child, Entered(r, H, child), Grown(heap, H),
         Tree(H), Fresh(heap) \in 1 .. Count(H), Staged(H, cur.x, Fresh(heap))
  PROVE  FriendInv'
<1> DEFINE n == Fresh(heap)
           G == RegisterLine(H, n)
           x == cur.x
           y == <<(<<>>)>> \o x
<1>1. PICK L : Stage(H, L, x, n)
  BY DEF Staged
<1>2. /\ heap \in TypedHeaps /\ HandlesRight(heap, cur, scanner) /\ H \in TypedHeaps
      /\ Len(x) >= 1 /\ x \in Seq(Seq(1 .. Count(H))) /\ Count(H) \in Nat
      /\ cur \in Cursors(Count(heap))
  BY <1>1, InStage, TypedOf DEF TreeInv, Stage
<1>3. HandlesRight(H, cur, scanner)
  BY <1>2, HandlesGrow
<1>4. /\ Touch(H, G, {m \in 1 .. Count(H) : Type(H, m) = "input"}, {"line"}) /\ G.list = H.list
  BY <1>2, <1>3, RegisterLineOf DEF HandlesRight
<1>5. heap' = G /\ scanner' = scanner /\ cur'.x = y /\ cur'.parent = n
  <2>1. heap' = G /\ scanner' = scanner
    BY DEF Entered
  <2>2. cur' = [cur EXCEPT !.parent = n, !.child = child, !.x = y,
                           !.input = Input(H, n), !.last_k = NULL, !.last_g = NULL]
    BY DEF Entered
  <2> HIDE DEF y, n, G
  <2>3. QED
    BY <2>1, <2>2, <1>2 DEF Cursors
<1>6. y \in Seq(Seq(1 .. Count(H))) /\ Shifted(y, x, -1, 0)
  <2> HIDE DEF x
  <2>1. QED
    BY <1>2, Lists, Shifts
<1> HIDE DEF y, G
<1>7. Stage(H, L, y, n)
  BY <1>1, <1>6, StageLists
<1>8. Staged(G, y, n)
  BY <1>4, <1>7, StageLine DEF Staged
<1>9. QED
  BY <1>5, <1>8, OutStage

LEMMA BeginVboxFriends ==
  ASSUME TreeInv, FriendInv, BeginVbox
  PROVE  FriendInv'
<1>1. PICK r \in Records : r.kind = "vbox" /\ InContent /\ Entered(r, Made(r), NULL)
  BY DEF BeginVbox, Reading
<1> DEFINE A == Made(r)
           p == Place(heap, cur)
           data == Read_tlchvwhd(r)
<1>2. cur.mode = "content"
  BY <1>1 DEF InContent
<1>3. r.kind \in Inner /\ Plain(data)
  BY <1>1, RecordOf
<1>4. /\ Attached(heap, A, r.kind, data, cur.child, p) /\ At(heap, cur.child, p)
      /\ cur.child = NULL => p = cur.parent
  BY <1>2, <1>3, AttachOf DEF Made
<1>5. Entered(r, A, NULL)
  BY <1>1
<1> HIDE DEF A
<1>6. Staged(heap, cur.x, cur.parent) /\ scanner \in Scanners(Count(heap)) /\ heap \in TypedHeaps
      /\ Tree(heap)
  BY InStage DEF TreeInv
<1>7. Grown(heap, A) /\ Tree(A) /\ Fresh(heap) \in 1 .. Count(A)
  BY <1>3, <1>4, <1>6, AttachedGrown, AttachedTree
<1>8. PICK L : Stage(A, L, cur.x, cur.parent) /\ L[Fresh(heap)] = -1
  BY <1>3, <1>4, <1>6, StageAttached
<1>9. Staged(A, cur.x, Fresh(heap))
  BY <1>8, StagePlace DEF Staged
<1>10. QED
  BY <1>5, <1>7, <1>9, EnteredFriends

LEMMA HasFriend ==
  ASSUME NEW H \in TypedHeaps, NEW n \in 1 .. Count(H), Type(H, n) \in Inner
  PROVE  Has(H, n, "friend")
<1>1. "friend" \in Fields[Type(H, n)]
  BY FieldsOf DEF Inner
<1>2. H \in Heaps
  BY TypedOf
<1>3. QED
  BY <1>1, <1>2, NodesOf DEF Inner

LEMMA BeginHboxFriends ==
  ASSUME TreeInv, FriendInv, BeginHbox
  PROVE  FriendInv'
<1> DEFINE n == Fresh(heap)
           bdry == n + 1
           own(A) == [f \in tlchv |-> Get(A, n, f)]
           headed(A) == SetChild(New(A, "box_bdry", own(A)), n, bdry)
           final(A) == IF cur.form = NULL THEN MakeFriendTlc(headed(A), bdry) ELSE headed(A)
<1>1. PICK r \in Records : r.kind = "hbox" /\ InContent /\ Entered(r, final(Made(r)), bdry)
  BY DEF BeginHbox, Reading
<1> DEFINE A == Made(r)
           p == Place(heap, cur)
           data == Read_tlchvwhd(r)
<1>2. cur.mode = "content"
  BY <1>1 DEF InContent
<1>3. r.kind \in Inner /\ Plain(data)
  BY <1>1, RecordOf
<1>4. /\ Attached(heap, A, r.kind, data, cur.child, p) /\ At(heap, cur.child, p)
      /\ cur.child = NULL => p = cur.parent
  BY <1>2, <1>3, AttachOf DEF Made
<1>5. Entered(r, final(A), bdry)
  BY <1>1
<1> HIDE DEF A
<1>6. /\ Staged(heap, cur.x, cur.parent) /\ scanner \in Scanners(Count(heap)) /\ heap \in TypedHeaps
      /\ Tree(heap) /\ cur.x \in Seq(Seq(1 .. Count(heap))) /\ HandlesRight(heap, cur, scanner)
  BY InStage DEF TreeInv
<1>7. /\ A \in TypedHeaps /\ Grown(heap, A)
      /\ Count(A) = Count(heap) + 1 /\ n = Count(heap) + 1 /\ n \in 1 .. Count(A) /\ n # NULL
      /\ Count(heap) \in Nat
  BY <1>4, <1>6, AttachedGrown
<1>8. Tree(A)
  BY <1>3, <1>4, <1>6, <1>7, AttachedTree
<1>9. Type(A, n) = "hbox"
  BY <1>1, <1>4 DEF Attached
<1>10. Plain(own(A)) /\ "box_bdry" \in Inner
  <2>1. tlchv \subseteq NumberFields /\ tlchv \cap (LinkFields \cup {"target"}) = {}
    BY DEF tlchv, NumberFields, LinkFields
  <2>2. \A f \in tlchv : Get(A, n, f) \in Int
    BY <2>1, <1>7, TypedOf
  <2>3. DOMAIN own(A) = tlchv /\ \A f \in DOMAIN own(A) : own(A)[f] \in Int
    BY <2>2
  <2>4. QED
    BY <2>1, <2>3 DEF Plain, Inner, ContentTypes
<1> DEFINE B == headed(A)
<1>11. bdry = Fresh(A) /\ bdry = Count(A) + 1
  <2>1. Fresh(A) = Count(A) + 1
    BY DEF Fresh, Count
  <2>2. QED
    BY <2>1, <1>7
<1> HIDE DEF own
<1>12. Attached(A, B, "box_bdry", own(A), NULL, n)
  <2>1. Type(A, n) \in Roots \cup Boxes
    BY <1>9 DEF Boxes
  <2>2. QED
    BY <2>1, <1>7, <1>8, <1>10, <1>11, ChildAttached
<1> HIDE DEF headed, bdry
<1>13. /\ B \in TypedHeaps /\ Count(B) = Count(A) + 1 /\ Grown(A, B) /\ bdry \in 1 .. Count(B)
       /\ bdry # NULL
  BY <1>7, <1>11, <1>12, AttachedGrown
<1>14. PICK L : Stage(A, L, cur.x, cur.parent) /\ L[n] = -1
  BY <1>3, <1>4, <1>6, StageAttached
<1>15. Staged(A, cur.x, n)
  BY <1>14, StagePlace DEF Staged
<1>16. scanner \in Scanners(Count(A))
  <2>1. HandlesRight(A, cur, scanner)
    BY <1>6, <1>7, HandlesGrow
  <2>2. QED
    BY <2>1 DEF HandlesRight
<1>17. PICK M : Stage(B, M, cur.x, n) /\ M[bdry] = -1
  BY <1>10, <1>11, <1>12, <1>15, <1>16, StageAttached
<1>18. Type(B, bdry) = "box_bdry"
  BY <1>11, <1>12 DEF Attached
<1>19. Staged(MakeFriendTlc(B, bdry), cur.x, n)
  <2>1. Has(B, bdry, "friend")
    BY <1>13, <1>18, HasFriend DEF Inner, ContentTypes
  <2>2. \A i \in 1 .. Len(cur.x) : \A a \in 1 .. Len(cur.x[i]) : cur.x[i][a] # bdry
    <3>1. bdry \notin 1 .. Count(heap)
      BY <1>7, <1>11
    <3>2. \A i \in 1 .. Len(cur.x) : \A a \in 1 .. Len(cur.x[i]) : cur.x[i][a] \in 1 .. Count(heap)
      <4> DEFINE k == Count(heap)
                 x == cur.x
      <4>1. x \in Seq(Seq(1 .. k))
        BY <1>6
      <4> HIDE DEF k, x
      <4>2. \A i \in 1 .. Len(x) : x[i] \in Seq(1 .. k)
        BY <4>1, ElementOfSeq
      <4>3. \A i \in 1 .. Len(x) : \A a \in 1 .. Len(x[i]) : x[i][a] \in 1 .. k
        BY <4>2, ElementOfSeq
      <4>4. QED
        BY <4>3 DEF k, x
    <3>3. QED
      BY <3>1, <3>2
  <2> HIDE DEF n
  <2>3. QED
    BY <1>13, <1>17, <1>18, <2>1, <2>2, StageFriend
<1>20. Tree(B)
  <2>1. At(A, NULL, n)
    BY <1>7, <1>9 DEF At, Boxes, NULL
  <2>2. QED
    BY <2>1, <1>7, <1>8, <1>10, <1>12, AttachedTree
<1> DEFINE G == MakeFriendTlc(B, bdry)
<1>21. /\ G \in TypedHeaps /\ Tree(G) /\ Grown(B, G) /\ Count(G) = Count(B)
  <2>1. Touch(B, G, {bdry}, {"friend"})
    BY <1>13, MakeFriendOf, BefriendsTouch
  <2>2. {"friend"} \cap Links = {}
    BY DEF Links
  <2> HIDE DEF G
  <2>3. QED
    BY <2>1, <2>2, <1>13, <1>20, TouchGrown, TouchTree
<1>22. Grown(heap, B) /\ n \in 1 .. Count(B) /\ Staged(B, cur.x, n)
  <2>1. Grown(heap, B)
    BY <1>6, <1>7, <1>13, GrownTwice
  <2>2. n \in 1 .. Count(B)
    BY <1>7, <1>13
  <2>3. QED
    BY <2>1, <2>2, <1>17 DEF Staged
<1>23. final(A) = IF cur.form = NULL THEN G ELSE B
  OBVIOUS
<1> DEFINE K == final(A)
<1> HIDE DEF G
<1>24. Grown(heap, G)
  BY <1>6, <1>13, <1>21, <1>22, GrownTwice
<1>25. Staged(G, cur.x, n)
  BY <1>19 DEF G
<1> HIDE DEF final, n
<1>26. Staged(K, cur.x, n) /\ Grown(heap, K) /\ Tree(K) /\ n \in 1 .. Count(K)
  BY <1>20, <1>21, <1>22, <1>23, <1>24, <1>25
<1>27. Entered(r, K, bdry)
  BY <1>5
<1> HIDE DEF K
<1>28. QED
  BY <1>26, <1>27, EnteredFriends DEF n

(* A box has something in it when it is in another one.                    *)
LEMMA OuterOf ==
  ASSUME NEW H \in TypedHeaps, Tree(H), NEW n \in 1 .. Count(H), NEW q, q = Get(H, n, "parent")
  PROVE  q \in 1 .. Count(H) => Get(H, q, "child") # NULL /\ q < n
<1>1. Count(H) \in Nat
  BY TypedOf
<1>2. QED
  BY <1>1 DEF Tree, ParentRight, NULL

LEMMA EndVboxFriends ==
  ASSUME TreeInv, FriendInv, EndVbox
  PROVE  FriendInv'
<1> DEFINE n == cur.parent
           q == Get(heap, n, "parent")
           x == cur.x
           y == <<(<<>>)>> \o Tail(Tail(x))
           B == IF Get(heap, cur.parent, "child") = NULL /\ cur.form = NULL
                THEN MakeFriendTlc(heap, cur.parent) ELSE heap
           G == Left(B)
<1>1. /\ InContent /\ Type(heap, n) = "vbox" /\ heap' = G /\ cur' = LeftCur /\ scanner' = scanner
  BY DEF EndVbox
<1>2. /\ heap \in TypedHeaps /\ Tree(heap) /\ n \in 1 .. Count(heap) /\ Len(x) >= 2
      /\ cur \in Cursors(Count(heap))
  BY <1>1, LastList, InStage DEF TreeInv, Boxes
<1>3. cur'.x = y /\ cur'.parent = q
  <2>1. cur' = [cur EXCEPT !.child = n, !.parent = q, !.x = y, !.last_k = NULL, !.last_g = NULL]
    BY <1>1 DEF LeftCur
  <2> HIDE DEF y, n, q
  <2>2. QED
    BY <2>1, <1>2 DEF Cursors
<1> HIDE DEF y
<1>4. PICK L : Stage(heap, L, x, n)
  BY InStage DEF Staged
<1>5. q \in 1 .. Count(heap) => Get(heap, q, "child") # NULL /\ q < n
  BY <1>2, OuterOf
<1>6. q # n
  <2>1. q \in 1 .. Count(heap) => q # n
    <3> HIDE DEF q, n
    <3>1. QED
      BY <1>2, <1>5
  <2>2. QED
    BY <2>1, <1>2
<1>7. Staged(B, x, q) /\ Count(B) = Count(heap)
  <2>1. CASE Get(heap, n, "child") = NULL /\ cur.form = NULL
    <3>1. B = MakeFriendTlc(heap, n)
      BY <2>1
    <3>2. Has(heap, n, "friend")
      BY <1>1, <1>2, HasFriend DEF Inner, ContentTypes
    <3>3. L[n] = -1
      <4>1. L[n] # -1 => n # cur.parent
        BY <1>1, <1>2, <1>4 DEF Stage, Childless
      <4>2. QED
        BY <4>1
    <3>4. \A i \in 1 .. Len(x) : \A a \in 1 .. Len(x[i]) : x[i][a] # n
      <4>1. \A i \in 1 .. Len(x) : \A a \in 1 .. Len(x[i]) : Type(heap, x[i][a]) = "boundary"
        BY <1>4 DEF Stage, Waits
      <4>2. QED
        BY <4>1, <1>1
    <3> HIDE DEF q, n, B
    <3>5. Staged(MakeFriendTlc(heap, n), x, q)
      BY <1>1, <1>2, <1>4, <1>5, <1>6, <2>1, <3>2, <3>3, <3>4, StageFriend
    <3>6. Count(MakeFriendTlc(heap, n)) = Count(heap)
      BY <1>2, MakeFriendOf DEF Befriends
    <3>7. QED
      BY <3>1, <3>5, <3>6
  <2>2. CASE ~ (Get(heap, n, "child") = NULL /\ cur.form = NULL)
    <3>1. B = heap
      BY <2>2
    <3> HIDE DEF q, n, B
    <3>2. Stage(heap, L, x, q)
      BY <1>4, <1>5, StagePlace
    <3>3. QED
      BY <3>1, <3>2 DEF Staged
  <2>3. QED
    BY <2>1, <2>2
<1> HIDE DEF B
<1>8. Staged(G, y, q)
  BY <1>2, <1>7, StageLeft DEF y
<1> HIDE DEF G, q
<1>9. QED
  BY <1>1, <1>3, <1>8, OutStage

LEMMA EndHboxFriends ==
  ASSUME TreeInv, FriendInv, EndHbox
  PROVE  FriendInv'
<1> DEFINE n == cur.parent
           c == Get(heap, n, "child")
           x == cur.x
           y == <<(<<>>)>> \o Tail(Tail(x))
           B == Closed(MeanHeap, n)
           data == Closing(MeanHeap, n)
<1>1. /\ InContent /\ Type(heap, n) = "hbox" /\ n \in 1 .. Count(heap)
      /\ heap' = SeenHeap /\ cur' = LeftCur /\ scanner' = scanner
      /\ cur.child \in 1 .. Count(heap) /\ Outer \in 1 .. Count(heap)
      /\ c \in 1 .. Count(heap) /\ Type(heap, c) = "box_bdry"
      /\ Touch(heap, ChainedHeap, {n, cur.sheet}, {"next_hbox"}) /\ ChainedHeap.list = heap.list
      /\ Touch(ChainedHeap, MeanHeap, {n, c}, {"line", "mean_line", "weight"})
      /\ MeanHeap.list = ChainedHeap.list
      /\ Attached(MeanHeap, B, "box_bdry", data, cur.child, n)
      /\ \E K : /\ Touch(B, K, {Fresh(MeanHeap)}, {"tag", "line"})
                /\ Touch(K, FramedHeap, {c}, {"h", "v"})
      /\ FramedHeap.list = MeanHeap.list
      /\ Touch(FramedHeap, GluedHeap, {cur.last_k, cur.last_g}, {"tag", "line"})
      /\ GluedHeap.list = FramedHeap.list
      /\ Touch(LeftHeap, SeenHeap, {Outer}, {"visible"}) /\ SeenHeap.list = LeftHeap.list
      /\ Count(MeanHeap) = Count(heap) /\ Count(LeftHeap) = Count(heap) + 1
      /\ Tree(SeenHeap) /\ SeenHeap \in TypedHeaps /\ Grown(heap, SeenHeap)
      /\ Get(SeenHeap, n, "parent") = Outer
      /\ Len(x) >= 2
  BY EndHboxOf DEF Outer
<1> HIDE DEF c, B, data
<1>2. /\ Staged(heap, x, n) /\ scanner \in Scanners(Count(heap)) /\ heap \in TypedHeaps
      /\ cur \in Cursors(Count(heap)) /\ HandlesRight(heap, cur, scanner) /\ Count(heap) \in Nat
  BY InStage DEF TreeInv
<1>3. cur'.x = y /\ cur'.parent = Outer
  <2>1. cur' = [cur EXCEPT !.child = n, !.parent = Outer, !.x = y, !.last_k = NULL, !.last_g = NULL]
    BY <1>1 DEF LeftCur, Outer
  <2> HIDE DEF y, n
  <2>2. QED
    BY <2>1, <1>2 DEF Cursors
<1> HIDE DEF y
<1>4. Staged(ChainedHeap, x, n)
  <2>1. {"next_hbox"} \cap {"friend", "child", "tag", "line"} = {}
    OBVIOUS
  <2>2. QED
    BY <2>1, <1>1, <1>2, StagePlain
<1>5. ChainedHeap \in TypedHeaps /\ Count(ChainedHeap) = Count(heap) /\ Grown(heap, ChainedHeap)
  BY <1>1, <1>2, TouchGrown
<1>6. Type(ChainedHeap, n) = "hbox" /\ Type(ChainedHeap, c) = "box_bdry"
  <2>1. n \in 0 .. Count(heap) /\ c \in 0 .. Count(heap)
    BY <1>1
  <2>2. QED
    BY <2>1, <1>1, <1>5 DEF Grown
<1>7. Staged(MeanHeap, x, n)
  <2>1. PICK L : Stage(ChainedHeap, L, x, n)
    BY <1>4 DEF Staged
  <2>2. \A m \in {n, c} : Type(ChainedHeap, m) \notin Sorted
    BY <1>6 DEF Sorted
  <2>3. Stage(MeanHeap, L, x, n)
    BY <2>1, <2>2, <1>1, StageTouch
  <2>4. QED
    BY <2>3 DEF Staged
<1>8. MeanHeap \in TypedHeaps /\ Grown(ChainedHeap, MeanHeap) /\ Grown(heap, MeanHeap)
  <2>1. MeanHeap \in TypedHeaps /\ Grown(ChainedHeap, MeanHeap)
    BY <1>1, <1>5, TouchGrown
  <2>2. QED
    BY <2>1, <1>2, <1>5, GrownTwice
<1>9. Plain(data) /\ "box_bdry" \in Inner
  <2>1. n \in 1 .. Count(MeanHeap) /\ Type(MeanHeap, n) = "hbox"
    <3>1. n \in 0 .. Count(heap)
      BY <1>1
    <3>2. QED
      BY <3>1, <1>1, <1>8 DEF Grown
  <2>2. QED
    BY <2>1, <1>8, ClosingPlain DEF data, Inner, ContentTypes
<1>10. PICK L : Stage(B, L, x, n)
  <2>1. cur.child # NULL /\ scanner \in Scanners(Count(MeanHeap))
    BY <1>1, <1>2 DEF NULL
  <2>2. QED
    BY <2>1, <1>1, <1>7, <1>9, StageAttached
<1>11. /\ B \in TypedHeaps /\ Grown(heap, B) /\ Type(B, Fresh(MeanHeap)) = "box_bdry"
       /\ Type(B, c) = "box_bdry"
  <2>1. B \in TypedHeaps /\ Grown(MeanHeap, B)
    BY <1>1, <1>8, AttachedGrown
  <2>2. Grown(heap, B)
    BY <2>1, <1>2, <1>8, GrownTwice
  <2>3. Type(B, Fresh(MeanHeap)) = "box_bdry"
    BY <1>1 DEF Attached
  <2>4. c \in 0 .. Count(heap)
    BY <1>1
  <2>5. QED
    BY <2>1, <2>2, <2>3, <2>4, <1>1 DEF Grown
<1> DEFINE N == {Fresh(MeanHeap)} \cup {c}
           F == {"tag", "line"} \cup {"h", "v"}
<1>12. Touch(B, FramedHeap, N, F) /\ FramedHeap.list = B.list
  <2>1. Touch(B, FramedHeap, N, F)
    BY <1>1, TouchTwice
  <2>2. B.list = MeanHeap.list
    BY <1>1 DEF Attached
  <2>3. QED
    BY <2>1, <2>2, <1>1
<1>13. Stage(FramedHeap, L, x, n)
  <2>1. \A m \in N : Type(B, m) \notin Sorted
    BY <1>11 DEF Sorted
  <2>2. "friend" \notin F /\ "child" \notin F
    OBVIOUS
  <2> HIDE DEF N, F
  <2>3. QED
    BY <2>1, <2>2, <1>10, <1>12, StageTouch
<1>14. FramedHeap \in TypedHeaps /\ Grown(heap, FramedHeap)
  <2>1. FramedHeap \in TypedHeaps /\ Grown(B, FramedHeap)
    BY <1>11, <1>12, TouchGrown
  <2>2. QED
    BY <2>1, <1>2, <1>11, GrownTwice
<1>15. Stage(GluedHeap, L, x, n)
  <2>1. ASSUME NEW m \in {cur.last_k, cur.last_g}, m \in 1 .. Count(FramedHeap)
        PROVE  Type(FramedHeap, m) \notin Sorted
    <3>1. Is(heap, cur.last_k, {"kern"}) /\ Is(heap, cur.last_g, {"glue"})
      BY <1>2 DEF HandlesRight
    <3>2. m # NULL
      BY <2>1 DEF NULL
    <3>3. Type(heap, m) \in {"kern", "glue"}
      BY <3>1, <3>2 DEF Is
    <3>4. m \in 0 .. Count(heap)
      BY <1>2 DEF Cursors
    <3>5. QED
      BY <3>3, <3>4, <1>14 DEF Grown, Sorted
  <2>2. QED
    BY <2>1, <1>1, <1>13, StageTouch
<1>16. Staged(LeftHeap, y, n)
  <2>1. Count(GluedHeap) = Count(FramedHeap) /\ n \in 1 .. Count(GluedHeap)
    <3>1. Count(GluedHeap) = Count(FramedHeap)
      BY <1>1 DEF Touch
    <3>2. Count(FramedHeap) \in Nat /\ Count(heap) <= Count(FramedHeap)
      BY <1>14, TypedOf DEF Grown
    <3> HIDE DEF n
    <3>3. QED
      BY <3>1, <3>2, <1>1, <1>2
  <2>2. Staged(GluedHeap, x, n)
    BY <1>15 DEF Staged
  <2>3. QED
    BY <2>1, <2>2, <1>1, StageLeft DEF LeftHeap, y
<1>17. Staged(SeenHeap, y, n)
  <2>1. {"visible"} \cap {"friend", "child", "tag", "line"} = {}
    OBVIOUS
  <2>2. QED
    BY <2>1, <1>1, <1>16, StagePlain
<1>18. Staged(SeenHeap, y, Outer)
  <2>1. PICK M : Stage(SeenHeap, M, y, n)
    BY <1>17 DEF Staged
  <2>2. n \in 1 .. Count(SeenHeap)
    <3>1. Count(SeenHeap) = Count(LeftHeap)
      BY <1>1 DEF Touch
    <3> HIDE DEF n
    <3>2. QED
      BY <3>1, <1>1, <1>2
  <2>3. Outer \in 1 .. Count(SeenHeap) => Get(SeenHeap, Outer, "child") # NULL
    BY <2>2, <1>1, OuterOf
  <2>4. Stage(SeenHeap, M, y, Outer)
    BY <2>1, <2>3, StagePlace
  <2>5. QED
    BY <2>4 DEF Staged
<1>19. QED
  BY <1>1, <1>3, <1>18, OutStage

(* A root more, and what leaves the heap alone.                            *)
LEMMA RootedFriends ==
  ASSUME TreeInv, FriendInv, NEW type, Rooted(heap, heap', type), cur'.x = cur.x,
         cur'.parent \in {Fresh(heap), cur.parent},
         scanner'.ref_in_form = scanner.ref_in_form, scanner'.ref_in_sheet = scanner.ref_in_sheet
  PROVE  FriendInv'
<1> DEFINE n == Fresh(heap)
           x == cur.x
           k == Count(heap)
           G == heap'
           q == cur'.parent
<1>1. PICK L : Stage(heap, L, x, cur.parent)
  BY InStage DEF Staged
<1> DEFINE M == More(heap, L)
<1>2. /\ heap \in TypedHeaps /\ scanner \in Scanners(k) /\ k \in Nat /\ n = k + 1
      /\ x \in Seq(Seq(1 .. k))
  BY InStage
<1>3. Longer(heap, G)
  BY <1>2, RootedLonger
<1>4. FriendsRight(G, M, scanner) /\ M[n] = -1 /\ \A m \in 1 .. k : M[m] = L[m]
  BY <1>1, <1>2, <1>3, MoreFriends DEF Stage
<1>5. G \in TypedHeaps /\ Count(G) = k + 1 /\ Type(G, n) = type
      /\ \A m \in 0 .. k : Type(G, m) = Type(heap, m) /\ Get(G, m, "child") = Get(heap, m, "child")
  BY DEF Rooted
<1> HIDE DEF M, G
<1>6. RefsOf(G, scanner)
  <2>1. scanner.ref_in_form \in 0 .. k /\ scanner.ref_in_sheet \in 0 .. k
    BY <1>2 DEF Scanners
  <2>2. \A m \in 1 .. k : m \in 1 .. Count(G)
    BY <1>2, <1>5
  <2> HIDE DEF k
  <2>3. RefsOf(heap, scanner)
    BY <1>1 DEF Stage
  <2>4. QED
    BY <1>5, <2>1, <2>2, <2>3 DEF RefsOf, Is, k
<1>7. x \in Seq(Seq(1 .. Count(G)))
  <2>1. 1 .. k \subseteq 1 .. k + 1
    BY <1>2
  <2> HIDE DEF k
  <2>2. Seq(1 .. k) \subseteq Seq(1 .. k + 1)
    BY <2>1, SeqMonotonic
  <2>3. Seq(Seq(1 .. k)) \subseteq Seq(Seq(1 .. k + 1))
    BY <2>2, SeqMonotonic
  <2>4. QED
    BY <1>2, <1>5, <2>3
<1>8. Waits(G, M, x)
  <2>1. \A i \in 1 .. Len(x) : \A a \in 1 .. Len(x[i]) : x[i][a] \in 1 .. k /\ x[i][a] \in 0 .. k
    BY <1>1, StageOf
  <2>2. QED
    BY <1>1, <1>4, <1>5, <2>1 DEF Stage, Waits
<1>9. Childless(G, M, q)
  <2> SUFFICES ASSUME NEW m \in 1 .. Count(G), Type(G, m) = "vbox", M[m] # -1
               PROVE  Get(G, m, "child") = NULL /\ m # q
    BY DEF Childless
  <2>1. m # n
    BY <1>4
  <2>2. m \in 1 .. k /\ m \in 0 .. k
    BY <2>1, <1>2, <1>5
  <2>3. Get(heap, m, "child") = NULL /\ m # cur.parent
    BY <1>1, <1>4, <1>5, <2>2 DEF Stage, Childless
  <2>4. QED
    BY <2>1, <2>2, <2>3, <1>5
<1>10. Staged(G, x, q)
  BY <1>4, <1>5, <1>6, <1>7, <1>8, <1>9 DEF Stage, Staged
<1> HIDE DEF q, x
<1>11. QED
  BY <1>10, OutStage DEF G, q, x

LEMMA RootFriends ==
  ASSUME TreeInv, FriendInv, BeginSheet \/ BeginForm \/ MoreInput
  PROVE  FriendInv'
<1> DEFINE n == Fresh(heap)
           k == Count(heap)
<1>1. /\ heap \in TypedHeaps /\ Tree(heap) /\ HandlesRight(heap, cur, scanner)
      /\ cur \in Cursors(k) /\ scanner \in Scanners(k)
  BY DEF TreeInv, HandlesRight
<1> HIDE DEF n, k
<1>2. CASE BeginSheet
  <2>1. PICK r \in Records :
          /\ r.kind = "sheet" /\ heap' = NewSheet(r)
          /\ scanner' = [scanner EXCEPT !.sheet = IF @ = NULL THEN n ELSE @]
          /\ cur' = [cur EXCEPT !.mode = "content", !.sheet = n, !.form = NULL,
                                !.parent = n, !.child = NULL, !.last_k = NULL, !.last_g = NULL]
    BY <1>2 DEF BeginSheet, Reading, n
  <2>2. /\ cur'.x = cur.x /\ cur'.parent = n /\ scanner'.ref_in_form = scanner.ref_in_form
        /\ scanner'.ref_in_sheet = scanner.ref_in_sheet
    BY <1>1, <2>1 DEF Cursors, Scanners
  <2>3. Rooted(heap, heap', "sheet")
    BY <2>1, SheetRooted
  <2>4. QED
    BY <2>2, <2>3, RootedFriends DEF n
<1>3. CASE BeginForm
  <2>1. PICK r \in Records :
          /\ r.kind = "form" /\ heap' = NewForm(r)
          /\ scanner' = [scanner EXCEPT !.form = IF @ = NULL THEN n ELSE @]
          /\ cur' = [cur EXCEPT !.mode = "content", !.form = n, !.parent = n,
                                !.child = NULL, !.last_k = NULL, !.last_g = NULL,
                                !.form_depth = @ + 1]
    BY <1>3 DEF BeginForm, Reading, n
  <2>2. /\ cur'.x = cur.x /\ cur'.parent = n /\ scanner'.ref_in_form = scanner.ref_in_form
        /\ scanner'.ref_in_sheet = scanner.ref_in_sheet
    BY <1>1, <2>1 DEF Cursors, Scanners
  <2>3. Rooted(heap, heap', "form")
    BY <2>1, FormRooted
  <2>4. QED
    BY <2>2, <2>3, RootedFriends DEF n
<1>4. CASE MoreInput
  <2>1. PICK r \in Records :
          /\ r.kind = "input"
          /\ heap' = New(heap, "input", [tag |-> r.tag, sibling |-> scanner.input])
          /\ scanner' = [scanner EXCEPT !.input = n]
          /\ cur' = [cur EXCEPT !.input = NULL]
    BY <1>4 DEF MoreInput, Reading, n
  <2>2. /\ cur'.x = cur.x /\ cur'.parent = cur.parent /\ scanner'.ref_in_form = scanner.ref_in_form
        /\ scanner'.ref_in_sheet = scanner.ref_in_sheet
    BY <1>1, <2>1 DEF Cursors, Scanners
  <2>3. Is(heap, scanner.input, {"input"}) /\ r.tag \in Int
    BY <1>1, <2>1, RecordsAssumption DEF HandlesRight
  <2> DEFINE G == heap'
  <2>4. G = New(heap, "input", [tag |-> r.tag, sibling |-> scanner.input])
    BY <2>1
  <2> HIDE DEF G
  <2>5. Rooted(heap, G, "input")
    BY <1>1, <2>3, <2>4, InputRooted
  <2>6. QED
    BY <2>2, <2>5, RootedFriends DEF G
<1>5. QED
  BY <1>2, <1>3, <1>4

LEMMA SameHeapFriends ==
  ASSUME TreeInv, FriendInv, EndSheet \/ EndForm \/ PassOver \/ BadRecord \/ LoseRecord
  PROVE  FriendInv'
<1> DEFINE k == Count(heap)
<1>1. HandlesRight(heap, cur, scanner) /\ cur \in Cursors(k) /\ scanner \in Scanners(k)
  BY DEF TreeInv, HandlesRight
<1>2. heap' = heap /\ scanner' = scanner
  BY DEF EndSheet, EndForm, PassOver, BadRecord, LoseRecord
<1> HIDE DEF k
<1>3. cur'.x = cur.x /\ cur'.parent \in {NULL, cur.sheet, cur.parent}
  <2>1. CASE EndSheet
    BY <1>1, <2>1 DEF EndSheet, Cursors
  <2>2. CASE EndForm
    <3>1. CASE cur.sheet # NULL
      <4>1. cur' = [cur EXCEPT !.form = NULL, !.parent = cur.sheet, !.form_depth = @ - 1,
                               !.child = LastOf(Siblings(heap, @))]
        BY <2>2, <3>1 DEF EndForm
      <4>2. QED
        BY <1>1, <4>1 DEF Cursors
    <3>2. CASE cur.sheet = NULL
      <4>1. cur' = [cur EXCEPT !.mode = "main", !.form = NULL, !.parent = NULL,
                               !.child = NULL, !.form_depth = @ - 1]
        BY <2>2, <3>2 DEF EndForm
      <4>2. QED
        BY <1>1, <4>1 DEF Cursors
    <3>3. QED
      BY <3>1, <3>2
  <2>3. CASE PassOver
    BY <1>1, <2>3 DEF PassOver, Cursors
  <2>4. CASE BadRecord
    <3>1. cur' = [cur EXCEPT !.skip = TRUE, !.last_k = NULL, !.last_g = NULL]
      BY <2>4 DEF BadRecord
    <3>2. QED
      BY <1>1, <3>1 DEF Cursors
  <2>5. CASE LoseRecord
    BY <1>1, <2>5 DEF LoseRecord, Cursors
  <2>6. QED
    BY <2>1, <2>2, <2>3, <2>4, <2>5
<1>4. PICK L : Stage(heap, L, cur.x, cur.parent)
  BY InStage DEF Staged
<1>5. cur'.parent \in 1 .. Count(heap) => cur'.parent = cur.parent \/ Type(heap, cur'.parent) # "vbox"
  <2>1. NULL \notin 1 .. Count(heap)
    BY DEF NULL
  <2>2. cur.sheet # NULL => Type(heap, cur.sheet) = "sheet"
    BY <1>1 DEF HandlesRight, Is
  <2>3. QED
    BY <2>1, <2>2, <1>3
<1> DEFINE q == cur'.parent
<1> HIDE DEF q
<1>6. Stage(heap, L, cur.x, q)
  BY <1>4, <1>5, StagePlace DEF q
<1>7. Staged(heap, cur.x, q) /\ cur'.parent = q
  BY <1>6 DEF Staged, q
<1>8. QED
  BY <1>2, <1>3, <1>7, OutStage

(* Nothing waits and no ref is left when the content is read.              *)
LEMMA StartFriends ==
  ASSUME NEW H, NEW L, NEW S, FriendsRight(H, L, S), heap' = H, cur' = startCur,
         scanner'.ref_in_form = NULL, scanner'.ref_in_sheet = NULL,
         \A n \in 1 .. Count(H) : Type(H, n) = "vbox" /\ L[n] # -1 => Get(H, n, "child") = NULL
  PROVE  FriendInv'
<1>1. FriendsRight(H, L, scanner')
  BY DEF FriendsRight, Unled
<1>2. cur'.x = << <<>> >> /\ cur'.parent = NULL
  BY DEF startCur
<1>3. Waits(H, L, cur'.x)
  BY <1>2 DEF Waits
<1>4. Childless(H, L, cur'.parent)
  <2>1. \A n \in 1 .. Count(H) : n # NULL
    BY DEF NULL
  <2>2. QED
    BY <1>2, <2>1 DEF Childless
<1>5. QED
  BY <1>1, <1>3, <1>4 DEF FriendInv

LEMMA EndFriends ==
  ASSUME TreeInv, FriendInv, EndOfContent \/ EndOfFile
  PROVE  FriendInv'
<1>1. scanner \in Scanners(Count(heap))
  BY DEF TreeInv, HandlesRight
<1>2. CASE EndOfContent
  <2>1. heap' = heap /\ cur' = startCur
        /\ scanner' = [scanner EXCEPT !.ref_in_form = NULL, !.ref_in_sheet = NULL]
    BY <1>2 DEF EndOfContent, Postamble
  <2>2. scanner'.ref_in_form = NULL /\ scanner'.ref_in_sheet = NULL
    BY <1>1, <2>1 DEF Scanners
  <2>3. PICK L : FriendsRight(heap, L, scanner) /\ Childless(heap, L, cur.parent)
    BY DEF FriendInv
  <2>4. QED
    BY <2>1, <2>2, <2>3, StartFriends DEF Childless
<1>3. CASE EndOfFile
  <2>1. heap' = EmptyHeap /\ cur' = startCur /\ scanner' = [k \in DOMAIN scanner |-> NULL]
    BY <1>3 DEF EndOfFile
  <2>2. scanner'.ref_in_form = NULL /\ scanner'.ref_in_sheet = NULL
    BY <1>1, <2>1 DEF Scanners
  <2> DEFINE L == [n \in 1 .. 0 |-> -1]
  <2>3. L \in [1 .. Count(EmptyHeap) -> Int] /\ \A n \in 1 .. Count(EmptyHeap) : FALSE
    BY EmptyTyped
  <2>4. \A i \in Slots : EmptyHeap.list[i] = NULL
    BY DEF EmptyHeap, Slots
  <2> HIDE DEF L
  <2>5. FriendsRight(EmptyHeap, L, scanner')
    BY <2>2, <2>3, <2>4 DEF FriendsRight, Unled
  <2>6. QED
    BY <2>1, <2>2, <2>3, <2>5, StartFriends
<1>4. QED
  BY <1>2, <1>3

LEMMA InitFriends ==
  ASSUME Init
  PROVE  FriendInv
<1> DEFINE k == Count(heap)
           L == [n \in 1 .. k |-> -1]
<1>1. /\ heap = withInputs /\ cur = startCur
      /\ scanner.ref_in_form = NULL /\ scanner.ref_in_sheet = NULL
  BY DEF Init
<1>2. /\ \A n \in 1 .. k : Type(heap, n) = "input" /\ Get(heap, n, "friend") = NULL
      /\ \A i \in Slots : heap.list[i] = NULL
  BY <1>1, WithInputsOf DEF EmptyHeap, Slots, NULL
<1>3. L \in [1 .. k -> Int] /\ \A n \in 1 .. k : L[n] = -1
  OBVIOUS
<1> HIDE DEF L
<1>4. FriendsRight(heap, L, scanner)
  <2>1. \A n \in 1 .. k : FriendRight(heap, L, n)
    BY <1>2, <1>3 DEF FriendRight
  <2>2. QED
    BY <2>1, <1>1, <1>2, <1>3 DEF FriendsRight, Unled
<1>5. Waits(heap, L, cur.x) /\ Childless(heap, L, cur.parent)
  <2>1. cur.x = << <<>> >>
    BY <1>1 DEF startCur
  <2>2. QED
    BY <2>1, <1>3 DEF Waits, Childless
<1>6. QED
  BY <1>4, <1>5 DEF FriendInv

(* Whatever records come, a node is in one list of friends, or in none,    *)
(* and comes after one node or at the head: also what waits at the head of *)
(* a box, and an empty vbox at its end, become friends once, and what      *)
(* changes its tag or line when it is a friend is only what may.           *)
THEOREM Befriending == ContentSpec => []FriendInv
<1>1. Init => FriendInv
  BY InitFriends
<1>2. TreeInv /\ FriendInv /\ [ContentNext]_vars => FriendInv'
  <2> SUFFICES ASSUME TreeInv, FriendInv, [ContentNext]_vars
               PROVE  FriendInv'
    OBVIOUS
  <2>1. CASE BeginSheet \/ BeginForm \/ MoreInput
    BY <2>1, RootFriends
  <2>2. CASE EndSheet \/ EndForm \/ PassOver \/ BadRecord \/ LoseRecord
    BY <2>2, SameHeapFriends
  <2>3. CASE BeginVbox
    BY <2>3, BeginVboxFriends
  <2>4. CASE EndVbox
    BY <2>4, EndVboxFriends
  <2>5. CASE BeginHbox
    BY <2>5, BeginHboxFriends
  <2>6. CASE EndHbox
    BY <2>6, EndHboxFriends
  <2>7. CASE VoidVbox \/ VoidHbox \/ Kern \/ Glue \/ Rule \/ Math
    BY <2>7, LeavesFriends
  <2>8. CASE Boundary
    BY <2>8, BoundaryFriends
  <2>9. CASE FormRef
    BY <2>9, FormRefFriends
  <2>10. CASE EndOfContent \/ EndOfFile
    BY <2>10, EndFriends
  <2>11. CASE UNCHANGED vars
    BY <2>11 DEF vars, FriendInv
  <2>12. QED
    BY <2>1, <2>2, <2>3, <2>4, <2>5, <2>6, <2>7, <2>8, <2>9, <2>10, <2>11 DEF ContentNext, Read
<1>3. QED
  BY <1>1, <1>2, Attaching, PTL DEF ContentSpec

(* The lists of friends are what a query relies on, at any time while a    *)
(* file is read: no two nodes lead to the same one, every list ends, and a *)
(* rule, a math node, a boundary node or an empty vbox is in the list in   *)
(* which it is looked for by its tag and line.                             *)
THEOREM FriendsAgree == ContentSpec => []FriendLists
<1>1. TreeInv /\ FriendInv => FriendLists
  BY ListedFriends DEF TreeInv, FriendInv
<1>2. QED
  BY <1>1, Attaching, Befriending, PTL

------------------------------------------------------------------------------
(* Hboxes are upright and, with the exception of the nodes in X, the glues,*)
(* math nodes and boundary nodes of an hbox are inside what is visible.    *)
Points == {"glue", "math", "boundary"}
SeenIn(H, n) ==
  LET p == Get(H, n, "parent") IN
  (Type(H, n) \in Points /\ Type(H, p) = "hbox") =>
    Within([h |-> Get(H, n, "h"), v |-> Get(H, n, "v")], BoxOf(Get(H, p, "visible")))
Seen(H, X) ==
  \A n \in 1 .. Count(H) :
    /\ Type(H, n) = "hbox" => Upright(Get(H, n, "visible"))
    /\ n \notin X => SeenIn(H, n)

LEMMA PointTyped ==
  ASSUME NEW H \in TypedHeaps, NEW n \in 0 .. Count(H)
  PROVE  /\ [h |-> Get(H, n, "h"), v |-> Get(H, n, "v")] \in Point
         /\ Get(H, n, "parent") \in 0 .. Count(H)
         /\ Type(H, n) = "hbox" => n \in 1 .. Count(H) /\ Get(H, n, "visible") \in Size
<1>1. Get(H, n, "h") \in Int /\ Get(H, n, "v") \in Int /\ Get(H, n, "parent") \in 0 .. Count(H)
  BY TypedOf DEF NumberFields, LinkFields
<1>2. Type(H, n) = "hbox" => n \in 1 .. Count(H)
  <2>1. n = 0 => Type(H, n) = "none"
    BY DEF Type, NULL
  <2>2. Count(H) \in Nat
    BY TypedOf
  <2>3. QED
    BY <2>1, <2>2
<1>3. n \in 1 .. Count(H) /\ Type(H, n) = "hbox" => Get(H, n, "visible") \in Size
  BY DEF TypedHeaps
<1>4. QED
  BY <1>1, <1>2, <1>3 DEF Point

(* What leaves parents, places and the visible sizes alone.                *)
LEMMA TouchSeen ==
  ASSUME NEW H \in TypedHeaps, NEW X, Seen(H, X), NEW G, NEW N, NEW F, Touch(H, G, N, F),
         "parent" \notin F, "visible" \notin F,
         F \cap {"h", "v"} = {} \/ \A m \in N : Type(H, m) \notin Points
  PROVE  Seen(G, X)
<1> SUFFICES ASSUME NEW n \in 1 .. Count(G)
             PROVE  /\ Type(G, n) = "hbox" => Upright(Get(G, n, "visible"))
                    /\ n \notin X => SeenIn(G, n)
  BY DEF Seen
<1>1. n \in 1 .. Count(H) /\ n \in 0 .. Count(H) /\ Count(G) = Count(H)
  BY TypedOf DEF Touch
<1>2. \A m \in 0 .. Count(H) : /\ Type(G, m) = Type(H, m)
                               /\ Get(G, m, "parent") = Get(H, m, "parent")
                               /\ Get(G, m, "visible") = Get(H, m, "visible")
  BY DEF Touch
<1>3. Get(H, n, "parent") \in 0 .. Count(H)
  BY <1>1, PointTyped
<1>4. Type(H, n) \in Points => Get(G, n, "h") = Get(H, n, "h") /\ Get(G, n, "v") = Get(H, n, "v")
  BY <1>1 DEF Touch
<1>5. /\ Type(H, n) = "hbox" => Upright(Get(H, n, "visible"))
      /\ n \notin X => SeenIn(H, n)
  BY <1>1 DEF Seen
<1>6. QED
  BY <1>1, <1>2, <1>3, <1>4, <1>5 DEF SeenIn

(* A new node that is none of these, or that is left out for now.          *)
LEMMA AttachedSeen ==
  ASSUME NEW H \in TypedHeaps, Seen(H, {}), NEW G, NEW type, NEW data, NEW c, NEW p,
         Attached(H, G, type, data, c, p), type = "hbox" => Upright(SizeOf(G, Fresh(H)))
  PROVE  /\ Seen(G, {Fresh(H)})
         /\ type \notin Points => Seen(G, {})
<1> DEFINE k == Fresh(H)
<1>1. /\ G \in TypedHeaps /\ Count(G) = Count(H) + 1 /\ k = Count(H) + 1 /\ Count(H) \in Nat
      /\ Type(G, k) = type
  BY AttachedGrown DEF Attached
<1> HIDE DEF k
<1>2. ASSUME NEW n \in 1 .. Count(G), n # k
      PROVE  /\ Type(G, n) = "hbox" => Upright(Get(G, n, "visible"))
             /\ SeenIn(G, n)
  <2>1. n \in 1 .. Count(H) /\ n \in 0 .. Count(H)
    BY <1>1, <1>2
  <2>2. \A m \in 0 .. Count(H) : /\ Type(G, m) = Type(H, m)
                                 /\ Get(G, m, "visible") = Get(H, m, "visible")
    BY DEF Attached
  <2>3. /\ Get(G, n, "h") = Get(H, n, "h") /\ Get(G, n, "v") = Get(H, n, "v")
        /\ Get(G, n, "parent") \in {NULL, Get(H, n, "parent")}
    BY <2>1 DEF Attached
  <2>4. Get(H, n, "parent") \in 0 .. Count(H) /\ Type(G, NULL) = "none"
    BY <2>1, PointTyped DEF Type
  <2>5. /\ Type(H, n) = "hbox" => Upright(Get(H, n, "visible"))
        /\ SeenIn(H, n)
    BY <2>1 DEF Seen
  <2>6. SeenIn(G, n)
    <3>1. CASE Get(G, n, "parent") = NULL
      BY <3>1, <2>4 DEF SeenIn
    <3>2. CASE Get(G, n, "parent") = Get(H, n, "parent")
      BY <3>2, <2>1, <2>2, <2>3, <2>4, <2>5 DEF SeenIn
    <3>3. QED
      BY <3>1, <3>2, <2>3
  <2>7. QED
    BY <2>1, <2>2, <2>5, <2>6
<1>3. Type(G, k) = "hbox" => Upright(Get(G, k, "visible"))
  BY <1>1 DEF Attached, k
<1>4. type \notin Points => SeenIn(G, k)
  BY <1>1 DEF SeenIn
<1>5. Seen(G, {k})
  BY <1>2, <1>3 DEF Seen
<1>6. type \notin Points => Seen(G, {})
  BY <1>2, <1>3, <1>4 DEF Seen
<1>7. QED
  BY <1>5, <1>6 DEF k

(* The hbox p grows to the size t, which contains what was left out.       *)
LEMMA ContainSeen ==
  ASSUME NEW H \in TypedHeaps, NEW X, Seen(H, X), NEW p \in 1 .. Count(H), NEW t \in Size,
         Type(H, p) = "hbox" =>
           /\ Upright(t) /\ Inside(BoxOf(Get(H, p, "visible")), BoxOf(t))
           /\ \A m \in X \cap (1 .. Count(H)) : Get(H, m, "parent") = p =>
                Within([h |-> Get(H, m, "h"), v |-> Get(H, m, "v")], BoxOf(t)),
         \A m \in X \cap (1 .. Count(H)) : Type(H, Get(H, m, "parent")) = "hbox" =>
           Get(H, m, "parent") = p
  PROVE  Seen(Contain(H, p, t), {})
<1> DEFINE G == Contain(H, p, t)
<1>1. /\ Touch(H, G, {p}, {"visible"})
      /\ Type(H, p) = "hbox" => Get(G, p, "visible") = t
      /\ Type(H, p) # "hbox" => G = H
  BY ContainOf
<1> HIDE DEF G
<1> SUFFICES ASSUME NEW n \in 1 .. Count(G)
             PROVE  (Type(G, n) = "hbox" => Upright(Get(G, n, "visible"))) /\ SeenIn(G, n)
  BY DEF Seen, G
<1>2. n \in 1 .. Count(H) /\ n \in 0 .. Count(H) /\ Count(G) = Count(H)
  BY <1>1, TypedOf DEF Touch
<1>3. \A m \in 0 .. Count(H) : /\ Type(G, m) = Type(H, m)
                               /\ Get(G, m, "parent") = Get(H, m, "parent")
                               /\ Get(G, m, "h") = Get(H, m, "h") /\ Get(G, m, "v") = Get(H, m, "v")
                               /\ m # p => Get(G, m, "visible") = Get(H, m, "visible")
  BY <1>1 DEF Touch
<1>4. /\ Type(H, n) = "hbox" => Upright(Get(H, n, "visible"))
      /\ n \notin X => SeenIn(H, n)
  BY <1>2 DEF Seen
<1>5. Type(G, n) = "hbox" => Upright(Get(G, n, "visible"))
  BY <1>1, <1>2, <1>3, <1>4
<1> DEFINE q == Get(H, n, "parent")
           pt == [h |-> Get(H, n, "h"), v |-> Get(H, n, "v")]
<1>6. q \in 0 .. Count(H) /\ pt \in Point
  BY <1>2, PointTyped
<1>7. ASSUME Type(H, n) \in Points, Type(H, q) = "hbox"
      PROVE  Within(pt, BoxOf(Get(G, q, "visible")))
  <2>1. CASE q # p
    <3>1. n \notin X
      BY <2>1, <1>2, <1>7
    <3>2. QED
      BY <2>1, <3>1, <1>3, <1>4, <1>6, <1>7 DEF SeenIn
  <2>2. CASE q = p
    <3>1. Get(G, q, "visible") = t /\ Get(H, p, "visible") \in Size
      BY <2>2, <1>1, <1>6, <1>7, PointTyped
    <3>2. CASE n \in X
      BY <2>2, <3>1, <3>2, <1>2, <1>7
    <3>3. CASE n \notin X
      <4>1. Within(pt, BoxOf(Get(H, p, "visible"))) /\ Inside(BoxOf(Get(H, p, "visible")), BoxOf(t))
        BY <2>2, <3>3, <1>4, <1>7 DEF SeenIn
      <4> HIDE DEF pt
      <4>2. Within(pt, BoxOf(t))
        BY <4>1, <3>1, <1>6, WithinInside
      <4>3. QED
        BY <4>2, <3>1
    <3>4. QED
      BY <3>2, <3>3
  <2>3. QED
    BY <2>1, <2>2
<1>8. SeenIn(G, n)
  BY <1>2, <1>3, <1>6, <1>7 DEF SeenIn
<1>9. QED
  BY <1>5, <1>8

(* A new node is in an hbox only if that is the one that is open.          *)
LEMMA PlaceOfHbox ==
  ASSUME TreeInv, cur.mode = "content", Type(heap, Place(heap, cur)) = "hbox"
  PROVE  Place(heap, cur) = cur.parent
  BY DEF TreeInv, PlaceRight, Place

(* A new node that is no hbox, and the hbox around it that grows for it.   *)
LEMMA PlacedSeen ==
  ASSUME TreeInv, cur.mode = "content", Seen(heap, {}), NEW A, NEW type, type # "hbox", NEW data,
         Attached(heap, A, type, data, cur.child, Place(heap, cur)),
         NEW K, NEW N, NEW F, Touch(A, K, N, F), F \cap {"parent", "visible", "h", "v"} = {},
         NEW t \in Size,
         Type(heap, cur.parent) = "hbox" =>
           /\ Upright(t) /\ Inside(BoxOf(Visible(heap, cur.parent)), BoxOf(t))
           /\ type \in Points => Within(PointOf(A, Fresh(heap)), BoxOf(t))
  PROVE  Seen(Contain(K, cur.parent, t), {})
<1> DEFINE n == Fresh(heap)
           q == cur.parent
           X == IF type \in Points THEN {n} ELSE {}
<1>1. /\ heap \in TypedHeaps /\ A \in TypedHeaps /\ K \in TypedHeaps /\ Count(heap) \in Nat
      /\ Count(A) = Count(heap) + 1 /\ Count(K) = Count(A)
      /\ n = Count(heap) + 1 /\ n \in 1 .. Count(A) /\ n # NULL
      /\ Type(A, n) = type /\ Get(A, n, "parent") = Place(heap, cur)
  BY AttachedGrown DEF TreeInv, Attached, Touch
<1>2. q \in 1 .. Count(heap) /\ q \in 0 .. Count(heap) /\ q \in 1 .. Count(A) /\ q \in 0 .. Count(A)
  <2>1. q \in 0 .. Count(heap) /\ q # NULL
    BY DEF TreeInv, PlaceRight, HandlesRight, Cursors
  <2>2. QED
    BY <2>1, <1>1 DEF NULL
<1>3. Place(heap, cur) \in 0 .. Count(heap)
  BY <1>1, TypedOf DEF Place, TreeInv, HandlesRight, Cursors, LinkFields
<1>4. Seen(A, X)
  BY <1>1, AttachedSeen
<1> HIDE DEF n
<1>5. Seen(K, X)
  <2>1. "parent" \notin F /\ "visible" \notin F /\ F \cap {"h", "v"} = {}
    OBVIOUS
  <2> HIDE DEF X
  <2>2. QED
    BY <2>1, <1>1, <1>4, TouchSeen
<1>6. \A m \in 0 .. Count(A) : /\ Type(K, m) = Type(A, m)
                               /\ Get(K, m, "parent") = Get(A, m, "parent")
                               /\ Get(K, m, "visible") = Get(A, m, "visible")
                               /\ Get(K, m, "h") = Get(A, m, "h") /\ Get(K, m, "v") = Get(A, m, "v")
  BY DEF Touch
<1>7. \A m \in 0 .. Count(heap) : /\ Type(A, m) = Type(heap, m)
                                  /\ Get(A, m, "visible") = Get(heap, m, "visible")
  BY DEF Attached
<1>8. n \in 0 .. Count(A) /\ Place(heap, cur) \in 0 .. Count(A)
  BY <1>1, <1>3
<1>9. Type(K, q) = "hbox" => Visible(heap, q) = Get(K, q, "visible") /\ Type(heap, q) = "hbox"
  BY <1>1, <1>2, <1>6, <1>7, VisibleOf
<1>10. ASSUME NEW m \in X \cap (1 .. Count(K)), Type(K, Get(K, m, "parent")) = "hbox"
       PROVE  Get(K, m, "parent") = q
  <2>1. m = n
    OBVIOUS
  <2>2. Get(K, m, "parent") = Place(heap, cur)
    BY <2>1, <1>1, <1>6, <1>8
  <2>3. Type(heap, Place(heap, cur)) = "hbox"
    BY <2>2, <1>3, <1>6, <1>7, <1>8, <1>10
  <2>4. QED
    BY <2>2, <2>3, PlaceOfHbox
<1>11. ASSUME Type(K, q) = "hbox", NEW m \in X \cap (1 .. Count(K))
       PROVE  Within([h |-> Get(K, m, "h"), v |-> Get(K, m, "v")], BoxOf(t))
  <2>1. m = n /\ type \in Points
    OBVIOUS
  <2>2. PointOf(A, n) = [h |-> Get(A, n, "h"), v |-> Get(A, n, "v")]
    BY <1>1, OwnOf DEF PointOf
  <2>3. Get(K, m, "h") = Get(A, n, "h") /\ Get(K, m, "v") = Get(A, n, "v")
    BY <2>1, <1>6, <1>8
  <2>4. Within(PointOf(A, n), BoxOf(t))
    BY <2>1, <1>9, <1>11 DEF n
  <2>5. QED
    BY <2>2, <2>3, <2>4
<1>12. Type(K, q) = "hbox" => Upright(t) /\ Inside(BoxOf(Get(K, q, "visible")), BoxOf(t))
  BY <1>9
<1>13. q \in 1 .. Count(K)
  BY <1>1, <1>2
<1> HIDE DEF q, X
<1>14. Seen(Contain(K, q, t), {})
  BY <1>1, <1>5, <1>10, <1>11, <1>12, <1>13, ContainSeen
<1>15. QED
  BY <1>14 DEF q

(* The visible size an hbox gets is upright, contains the one it had and   *)
(* the place of the node it is for, if that is a glue or a math node.      *)
LEMMA LeafSizeSeen ==
  ASSUME TreeInv, InContent, Seen(heap, {}), NEW r \in Records, r.kind \in Leaves,
         Type(heap, cur.parent) = "hbox"
  PROVE  /\ Upright(LeafSize(r)) /\ Inside(BoxOf(Visible(heap, cur.parent)), BoxOf(LeafSize(r)))
         /\ r.kind \in Points => Within(PointOf(Made(r), Fresh(heap)), BoxOf(LeafSize(r)))
<1> DEFINE s == Visible(heap, cur.parent)
           sz == SizeOf(Made(r), Fresh(heap))
           pt == PointOf(Made(r), Fresh(heap))
<1>1. heap \in TypedHeaps /\ cur.parent \in 0 .. Count(heap)
  BY DEF TreeInv, HandlesRight, Cursors
<1>2. cur.parent \in 1 .. Count(heap) /\ s = Get(heap, cur.parent, "visible")
  BY <1>1, PointTyped, VisibleOf
<1>3. s \in Size /\ sz \in Size /\ pt \in Point
  BY LeafSizeOf
<1>4. Upright(s)
  BY <1>2 DEF Seen
<1>5. BoxOf(sz).min \in Point /\ BoxOf(sz).max \in Point
      /\ XobOf(sz).min \in Point /\ XobOf(sz).max \in Point
  <2> HIDE DEF sz
  <2>1. sz.h \in Int /\ sz.v \in Int /\ sz.width \in Int /\ sz.height \in Int /\ sz.depth \in Int
    BY <1>3 DEF Size
  <2>2. QED
    BY <2>1 DEF BoxOf, XobOf, Rectangle, Between, Point
<1> HIDE DEF s, sz, pt
<1>6. Inside(BoxOf(s), BoxOf(s))
  <2>1. s.h \in Int /\ s.v \in Int /\ s.width \in Int /\ s.height \in Int /\ s.depth \in Int
    BY <1>3 DEF Size
  <2>2. QED
    BY <2>1, <1>3, EdgesOfBox DEF Inside
<1>7. CASE r.kind \in {"void_hbox", "kern"}
  <2>1. \A b \in {BoxOf(sz), XobOf(sz)} :
          Upright(ContainBox(s, b)) /\ Inside(BoxOf(s), BoxOf(ContainBox(s, b)))
    BY <1>3, <1>4, <1>5, GrowsOnly DEF ContainBox
  <2>2. LeafSize(r) \in {ContainBox(s, BoxOf(sz)), ContainBox(s, XobOf(sz))}
    BY <1>7 DEF LeafSize, s, sz
  <2>3. r.kind \notin Points
    BY <1>7 DEF Points
  <2>4. QED
    BY <2>1, <2>2, <2>3 DEF s
<1>8. CASE r.kind \in {"glue", "math"}
  <2>1. LeafSize(r) = ContainPoint(s, pt)
    BY <1>8 DEF LeafSize, s, pt
  <2>2. /\ Upright(ContainPoint(s, pt)) /\ Within(pt, BoxOf(ContainPoint(s, pt)))
        /\ Inside(BoxOf(s), BoxOf(ContainPoint(s, pt)))
    BY <1>3, <1>4, ContainsThePoint
  <2>3. QED
    BY <2>1, <2>2 DEF s, pt
<1>9. CASE r.kind \notin {"void_hbox", "kern", "glue", "math"}
  <2>1. LeafSize(r) = s /\ r.kind \notin Points
    BY <1>9 DEF LeafSize, s, Leaves, Points
  <2>2. QED
    BY <2>1, <1>4, <1>6 DEF s
<1>10. QED
  BY <1>7, <1>8, <1>9

SeenInv == Seen(heap, {})

LEMMA LeavesSeen ==
  ASSUME TreeInv, SeenInv, VoidVbox \/ VoidHbox \/ Kern \/ Glue \/ Rule \/ Math
  PROVE  SeenInv'
<1>1. PICK r \in Records, b \in BOOLEAN : \E k, g : LeafWith(r, b, k, g)
  BY LeafCase
<1>2. PICK k, g : LeafWith(r, b, k, g)
  BY <1>1
<1> DEFINE n == Fresh(heap)
           A == Made(r)
           t == LeafSize(r)
           B == Friended(A, b)
           C == Followed(A, b)
           D == Contain(C, cur.parent, t)
           G == PlacedHeap(A, b, t)
           data == Read_tlchvwhd(r)
           p == Place(heap, cur)
<1>3. InContent /\ cur.mode = "content" /\ r.kind \in Leaves /\ heap' = G
  BY <1>2 DEF LeafWith, InContent, Placed, PlacedHeap, Followed, Friended
<1>4. r.kind \in Inner \ Boxes /\ Plain(data)
  BY <1>3, RecordOf DEF Leaves, Boxes
<1>5. Attached(heap, A, r.kind, data, cur.child, p) /\ At(heap, cur.child, p)
  BY <1>3, <1>4, AttachOf DEF Made
<1>6. t \in Size
  BY <1>3, LeafSizeOf
<1>7. Type(heap, cur.parent) = "hbox" =>
        /\ Upright(t) /\ Inside(BoxOf(Visible(heap, cur.parent)), BoxOf(t))
        /\ r.kind \in Points => Within(PointOf(A, n), BoxOf(t))
  BY <1>3, LeafSizeSeen DEF SeenInv
<1> HIDE DEF A, t
<1>8. /\ heap \in TypedHeaps /\ Tree(heap) /\ A \in TypedHeaps /\ Grown(heap, A)
      /\ n \in 1 .. Count(A)
  BY <1>5, AttachedGrown DEF TreeInv
<1>9. Tree(A)
  BY <1>4, <1>5, <1>8, AttachedTree
<1> DEFINE N == {n} \cup {cur.x[1][i] : i \in 1 .. Len(cur.x[1])}
           F == {"friend"} \cup {"tag", "line", "friend"}
<1>10. Touch(A, C, N, F) /\ Touch(D, G, {m \in 1 .. Count(A) : Type(A, m) = "input"}, {"line"})
  <2>1. /\ Touch(A, B, {n}, {"friend"})
        /\ Touch(B, C, {cur.x[1][i] : i \in 1 .. Len(cur.x[1])}, {"tag", "line", "friend"})
        /\ Touch(D, G, {m \in 1 .. Count(A) : Type(A, m) = "input"}, {"line"})
    BY <1>3, <1>6, <1>8, <1>9, PlacedOf
  <2> HIDE DEF B, C, D, G, n
  <2>2. QED
    BY <2>1, TouchTwice
<1>11. F \cap {"parent", "visible", "h", "v"} = {} /\ r.kind # "hbox"
  BY <1>4 DEF Boxes
<1> HIDE DEF N, F, C, G
<1>12. Seen(D, {})
  BY <1>3, <1>5, <1>6, <1>7, <1>10, <1>11, PlacedSeen DEF SeenInv
<1>13. D \in TypedHeaps
  <2>1. C \in TypedHeaps /\ cur.parent \in 0 .. Count(heap) /\ cur.parent # NULL
        /\ Count(C) = Count(A) /\ Count(A) = Count(heap) + 1 /\ Count(heap) \in Nat
    BY <1>3, <1>5, <1>10, AttachedGrown DEF Touch, TreeInv, PlaceRight, HandlesRight, Cursors
  <2>2. cur.parent \in 1 .. Count(C)
    BY <2>1 DEF NULL
  <2>3. QED
    BY <2>1, <2>2, <1>6, ContainOf, TouchGrown
<1> HIDE DEF D
<1>14. Seen(G, {})
  <2>1. "parent" \notin {"line"} /\ "visible" \notin {"line"} /\ {"line"} \cap {"h", "v"} = {}
    OBVIOUS
  <2>2. QED
    BY <2>1, <1>10, <1>12, <1>13, TouchSeen
<1>15. QED
  BY <1>3, <1>14 DEF SeenInv

LEMMA BoundarySeen ==
  ASSUME TreeInv, SeenInv, Boundary
  PROVE  SeenInv'
<1> DEFINE n == Fresh(heap)
           friend == ~ Heading
           s == Visible(heap, cur.parent)
           size(r) == ContainPoint(s, PointOf(Made(r), n))
<1>1. PICK r \in Records :
        r.kind = "boundary" /\ InContent /\ heap' = BoundedHeap(Made(r), friend, size(r))
  BY DEF Boundary, Reading, BoundedHeap, Friended
<1> DEFINE A == Made(r)
           t == size(r)
           B == Friended(A, friend)
           D == Contain(B, cur.parent, t)
           G == BoundedHeap(A, friend, t)
           p == Place(heap, cur)
           data == Read_tlchvwhd(r)
           pt == PointOf(A, n)
<1> HIDE DEF friend
<1>2. cur.mode = "content" /\ heap' = G
  BY <1>1 DEF InContent
<1>3. r.kind \in Inner \ Boxes /\ Plain(data)
  BY <1>1, RecordOf DEF Boxes
<1>4. Attached(heap, A, r.kind, data, cur.child, p) /\ At(heap, cur.child, p)
  BY <1>2, <1>3, AttachOf DEF Made
<1> HIDE DEF A
<1>5. /\ heap \in TypedHeaps /\ Tree(heap) /\ A \in TypedHeaps /\ Grown(heap, A)
      /\ n \in 1 .. Count(A) /\ Count(A) = Count(heap) + 1 /\ Count(heap) \in Nat
  BY <1>4, AttachedGrown DEF TreeInv
<1>6. Tree(A)
  BY <1>3, <1>4, <1>5, AttachedTree
<1>7. cur.parent \in 1 .. Count(heap)
  BY <1>2, <1>5 DEF TreeInv, PlaceRight, HandlesRight, Cursors, NULL
<1>8. s \in Size /\ pt \in Point /\ t = ContainPoint(s, pt)
  BY <1>5, <1>7, VisibleOf DEF A
<1>9. Type(heap, cur.parent) = "hbox" => Upright(s)
  BY <1>5, <1>7, VisibleOf DEF SeenInv, Seen
<1> HIDE DEF s, pt, size
<1>10. t \in Size
  BY <1>8, KeepsSize DEF ContainPoint
<1>11. Type(heap, cur.parent) = "hbox" =>
         Upright(t) /\ Inside(BoxOf(s), BoxOf(t)) /\ Within(pt, BoxOf(t))
  BY <1>8, <1>9, ContainsThePoint
<1> HIDE DEF t
<1>12. /\ Touch(A, B, {n}, {"friend"})
       /\ Touch(D, G, {m \in 1 .. Count(D) : Type(D, m) = "input"}, {"line"})
       /\ Touch(B, D, {cur.parent}, {"visible"})
  BY <1>2, <1>5, <1>6, <1>10, BoundedOf
<1>13. D \in TypedHeaps
  BY <1>12 DEF Touch
<1> HIDE DEF B, G
<1>14. Seen(D, {})
  <2>1. {"friend"} \cap {"parent", "visible", "h", "v"} = {}
    OBVIOUS
  <2>2. Type(heap, cur.parent) = "hbox" =>
          /\ Upright(t) /\ Inside(BoxOf(Visible(heap, cur.parent)), BoxOf(t))
          /\ r.kind \in Points => Within(PointOf(A, Fresh(heap)), BoxOf(t))
    BY <1>11 DEF s, pt
  <2>3. QED
    BY <2>1, <2>2, <1>1, <1>2, <1>4, <1>10, <1>12, PlacedSeen DEF SeenInv
<1> HIDE DEF D
<1>15. Seen(G, {})
  <2>1. "parent" \notin {"line"} /\ "visible" \notin {"line"} /\ {"line"} \cap {"h", "v"} = {}
    OBVIOUS
  <2>2. QED
    BY <2>1, <1>12, <1>13, <1>14, TouchSeen
<1>16. QED
  BY <1>2, <1>15 DEF SeenInv

LEMMA FormRefSeen ==
  ASSUME TreeInv, SeenInv, FormRef
  PROVE  SeenInv'
<1> DEFINE n == Fresh(heap)
           refs == IF cur.form # NULL THEN "ref_in_form" ELSE "ref_in_sheet"
           data(r) == [tag |-> r.tag, h |-> r.h, v |-> r.v]
<1>1. PICK r \in Records :
        /\ r.kind = "ref" /\ InContent
        /\ heap' = Set(Attach(NewRef(r), n), n, "friend", scanner[refs])
  BY DEF FormRef, Reading
<1> DEFINE A == Attach(New(heap, "ref", data(r)), n)
           G == Set(A, n, "friend", scanner[refs])
           p == Place(heap, cur)
<1>2. cur.mode = "content" /\ heap' = G
  BY <1>1 DEF InContent, NewRef
<1>3. "ref" \in Inner
  BY DEF Inner, ContentTypes
<1>4. Plain(data(r))
  <2>1. r.tag \in Int /\ r.h \in Int /\ r.v \in Int
    BY <1>1, RecordsAssumption
  <2>2. DOMAIN data(r) = {"tag", "h", "v"} /\ \A f \in DOMAIN data(r) : data(r)[f] \in Int
    BY <2>1
  <2>3. QED
    BY <2>2 DEF Plain, LinkFields
<1> HIDE DEF data
<1>5. Attached(heap, A, "ref", data(r), cur.child, p)
  BY <1>2, <1>3, <1>4, AttachOf
<1> HIDE DEF A
<1>6. /\ heap \in TypedHeaps /\ A \in TypedHeaps /\ Count(A) = Count(heap) + 1
      /\ n \in 1 .. Count(A) /\ n \in 0 .. Count(A) /\ Count(heap) \in Nat
  BY <1>5, AttachedGrown DEF TreeInv
<1>7. scanner[refs] \in 0 .. Count(A)
  BY <1>6 DEF TreeInv, HandlesRight, Scanners
<1>8. Touch(A, G, {n}, {"friend"})
  BY <1>6, <1>7, SetTouch DEF Fit, LinkFields
<1>9. Seen(A, {})
  <2>1. "ref" \notin Points
    BY DEF Points
  <2>2. QED
    BY <2>1, <1>5, <1>6, AttachedSeen DEF SeenInv
<1> HIDE DEF G
<1>10. "parent" \notin {"friend"} /\ "visible" \notin {"friend"} /\ {"friend"} \cap {"h", "v"} = {}
  OBVIOUS
<1>11. Seen(G, {})
  BY <1>6, <1>8, <1>9, <1>10, TouchSeen
<1>12. QED
  BY <1>2, <1>11 DEF SeenInv

(* The line of an input that goes up shows nothing else.                   *)
LEMMA RegisteredSeen ==
  ASSUME TreeInv, NEW H \in TypedHeaps, Tree(H), Grown(heap, H), NEW n \in 1 .. Count(H),
         Seen(H, {})
  PROVE  Seen(RegisterLine(H, n), {})
<1>1. Is(H, scanner.input, {"input"}) /\ Is(H, cur.input, {"input"})
  <2>1. HandlesRight(H, cur, scanner)
    BY HandlesGrow DEF TreeInv
  <2>2. QED
    BY <2>1 DEF HandlesRight
<1>2. Touch(H, RegisterLine(H, n), {m \in 1 .. Count(H) : Type(H, m) = "input"}, {"line"})
  BY <1>1, RegisterLineOf
<1>3. "parent" \notin {"line"} /\ "visible" \notin {"line"} /\ {"line"} \cap {"h", "v"} = {}
  OBVIOUS
<1>4. QED
  BY <1>2, <1>3, TouchSeen

LEMMA BeginVboxSeen ==
  ASSUME TreeInv, SeenInv, BeginVbox
  PROVE  SeenInv'
<1> DEFINE n == Fresh(heap)
<1>1. PICK r \in Records : r.kind = "vbox" /\ InContent /\ Entered(r, Made(r), NULL)
  BY DEF BeginVbox, Reading
<1> DEFINE A == Made(r)
           p == Place(heap, cur)
           data == Read_tlchvwhd(r)
<1>2. cur.mode = "content" /\ heap' = RegisterLine(A, n)
  BY <1>1 DEF InContent, Entered
<1>3. r.kind \in Inner /\ Plain(data)
  BY <1>1, RecordOf
<1>4. Attached(heap, A, r.kind, data, cur.child, p) /\ At(heap, cur.child, p)
  BY <1>2, <1>3, AttachOf DEF Made
<1> HIDE DEF A
<1>5. /\ heap \in TypedHeaps /\ Tree(heap) /\ A \in TypedHeaps /\ Grown(heap, A)
      /\ n \in 1 .. Count(A)
  BY <1>4, AttachedGrown DEF TreeInv
<1>6. Tree(A)
  BY <1>3, <1>4, <1>5, AttachedTree
<1>7. Seen(A, {})
  <2>1. r.kind \notin Points /\ r.kind # "hbox"
    BY <1>1 DEF Points
  <2>2. QED
    BY <2>1, <1>4, <1>5, AttachedSeen DEF SeenInv
<1>8. QED
  BY <1>2, <1>5, <1>6, <1>7, RegisteredSeen DEF SeenInv

(* No hbox of the file is upside down: its depth, which may be negative,   *)
(* does not take its lower edge above the upper one.  The tests that raise *)
(* or lower what is visible take this for granted.                         *)
Upstanding ==
  \A r \in Records : r.kind = "hbox" => Given(r, "height") + Given(r, "depth") >= 0

LEMMA NewHboxUpright ==
  ASSUME Upstanding, NEW r \in Records, r.kind = "hbox", NEW H, NEW A, NEW c, NEW p,
         Attached(H, A, "hbox", Read_tlchvwhd(r), c, p)
  PROVE  Upright(SizeOf(A, Fresh(H)))
<1> DEFINE n == Fresh(H)
           data == Read_tlchvwhd(r)
<1>1. "height" \in Fields["hbox"] /\ "depth" \in Fields["hbox"]
  BY DEF Fields, hboxFields, vboxFields, box
<1>2. \A f \in {"height", "depth"} : Given(data, f) = Given(r, f)
  <2>1. data = [f \in DOMAIN r \cap Fields["hbox"] |-> r[f]]
    BY DEF Read_tlchvwhd
  <2> HIDE DEF data
  <2>2. QED
    BY <2>1, <1>1 DEF Given
<1>3. {"height", "depth"} \cap (Links \cup {"type", "visible"}) = {}
  BY DEF Links
<1> HIDE DEF data, n
<1>4. \A f \in {"height", "depth"} : Get(A, n, f) = Given(r, f)
  BY <1>1, <1>2, <1>3 DEF Attached, data, n
<1>5. SizeOf(A, n).height = Get(A, n, "height") /\ SizeOf(A, n).depth = Get(A, n, "depth")
  BY DEF SizeOf
<1>6. Given(r, "height") + Given(r, "depth") >= 0
  BY DEF Upstanding
<1>7. QED
  BY <1>4, <1>5, <1>6 DEF Upright, n

LEMMA BeginHboxSeen ==
  ASSUME Upstanding, TreeInv, SeenInv, BeginHbox
  PROVE  SeenInv'
<1> DEFINE n == Fresh(heap)
           bdry == n + 1
           own(A) == [f \in tlchv |-> Get(A, n, f)]
           headed(A) == SetChild(New(A, "box_bdry", own(A)), n, bdry)
           final(A) == IF cur.form = NULL THEN MakeFriendTlc(headed(A), bdry) ELSE headed(A)
<1>1. PICK r \in Records : r.kind = "hbox" /\ InContent /\ Entered(r, final(Made(r)), bdry)
  BY DEF BeginHbox, Reading
<1> DEFINE A == Made(r)
           p == Place(heap, cur)
           data == Read_tlchvwhd(r)
           B == headed(A)
           G == final(A)
<1>2. cur.mode = "content" /\ heap' = RegisterLine(G, n)
  BY <1>1 DEF InContent, Entered
<1>3. r.kind \in Inner /\ Plain(data)
  BY <1>1, RecordOf
<1>4. Attached(heap, A, "hbox", data, cur.child, p) /\ At(heap, cur.child, p)
  BY <1>1, <1>2, <1>3, AttachOf DEF Made
<1>5. Upright(SizeOf(A, n))
  BY <1>1, <1>4, NewHboxUpright
<1> HIDE DEF A
<1>6. /\ heap \in TypedHeaps /\ Tree(heap) /\ A \in TypedHeaps /\ Grown(heap, A)
      /\ Count(A) = Count(heap) + 1 /\ n = Count(heap) + 1 /\ n \in 1 .. Count(A)
      /\ Count(heap) \in Nat
  BY <1>4, AttachedGrown DEF TreeInv
<1>7. Tree(A)
  BY <1>1, <1>3, <1>4, <1>6, AttachedTree
<1>8. Type(A, n) = "hbox"
  BY <1>4 DEF Attached
<1>9. Plain(own(A)) /\ "box_bdry" \in Inner
  <2>1. tlchv \subseteq NumberFields /\ tlchv \cap (LinkFields \cup {"target"}) = {}
    BY DEF tlchv, NumberFields, LinkFields
  <2>2. \A f \in tlchv : Get(A, n, f) \in Int
    BY <2>1, <1>6, TypedOf
  <2>3. DOMAIN own(A) = tlchv /\ \A f \in DOMAIN own(A) : own(A)[f] \in Int
    BY <2>2
  <2>4. QED
    BY <2>1, <2>3 DEF Plain, Inner, ContentTypes
<1>10. Seen(A, {})
  <2>1. "hbox" \notin Points
    BY DEF Points
  <2>2. QED
    BY <2>1, <1>4, <1>5, <1>6, AttachedSeen DEF SeenInv
<1>11. bdry = Fresh(A)
  <2>1. Fresh(A) = Count(A) + 1
    BY DEF Fresh, Count
  <2>2. QED
    BY <2>1, <1>6
<1> HIDE DEF own, bdry
<1>12. Attached(A, B, "box_bdry", own(A), NULL, n)
  <2>1. Type(A, n) \in Roots \cup Boxes
    BY <1>8 DEF Boxes
  <2>2. QED
    BY <2>1, <1>6, <1>7, <1>9, <1>11, ChildAttached
<1> HIDE DEF headed
<1>13. B \in TypedHeaps /\ Grown(A, B) /\ bdry \in 1 .. Count(B) /\ Tree(B) /\ Count(B) = Count(A) + 1
  <2>1. At(A, NULL, n)
    BY <1>6, <1>8 DEF At, Boxes, NULL
  <2>2. QED
    BY <2>1, <1>6, <1>7, <1>9, <1>11, <1>12, AttachedGrown, AttachedTree
<1>14. Seen(B, {})
  <2>1. "box_bdry" \notin Points
    BY DEF Points
  <2>2. QED
    BY <2>1, <1>6, <1>10, <1>12, AttachedSeen
<1> HIDE DEF B
<1>15. Touch(B, G, {bdry}, {"friend"})
  <2>1. G = IF cur.form = NULL THEN MakeFriendTlc(B, bdry) ELSE B
    BY DEF B
  <2>2. Touch(B, MakeFriendTlc(B, bdry), {bdry}, {"friend"})
    BY <1>13, MakeFriendOf, BefriendsTouch
  <2>3. Touch(B, B, {bdry}, {"friend"})
    BY <1>13, TouchSame
  <2>4. QED
    BY <2>1, <2>2, <2>3
<1> HIDE DEF final, G
<1>16. /\ "parent" \notin {"friend"} /\ "visible" \notin {"friend"} /\ {"friend"} \cap {"h", "v"} = {}
       /\ {"friend"} \cap Links = {}
  BY DEF Links
<1>17. Seen(G, {}) /\ G \in TypedHeaps /\ Tree(G) /\ Grown(B, G) /\ Count(G) = Count(B)
  BY <1>13, <1>14, <1>15, <1>16, TouchSeen, TouchTree, TouchGrown
<1>18. Grown(heap, G) /\ n \in 1 .. Count(G)
  <2>1. Grown(heap, B)
    BY <1>6, <1>13, GrownTwice
  <2>2. Grown(heap, G)
    BY <2>1, <1>6, <1>13, <1>17, GrownTwice
  <2>3. QED
    BY <2>2, <1>6, <1>13, <1>17
<1>19. QED
  BY <1>2, <1>17, <1>18, RegisteredSeen DEF SeenInv

LEMMA EndVboxSeen ==
  ASSUME TreeInv, SeenInv, EndVbox
  PROVE  SeenInv'
<1> DEFINE n == cur.parent
           B == IF Get(heap, cur.parent, "child") = NULL /\ cur.form = NULL
                THEN MakeFriendTlc(heap, cur.parent) ELSE heap
           G == Left(B)
<1>1. InContent /\ Type(heap, n) = "vbox" /\ heap' = G
  BY DEF EndVbox
<1>2. /\ heap \in TypedHeaps /\ n \in 1 .. Count(heap)
      /\ Len(cur.x) >= 2 /\ cur.x \in Seq(Seq(1 .. Count(heap)))
  BY <1>1, LastList DEF TreeInv, Boxes
<1>3. Touch(heap, B, {n}, {"friend"})
  <2>1. Touch(heap, MakeFriendTlc(heap, n), {n}, {"friend"})
    BY <1>2, MakeFriendOf, BefriendsTouch
  <2>2. Touch(heap, heap, {n}, {"friend"})
    BY <1>2, TouchSame
  <2>3. QED
    BY <2>1, <2>2
<1>4. B \in TypedHeaps /\ Count(B) = Count(heap)
  BY <1>2, <1>3, TouchGrown
<1> HIDE DEF B
<1> DEFINE F == {"tag", "line", "friend"}
<1>5. Touch(B, G, 0 .. Count(B), F)
  BY <1>2, <1>4, LeftOf
<1>6. /\ "parent" \notin {"friend"} /\ "visible" \notin {"friend"} /\ {"friend"} \cap {"h", "v"} = {}
      /\ "parent" \notin F /\ "visible" \notin F /\ F \cap {"h", "v"} = {}
  OBVIOUS
<1> HIDE DEF G, F
<1>7. Seen(B, {})
  BY <1>2, <1>3, <1>6, TouchSeen DEF SeenInv
<1>8. Seen(G, {})
  BY <1>4, <1>5, <1>6, <1>7, TouchSeen
<1>9. QED
  BY <1>1, <1>8 DEF SeenInv

(* The end of an hbox places its boundary nodes of the class box_bdry, and *)
(* makes the hbox around it contain it.                                    *)
LEMMA EndHboxSeen ==
  ASSUME TreeInv, SeenInv, EndHbox
  PROVE  SeenInv'
<1> DEFINE n == cur.parent
           c == Get(heap, n, "child")
           B == Closed(MeanHeap, n)
           data == Closing(MeanHeap, n)
<1>1. /\ Type(heap, n) = "hbox" /\ n \in 1 .. Count(heap)
      /\ heap' = SeenHeap /\ Outer \in 1 .. Count(heap)
      /\ c \in 1 .. Count(heap) /\ Type(heap, c) = "box_bdry"
      /\ Touch(heap, ChainedHeap, {n, cur.sheet}, {"next_hbox"})
      /\ Touch(ChainedHeap, MeanHeap, {n, c}, {"line", "mean_line", "weight"})
      /\ Attached(MeanHeap, B, "box_bdry", data, cur.child, n)
      /\ \E K : /\ Touch(B, K, {Fresh(MeanHeap)}, {"tag", "line"})
                /\ Touch(K, FramedHeap, {c}, {"h", "v"})
      /\ Touch(FramedHeap, GluedHeap, {cur.last_k, cur.last_g}, {"tag", "line"})
      /\ Touch(GluedHeap, LeftHeap, 0 .. Count(GluedHeap), {"tag", "line", "friend"})
      /\ Count(MeanHeap) = Count(heap) /\ Count(LeftHeap) = Count(heap) + 1
  BY EndHboxOf
<1>2. heap \in TypedHeaps /\ Count(heap) \in Nat /\ Seen(heap, {})
  BY TypedOf DEF TreeInv, SeenInv
<1>3. PICK K : /\ Touch(B, K, {Fresh(MeanHeap)}, {"tag", "line"})
               /\ Touch(K, FramedHeap, {c}, {"h", "v"})
  BY <1>1
<1> HIDE DEF B, data, c
<1>4. /\ ChainedHeap \in TypedHeaps /\ MeanHeap \in TypedHeaps /\ B \in TypedHeaps
      /\ K \in TypedHeaps /\ FramedHeap \in TypedHeaps /\ GluedHeap \in TypedHeaps
      /\ LeftHeap \in TypedHeaps
  BY <1>1, <1>3 DEF Touch, Attached
<1>5. Type(K, c) = "box_bdry"
  <2>1. c \in 0 .. Count(heap) /\ c \in 0 .. Count(ChainedHeap) /\ c \in 0 .. Count(MeanHeap)
    BY <1>1, <1>2 DEF Touch
  <2>2. Type(MeanHeap, c) = "box_bdry"
    BY <2>1, <1>1 DEF Touch
  <2>3. Type(B, c) = "box_bdry"
    BY <2>1, <2>2, <1>1 DEF Attached
  <2>4. Count(B) = Count(MeanHeap) + 1
    BY <1>1 DEF Attached
  <2>5. c \in 0 .. Count(B)
    BY <2>1, <2>4, <1>1, <1>2
  <2>6. QED
    BY <2>3, <2>5, <1>3 DEF Touch
<1>6. Seen(MeanHeap, {})
  <2>1. "parent" \notin {"next_hbox"} /\ "visible" \notin {"next_hbox"}
        /\ {"next_hbox"} \cap {"h", "v"} = {}
    OBVIOUS
  <2>2. Seen(ChainedHeap, {})
    BY <2>1, <1>1, <1>2, TouchSeen
  <2> DEFINE F == {"line", "mean_line", "weight"}
  <2>3. "parent" \notin F /\ "visible" \notin F /\ F \cap {"h", "v"} = {}
    OBVIOUS
  <2>4. Touch(ChainedHeap, MeanHeap, {n, c}, F)
    BY <1>1
  <2> HIDE DEF F
  <2>5. QED
    BY <2>2, <2>3, <2>4, <1>4, TouchSeen
<1>7. Seen(B, {})
  <2>1. "box_bdry" \notin Points
    BY DEF Points
  <2>2. QED
    BY <2>1, <1>1, <1>4, <1>6, AttachedSeen
<1> DEFINE F == {"tag", "line"}
<1>8. "parent" \notin F /\ "visible" \notin F /\ F \cap {"h", "v"} = {}
  OBVIOUS
<1>9. Touch(B, K, {Fresh(MeanHeap)}, F) /\ Touch(FramedHeap, GluedHeap, {cur.last_k, cur.last_g}, F)
  BY <1>1, <1>3
<1> HIDE DEF F
<1>10. Seen(K, {})
  BY <1>4, <1>7, <1>8, <1>9, TouchSeen
<1>11. Seen(FramedHeap, {})
  <2>1. "parent" \notin {"h", "v"} /\ "visible" \notin {"h", "v"}
    OBVIOUS
  <2>2. \A m \in {c} : Type(K, m) \notin Points
    BY <1>5 DEF Points
  <2>3. QED
    BY <2>1, <2>2, <1>3, <1>4, <1>10, TouchSeen
<1>12. Seen(GluedHeap, {})
  BY <1>4, <1>8, <1>9, <1>11, TouchSeen
<1>13. Seen(LeftHeap, {})
  <2> DEFINE E == {"tag", "line", "friend"}
  <2>1. "parent" \notin E /\ "visible" \notin E /\ E \cap {"h", "v"} = {}
    OBVIOUS
  <2>2. Touch(GluedHeap, LeftHeap, 0 .. Count(GluedHeap), E)
    BY <1>1
  <2> HIDE DEF E
  <2>3. QED
    BY <2>1, <2>2, <1>4, <1>12, TouchSeen
<1> DEFINE s == Visible(LeftHeap, Outer)
           b == BoxOf(Visible(LeftHeap, n))
           t == ContainBox(s, b)
<1>14. n \in 1 .. Count(LeftHeap) /\ Outer \in 1 .. Count(LeftHeap)
  BY <1>1, <1>2
<1>15. /\ s \in Size /\ b.min \in Point /\ b.max \in Point
       /\ Type(LeftHeap, Outer) = "hbox" => s = Get(LeftHeap, Outer, "visible")
  <2>1. /\ s \in Size /\ Visible(LeftHeap, n) \in Size
        /\ Type(LeftHeap, Outer) = "hbox" => s = Get(LeftHeap, Outer, "visible")
    BY <1>4, <1>14, VisibleOf
  <2>2. \A u \in Size : BoxOf(u).min \in Point /\ BoxOf(u).max \in Point
    BY DEF Size, BoxOf, Rectangle, Between, Point
  <2>3. QED
    BY <2>1, <2>2
<1>16. heap' = Contain(LeftHeap, Outer, t)
  BY <1>1 DEF SeenHeap
<1> HIDE DEF s, b
<1>17. t \in Size
  BY <1>15, KeepsSize DEF ContainBox
<1>18. Type(LeftHeap, Outer) = "hbox" =>
         Upright(t) /\ Inside(BoxOf(Get(LeftHeap, Outer, "visible")), BoxOf(t))
  <2>1. Type(LeftHeap, Outer) = "hbox" => Upright(s)
    BY <1>13, <1>14, <1>15 DEF Seen
  <2>2. QED
    BY <2>1, <1>15, GrowsOnly DEF ContainBox
<1> HIDE DEF t
<1>19. Seen(Contain(LeftHeap, Outer, t), {})
  BY <1>4, <1>13, <1>14, <1>17, <1>18, ContainSeen
<1>20. QED
  BY <1>16, <1>19 DEF SeenInv

LEMMA RootedSeen ==
  ASSUME NEW H \in TypedHeaps, Seen(H, {}), NEW type \in Roots \cup {"input"},
         NEW G, Rooted(H, G, type)
  PROVE  Seen(G, {})
<1> SUFFICES ASSUME NEW n \in 1 .. Count(G)
             PROVE  (Type(G, n) = "hbox" => Upright(Get(G, n, "visible"))) /\ SeenIn(G, n)
  BY DEF Seen
<1>1. /\ Count(G) = Count(H) + 1 /\ Fresh(H) = Count(H) + 1 /\ Count(H) \in Nat
      /\ Type(G, Fresh(H)) = type /\ type \notin Points /\ type # "hbox"
  BY TypedOf DEF Rooted, Fresh, Count, Points, Roots
<1>2. CASE n = Fresh(H)
  BY <1>1, <1>2 DEF SeenIn
<1>3. CASE n # Fresh(H)
  <2>1. n \in 1 .. Count(H) /\ n \in 0 .. Count(H)
    BY <1>1, <1>3
  <2>2. \A m \in 0 .. Count(H) :
          /\ Type(G, m) = Type(H, m)
          /\ \A f \in {"parent", "h", "v", "visible"} : Get(G, m, f) = Get(H, m, f)
    BY DEF Rooted
  <2>3. Get(H, n, "parent") \in 0 .. Count(H)
    BY <2>1, PointTyped
  <2>4. (Type(H, n) = "hbox" => Upright(Get(H, n, "visible"))) /\ SeenIn(H, n)
    BY <2>1 DEF Seen
  <2>5. QED
    BY <2>1, <2>2, <2>3, <2>4 DEF SeenIn
<1>4. QED
  BY <1>2, <1>3

LEMMA RootSeen ==
  ASSUME TreeInv, SeenInv, BeginSheet \/ BeginForm \/ MoreInput
  PROVE  SeenInv'
<1>1. heap \in TypedHeaps /\ Tree(heap) /\ Is(heap, scanner.input, {"input"})
  BY DEF TreeInv, HandlesRight
<1>2. CASE BeginSheet
  <2>1. PICK r \in Records : r.kind = "sheet" /\ heap' = NewSheet(r)
    BY <1>2 DEF BeginSheet, Reading
  <2>2. Rooted(heap, NewSheet(r), "sheet")
    BY <2>1, SheetRooted
  <2>3. QED
    BY <2>1, <2>2, <1>1, RootedSeen DEF SeenInv, Roots
<1>3. CASE BeginForm
  <2>1. PICK r \in Records : r.kind = "form" /\ heap' = NewForm(r)
    BY <1>3 DEF BeginForm, Reading
  <2>2. Rooted(heap, NewForm(r), "form")
    BY <2>1, FormRooted
  <2>3. QED
    BY <2>1, <2>2, <1>1, RootedSeen DEF SeenInv, Roots
<1>4. CASE MoreInput
  <2>1. PICK r \in Records :
          r.kind = "input" /\ heap' = New(heap, "input", [tag |-> r.tag, sibling |-> scanner.input])
    BY <1>4 DEF MoreInput, Reading
  <2>2. r.tag \in Int
    BY <2>1, RecordsAssumption
  <2> DEFINE G == New(heap, "input", [tag |-> r.tag, sibling |-> scanner.input])
  <2>3. Rooted(heap, G, "input")
    BY <2>2, <1>1, InputRooted
  <2> HIDE DEF G
  <2>4. Seen(G, {})
    BY <2>3, <1>1, RootedSeen DEF SeenInv
  <2>5. QED
    BY <2>1, <2>4 DEF SeenInv, G
<1>5. QED
  BY <1>2, <1>3, <1>4

LEMMA SameHeapSeen ==
  ASSUME SeenInv, EndSheet \/ EndForm \/ PassOver \/ BadRecord \/ LoseRecord
                  \/ EndOfContent \/ EndOfFile
  PROVE  SeenInv'
<1>1. heap' = heap \/ heap' = EmptyHeap
  BY DEF EndSheet, EndForm, PassOver, BadRecord, LoseRecord, EndOfContent, EndOfFile, Postamble
<1>2. Seen(EmptyHeap, {})
  BY EmptyTyped DEF Seen
<1>3. QED
  BY <1>1, <1>2 DEF SeenInv

LEMMA InitSeen ==
  ASSUME Init
  PROVE  SeenInv
<1>1. heap = withInputs
  BY DEF Init
<1>2. \A n \in 1 .. Count(withInputs) : Type(withInputs, n) = "input"
  BY WithInputsOf
<1>3. QED
  BY <1>1, <1>2 DEF SeenInv, Seen, SeenIn, Points

(* What VisiblePoints says follows.                                        *)
LEMMA SeenPoints ==
  ASSUME heap \in TypedHeaps, Tree(heap), SeenInv
  PROVE  VisiblePoints
<1>1. Nodes \subseteq 1 .. Count(heap) /\ \A n \in Nodes : Type(heap, n) = heap.node[n].type
  BY TypedOf, NodesOf DEF Nodes
<1> SUFFICES ASSUME NEW n \in Of({"hbox"}),
                    NEW c \in ToSet(Siblings(heap, Get(heap, n, "child"))),
                    Type(heap, c) \in {"glue", "math", "boundary"}
             PROVE  Within(PointOf(heap, c), BoxOf(Visible(heap, n)))
  BY DEF VisiblePoints
<1>2. n \in 1 .. Count(heap) /\ Type(heap, n) = "hbox"
  BY <1>1 DEF Of
<1>3. c \in 1 .. Count(heap) /\ Get(heap, c, "parent") = n
  BY <1>2, ChildrenOf
<1>4. SeenIn(heap, c)
  BY <1>3 DEF SeenInv, Seen
<1>5. Visible(heap, n) = Get(heap, n, "visible")
  BY <1>2, VisibleOf
<1>6. PointOf(heap, c) = [h |-> Get(heap, c, "h"), v |-> Get(heap, c, "v")]
  BY <1>3, OwnOf DEF PointOf
<1>7. QED
  BY <1>2, <1>3, <1>4, <1>5, <1>6 DEF SeenIn, Points

(* In a file without upside-down hboxes, whatever records come and however *)
(* wide TeX says a box is, what is visible of an hbox contains its glues,  *)
(* its math nodes and its boundary nodes at any time: while it is open,    *)
(* when a form is read inside it, when boxes inside it close, and after.   *)
THEOREM PointsShown ==
  ASSUME Upstanding
  PROVE  ContentSpec => []VisiblePoints
<1>1. Init => SeenInv
  BY InitSeen
<1>2. TreeInv /\ SeenInv /\ [ContentNext]_vars => SeenInv'
  <2> SUFFICES ASSUME TreeInv, SeenInv, [ContentNext]_vars
               PROVE  SeenInv'
    OBVIOUS
  <2>1. CASE BeginSheet \/ BeginForm \/ MoreInput
    BY <2>1, RootSeen
  <2>2. CASE \/ EndSheet \/ EndForm \/ PassOver \/ BadRecord \/ LoseRecord
             \/ EndOfContent \/ EndOfFile
    BY <2>2, SameHeapSeen
  <2>3. CASE BeginVbox
    BY <2>3, BeginVboxSeen
  <2>4. CASE EndVbox
    BY <2>4, EndVboxSeen
  <2>5. CASE BeginHbox
    BY <2>5, BeginHboxSeen
  <2>6. CASE EndHbox
    BY <2>6, EndHboxSeen
  <2>7. CASE VoidVbox \/ VoidHbox \/ Kern \/ Glue \/ Rule \/ Math
    BY <2>7, LeavesSeen
  <2>8. CASE Boundary
    BY <2>8, BoundarySeen
  <2>9. CASE FormRef
    BY <2>9, FormRefSeen
  <2>10. CASE UNCHANGED vars
    BY <2>10 DEF vars, SeenInv
  <2>11. QED
    BY <2>1, <2>2, <2>3, <2>4, <2>5, <2>6, <2>7, <2>8, <2>9, <2>10 DEF ContentNext, Read
<1>3. TreeInv /\ SeenInv => VisiblePoints
  BY SeenPoints DEF TreeInv
<1>4. QED
  BY <1>1, <1>2, <1>3, Attaching, PTL DEF ContentSpec
------------------------------------------------------------------------------
(* A sheet, a form or an input comes.                                      *)
LEMMA RootedNests ==
  ASSUME NEW H \in TypedHeaps, Tree(H), NEW R, NEW E, NEW T, Nests(H, R, E, T),
         NEW type \in Roots \cup {"input"}, NEW G, Rooted(H, G, type)
  PROVE  Nests(G, Longer1(Count(H), R, Fresh(H)), Longer1(Count(H), E, 0), T)
<1> DEFINE n == Fresh(H)
           R2 == Longer1(Count(H), R, n)
           E2 == Longer1(Count(H), E, 0)
<1>1. /\ Count(H) \in Nat /\ n = Count(H) + 1 /\ Count(G) = Count(H) + 1 /\ n # NULL
      /\ G \in TypedHeaps /\ Type(G, n) = type /\ Get(G, n, "next_hbox") = NULL
      /\ \A m \in 1 .. Count(G) : m = n \/ m \in 1 .. Count(H)
      /\ \A m \in 1 .. Count(H) : m \in 1 .. Count(G) /\ m \in 0 .. Count(H) /\ m # n
  <2>1. Get(G, n, "next_hbox") = NULL
    BY DEF Rooted, LinkFields
  <2>2. QED
    BY <2>1, TypedOf, NodesOf DEF Rooted, NULL
<1>2. /\ R2[n] = n /\ E2[n] = 0
      /\ \A m \in 1 .. Count(H) : R2[m] = R[m] /\ E2[m] = E[m]
  BY <1>1 DEF Longer1
<1>3. /\ TreeNests(H, R, E, T) /\ NextNests(H, R, E) /\ T \in Nat /\ T >= 1
      /\ R \in [1 .. Count(H) -> 1 .. Count(H)] /\ E \in [1 .. Count(H) -> 0 .. T]
  BY DEF Nests, TreeNests
<1>4. R2 \in [1 .. Count(G) -> 1 .. Count(G)] /\ E2 \in [1 .. Count(G) -> 0 .. T]
  <2>1. \A m \in 1 .. Count(G) : R2[m] \in 1 .. Count(G) /\ E2[m] \in 0 .. T
    <3>1. \A m \in 1 .. Count(H) : R[m] \in 1 .. Count(H) /\ E[m] \in 0 .. T
      BY <1>3
    <3> HIDE DEF R2, E2, n
    <3>2. QED
      BY <3>1, <1>1, <1>2, <1>3
  <2>2. R2 = [m \in 1 .. Count(G) |-> R2[m]] /\ E2 = [m \in 1 .. Count(G) |-> E2[m]]
    BY <1>1 DEF Longer1
  <2> HIDE DEF R2, E2
  <2>3. QED
    BY <2>1, <2>2
<1> HIDE DEF R2, E2, n
<1>5. \A m \in 0 .. Count(H) :
        /\ Type(G, m) = Type(H, m)
        /\ Get(G, m, "weight") = Get(H, m, "weight")
        /\ Get(G, m, "next_hbox") = Get(H, m, "next_hbox")
        /\ Get(G, m, "parent") = Get(H, m, "parent")
        /\ Type(H, m) \in Inner => Get(G, m, "sibling") = Get(H, m, "sibling")
  BY DEF Rooted, Inner, Roots
<1>6. ASSUME NEW m \in 1 .. Count(G) PROVE NestRight(G, R2, E2, m)
  <2>1. CASE m = n
    BY <2>1, <1>1, <1>2 DEF NestRight, Inner, Roots
  <2>2. CASE m # n
    <3>1. m \in 1 .. Count(H) /\ m \in 0 .. Count(H) /\ NestRight(H, R, E, m) /\ R[m] \in 1 .. Count(H)
      BY <2>2, <1>1, <1>3 DEF TreeNests
    <3>2. /\ Type(G, m) = Type(H, m) /\ Type(G, R[m]) = Type(H, R[m])
          /\ R2[m] = R[m] /\ E2[m] = E[m] /\ Get(G, m, "parent") = Get(H, m, "parent")
          /\ Type(H, m) \in Inner => Get(G, m, "sibling") = Get(H, m, "sibling")
      BY <3>1, <1>1, <1>2, <1>5
    <3>3. Type(H, m) \in Inner => Get(H, m, "parent") \in 1 .. Count(H)
      BY <3>1, <1>3, NestOf
    <3>4. QED
      BY <3>1, <3>2, <3>3, <1>2 DEF NestRight
  <2>3. QED
    BY <2>1, <2>2
<1>7. ASSUME NEW m \in 1 .. Count(G) PROVE NextRight(G, R2, E2, m)
  <2>1. CASE m = n
    <3>1. type # "hbox"
      BY DEF Roots
    <3>2. QED
      BY <3>1, <2>1, <1>1 DEF NextRight
  <2>2. CASE m # n
    <3>1. m \in 1 .. Count(H) /\ m \in 0 .. Count(H) /\ NextRight(H, R, E, m) /\ R[m] \in 1 .. Count(H)
      BY <2>2, <1>1, <1>3 DEF NextNests
    <3>2. Get(H, m, "next_hbox") # NULL => Get(H, m, "next_hbox") \in 1 .. Count(H)
      <4>1. Get(H, m, "next_hbox") \in 0 .. Count(H)
        BY <3>1, TypedOf DEF LinkFields
      <4>2. QED
        BY <4>1, <1>1 DEF NULL
    <3>3. /\ Type(G, m) = Type(H, m) /\ Type(G, R[m]) = Type(H, R[m])
          /\ R2[m] = R[m] /\ E2[m] = E[m]
          /\ Get(G, m, "next_hbox") = Get(H, m, "next_hbox")
          /\ Get(G, m, "weight") = Get(H, m, "weight")
      BY <3>1, <1>1, <1>2, <1>5
    <3>4. \A k \in 1 .. Count(H) :
            /\ k \in 1 .. Count(G) /\ R2[k] = R[k] /\ E2[k] = E[k] /\ Type(G, k) = Type(H, k)
            /\ Get(G, k, "next_hbox") = Get(H, k, "next_hbox")
      BY <1>1, <1>2, <1>5
    <3>5. QED
      BY <3>1, <3>2, <3>3, <3>4 DEF NextRight
  <2>3. QED
    BY <2>1, <2>2
<1>8. QED
  BY <1>3, <1>4, <1>6, <1>7 DEF Nests, TreeNests, NextNests, R2, E2, n

(* Where no form begins inside a sheet, the nodes nest.                    *)
NestInv ==
  mix.inner_form # 2 =>
    \E R, E, T : Nests(heap, R, E, T) /\ PlaceNests(heap, cur, R, E)

(* What the place of the next node says about the heap.                    *)
LEMMA NestPlace ==
  ASSUME TreeInv, cur.mode = "content", NEW R, NEW E, NEW T, Nests(heap, R, E, T),
         PlaceNests(heap, cur, R, E)
  PROVE  /\ cur.parent \in 1 .. Count(heap) /\ E[cur.parent] = 0
         /\ R[cur.parent] = IF cur.form # NULL THEN cur.form ELSE cur.sheet
         /\ Place(heap, cur) = cur.parent
         /\ cur.child = NULL => Get(heap, cur.parent, "child") = NULL
         /\ cur.child # NULL =>
              /\ cur.child \in 1 .. Count(heap) /\ E[cur.child] # 0
              /\ Get(heap, cur.child, "parent") = cur.parent
              /\ Get(heap, cur.child, "sibling") = NULL
         /\ \A m \in 1 .. Count(heap) : Get(heap, m, "parent") = cur.parent => E[m] # 0
         /\ heap \in TypedHeaps /\ Tree(heap) /\ Count(heap) \in Nat
<1>1. heap \in TypedHeaps /\ Tree(heap) /\ Count(heap) \in Nat
  BY TypedOf DEF TreeInv
<1>2. cur.parent \in 0 .. Count(heap) /\ cur.child \in 0 .. Count(heap)
  BY DEF TreeInv, HandlesRight, Cursors
<1>3. cur.parent \in 1 .. Count(heap) /\ (cur.child # NULL => cur.child \in 1 .. Count(heap))
  BY <1>1, <1>2 DEF TreeInv, PlaceRight, NULL
<1>4. /\ E[cur.parent] = 0 /\ R[cur.parent] = IF cur.form # NULL THEN cur.form ELSE cur.sheet
      /\ cur.child = NULL => Get(heap, cur.parent, "child") = NULL
      /\ cur.child # NULL => Get(heap, cur.child, "parent") = cur.parent /\ E[cur.child] # 0
  BY DEF PlaceNests
<1>5. cur.child # NULL => Get(heap, cur.child, "sibling") = NULL
  BY DEF TreeInv, PlaceRight
<1>6. \A m \in 1 .. Count(heap) : Get(heap, m, "parent") = cur.parent => E[m] # 0
  BY <1>1, <1>3, <1>4, <1>5, ChildrenFinished DEF Nests
<1>7. QED
  BY <1>1, <1>3, <1>4, <1>5, <1>6 DEF Place

(* A node that is no box comes.                                            *)
LEMMA LeafNests ==
  ASSUME TreeInv, NestInv, cur.mode = "content", NEW type \in Inner \ Boxes, NEW data,
         "weight" \notin DOMAIN data, Plain(data), NEW A,
         Attached(heap, A, type, data, cur.child, Place(heap, cur)),
         At(heap, cur.child, Place(heap, cur)),
         NEW G, NEW N, NEW F, Touch(A, G, N, F), F \cap (Links \cup {"weight", "next_hbox"}) = {},
         heap' = G, mix' = mix, cur'.mode = "content", cur'.parent = cur.parent,
         cur'.child = Fresh(heap), cur'.form = cur.form, cur'.sheet = cur.sheet
  PROVE  NestInv'
<1> SUFFICES ASSUME mix.inner_form # 2
             PROVE  \E R, E, T : Nests(G, R, E, T) /\ PlaceNests(G, cur', R, E)
  BY DEF NestInv
<1>1. PICK R, E, T : Nests(heap, R, E, T) /\ PlaceNests(heap, cur, R, E)
  BY DEF NestInv
<1> DEFINE p == cur.parent
           n == Fresh(heap)
           R2 == Longer1(Count(heap), R, R[p])
           E2 == Longer1(Count(heap), E, 1)
<1>2. /\ p \in 1 .. Count(heap) /\ E[p] = 0
      /\ R[p] = IF cur.form # NULL THEN cur.form ELSE cur.sheet
      /\ Place(heap, cur) = p /\ heap \in TypedHeaps /\ Tree(heap) /\ Count(heap) \in Nat
      /\ cur.child = NULL => Get(heap, p, "child") = NULL
      /\ cur.child # NULL => E[cur.child] # 0
  BY <1>1, NestPlace
<1>3. Nests(A, R2, E2, T)
  <2>1. type \in Inner /\ type # "hbox"
    BY DEF Boxes
  <2>2. Attached(heap, A, type, data, cur.child, p) /\ At(heap, cur.child, p)
    BY <1>2
  <2> HIDE DEF p
  <2>3. QED
    BY <2>1, <2>2, <1>1, <1>2, AttachedNests
<1>4. A \in TypedHeaps /\ n \in 1 .. Count(A) /\ n # NULL /\ n = Count(heap) + 1
  BY <1>2, AttachedGrown
<1>5. Tree(A)
  BY <1>2, AttachedTree
<1> HIDE DEF R2, E2
<1>6. Nests(G, R2, E2, T)
  BY <1>3, <1>4, <1>5, TouchNests
<1>7. /\ R2[p] = R[p] /\ E2[p] = 0 /\ E2[n] = 1
  BY <1>2, <1>4 DEF R2, E2, Longer1
<1>8. Get(G, n, "parent") = p
  <2>1. Get(A, n, "parent") = p
    BY <1>2 DEF Attached
  <2>2. n \in 0 .. Count(A)
    BY <1>4
  <2>3. "parent" \notin F
    BY DEF Links
  <2>4. QED
    BY <2>1, <2>2, <2>3 DEF Touch
<1>9. cur.form # NULL => cur.sheet = NULL
  BY <1>1 DEF PlaceNests
<1>10. PlaceNests(G, cur', R2, E2)
  BY <1>2, <1>4, <1>7, <1>8, <1>9 DEF PlaceNests
<1>11. QED
  BY <1>6, <1>10

LEMMA NoWeight ==
  ASSUME NEW r \in Records,
         r.kind \in {"vbox", "hbox", "void_vbox", "void_hbox", "kern", "glue", "rule", "math",
                     "boundary"}
  PROVE  "weight" \notin DOMAIN Read_tlchvwhd(r)
<1>1. \A f \in DOMAIN r \cap Fields[r.kind] : f \in box
  BY RecordsAssumption
<1>2. DOMAIN Read_tlchvwhd(r) = DOMAIN r \cap Fields[r.kind]
  BY DEF Read_tlchvwhd
<1>3. "weight" \notin box
  BY DEF box, tlchv
<1>4. QED
  BY <1>1, <1>2, <1>3

LEMMA LeavesNests ==
  ASSUME TreeInv, NestInv, VoidVbox \/ VoidHbox \/ Kern \/ Glue \/ Rule \/ Math, mix' = mix
  PROVE  NestInv'
<1>1. PICK r \in Records, b \in BOOLEAN : \E k, g : LeafWith(r, b, k, g)
  BY LeafCase
<1>2. PICK k, g : LeafWith(r, b, k, g)
  BY <1>1
<1> DEFINE A == Made(r)
           t == LeafSize(r)
           G == PlacedHeap(A, b, t)
           data == Read_tlchvwhd(r)
           p == Place(heap, cur)
<1>3. /\ InContent /\ cur.mode = "content" /\ r.kind \in Leaves /\ heap' = G
      /\ cur' = [cur EXCEPT !.child = Fresh(heap), !.x = <<(<<>>)>> \o Tail(@),
                            !.input = Input(A, Fresh(heap)), !.last_k = k, !.last_g = g]
  BY <1>2 DEF LeafWith, InContent, Placed, PlacedHeap, Followed, Friended, AfterLeaf
<1>4. r.kind \in Inner \ Boxes /\ Plain(data) /\ "weight" \notin DOMAIN data
  BY <1>3, RecordOf, NoWeight DEF Leaves, Boxes
<1>5. Attached(heap, A, r.kind, data, cur.child, p) /\ At(heap, cur.child, p)
  BY <1>3, <1>4, AttachOf DEF Made
<1>6. t \in Size
  BY <1>3, LeafSizeOf
<1> HIDE DEF A, t
<1>7. /\ heap \in TypedHeaps /\ Tree(heap) /\ A \in TypedHeaps /\ Grown(heap, A)
      /\ Fresh(heap) \in 1 .. Count(A)
  BY <1>5, AttachedGrown DEF TreeInv
<1>8. Tree(A)
  BY <1>4, <1>5, <1>7, AttachedTree
<1>9. Touch(A, G, 0 .. Count(A), Data)
  BY <1>3, <1>6, <1>7, <1>8, PlacedOf
<1>10. Data \cap (Links \cup {"weight", "next_hbox"}) = {}
  BY DEF Data, Links
<1>11. /\ cur'.mode = "content" /\ cur'.parent = cur.parent /\ cur'.child = Fresh(heap)
       /\ cur'.form = cur.form /\ cur'.sheet = cur.sheet
  <2>1. cur \in Cursors(Count(heap))
    BY DEF TreeInv, HandlesRight
  <2>2. QED
    BY <2>1, <1>3 DEF Cursors
<1> HIDE DEF G, data, p
<1>12. QED
  BY <1>3, <1>4, <1>5, <1>9, <1>10, <1>11, LeafNests DEF p

LEMMA BoundaryNests ==
  ASSUME TreeInv, NestInv, Boundary, mix' = mix
  PROVE  NestInv'
<1> DEFINE n == Fresh(heap)
           friend == ~ Heading
           s == Visible(heap, cur.parent)
           size(r) == ContainPoint(s, PointOf(Made(r), n))
<1>1. PICK r \in Records :
        /\ r.kind = "boundary" /\ InContent /\ heap' = BoundedHeap(Made(r), friend, size(r))
        /\ cur' = [cur EXCEPT !.child = n, !.input = Input(Made(r), n),
                              !.x[1] = IF Heading THEN <<n>> \o @ ELSE @,
                              !.last_k = NULL, !.last_g = NULL]
  BY DEF Boundary, Reading, BoundedHeap, Friended
<1> DEFINE A == Made(r)
           t == size(r)
           G == BoundedHeap(A, friend, t)
           p == Place(heap, cur)
           data == Read_tlchvwhd(r)
           pt == PointOf(A, n)
<1>2. cur.mode = "content" /\ heap' = G
  BY <1>1 DEF InContent
<1>3. /\ cur'.mode = "content" /\ cur'.parent = cur.parent /\ cur'.child = n
      /\ cur'.form = cur.form /\ cur'.sheet = cur.sheet
  <2>1. cur \in Cursors(Count(heap))
    BY DEF TreeInv, HandlesRight
  <2>2. QED
    BY <2>1, <1>1, <1>2 DEF Cursors
<1> HIDE DEF friend
<1>4. r.kind \in Inner \ Boxes /\ Plain(data) /\ "weight" \notin DOMAIN data
  BY <1>1, RecordOf, NoWeight DEF Boxes
<1>5. Attached(heap, A, r.kind, data, cur.child, p) /\ At(heap, cur.child, p)
  BY <1>2, <1>4, AttachOf DEF Made
<1> HIDE DEF A
<1>6. /\ heap \in TypedHeaps /\ Tree(heap) /\ A \in TypedHeaps /\ Grown(heap, A)
      /\ n \in 1 .. Count(A)
  BY <1>5, AttachedGrown DEF TreeInv
<1>7. Tree(A)
  BY <1>4, <1>5, <1>6, AttachedTree
<1>8. cur.parent \in 1 .. Count(heap)
  <2>1. cur.parent \in 0 .. Count(heap) /\ cur.parent # NULL /\ Count(heap) \in Nat
    BY <1>2, TypedOf DEF TreeInv, PlaceRight, HandlesRight, Cursors
  <2>2. QED
    BY <2>1 DEF NULL
<1>9. s \in Size /\ pt \in Point /\ t = ContainPoint(s, pt)
  BY <1>6, <1>8, VisibleOf DEF A
<1> HIDE DEF s, pt, size
<1>10. t \in Size
  BY <1>9, KeepsSize DEF ContainPoint
<1> HIDE DEF t
<1>11. Touch(A, G, 0 .. Count(A), Data)
  BY <1>2, <1>6, <1>7, <1>10, BoundedOf
<1>12. Data \cap (Links \cup {"weight", "next_hbox"}) = {}
  BY DEF Data, Links
<1> HIDE DEF G, data, p, n
<1>13. QED
  BY <1>2, <1>3, <1>4, <1>5, <1>11, <1>12, LeafNests DEF p, n

LEMMA FormRefNests ==
  ASSUME TreeInv, NestInv, FormRef, mix' = mix
  PROVE  NestInv'
<1> DEFINE n == Fresh(heap)
           refs == IF cur.form # NULL THEN "ref_in_form" ELSE "ref_in_sheet"
           data(r) == [tag |-> r.tag, h |-> r.h, v |-> r.v]
<1>1. PICK r \in Records :
        /\ r.kind = "ref" /\ InContent
        /\ heap' = Set(Attach(NewRef(r), n), n, "friend", scanner[refs])
        /\ cur' = [cur EXCEPT !.child = n, !.last_k = NULL, !.last_g = NULL]
  BY DEF FormRef, Reading
<1> DEFINE A == Attach(New(heap, "ref", data(r)), n)
           G == Set(A, n, "friend", scanner[refs])
           p == Place(heap, cur)
<1>2. cur.mode = "content" /\ heap' = G
  BY <1>1 DEF InContent, NewRef
<1>3. /\ cur'.mode = "content" /\ cur'.parent = cur.parent /\ cur'.child = n
      /\ cur'.form = cur.form /\ cur'.sheet = cur.sheet
  <2>1. cur \in Cursors(Count(heap))
    BY DEF TreeInv, HandlesRight
  <2>2. QED
    BY <2>1, <1>1, <1>2 DEF Cursors
<1>4. "ref" \in Inner \ Boxes
  BY DEF Inner, ContentTypes, Boxes
<1>5. Plain(data(r)) /\ "weight" \notin DOMAIN data(r)
  <2>1. r.tag \in Int /\ r.h \in Int /\ r.v \in Int
    BY <1>1, RecordsAssumption
  <2>2. DOMAIN data(r) = {"tag", "h", "v"} /\ \A f \in DOMAIN data(r) : data(r)[f] \in Int
    BY <2>1
  <2>3. QED
    BY <2>2 DEF Plain, LinkFields
<1> HIDE DEF data
<1>6. Attached(heap, A, "ref", data(r), cur.child, p) /\ At(heap, cur.child, p)
  BY <1>2, <1>4, <1>5, AttachOf
<1> HIDE DEF A
<1>7. /\ A \in TypedHeaps /\ Count(A) = Count(heap) + 1 /\ n \in 1 .. Count(A) /\ n \in 0 .. Count(A)
      /\ Count(heap) \in Nat
  BY <1>6, AttachedGrown DEF TreeInv
<1>8. scanner[refs] \in 0 .. Count(A)
  BY <1>7 DEF TreeInv, HandlesRight, Scanners
<1>9. Touch(A, G, {n}, {"friend"})
  BY <1>7, <1>8, SetTouch DEF Fit, LinkFields
<1>10. {"friend"} \cap (Links \cup {"weight", "next_hbox"}) = {}
  BY DEF Links
<1> HIDE DEF G, p, n
<1>11. QED
  BY <1>2, <1>3, <1>4, <1>5, <1>6, <1>9, <1>10, LeafNests DEF p, n

(* A box is entered.                                                       *)
LEMMA EnteredNests ==
  ASSUME TreeInv, cur.mode = "content", NEW r, NEW H \in TypedHeaps, NEW child, Entered(r, H, child),
         Tree(H), Grown(heap, H), Fresh(heap) \in 1 .. Count(H), child \in 0 .. Count(H),
         NEW R, NEW E, NEW T, Nests(H, R, E, T), E[Fresh(heap)] = 0,
         R[Fresh(heap)] = IF cur.form # NULL THEN cur.form ELSE cur.sheet,
         cur.form # NULL => cur.sheet = NULL,
         child = NULL => Get(H, Fresh(heap), "child") = NULL,
         child # NULL => Get(H, child, "parent") = Fresh(heap) /\ E[child] # 0
  PROVE  NestInv'
<1> DEFINE n == Fresh(heap)
           G == RegisterLine(H, n)
<1>1. Touch(H, G, {m \in 1 .. Count(H) : Type(H, m) = "input"}, {"line"})
  <2>1. HandlesRight(H, cur, scanner)
    BY HandlesGrow DEF TreeInv
  <2>2. QED
    BY <2>1, RegisterLineOf DEF HandlesRight
<1>2. heap' = G /\ cur' = [cur EXCEPT !.parent = n, !.child = child, !.x = <<(<<>>)>> \o @,
                             !.input = Input(H, n), !.last_k = NULL, !.last_g = NULL]
  BY DEF Entered
<1>3. /\ cur'.mode = "content" /\ cur'.parent = n /\ cur'.child = child
      /\ cur'.form = cur.form /\ cur'.sheet = cur.sheet
  <2>1. cur \in Cursors(Count(heap))
    BY DEF TreeInv, HandlesRight
  <2>2. QED
    BY <2>1, <1>2 DEF Cursors
<1> HIDE DEF G
<1>4. Nests(G, R, E, T)
  <2>1. {"line"} \cap (Links \cup {"weight", "next_hbox"}) = {}
    BY DEF Links
  <2>2. QED
    BY <2>1, <1>1, TouchNests
<1>5. Get(G, n, "child") = Get(H, n, "child") /\ Get(G, child, "parent") = Get(H, child, "parent")
  <2>1. n \in 0 .. Count(H) /\ child \in 0 .. Count(H)
    BY TypedOf
  <2> HIDE DEF n
  <2>2. QED
    BY <2>1, <1>1 DEF Touch
<1>6. PlaceNests(G, cur', R, E)
  BY <1>3, <1>5 DEF PlaceNests
<1>7. QED
  BY <1>2, <1>4, <1>6 DEF NestInv

LEMMA BeginVboxNests ==
  ASSUME TreeInv, NestInv, BeginVbox, mix' = mix
  PROVE  NestInv'
<1> DEFINE n == Fresh(heap)
<1>1. PICK r \in Records : r.kind = "vbox" /\ InContent /\ Entered(r, Made(r), NULL)
  BY DEF BeginVbox, Reading
<1> DEFINE A == Made(r)
           p == cur.parent
           data == Read_tlchvwhd(r)
<1>2. cur.mode = "content"
  BY <1>1 DEF InContent
<1>3. "vbox" \in Inner /\ Plain(data) /\ "weight" \notin DOMAIN data
  BY <1>1, RecordOf, NoWeight
<1> SUFFICES ASSUME mix.inner_form # 2
             PROVE  NestInv'
  BY DEF NestInv
<1>4. PICK R, E, T : Nests(heap, R, E, T) /\ PlaceNests(heap, cur, R, E)
  BY DEF NestInv
<1>5. /\ p \in 1 .. Count(heap) /\ E[p] = 0
      /\ R[p] = IF cur.form # NULL THEN cur.form ELSE cur.sheet
      /\ Place(heap, cur) = p /\ heap \in TypedHeaps /\ Tree(heap) /\ Count(heap) \in Nat
      /\ cur.child = NULL => Get(heap, p, "child") = NULL
      /\ cur.child # NULL => E[cur.child] # 0
  BY <1>2, <1>4, NestPlace
<1>6. Attached(heap, A, "vbox", data, cur.child, p) /\ At(heap, cur.child, p)
  BY <1>1, <1>2, <1>3, <1>5, AttachOf DEF Made
<1> HIDE DEF A, data
<1>7. /\ A \in TypedHeaps /\ Grown(heap, A) /\ n \in 1 .. Count(A) /\ n = Count(heap) + 1
  BY <1>5, <1>6, AttachedGrown
<1>8. Tree(A)
  BY <1>3, <1>5, <1>6, AttachedTree
<1> DEFINE R2 == Longer1(Count(heap), R, R[p])
           E2 == Longer1(Count(heap), E, 0)
<1>9. Nests(A, R2, E2, T)
  <2>1. "vbox" \in Boxes
    BY DEF Boxes
  <2> HIDE DEF p
  <2>2. QED
    BY <2>1, <1>3, <1>4, <1>5, <1>6, AttachedNests
<1>10. R2[n] = R[p] /\ E2[n] = 0
  BY <1>5, <1>7 DEF Longer1
<1>11. Get(A, n, "child") = NULL
  BY <1>6 DEF Attached
<1>12. cur.form # NULL => cur.sheet = NULL
  BY <1>2, <1>4 DEF PlaceNests
<1>13. NULL \in 0 .. Count(A)
  BY <1>7, TypedOf DEF NULL
<1> HIDE DEF R2, E2, n
<1>14. QED
  BY <1>1, <1>2, <1>5, <1>7, <1>8, <1>9, <1>10, <1>11, <1>12, <1>13, EnteredNests DEF n, A

LEMMA BeginHboxNests ==
  ASSUME TreeInv, NestInv, BeginHbox, mix' = mix
  PROVE  NestInv'
<1> DEFINE n == Fresh(heap)
           bdry == n + 1
           own(A) == [f \in tlchv |-> Get(A, n, f)]
           headed(A) == SetChild(New(A, "box_bdry", own(A)), n, bdry)
           final(A) == IF cur.form = NULL THEN MakeFriendTlc(headed(A), bdry) ELSE headed(A)
<1>1. PICK r \in Records : r.kind = "hbox" /\ InContent /\ Entered(r, final(Made(r)), bdry)
  BY DEF BeginHbox, Reading
<1> DEFINE A == Made(r)
           p == cur.parent
           data == Read_tlchvwhd(r)
           B == headed(A)
           G == final(A)
<1>2. cur.mode = "content" /\ Entered(r, G, bdry)
  BY <1>1 DEF InContent
<1>3. "hbox" \in Inner /\ "hbox" \in Boxes /\ Plain(data) /\ "weight" \notin DOMAIN data
  BY <1>1, RecordOf, NoWeight DEF Boxes
<1> SUFFICES ASSUME mix.inner_form # 2
             PROVE  NestInv'
  BY DEF NestInv
<1>4. PICK R, E, T : Nests(heap, R, E, T) /\ PlaceNests(heap, cur, R, E)
  BY DEF NestInv
<1>5. /\ p \in 1 .. Count(heap) /\ E[p] = 0
      /\ R[p] = IF cur.form # NULL THEN cur.form ELSE cur.sheet
      /\ Place(heap, cur) = p /\ heap \in TypedHeaps /\ Tree(heap) /\ Count(heap) \in Nat
      /\ cur.child = NULL => Get(heap, p, "child") = NULL
      /\ cur.child # NULL => E[cur.child] # 0
  BY <1>2, <1>4, NestPlace
<1>6. Attached(heap, A, "hbox", data, cur.child, p) /\ At(heap, cur.child, p)
  BY <1>1, <1>2, <1>3, <1>5, AttachOf DEF Made
<1> HIDE DEF A, data
<1>7. /\ A \in TypedHeaps /\ Grown(heap, A) /\ n \in 1 .. Count(A) /\ n = Count(heap) + 1
      /\ Count(A) = Count(heap) + 1 /\ Count(A) \in Nat
  BY <1>5, <1>6, AttachedGrown
<1>8. Tree(A) /\ Type(A, n) = "hbox" /\ Get(A, n, "child") = NULL
  <2>1. Tree(A)
    BY <1>3, <1>5, <1>6, AttachedTree
  <2>2. Type(A, n) = "hbox" /\ Get(A, n, "child") = NULL
    BY <1>6 DEF Attached
  <2>3. QED
    BY <2>1, <2>2
<1> DEFINE R2 == Longer1(Count(heap), R, R[p])
           E2 == Longer1(Count(heap), E, 0)
<1>9. Nests(A, R2, E2, T)
  <2> HIDE DEF p
  <2>1. QED
    BY <1>3, <1>4, <1>5, <1>6, AttachedNests
<1>10. R2[n] = R[p] /\ E2[n] = 0
  BY <1>5, <1>7 DEF Longer1
<1>11. Plain(own(A)) /\ "weight" \notin DOMAIN own(A) /\ "box_bdry" \in Inner
  <2>1. tlchv \subseteq NumberFields /\ tlchv \cap (LinkFields \cup {"target", "weight"}) = {}
    BY DEF tlchv, NumberFields, LinkFields
  <2>2. \A f \in tlchv : Get(A, n, f) \in Int
    BY <2>1, <1>7, TypedOf
  <2>3. DOMAIN own(A) = tlchv /\ \A f \in DOMAIN own(A) : own(A)[f] \in Int
    BY <2>2
  <2>4. QED
    BY <2>1, <2>3 DEF Plain, Inner, ContentTypes
<1>12. bdry = Fresh(A) /\ bdry = Count(A) + 1
  BY <1>7 DEF Fresh, Count
<1> HIDE DEF own, R2, E2
<1>13. Attached(A, B, "box_bdry", own(A), NULL, n) /\ At(A, NULL, n)
  <2>1. Type(A, n) \in Roots \cup Boxes
    BY <1>8 DEF Boxes
  <2> HIDE DEF n, bdry
  <2>2. QED
    BY <2>1, <1>7, <1>8, <1>11, <1>12, ChildAttached DEF At
<1> HIDE DEF headed, bdry, n
<1>14. /\ B \in TypedHeaps /\ Grown(A, B) /\ Count(B) = Count(A) + 1 /\ Get(B, bdry, "parent") = n
  <2>1. B \in TypedHeaps /\ Grown(A, B) /\ Count(B) = Count(A) + 1
    BY <1>7, <1>13, AttachedGrown
  <2>2. Get(B, Fresh(A), "parent") = n
    BY <1>13 DEF Attached
  <2>3. QED
    BY <2>1, <2>2, <1>12
<1>15. Tree(B)
  BY <1>7, <1>8, <1>11, <1>13, AttachedTree
<1> DEFINE R3 == Longer1(Count(A), R2, R2[n])
           E3 == Longer1(Count(A), E2, 1)
<1>16. Nests(B, R3, E3, T)
  BY <1>7, <1>8, <1>9, <1>10, <1>11, <1>13, AttachedNests
<1>17. R3[n] = R[p] /\ E3[n] = 0 /\ E3[bdry] = 1
  BY <1>7, <1>10, <1>12 DEF Longer1
<1> HIDE DEF B, R3, E3
<1>18. Touch(B, G, {bdry}, {"friend"}) /\ bdry \in 1 .. Count(B)
  <2>1. G = IF cur.form = NULL THEN MakeFriendTlc(B, bdry) ELSE B
    BY DEF B
  <2>2. bdry \in 1 .. Count(B)
    BY <1>7, <1>12, <1>14
  <2>3. Touch(B, MakeFriendTlc(B, bdry), {bdry}, {"friend"})
    BY <2>2, <1>14, MakeFriendOf, BefriendsTouch
  <2>4. Touch(B, B, {bdry}, {"friend"})
    BY <1>14, TouchSame
  <2>5. QED
    BY <2>1, <2>2, <2>3, <2>4
<1> HIDE DEF final, G
<1>19. {"friend"} \cap (Links \cup {"weight", "next_hbox"}) = {} /\ {"friend"} \cap Links = {}
       /\ "parent" \notin {"friend"}
  BY DEF Links
<1>20. /\ Nests(G, R3, E3, T) /\ G \in TypedHeaps /\ Tree(G) /\ Grown(B, G) /\ Count(G) = Count(B)
       /\ Get(G, bdry, "parent") = n
  <2>1. bdry \in 0 .. Count(B)
    BY <1>18, <1>7, <1>14
  <2>2. QED
    <3>1. Nests(G, R3, E3, T)
      BY <1>14, <1>15, <1>16, <1>18, <1>19, TouchNests
    <3>2. Tree(G)
      BY <1>14, <1>15, <1>18, <1>19, TouchTree
    <3>3. G \in TypedHeaps /\ Grown(B, G) /\ Count(G) = Count(B)
      BY <1>14, <1>18, TouchGrown
    <3>4. Get(G, bdry, "parent") = n
      BY <2>1, <1>14, <1>18, <1>19 DEF Touch
    <3>5. QED
      BY <3>1, <3>2, <3>3, <3>4
<1>21. Grown(heap, G) /\ n \in 1 .. Count(G) /\ bdry \in 0 .. Count(G) /\ bdry # NULL
  <2>1. Grown(heap, B)
    BY <1>5, <1>7, <1>14, GrownTwice
  <2>2. Grown(heap, G)
    BY <2>1, <1>5, <1>14, <1>20, GrownTwice
  <2>3. QED
    BY <2>2, <1>7, <1>12, <1>14, <1>20 DEF NULL
<1>22. cur.form # NULL => cur.sheet = NULL
  BY <1>2, <1>4 DEF PlaceNests
<1>23. QED
  BY <1>2, <1>5, <1>17, <1>20, <1>21, <1>22, EnteredNests DEF n

(* Leaving a box: the place of the next node is after it.                  *)
LEMMA LeaveNests ==
  ASSUME TreeInv, cur.mode = "content", Type(heap, cur.parent) \in Boxes,
         NEW R, NEW E, NEW T, Nests(heap, R, E, T), PlaceNests(heap, cur, R, E),
         NEW G, heap' = G, cur' = LeftCur,
         Get(G, cur.parent, "parent") = Get(heap, cur.parent, "parent"),
         NEW R2, NEW E2, NEW T2, Nests(G, R2, E2, T2), E2[cur.parent] # 0,
         \A m \in 1 .. Count(heap) : R2[m] = R[m] /\ (m # cur.parent => E2[m] = E[m])
  PROVE  NestInv'
<1> DEFINE p == cur.parent
           q == Get(heap, p, "parent")
<1>1. /\ p \in 1 .. Count(heap) /\ E[p] = 0
      /\ R[p] = IF cur.form # NULL THEN cur.form ELSE cur.sheet
      /\ heap \in TypedHeaps /\ Tree(heap)
  BY NestPlace
<1>2. Type(heap, p) \in Inner
  BY DEF Boxes, Inner, ContentTypes
<1>3. /\ q \in 1 .. Count(heap) /\ q < p /\ NestRight(heap, R, E, p)
  BY <1>1, <1>2, NestOf DEF Nests
<1>4. R[q] = R[p] /\ E[q] = 0
  BY <1>1, <1>2, <1>3 DEF NestRight
<1>5. q # p /\ R2[q] = R[q] /\ E2[q] = 0 /\ p # NULL
  BY <1>1, <1>3, <1>4 DEF NULL
<1>6. /\ cur'.mode = "content" /\ cur'.parent = q /\ cur'.child = p
      /\ cur'.form = cur.form /\ cur'.sheet = cur.sheet
  <2>1. cur \in Cursors(Count(heap))
    BY DEF TreeInv, HandlesRight
  <2>2. QED
    BY <2>1 DEF Cursors, LeftCur
<1>7. cur.form # NULL => cur.sheet = NULL
  BY DEF PlaceNests
<1> HIDE DEF q
<1>8. PlaceNests(G, cur', R2, E2)
  BY <1>1, <1>4, <1>5, <1>6, <1>7 DEF PlaceNests, q
<1>9. QED
  BY <1>8 DEF NestInv

LEMMA EndVboxNests ==
  ASSUME TreeInv, NestInv, EndVbox, mix' = mix
  PROVE  NestInv'
<1> DEFINE n == cur.parent
           B == IF Get(heap, cur.parent, "child") = NULL /\ cur.form = NULL
                THEN MakeFriendTlc(heap, cur.parent) ELSE heap
           G == Left(B)
<1>1. InContent /\ cur.mode = "content" /\ Type(heap, n) = "vbox" /\ heap' = G /\ cur' = LeftCur
  BY DEF EndVbox, InContent
<1>2. /\ heap \in TypedHeaps /\ Tree(heap) /\ n \in 1 .. Count(heap) /\ n \in 0 .. Count(heap)
      /\ Len(cur.x) >= 2 /\ cur.x \in Seq(Seq(1 .. Count(heap))) /\ "vbox" \in Boxes
  BY <1>1, LastList, TypedOf DEF TreeInv, Boxes
<1>3. Touch(heap, B, {n}, {"friend"})
  <2>1. Touch(heap, MakeFriendTlc(heap, n), {n}, {"friend"})
    BY <1>2, MakeFriendOf, BefriendsTouch
  <2>2. Touch(heap, heap, {n}, {"friend"})
    BY <1>2, TouchSame
  <2>3. QED
    BY <2>1, <2>2
<1>4. B \in TypedHeaps /\ Count(B) = Count(heap)
  BY <1>2, <1>3, TouchGrown
<1> HIDE DEF B
<1> DEFINE F == {"tag", "line", "friend"}
<1>5. Touch(B, G, 0 .. Count(B), F)
  BY <1>2, <1>4, LeftOf
<1>6. /\ {"friend"} \cap (Links \cup {"weight", "next_hbox"}) = {}
      /\ F \cap (Links \cup {"weight", "next_hbox"}) = {} /\ {"friend"} \cap Links = {}
      /\ "parent" \notin F /\ "parent" \notin {"friend"}
  BY DEF Links
<1> HIDE DEF G, F
<1> SUFFICES ASSUME mix.inner_form # 2
             PROVE  NestInv'
  BY DEF NestInv
<1>7. PICK R, E, T : Nests(heap, R, E, T) /\ PlaceNests(heap, cur, R, E)
  BY DEF NestInv
<1>8. /\ E[n] = 0 /\ Count(heap) \in Nat
      /\ \A m \in 1 .. Count(heap) : Get(heap, m, "parent") = n => E[m] # 0
  BY <1>1, <1>7, NestPlace
<1> DEFINE E2 == Closing1(Count(heap), E, T, n)
<1>9. Nests(heap, R, E2, T + 1)
  BY <1>1, <1>2, <1>7, <1>8, CloseVbox
<1>10. E2[n] # 0 /\ \A m \in 1 .. Count(heap) : m # n => E2[m] = E[m]
  <2>1. T \in Nat
    BY <1>7 DEF Nests, TreeNests
  <2>2. QED
    BY <2>1, <1>2 DEF Closing1
<1> HIDE DEF E2
<1>11. Nests(B, R, E2, T + 1) /\ Tree(B)
  BY <1>2, <1>3, <1>6, <1>9, TouchNests, TouchTree
<1>12. Nests(G, R, E2, T + 1)
  BY <1>4, <1>5, <1>6, <1>11, TouchNests
<1>13. Get(G, n, "parent") = Get(heap, n, "parent")
  <2>1. Get(B, n, "parent") = Get(heap, n, "parent")
    BY <1>2, <1>3, <1>6 DEF Touch
  <2>2. n \in 0 .. Count(B)
    BY <1>2, <1>4
  <2>3. QED
    BY <2>1, <2>2, <1>5, <1>6 DEF Touch
<1> HIDE DEF n
<1>14. QED
  BY <1>1, <1>2, <1>7, <1>10, <1>12, <1>13, LeaveNests DEF n

(* The hbox that is left comes first in the chain of its sheet.            *)
LEMMA NextHboxExact ==
  ASSUME NEW H \in TypedHeaps, NEW n \in 1 .. Count(H), Type(H, n) = "hbox",
         cur.sheet \in 1 .. Count(H), Type(H, cur.sheet) = "sheet"
  PROVE  \A m \in 0 .. Count(H) :
           Get(NextHbox(H, n), m, "next_hbox") =
             IF m = cur.sheet THEN n
             ELSE IF m = n THEN Get(H, cur.sheet, "next_hbox") ELSE Get(H, m, "next_hbox")
<1> DEFINE x == Get(H, cur.sheet, "next_hbox")
           K == Set(H, n, "next_hbox", x)
<1>1. n \in 0 .. Count(H) /\ cur.sheet \in 0 .. Count(H) /\ x \in 0 .. Count(H)
  BY TypedOf DEF LinkFields
<1>2. Fit(H, "next_hbox", x) /\ "next_hbox" # "type"
  BY <1>1 DEF Fit, LinkFields
<1>3. Wrote(H, K, {n}, "next_hbox", x) /\ K \in TypedHeaps
  BY <1>1, <1>2, SetTyped
<1> HIDE DEF K, x
<1>4. Count(K) = Count(H) /\ Fit(K, "next_hbox", n)
  BY <1>1, <1>3 DEF Wrote, Fit, LinkFields
<1>5. Wrote(K, Set(K, cur.sheet, "next_hbox", n), {cur.sheet}, "next_hbox", n)
  BY <1>1, <1>3, <1>4, SetTyped
<1>6. Has(H, n, "next_hbox") /\ Has(H, cur.sheet, "next_hbox")
  <2>1. H \in Heaps
    BY TypedOf
  <2>2. "next_hbox" \in Fields["hbox"] /\ "next_hbox" \in Fields["sheet"]
    BY FieldsOf DEF ContentTypes
  <2>3. QED
    BY <2>1, <2>2, <1>2, NodesOf
<1>7. \A m \in 0 .. Count(H) :
        /\ Has(K, m, "next_hbox") <=> Has(H, m, "next_hbox")
        /\ Get(K, m, "next_hbox") = IF m = n THEN x ELSE Get(H, m, "next_hbox")
  BY <1>2, <1>3, <1>6 DEF Wrote
<1>8. \A m \in 0 .. Count(H) :
        Get(Set(K, cur.sheet, "next_hbox", n), m, "next_hbox") =
          IF m = cur.sheet THEN n ELSE Get(K, m, "next_hbox")
  BY <1>1, <1>2, <1>4, <1>5, <1>6, <1>7 DEF Wrote
<1>9. NextHbox(H, n) = Set(K, cur.sheet, "next_hbox", n)
  BY DEF NextHbox, K, x
<1>10. QED
  BY <1>7, <1>8, <1>9 DEF x

LEMMA CloseHbox ==
  ASSUME NEW H \in TypedHeaps, NEW R, NEW E, NEW T, Nests(H, R, E, T),
         NEW n \in 1 .. Count(H), Type(H, n) = "hbox", E[n] = 0,
         NEW G \in TypedHeaps, Count(G) = Count(H) + 1, Type(G, Fresh(H)) = "box_bdry",
         \A m \in 0 .. Count(H) :
           /\ Type(G, m) = Type(H, m)
           /\ m # n /\ Type(H, m) = "hbox" => Get(G, m, "weight") = Get(H, m, "weight"),
         Get(G, n, "weight") > 0,
         \A m \in 0 .. Count(H) :
           Get(G, m, "next_hbox") =
             IF Type(H, R[n]) = "sheet" /\ m = R[n] THEN n
             ELSE IF Type(H, R[n]) = "sheet" /\ m = n THEN Get(H, R[n], "next_hbox")
             ELSE Get(H, m, "next_hbox"),
         NEW R2, NEW E2, TreeNests(G, R2, E2, T + 1), E2[n] = T + 1,
         \A m \in 1 .. Count(H) : R2[m] = R[m] /\ (m # n => E2[m] = E[m])
  PROVE  NextNests(G, R2, E2)
<1>1. /\ Count(H) \in Nat /\ Fresh(H) = Count(H) + 1 /\ T \in Nat /\ n # NULL /\ n \in 0 .. Count(H)
      /\ \A m \in 1 .. Count(G) : m = Fresh(H) \/ m \in 1 .. Count(H)
      /\ \A m \in 1 .. Count(H) : /\ m \in 0 .. Count(H) /\ m \in 1 .. Count(G)
                                  /\ R[m] \in 1 .. Count(H) /\ E[m] \in 0 .. T
                                  /\ R[m] \in 0 .. Count(H)
                                  /\ NextRight(H, R, E, m)
  <2>1. Count(H) \in Nat /\ Fresh(H) = Count(H) + 1
    BY TypedOf, NodesOf
  <2>2. /\ T \in Nat /\ \A m \in 1 .. Count(H) : R[m] \in 1 .. Count(H) /\ E[m] \in 0 .. T
        /\ \A m \in 1 .. Count(H) : NextRight(H, R, E, m)
    BY DEF Nests, TreeNests, NextNests
  <2>3. QED
    BY <2>1, <2>2 DEF NULL
<1>2. \A m \in 1 .. Count(H) : Get(H, m, "next_hbox") # NULL => Get(H, m, "next_hbox") \in 1 .. Count(H)
  <2>1. \A m \in 1 .. Count(H) : Get(H, m, "next_hbox") \in 0 .. Count(H)
    BY <1>1, TypedOf DEF LinkFields
  <2>2. QED
    BY <2>1, <1>1 DEF NULL
<1>3. Get(H, n, "next_hbox") = NULL
  <2> DEFINE m == Get(H, n, "next_hbox")
  <2>1. m # NULL => E[m] < E[n] /\ E[m] \in 0 .. T
    BY <1>1, <1>2 DEF NextRight
  <2>2. QED
    BY <2>1, <1>1
<1>4. \A m \in 1 .. Count(H) : Get(H, m, "next_hbox") # n
  BY <1>1 DEF NextRight
<1> DEFINE s == R[n]
           old == Get(H, s, "next_hbox")
<1>5. Type(H, s) = "sheet" => s \in 1 .. Count(H) /\ s # n /\ R[s] = s
  <2>1. s \in 1 .. Count(H) /\ NestRight(H, R, E, s)
    BY <1>1 DEF Nests, TreeNests
  <2>2. QED
    BY <2>1 DEF NestRight, Roots
<1> SUFFICES ASSUME NEW m \in 1 .. Count(G)
             PROVE  NextRight(G, R2, E2, m)
  BY DEF NextNests
<1> DEFINE x == Get(G, m, "next_hbox")
<1>6. CASE m = Fresh(H)
  <2>1. G \in Heaps /\ "next_hbox" \notin Fields["box_bdry"]
    BY TypedOf, FieldsOf DEF ContentTypes
  <2>2. x = NULL
    BY <2>1, <1>6, NodesOf DEF NULL
  <2>3. QED
    BY <2>2, <1>6 DEF NextRight
<1>7. CASE m \in 1 .. Count(H)
  <2>1. m \in 0 .. Count(H) /\ Type(G, m) = Type(H, m) /\ NextRight(H, R, E, m)
        /\ R2[m] = R[m] /\ Type(G, R[m]) = Type(H, R[m])
    BY <1>1, <1>7
  <2>2. x = IF Type(H, s) = "sheet" /\ m = s THEN n
            ELSE IF Type(H, s) = "sheet" /\ m = n THEN old ELSE Get(H, m, "next_hbox")
    BY <2>1
  <2> HIDE DEF x, s, old
  <2>3. x # NULL =>
          /\ Type(G, x) = "hbox" /\ E2[x] # 0 /\ R2[x] = R2[m] /\ Type(G, R2[m]) = "sheet"
          /\ Type(G, m) = "hbox" => E2[x] < E2[m]
    <3>1. CASE Type(H, s) = "sheet" /\ m = s
      <4>1. /\ x = n /\ R2[n] = R[n] /\ R[s] = s /\ R[n] = s /\ E2[n] # 0 /\ Type(G, n) = "hbox"
            /\ Type(H, m) # "hbox"
        BY <3>1, <2>2, <1>1, <1>5 DEF s
      <4>2. QED
        BY <4>1, <3>1, <2>1
    <3>2. CASE Type(H, s) = "sheet" /\ m = n
      <4>1. x = old
        BY <3>2, <2>2, <1>5
      <4>2. ASSUME x # NULL
            PROVE  /\ x \in 1 .. Count(H) /\ x # n /\ Type(H, x) = "hbox" /\ E[x] # 0 /\ R[x] = s
                   /\ E[x] \in 0 .. T
        <5>1. s \in 1 .. Count(H) /\ R[s] = s /\ NextRight(H, R, E, s)
          BY <3>2, <1>1, <1>5
        <5>2. x \in 1 .. Count(H) /\ Type(H, x) = "hbox" /\ E[x] # 0 /\ R[x] = s
          BY <5>1, <4>1, <4>2, <1>2 DEF NextRight, old
        <5>3. QED
          BY <5>2, <1>1
      <4>3. x # NULL => E2[x] = E[x] /\ R2[x] = s /\ Type(G, x) = "hbox" /\ E2[x] < E2[n]
        BY <4>2, <1>1
      <4>4. R2[m] = s
        BY <3>2, <2>1 DEF s
      <4>5. QED
        BY <4>2, <4>3, <4>4, <3>2, <2>1 DEF s
    <3>3. CASE ~ (Type(H, s) = "sheet" /\ m = s) /\ ~ (Type(H, s) = "sheet" /\ m = n)
      <4>1. x = Get(H, m, "next_hbox")
        BY <3>3, <2>2
      <4>2. ASSUME x # NULL
            PROVE  /\ x \in 1 .. Count(H) /\ x # n /\ m # n /\ E2[x] = E[x] /\ R2[x] = R[x]
                   /\ E2[m] = E[m] /\ Type(G, x) = Type(H, x)
        BY <4>1, <4>2, <1>1, <1>2, <1>3, <1>4, <1>7
      <4>3. QED
        BY <4>1, <4>2, <2>1 DEF NextRight
    <3>4. QED
      BY <3>1, <3>2, <3>3
  <2>4. ASSUME Type(G, m) = "hbox"
        PROVE  /\ E2[m] # 0 <=> Get(G, m, "weight") > 0
               /\ (E2[m] # 0 /\ Type(G, R2[m]) = "sheet") =>
                    \E k \in 1 .. Count(G) : Get(G, k, "next_hbox") = m
    <3>1. CASE m = n
      <4>1. E2[m] # 0 /\ Get(G, m, "weight") > 0
        BY <3>1, <1>1
      <4>2. Type(H, s) = "sheet" => Get(G, s, "next_hbox") = m /\ s \in 1 .. Count(G)
        BY <3>1, <1>1, <1>5 DEF s
      <4>3. Type(G, R2[m]) = Type(H, s)
        BY <2>1, <3>1 DEF s
      <4>4. QED
        BY <4>1, <4>2, <4>3
    <3>2. CASE m # n
      <4>1. /\ Type(H, m) = "hbox" /\ E2[m] = E[m] /\ Get(G, m, "weight") = Get(H, m, "weight")
            /\ Type(G, R2[m]) = Type(H, R[m])
        BY <2>1, <2>4, <3>2, <1>7
      <4>2. ASSUME E2[m] # 0, Type(G, R2[m]) = "sheet"
            PROVE  \E k \in 1 .. Count(G) : Get(G, k, "next_hbox") = m
        <5>1. PICK k \in 1 .. Count(H) : Get(H, k, "next_hbox") = m
          BY <4>1, <4>2, <2>1 DEF NextRight
        <5>2. k # n /\ k \in 0 .. Count(H) /\ k \in 1 .. Count(G)
          BY <5>1, <1>1, <1>3, <1>7 DEF NULL
        <5>3. CASE Type(H, s) = "sheet" /\ k = s
          <6>1. Get(G, n, "next_hbox") = m
            BY <5>1, <5>3, <1>1, <1>5 DEF s
          <6>2. QED
            BY <6>1, <1>1
        <5>4. CASE ~ (Type(H, s) = "sheet" /\ k = s)
          <6>1. Get(G, k, "next_hbox") = m
            BY <5>1, <5>2, <5>4 DEF s
          <6>2. QED
            BY <6>1, <5>2
        <5>5. QED
          BY <5>3, <5>4
      <4>3. E2[m] # 0 <=> Get(G, m, "weight") > 0
        BY <4>1, <2>1 DEF NextRight
      <4>4. QED
        BY <4>2, <4>3
    <3>3. QED
      BY <3>1, <3>2
  <2>5. QED
    BY <2>3, <2>4 DEF NextRight, x
<1>8. QED
  BY <1>1, <1>6, <1>7

LEMMA EndHboxNests ==
  ASSUME TreeInv, NestInv, EndHbox, mix' = mix
  PROVE  NestInv'
<1> DEFINE n == cur.parent
           c == Get(heap, n, "child")
           B == Closed(MeanHeap, n)
           data == Closing(MeanHeap, n)
           b == Fresh(heap)
           G == SeenHeap
<1>1. /\ InContent /\ Type(heap, n) = "hbox" /\ n \in 1 .. Count(heap)
      /\ heap' = SeenHeap /\ cur' = LeftCur /\ cur.child \in 1 .. Count(heap)
      /\ c \in 1 .. Count(heap) /\ Type(heap, c) = "box_bdry"
      /\ Touch(heap, ChainedHeap, {n, cur.sheet}, {"next_hbox"})
      /\ Touch(ChainedHeap, MeanHeap, {n, c}, {"line", "mean_line", "weight"})
      /\ Get(MeanHeap, n, "weight") >= 1
      /\ Attached(MeanHeap, B, "box_bdry", data, cur.child, n)
      /\ Touch(B, FramedHeap, 0 .. Count(B), FramedFields)
      /\ Touch(FramedHeap, GluedHeap, {cur.last_k, cur.last_g}, {"tag", "line"})
      /\ Touch(GluedHeap, LeftHeap, 0 .. Count(GluedHeap), {"tag", "line", "friend"})
      /\ Touch(LeftHeap, G, {Outer}, {"visible"})
      /\ Count(MeanHeap) = Count(heap) /\ Tree(MeanHeap) /\ Tree(G)
      /\ Get(G, n, "parent") = Get(heap, n, "parent")
  BY EndHboxOf
<1>2. heap \in TypedHeaps /\ Tree(heap) /\ Count(heap) \in Nat /\ cur.mode = "content"
  BY <1>1, TypedOf DEF TreeInv, InContent
<1>3. ChainedHeap \in TypedHeaps /\ MeanHeap \in TypedHeaps /\ B \in TypedHeaps /\ G \in TypedHeaps
  BY <1>1 DEF Touch, Attached
<1> HIDE DEF B, data, c, G
<1>4. Fresh(MeanHeap) = b /\ b = Count(heap) + 1 /\ Count(B) = Count(heap) + 1 /\ b # NULL
  <2>1. Fresh(MeanHeap) = Count(MeanHeap) + 1 /\ b = Count(heap) + 1
    BY DEF Fresh, Count
  <2>2. Count(B) = Count(MeanHeap) + 1
    BY <1>1 DEF Attached
  <2>3. QED
    BY <2>1, <2>2, <1>1, <1>2 DEF NULL
<1> DEFINE F == {"tag", "line", "h", "v", "friend", "visible"}
           A == {"next_hbox", "line", "mean_line", "weight"}
<1>5. \E N : Touch(B, G, N, F)
  <2>1. F = ((FramedFields \cup {"tag", "line"}) \cup {"tag", "line", "friend"}) \cup {"visible"}
    BY DEF FramedFields
  <2> HIDE DEF F
  <2>2. PICK N1 : Touch(B, GluedHeap, N1, FramedFields \cup {"tag", "line"})
    BY <1>1, TouchTwice
  <2>3. PICK N2 : Touch(B, LeftHeap, N2, (FramedFields \cup {"tag", "line"}) \cup {"tag", "line", "friend"})
    BY <2>2, <1>1, TouchTwice
  <2>4. PICK N3 : Touch(B, G, N3, F)
    BY <2>1, <2>3, <1>1, TouchTwice
  <2>5. QED
    BY <2>4
<1>6. \E N : Touch(heap, MeanHeap, N, A)
  <2>1. A = {"next_hbox"} \cup {"line", "mean_line", "weight"}
    OBVIOUS
  <2> HIDE DEF A
  <2>2. QED
    BY <2>1, <1>1, TouchTwice
<1>7. A \cap Links = {} /\ F \cap (Links \cup {"weight", "next_hbox"}) = {} /\ F \cap Links = {}
  BY DEF Links
<1> HIDE DEF A, F
<1>8. PICK N1 : Touch(B, G, N1, F)
  BY <1>5
<1>9. PICK N2 : Touch(heap, MeanHeap, N2, A)
  BY <1>6
<1> SUFFICES ASSUME mix.inner_form # 2
             PROVE  NestInv'
  BY DEF NestInv
<1>10. PICK R, E, T : Nests(heap, R, E, T) /\ PlaceNests(heap, cur, R, E)
  BY DEF NestInv
<1>11. /\ E[n] = 0 /\ R[n] = IF cur.form # NULL THEN cur.form ELSE cur.sheet
       /\ cur.child # NULL /\ E[cur.child] # 0 /\ Get(heap, cur.child, "parent") = n
       /\ Get(heap, cur.child, "sibling") = NULL /\ T \in Nat /\ T >= 1
       /\ TreeNests(heap, R, E, T)
  <2>1. cur.child # NULL
    BY <1>1, <1>2 DEF NULL
  <2>2. QED
    BY <2>1, <1>2, <1>10, NestPlace DEF Nests, TreeNests
<1> DEFINE R2 == Longer1(Count(heap), R, R[n])
           E1 == Longer1(Count(heap), E, 1)
           E2 == Closing1(Count(G), E1, T, n)
<1>12. TreeNests(MeanHeap, R, E, T)
  BY <1>2, <1>7, <1>9, <1>11, TouchTreeNests
<1>13. TreeNests(B, R2, E1, T) /\ Tree(B)
  <2>1. At(MeanHeap, cur.child, n)
    <3>1. n \in 0 .. Count(heap) /\ cur.child \in 0 .. Count(heap)
      BY <1>1, <1>2
    <3>2. Type(MeanHeap, n) = "hbox"
      BY <3>1, <1>1, <1>9 DEF Touch
    <3>3. Get(MeanHeap, cur.child, "parent") = n /\ Get(MeanHeap, cur.child, "sibling") = NULL
      BY <3>1, <1>7, <1>9, <1>11 DEF Touch, Links
    <3>4. QED
      BY <3>2, <3>3, <1>1 DEF At, Boxes
  <2>2. Plain(data) /\ "box_bdry" \in Inner
    <3>1. n \in 0 .. Count(heap) /\ n \in 1 .. Count(MeanHeap)
      BY <1>1, <1>2
    <3>2. Type(MeanHeap, n) = "hbox"
      BY <3>1, <1>1, <1>9 DEF Touch
    <3>3. QED
      BY <3>1, <3>2, <1>3, ClosingPlain DEF data, Inner, ContentTypes
  <2>3. TreeNests(B, R2, E1, T)
    <3> DEFINE R0 == Longer1(Count(MeanHeap), R, R[n])
               E0 == Longer1(Count(MeanHeap), E, 1)
    <3>1. R0 = R2 /\ E0 = E1
      BY <1>1
    <3> HIDE DEF R2, E1
    <3>2. TreeNests(B, R0, E0, T)
      <4> HIDE DEF n
      <4>1. QED
        BY <2>1, <2>2, <1>1, <1>3, <1>11, <1>12, AttachedTreeNests DEF n
    <3>3. QED
      BY <3>1, <3>2
  <2>4. Tree(B)
    BY <2>1, <2>2, <1>1, <1>3, AttachedTree
  <2>5. QED
    BY <2>3, <2>4
<1>14. /\ R2[n] = R[n] /\ E1[n] = 0 /\ E1[b] = 1
       /\ \A m \in 1 .. Count(heap) : R2[m] = R[m] /\ E1[m] = E[m]
  BY <1>1, <1>2, <1>4, <1>11 DEF Longer1
<1> HIDE DEF R2, E1
<1>15. TreeNests(G, R2, E1, T) /\ Count(G) = Count(heap) + 1 /\ n \in 1 .. Count(G)
       /\ n \in 0 .. Count(heap) /\ n \in 0 .. Count(B)
  <2>1. TreeNests(G, R2, E1, T)
    BY <1>3, <1>7, <1>8, <1>13, TouchTreeNests
  <2>2. Count(G) = Count(B)
    BY <1>8 DEF Touch
  <2>3. QED
    BY <2>1, <2>2, <1>1, <1>2, <1>4
<1>16. /\ Type(G, b) = "box_bdry" /\ Get(G, b, "parent") = n /\ Get(G, b, "sibling") = NULL
       /\ Type(G, n) = "hbox"
  <2>1. Type(B, b) = "box_bdry" /\ Get(B, b, "parent") = n /\ Get(B, b, "sibling") = NULL
    BY <1>1, <1>4 DEF Attached
  <2>2. b \in 0 .. Count(B) /\ n \in 0 .. Count(B) /\ n \in 0 .. Count(MeanHeap)
    BY <1>1, <1>2, <1>4
  <2>3. Type(B, n) = "hbox"
    <3>1. Type(MeanHeap, n) = "hbox"
      BY <1>1, <1>9, <1>15 DEF Touch
    <3>2. QED
      BY <3>1, <2>2, <1>1 DEF Attached
  <2>4. QED
    BY <2>1, <2>2, <2>3, <1>7, <1>8 DEF Touch, Links
<1>17. \A m \in 1 .. Count(G) : Get(G, m, "parent") = n => E1[m] # 0
  <2>1. b \in 1 .. Count(G)
    BY <1>2, <1>4, <1>15
  <2>2. b = NULL => Get(G, n, "child") = NULL
    BY <1>4
  <2> HIDE DEF b, n
  <2>3. QED
    BY <2>1, <2>2, <1>1, <1>3, <1>14, <1>15, <1>16, ChildrenFinished
<1>18. TreeNests(G, R2, E2, T + 1)
  <2> HIDE DEF n
  <2>1. QED
    BY <1>1, <1>3, <1>14, <1>15, <1>16, <1>17, CloseTree DEF Boxes
<1>19. /\ E2[n] = T + 1 /\ \A m \in 1 .. Count(heap) : m # n => E2[m] = E[m]
  BY <1>2, <1>14, <1>15 DEF Closing1
<1> HIDE DEF E2, n, b
<1>20. \A m \in 0 .. Count(heap) :
         /\ m \in 0 .. Count(ChainedHeap) /\ m \in 0 .. Count(MeanHeap) /\ m \in 0 .. Count(B)
         /\ Type(G, m) = Type(heap, m) /\ Get(G, m, "weight") = Get(MeanHeap, m, "weight")
         /\ Get(G, m, "next_hbox") = Get(ChainedHeap, m, "next_hbox")
  <2> SUFFICES ASSUME NEW m \in 0 .. Count(heap)
               PROVE  /\ m \in 0 .. Count(ChainedHeap) /\ m \in 0 .. Count(MeanHeap) /\ m \in 0 .. Count(B)
                      /\ Type(G, m) = Type(heap, m) /\ Get(G, m, "weight") = Get(MeanHeap, m, "weight")
                      /\ Get(G, m, "next_hbox") = Get(ChainedHeap, m, "next_hbox")
    OBVIOUS
  <2>1. m \in 0 .. Count(ChainedHeap) /\ m \in 0 .. Count(MeanHeap) /\ m \in 0 .. Count(B)
    BY <1>1, <1>2, <1>4 DEF Touch
  <2>2. Type(MeanHeap, m) = Type(heap, m)
    BY <1>9 DEF Touch
  <2>3. Get(MeanHeap, m, "next_hbox") = Get(ChainedHeap, m, "next_hbox")
    BY <2>1, <1>1 DEF Touch
  <2>4. /\ Type(B, m) = Type(MeanHeap, m) /\ Get(B, m, "weight") = Get(MeanHeap, m, "weight")
        /\ Get(B, m, "next_hbox") = Get(MeanHeap, m, "next_hbox")
    BY <2>1, <1>1 DEF Attached
  <2>5. /\ Type(G, m) = Type(B, m) /\ Get(G, m, "weight") = Get(B, m, "weight")
        /\ Get(G, m, "next_hbox") = Get(B, m, "next_hbox")
    BY <2>1, <1>7, <1>8 DEF Touch
  <2>6. QED
    BY <2>1, <2>2, <2>3, <2>4, <2>5
<1>21. ASSUME NEW m \in 0 .. Count(heap), m # n, Type(heap, m) = "hbox"
       PROVE  Get(G, m, "weight") = Get(heap, m, "weight")
  <2>1. m # c
    BY <1>1, <1>21 DEF c
  <2>2. Get(ChainedHeap, m, "weight") = Get(heap, m, "weight")
    BY <1>1 DEF Touch
  <2>3. Get(MeanHeap, m, "weight") = Get(ChainedHeap, m, "weight")
    BY <2>1, <1>1, <1>20, <1>21 DEF Touch
  <2>4. QED
    BY <2>2, <2>3, <1>20
<1>22. Get(G, n, "weight") > 0
  <2>1. Get(G, n, "weight") = Get(MeanHeap, n, "weight") /\ Get(MeanHeap, n, "weight") >= 1
    BY <1>1, <1>15, <1>20
  <2>2. Get(MeanHeap, n, "weight") \in Int
    <3>1. n \in 0 .. Count(MeanHeap)
      BY <1>15, <1>20
    <3>2. QED
      BY <3>1, <1>3, TypedOf DEF NumberFields
  <2>3. QED
    BY <2>1, <2>2
<1>23. \A m \in 0 .. Count(heap) :
         Get(G, m, "next_hbox") =
           IF Type(heap, R[n]) = "sheet" /\ m = R[n] THEN n
           ELSE IF Type(heap, R[n]) = "sheet" /\ m = n THEN Get(heap, R[n], "next_hbox")
           ELSE Get(heap, m, "next_hbox")
  <2>1. Is(heap, cur.sheet, {"sheet"}) /\ Is(heap, cur.form, {"form"})
        /\ (cur.form = NULL => cur.sheet # NULL)
    BY <1>2 DEF TreeInv, HandlesRight, PlaceRight
  <2>2. CASE cur.form = NULL
    <3>1. R[n] = cur.sheet /\ cur.sheet \in 1 .. Count(heap) /\ Type(heap, cur.sheet) = "sheet"
      BY <2>1, <2>2, <1>11 DEF Is
    <3>2. ChainedHeap = NextHbox(heap, n)
      BY <2>2 DEF ChainedHeap, n
    <3>3. \A m \in 0 .. Count(heap) :
            Get(NextHbox(heap, n), m, "next_hbox") =
              IF m = cur.sheet THEN n
              ELSE IF m = n THEN Get(heap, cur.sheet, "next_hbox") ELSE Get(heap, m, "next_hbox")
      BY <3>1, <1>1, <1>2, NextHboxExact
    <3>4. QED
      BY <3>1, <3>2, <3>3, <1>20
  <2>3. CASE cur.form # NULL
    <3>1. ChainedHeap = heap /\ Type(heap, R[n]) = "form"
      BY <2>1, <2>3, <1>11 DEF ChainedHeap, Is
    <3>2. QED
      BY <3>1, <1>20
  <2>4. QED
    BY <2>2, <2>3
<1>24. NextNests(G, R2, E2)
  BY <1>1, <1>2, <1>3, <1>10, <1>11, <1>14, <1>15, <1>16, <1>18, <1>19, <1>20, <1>21, <1>22, <1>23,
     CloseHbox DEF b
<1>25. Nests(G, R2, E2, T + 1) /\ E2[n] # 0
  BY <1>11, <1>18, <1>19, <1>24 DEF Nests
<1>26. QED
  BY <1>1, <1>2, <1>10, <1>14, <1>19, <1>25, LeaveNests DEF Boxes, G, n

LEMMA RootNests ==
  ASSUME TreeInv, NestInv, BeginSheet \/ BeginForm \/ MoreInput, mix' = mix
  PROVE  NestInv'
<1> SUFFICES ASSUME mix.inner_form # 2
             PROVE  NestInv'
  BY DEF NestInv
<1>1. PICK R, E, T : Nests(heap, R, E, T) /\ PlaceNests(heap, cur, R, E)
  BY DEF NestInv
<1> DEFINE n == Fresh(heap)
           R2 == Longer1(Count(heap), R, n)
           E2 == Longer1(Count(heap), E, 0)
<1>2. /\ heap \in TypedHeaps /\ Tree(heap) /\ Is(heap, scanner.input, {"input"})
      /\ Count(heap) \in Nat /\ n = Count(heap) + 1 /\ n # NULL /\ cur \in Cursors(Count(heap))
      /\ cur.mode = "main" => cur.sheet = NULL /\ cur.form = NULL
  <2>1. /\ heap \in TypedHeaps /\ Tree(heap) /\ Is(heap, scanner.input, {"input"})
        /\ cur \in Cursors(Count(heap))
    BY DEF TreeInv, HandlesRight
  <2>2. Count(heap) \in Nat /\ n = Count(heap) + 1
    BY <2>1, TypedOf DEF Fresh, Count
  <2>3. QED
    BY <1>1, <2>1, <2>2 DEF PlaceNests, NULL
<1>3. R2[n] = n /\ E2[n] = 0
  BY <1>2 DEF Longer1
<1> HIDE DEF R2, E2
<1>4. ASSUME NEW type \in Roots \cup {"input"}, NEW G, Rooted(heap, G, type)
      PROVE  Nests(G, R2, E2, T) /\ Get(G, n, "child") = NULL
  <2>1. Nests(G, R2, E2, T)
    BY <1>1, <1>2, <1>4, RootedNests DEF R2, E2
  <2>2. "child" \in LinkFields \ {"sibling"}
    BY DEF LinkFields
  <2>3. QED
    BY <2>1, <2>2, <1>4 DEF Rooted
<1> HIDE DEF n
<1>5. CASE BeginSheet
  <2>1. PICK r \in Records : r.kind = "sheet" /\ heap' = NewSheet(r)
    BY <1>5 DEF BeginSheet, Reading
  <2>2. Nests(heap', R2, E2, T) /\ Get(heap', n, "child") = NULL
    BY <2>1, <1>4, SheetRooted DEF Roots
  <2>3. cur'.mode = "content" /\ cur'.sheet = n /\ cur'.form = NULL /\ cur'.parent = n /\ cur'.child = NULL
    BY <1>2, <1>5 DEF BeginSheet, Cursors, n
  <2>4. PlaceNests(heap', cur', R2, E2)
    BY <2>2, <2>3, <1>3 DEF PlaceNests
  <2>5. QED
    BY <2>2, <2>4 DEF NestInv
<1>6. CASE BeginForm
  <2>1. PICK r \in Records : r.kind = "form" /\ heap' = NewForm(r)
    BY <1>6 DEF BeginForm, Reading
  <2>2. Nests(heap', R2, E2, T) /\ Get(heap', n, "child") = NULL
    BY <2>1, <1>4, FormRooted DEF Roots
  <2>3. cur.sheet = NULL
    BY <1>6 DEF BeginForm
  <2>4. cur'.mode = "content" /\ cur'.sheet = NULL /\ cur'.form = n /\ cur'.parent = n /\ cur'.child = NULL
    BY <2>3, <1>2, <1>6 DEF BeginForm, Cursors, n
  <2>5. PlaceNests(heap', cur', R2, E2)
    BY <2>2, <2>4, <1>2, <1>3 DEF PlaceNests
  <2>6. QED
    BY <2>2, <2>5 DEF NestInv
<1>7. CASE MoreInput
  <2>1. PICK r \in Records :
          r.kind = "input" /\ heap' = New(heap, "input", [tag |-> r.tag, sibling |-> scanner.input])
    BY <1>7 DEF MoreInput, Reading
  <2>2. r.tag \in Int
    BY <2>1, RecordsAssumption
  <2> DEFINE G == New(heap, "input", [tag |-> r.tag, sibling |-> scanner.input])
  <2>3. Rooted(heap, G, "input")
    BY <2>2, <1>2, InputRooted
  <2> HIDE DEF G
  <2>4. Nests(G, R2, E2, T)
    BY <2>3, <1>4
  <2>5. cur'.mode = "main" /\ cur'.sheet = NULL /\ cur'.form = NULL
    BY <1>2, <1>7 DEF MoreInput, InMain, Cursors
  <2>6. PlaceNests(heap', cur', R2, E2)
    BY <2>5 DEF PlaceNests
  <2>7. QED
    BY <2>1, <2>4, <2>6 DEF NestInv, G
<1>8. QED
  BY <1>5, <1>6, <1>7

LEMMA SameHeapNests ==
  ASSUME TreeInv, NestInv, EndSheet \/ EndForm \/ PassOver \/ BadRecord \/ LoseRecord \/ EndOfContent,
         mix' = mix
  PROVE  NestInv'
<1> SUFFICES ASSUME mix.inner_form # 2
             PROVE  NestInv'
  BY DEF NestInv
<1>1. PICK R, E, T : Nests(heap, R, E, T) /\ PlaceNests(heap, cur, R, E)
  BY DEF NestInv
<1>2. heap' = heap
  BY DEF EndSheet, EndForm, PassOver, BadRecord, LoseRecord, EndOfContent, Postamble
<1>3. cur \in Cursors(Count(heap))
  BY DEF TreeInv, HandlesRight
<1>4. PlaceNests(heap, cur', R, E)
  <2>1. CASE EndSheet
    <3>1. cur'.mode = "main" /\ cur'.sheet = NULL /\ cur'.form = NULL
      BY <2>1, <1>3 DEF EndSheet, Cursors
    <3>2. QED
      BY <3>1 DEF PlaceNests
  <2>2. CASE EndForm
    <3>1. cur.sheet = NULL
      BY <2>2, <1>1 DEF EndForm, InContent, PlaceNests
    <3>2. cur'.mode = "main" /\ cur'.sheet = NULL /\ cur'.form = NULL
      BY <2>2, <3>1, <1>3 DEF EndForm, Cursors
    <3>3. QED
      BY <3>2 DEF PlaceNests
  <2>3. CASE PassOver \/ BadRecord \/ LoseRecord
    <3>1. /\ cur'.mode = cur.mode /\ cur'.sheet = cur.sheet /\ cur'.form = cur.form
          /\ cur'.parent = cur.parent /\ cur'.child = cur.child
      BY <2>3, <1>3 DEF PassOver, BadRecord, LoseRecord, Cursors
    <3>2. QED
      BY <3>1, <1>1 DEF PlaceNests
  <2>4. CASE EndOfContent
    <3>1. cur' = startCur
      BY <2>4 DEF EndOfContent, Postamble
    <3>2. QED
      BY <3>1 DEF PlaceNests, startCur
  <2>5. QED
    BY <2>1, <2>2, <2>3, <2>4
<1>5. QED
  BY <1>1, <1>2, <1>4 DEF NestInv

(* A heap of inputs only.                                                  *)
LEMMA InputsNest ==
  ASSUME NEW H \in TypedHeaps,
         \A n \in 1 .. Count(H) : Type(H, n) = "input" /\ Get(H, n, "next_hbox") = NULL
  PROVE  \E R, E, T : Nests(H, R, E, T)
<1> DEFINE R == [n \in 1 .. Count(H) |-> n]
           E == [n \in 1 .. Count(H) |-> 0]
<1>1. R \in [1 .. Count(H) -> 1 .. Count(H)] /\ E \in [1 .. Count(H) -> 0 .. 1] /\ 1 \in Nat /\ 1 >= 1
  OBVIOUS
<1> HIDE DEF R, E
<1>2. \A n \in 1 .. Count(H) : NestRight(H, R, E, n) /\ NextRight(H, R, E, n)
  BY DEF NestRight, NextRight, Roots, Inner
<1>3. Nests(H, R, E, 1)
  BY <1>1, <1>2 DEF Nests, TreeNests, NextNests
<1>4. QED
  BY <1>3

LEMMA EndOfFileNests ==
  ASSUME EndOfFile
  PROVE  NestInv'
<1>1. heap' = EmptyHeap /\ cur' = startCur
  BY DEF EndOfFile
<1>2. EmptyHeap \in TypedHeaps /\ \A n \in 1 .. Count(EmptyHeap) : FALSE
  BY EmptyTyped
<1>3. PICK R, E, T : Nests(EmptyHeap, R, E, T)
  BY <1>2, InputsNest
<1>4. PlaceNests(heap', cur', R, E)
  BY <1>1 DEF PlaceNests, startCur
<1>5. QED
  BY <1>1, <1>3, <1>4 DEF NestInv

LEMMA InitNests ==
  ASSUME Init
  PROVE  NestInv
<1>1. heap = withInputs /\ cur = startCur
  BY DEF Init
<1>2. /\ withInputs \in TypedHeaps
      /\ \A n \in 1 .. Count(withInputs) :
           Type(withInputs, n) = "input" /\ Get(withInputs, n, "next_hbox") = NULL
  BY WithInputsOf DEF NULL
<1>3. PICK R, E, T : Nests(withInputs, R, E, T)
  BY <1>2, InputsNest
<1>4. PlaceNests(heap, cur, R, E)
  BY <1>1 DEF PlaceNests, startCur
<1>5. QED
  BY <1>1, <1>3, <1>4 DEF NestInv
------------------------------------------------------------------------------
LEMMA ChainInNest ==
  ASSUME heap \in TypedHeaps, Tree(heap), NestInv
  PROVE  NextHboxes
<1> SUFFICES ASSUME mix.inner_form # 2, NEW s \in Sheets
             PROVE  LET chain == Tail(Chain(heap, s, "next_hbox"))
                        at(n) == CHOOSE i \in DOMAIN chain : chain[i] = n
                        closed == {n \in On(s) \cap Of({"hbox"}) : Get(heap, n, "weight") > 0}
                    IN  /\ IsInjective(chain)
                        /\ ToSet(chain) \cap Of({"hbox"}) = closed
                        /\ ToSet(chain) \subseteq On(s)
                        /\ \A m, n \in closed :
                             (m # n /\ m \in Ancestors(heap, n)) => at(m) < at(n)
  BY DEF NextHboxes
<1> DEFINE c == Chain(heap, s, "next_hbox")
           chain == Tail(c)
           at(n) == CHOOSE i \in DOMAIN chain : chain[i] = n
           closed == {n \in On(s) \cap Of({"hbox"}) : Get(heap, n, "weight") > 0}
<1>1. PICK R, E, T : Nests(heap, R, E, T)
  BY DEF NestInv
<1>2. TreeNests(heap, R, E, T) /\ \A m \in 1 .. Count(heap) : NextRight(heap, R, E, m)
  BY <1>1 DEF Nests, NextNests
<1>3. Nodes = 1 .. Count(heap) /\ \A n \in Nodes : Type(heap, n) = heap.node[n].type
  <2>1. heap \in Heaps /\ \A n \in 1 .. Count(heap) : Type(heap, n) \in ContentTypes
    BY TypedOf, NodesOf
  <2>2. "freed" \notin ContentTypes
    BY DEF ContentTypes
  <2>3. QED
    BY <2>1, <2>2, NodesOf DEF Nodes
<1>4. s \in 1 .. Count(heap) /\ Type(heap, s) = "sheet"
  BY <1>3 DEF Sheets, Of
<1>5. s # NULL
  BY <1>4 DEF NULL
<1>6. Of({"hbox"}) = {n \in 1 .. Count(heap) : Type(heap, n) = "hbox"}
  BY <1>3 DEF Of
<1>7. \A n \in 1 .. Count(heap) : Type(heap, n) = "hbox" => (n \in On(s) <=> R[n] = s)
  <2> SUFFICES ASSUME NEW n \in 1 .. Count(heap), Type(heap, n) = "hbox"
               PROVE  n \in On(s) <=> R[n] = s
    OBVIOUS
  <2>1. ParentSheet(heap, n) = IF Type(heap, R[n]) = "sheet" THEN R[n] ELSE NULL
    BY <1>2, RootSheet
  <2>2. QED
    BY <2>1, <1>3, <1>4, <1>5 DEF On
<1>8. \A n \in 1 .. Count(heap) :
        n \in closed <=> Type(heap, n) = "hbox" /\ R[n] = s /\ E[n] # 0
  BY <1>2, <1>6, <1>7 DEF NextRight
<1>9. closed \subseteq 1 .. Count(heap)
  BY <1>6
<1>10. /\ c \in Seq(1 .. Count(heap)) /\ Len(c) \in Nat /\ Len(c) >= 1
       /\ \A i \in 2 .. Len(c) :
            /\ Type(heap, c[i]) = "hbox" /\ R[c[i]] = s /\ E[c[i]] # 0
            /\ \A j \in 2 .. Len(c) : i < j => E[c[j]] < E[c[i]]
       /\ \A n \in 1 .. Count(heap) : Type(heap, n) = "hbox" /\ R[n] = s /\ E[n] # 0 =>
            \E i \in 2 .. Len(c) : c[i] = n
  BY <1>1, <1>4, SheetChain
<1> HIDE DEF c, closed
<1>11. /\ DOMAIN chain = 1 .. Len(c) - 1
       /\ \A i \in DOMAIN chain : chain[i] = c[i + 1] /\ i + 1 \in 2 .. Len(c)
       /\ \A i \in 2 .. Len(c) : i - 1 \in DOMAIN chain /\ chain[i - 1] = c[i]
  BY <1>10, PlaceInTail
<1> HIDE DEF chain
<1>12. \A i \in DOMAIN chain : chain[i] \in closed /\ E[chain[i]] \in Nat
  <2> SUFFICES ASSUME NEW i \in DOMAIN chain
               PROVE  chain[i] \in closed /\ E[chain[i]] \in Nat
    OBVIOUS
  <2>1. i + 1 \in 2 .. Len(c) /\ i + 1 \in 1 .. Len(c) /\ chain[i] = c[i + 1]
    BY <1>10, <1>11
  <2>2. c[i + 1] \in 1 .. Count(heap)
    <3> SUFFICES \A j \in 1 .. Len(c) : c[j] \in 1 .. Count(heap)
      BY <2>1
    <3>1. QED
      BY <1>10, ElementOfSeq
  <2>3. QED
    BY <2>1, <2>2, <1>2, <1>8, <1>10, NestOf
<1>13. \A i, j \in DOMAIN chain : i < j => E[chain[j]] < E[chain[i]]
  <2> SUFFICES ASSUME NEW i \in DOMAIN chain, NEW j \in DOMAIN chain, i < j
               PROVE  E[chain[j]] < E[chain[i]]
    OBVIOUS
  <2>1. i + 1 < j + 1
    BY <1>10, <1>11
  <2>2. QED
    BY <2>1, <1>10, <1>11
<1>14. ToSet(chain) = closed
  <2>1. ToSet(chain) \subseteq closed
    BY <1>12 DEF ToSet
  <2>2. ASSUME NEW n \in closed PROVE n \in ToSet(chain)
    <3>1. PICK i \in 2 .. Len(c) : c[i] = n
      BY <1>8, <1>9, <1>10
    <3>2. QED
      BY <3>1, <1>11 DEF ToSet
  <2>3. QED
    BY <2>1, <2>2
<1>15. DOMAIN chain \subseteq Int
  BY <1>10, <1>11
<1>16. IsInjective(chain)
  <2> SUFFICES ASSUME NEW i \in DOMAIN chain, NEW j \in DOMAIN chain, chain[i] = chain[j], i # j
               PROVE  FALSE
    BY DEF IsInjective
  <2>1. i < j \/ j < i
    BY <1>15
  <2>2. E[chain[i]] < E[chain[j]] \/ E[chain[j]] < E[chain[i]]
    BY <2>1, <1>13
  <2>3. QED
    BY <2>2, <1>12
<1>17. closed \subseteq Of({"hbox"}) /\ closed \subseteq On(s)
  BY DEF closed
<1>18. ASSUME NEW m \in closed, NEW n \in closed, m # n, m \in Ancestors(heap, n)
       PROVE  at(m) < at(n)
  <2>1. E[m] # 0 /\ E[n] # 0 /\ m \in 1 .. Count(heap) /\ n \in 1 .. Count(heap)
    BY <1>8, <1>9
  <2>2. E[n] < E[m] /\ E[n] \in Nat /\ E[m] \in Nat
    BY <2>1, <1>2, <1>18, AncestorsLater, NestOf
  <2>3. \A k \in closed : at(k) \in DOMAIN chain /\ chain[at(k)] = k
    <3>1. \A k \in closed : \E i \in DOMAIN chain : chain[i] = k
      BY <1>14 DEF ToSet
    <3>2. QED
      BY <3>1
  <2> HIDE DEF at
  <2>4. at(m) \in DOMAIN chain /\ at(n) \in DOMAIN chain /\ chain[at(m)] = m /\ chain[at(n)] = n
    BY <2>3
  <2>5. at(m) \in Int /\ at(n) \in Int
    BY <2>4, <1>15
  <2>6. at(m) # at(n)
    BY <2>4, <1>18
  <2>7. ~ (at(n) < at(m))
    <3>1. SUFFICES ASSUME at(n) < at(m) PROVE FALSE
      OBVIOUS
    <3>2. E[m] < E[n]
      BY <3>1, <2>4, <1>13
    <3>3. QED
      BY <3>2, <2>2
  <2>8. QED
    BY <2>5, <2>6, <2>7
<1>19. QED
  BY <1>14, <1>16, <1>17, <1>18 DEF chain, c, closed

(* The chain of a sheet that an edit query goes through has every hbox of  *)
(* the sheet that is closed, once, the outer ones before those in them,    *)
(* and none of another sheet, at any time, in a file in which no form      *)
(* begins inside a sheet.                                                  *)
THEOREM ChainHolds == ContentSpec => []NextHboxes
<1>1. Init => NestInv
  BY InitNests
<1>2. TreeInv /\ NestInv /\ [ContentNext]_vars => NestInv'
  <2> SUFFICES ASSUME TreeInv, NestInv, [ContentNext]_vars
               PROVE  NestInv'
    OBVIOUS
  <2>1. CASE UNCHANGED vars
    BY <2>1 DEF vars, NestInv
  <2>2. CASE ContentNext
    <3>1. mix' = mix
      BY <2>2 DEF ContentNext
    <3>2. CASE BeginSheet \/ BeginForm \/ MoreInput
      BY <3>1, <3>2, RootNests
    <3>3. CASE \/ EndSheet \/ EndForm \/ PassOver \/ BadRecord \/ LoseRecord \/ EndOfContent
      BY <3>1, <3>3, SameHeapNests
    <3>4. CASE EndOfFile
      BY <3>4, EndOfFileNests
    <3>5. CASE BeginVbox
      BY <3>1, <3>5, BeginVboxNests
    <3>6. CASE EndVbox
      BY <3>1, <3>6, EndVboxNests
    <3>7. CASE BeginHbox
      BY <3>1, <3>7, BeginHboxNests
    <3>8. CASE EndHbox
      BY <3>1, <3>8, EndHboxNests
    <3>9. CASE VoidVbox \/ VoidHbox \/ Kern \/ Glue \/ Rule \/ Math
      BY <3>1, <3>9, LeavesNests
    <3>10. CASE Boundary
      BY <3>1, <3>10, BoundaryNests
    <3>11. CASE FormRef
      BY <3>1, <3>11, FormRefNests
    <3>12. QED
      BY <2>2, <3>2, <3>3, <3>4, <3>5, <3>6, <3>7, <3>8, <3>9, <3>10, <3>11
         DEF ContentNext, Read
  <2>3. QED
    BY <2>1, <2>2
<1>3. TreeInv /\ NestInv => NextHboxes
  BY ChainInNest DEF TreeInv
<1>4. QED
  BY <1>1, <1>2, <1>3, Attaching, PTL DEF ContentSpec
==============================================================================
