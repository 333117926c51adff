----------------------------- MODULE SynctexNode -----------------------------
(***************************************************************************)
(* The nodes of the synctex parser (server/synctex_parser.c): what a node  *)
(* of each class keeps, the links between nodes and the lists of friends.  *)
(*                                                                         *)
(* A heap is a record of the nodes, node[1], node[2], ..., and of the head *)
(* of each list of friends.  A node is a record of its type and of the     *)
(* fields its class has; a node that was released is of type "freed".      *)
(***************************************************************************)
EXTENDS SynctexGeometry, SequencesExt

CONSTANT NumberOfLists          \* number_of_lists, 1024 in the code
ASSUME ListsAssumption == NumberOfLists \in Nat \ {0}

NULL == 0

------------------------------------------------------------------------------
(* The fields of each class: its tree model and its data model.            *)
tlchv == {"tag", "line", "h", "v"}
box == tlchv \cup {"width", "height", "depth"}
spf == {"sibling", "parent", "friend"}
inputFields == {"sibling", "tag", "line", "name"}
sheetFields == {"sibling", "child", "next_hbox", "page"}
formFields == {"sibling", "child", "target", "tag"}
vboxFields == spf \cup {"child", "last"} \cup box
hboxFields == vboxFields \cup {"next_hbox", "mean_line", "weight", "visible"}
voidFields == spf \cup box
refFields == spf \cup {"arg_sibling", "tag", "h", "v"}
mathFields == spf \cup tlchv
kernFields == mathFields \cup {"width"}
glueFields == mathFields
ruleFields == spf \cup box
boundaryFields == mathFields
box_bdryFields == mathFields \cup {"arg_sibling"}
proxyFields == spf \cup {"target", "h", "v"}
proxy_vboxFields == proxyFields \cup {"child", "last"}
proxy_hboxFields == proxy_vboxFields \cup {"next_hbox"}
proxy_lastFields == proxyFields \cup {"arg_sibling"}

Fields ==
  [input |-> inputFields, sheet |-> sheetFields, form |-> formFields,
   vbox |-> vboxFields, hbox |-> hboxFields, void_vbox |-> voidFields,
   void_hbox |-> voidFields, kern |-> kernFields, glue |-> glueFields,
   rule |-> ruleFields, math |-> mathFields, boundary |-> boundaryFields,
   box_bdry |-> box_bdryFields, ref |-> refFields, proxy |-> proxyFields,
   proxy_vbox |-> proxy_vboxFields, proxy_hbox |-> proxy_hboxFields,
   proxy_last |-> proxy_lastFields, freed |-> {}]

Proxies == {"proxy", "proxy_vbox", "proxy_hbox", "proxy_last"}

------------------------------------------------------------------------------
(* Access.  A getter of a field the class does not have returns 0 or NULL, *)
(* a setter does nothing.                                                  *)
EmptyHeap == [node |-> <<>>, list |-> [i \in 0 .. NumberOfLists - 1 |-> NULL]]
Fresh(H) == Len(H.node) + 1
Type(H, n) == IF n = NULL THEN "none" ELSE H.node[n].type
Has(H, n, f) == n # NULL /\ f \in DOMAIN H.node[n]
Get(H, n, f) == IF Has(H, n, f) THEN H.node[n][f] ELSE 0
Set(H, n, f, x) ==
  IF Has(H, n, f)
  THEN [H EXCEPT !.node[n] = [g \in DOMAIN H.node[n] |-> IF g = f THEN x ELSE H.node[n][g]]]
  ELSE H
SetAll(H, s, f, x) ==
  LET after[i \in 0 .. Len(s)] == IF i = 0 THEN H ELSE Set(after[i - 1], s[i], f, x)
  IN  after[Len(s)]
SizeOf(H, n) ==
  [h |-> Get(H, n, "h"), v |-> Get(H, n, "v"), width |-> Get(H, n, "width"),
   height |-> Get(H, n, "height"), depth |-> Get(H, n, "depth")]

(* The creator: fields that the record does not give are null; the visible *)
(* size of an hbox is at first its size.                                   *)
New(H, type, data) ==
  LET given(f) == IF f \in DOMAIN data THEN data[f] ELSE 0
      value(f) == CASE f = "type" -> type
                    [] f = "visible" ->
                         [h |-> given("h"), v |-> given("v"), width |-> given("width"),
                          height |-> given("height"), depth |-> given("depth")]
                    [] OTHER -> given(f)
  IN  [H EXCEPT !.node = Append(@, [f \in Fields[type] \cup {"type"} |-> value(f)])]

------------------------------------------------------------------------------
(* Links.  Chain lists n and what follows it along a field.                *)
LastOf(s) == IF s = <<>> THEN NULL ELSE s[Len(s)]
Chain(H, n, f) ==
  LET from[k \in 0 .. Fresh(H)] ==
        [m \in 0 .. Len(H.node) |->
           IF m = NULL \/ k = 0 THEN <<>> ELSE <<m>> \o from[k - 1][Get(H, m, f)]]
  IN  from[Fresh(H)][n]
Siblings(H, n) == Chain(H, n, "sibling")
Ancestors(H, n) == ToSet(Chain(H, n, "parent"))

TreeSetSibling(H, n, new) == Set(Set(H, n, "sibling", new), new, "arg_sibling", n)

SetChild(H, parent, new) ==
  LET old == Siblings(H, Get(H, parent, "child"))
      chain == Siblings(H, new)
      linked == SetAll(SetAll(Set(H, parent, "child", new), old, "parent", NULL),
                       chain, "parent", parent)
  IN  Set(linked, parent, "last", LastOf(chain))

(* Mutant of SetSibling: what follows the new sibling is forgotten.        *)
SetSiblingAlone(H, n, new) ==
  LET linked == TreeSetSibling(H, n, new)
      parent == Get(H, n, "parent")
  IN  IF n = NULL \/ new = NULL THEN H
      ELSE Set(Set(linked, new, "parent", parent), parent, "last", new)
SetSibling(H, n, new) ==
  IF n = NULL \/ new = NULL THEN H
  ELSE LET linked == TreeSetSibling(H, n, new)
           parent == Get(H, n, "parent")
           chain == Siblings(linked, new)
       IN  IF parent = NULL THEN linked
           ELSE Set(SetAll(linked, chain, "parent", parent),
                    parent, "last", LastOf(chain))

ParentSheet(H, n) ==
  LET up == Chain(H, n, "parent") IN
  IF \E i \in DOMAIN up : Type(H, up[i]) = "sheet"
  THEN CHOOSE m \in ToSet(up) : Type(H, m) = "sheet" ELSE NULL
Page(H, n) ==
  LET root == LastOf(Chain(H, n, "parent")) IN
  IF Type(H, root) = "sheet" THEN Get(H, root, "page") ELSE -1

(* A proxy shifts its target, which is no proxy or shifts another.         *)
Targets(H, n) == Chain(H, n, "target")
Noxy(H, n) == LastOf(Targets(H, n))

(* The tag and the line of a node; a proxy has those of its target.        *)
OwnField(H, m, f) ==
  IF Type(H, m) \in Proxies \cup {"ref", "sheet", "form"} THEN 0 ELSE Get(H, m, f)
Inherited(H, n, f) == IF n = NULL THEN -1 ELSE OwnField(H, Noxy(H, n), f)
Tag(H, n) == Inherited(H, n, "tag")
Line(H, n) == IF Type(H, n) = "input" THEN 0 ELSE Inherited(H, n, "line")

(* A position or a dimension.                                              *)
Added(s) ==
  LET sum[i \in 0 .. Len(s)] == IF i = 0 THEN 0 ELSE sum[i - 1] + s[i] IN sum[Len(s)]
Summed(H, s, f) == Added([i \in DOMAIN s |-> Get(H, s[i], f)])
Position(H, n, f) == Summed(H, Targets(H, n), f)

IsBox(H, n) ==
  \E m \in ToSet(Targets(H, n)) : Type(H, m) \in {"hbox", "void_hbox", "vbox", "void_vbox"}

------------------------------------------------------------------------------
(* Friends: the nodes whose tag and line fall into the same list.          *)
MakeFriend(H, n, i) ==
  IF i < 0 THEN H
  ELSE LET k == i % NumberOfLists IN [Set(H, n, "friend", H.list[k]) EXCEPT !.list[k] = n]
MakeFriendTlc(H, n) == IF n = NULL THEN H ELSE MakeFriend(H, n, Tag(H, n) + Line(H, n))
Befriended(H, s) ==
  LET after[i \in 0 .. Len(s)] == IF i = 0 THEN H ELSE MakeFriendTlc(after[i - 1], s[i])
  IN  after[Len(s)]
==============================================================================
