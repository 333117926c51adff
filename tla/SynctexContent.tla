---------------------------- MODULE SynctexContent ---------------------------
(***************************************************************************)
(* The parser of the content section of a synctex file: __synctex_parse_sfi*)
(* reads one record after the other and builds the trees of the sheets and *)
(* of the forms.                                                           *)
(*                                                                         *)
(* A behaviour is the reading of one file.  Each action reads a record     *)
(* that the environment chooses from Records; the local variables of the   *)
(* function are the record cur, and cur.x the handles of the heading       *)
(* boundary nodes: one list for each enclosing box, innermost first.       *)
(***************************************************************************)
EXTENDS SynctexNode

CONSTANTS
  Records,        \* the records a file may have: [kind, tag, line, h, v, width, height, depth]
  RefPlaces,      \* the types of the parents in which a ref may come
  Mixes           \* bound: how many records of each kind a file may have

(* What the record of a class gives are numbers for fields of it.          *)
ASSUME RecordsAssumption ==
  /\ IsFiniteSet({r \in Records : r.kind = "input" /\ r.early})
  /\ \A r \in Records :
       /\ r.kind \in {"input", "form"} => r.tag \in Int
       /\ r.kind = "sheet" => r.page \in Int
       /\ r.kind = "ref" => r.tag \in Int /\ r.h \in Int /\ r.v \in Int
       /\ r.kind \in {"vbox", "hbox", "void_vbox", "void_hbox", "kern", "glue", "rule", "math",
                      "boundary"} =>
            \A f \in DOMAIN r \cap Fields[r.kind] : f \in box /\ r[f] \in Int

VARIABLES
  heap,           \* the nodes and the lists of friends
  scanner,        \* sheet, form, input: the first of each; ref_in_form, ref_in_sheet
  cur,            \* the local variables of __synctex_parse_sfi
  status,         \* "parsing", then what synctex_scanner_parse makes of it
  mix             \* the member of Mixes that this file keeps to

vars == <<heap, scanner, cur, status, mix>>

------------------------------------------------------------------------------
(* The start: the input records of the preamble are read.                  *)
inputs == SetToSeq({r \in Records : r.kind = "input" /\ r.early})
withInputs ==
  [EmptyHeap EXCEPT !.node =
     [i \in DOMAIN inputs |->
        New(EmptyHeap, "input", [tag |-> inputs[i].tag, sibling |-> i - 1]).node[1]]]
startCur ==
  [mode |-> "main", sheet |-> NULL, form |-> NULL, parent |-> NULL, child |-> NULL,
   input |-> NULL, x |-> << <<>> >>, last_k |-> NULL, last_g |-> NULL,
   form_depth |-> 0, skip |-> FALSE]
Init ==
  /\ heap = withInputs
  /\ scanner = [sheet |-> NULL, form |-> NULL, input |-> Len(withInputs.node),
                ref_in_form |-> NULL, ref_in_sheet |-> NULL]
  /\ cur = startCur
  /\ status = "parsing"
  /\ mix \in Mixes

------------------------------------------------------------------------------
InputWithTag(H, tag) ==
  LET all == Siblings(H, scanner.input)
      found == {i \in DOMAIN all : Get(H, all[i], "tag") = tag}
  IN  IF found = {} THEN NULL ELSE all[CHOOSE i \in found : \A j \in found : i <= j]
(* The largest line of each input, which display queries are limited to.   *)
Input(H, n) ==
  IF Get(H, cur.input, "tag") = Get(H, n, "tag") THEN cur.input
  ELSE InputWithTag(H, Get(H, n, "tag"))
RegisterLine(H, n) ==
  LET i == Input(H, n) IN
  IF Get(H, n, "line") > Get(H, i, "line") THEN Set(H, i, "line", Get(H, n, "line")) ELSE H

SetTlc(H, s, model) ==
  SetAll(SetAll(H, s, "tag", Get(H, model, "tag")), s, "line", Get(H, model, "line"))
(* The heading boundary nodes of the innermost box take the place of the   *)
(* first node that is none, and become friends; at the end of the box the  *)
(* ones left become friends as they are.                                   *)
HandleSetTlc(H, x, child, friend) ==
  LET set == SetTlc(H, x[1], child) IN IF friend THEN Befriended(set, x[1]) ELSE set
(* Mutant of HandleMakeFriendTlc: only the latest one becomes a friend.    *)
HandleMakeOneFriend(H, x) == IF x[1] = <<>> THEN H ELSE MakeFriendTlc(H, x[1][1])
HandleMakeFriendTlc(H, x) == Befriended(H, x[1])

Contain(H, n, size) == IF Type(H, n) = "hbox" THEN Set(H, n, "visible", size) ELSE H
Visible(H, n) == IF Type(H, n) = "hbox" THEN H.node[n].visible ELSE SizeOf(H, n)
PointOf(H, n) == [h |-> Position(H, n, "h"), v |-> Position(H, n, "v")]

(* A new node is the sibling of child or else the first child of parent.   *)
Attach(H, n) ==
  IF cur.child # NULL THEN SetSibling(H, cur.child, n) ELSE SetChild(H, cur.parent, n)
(* The fields of a record are those its class has.                         *)
Read_tlchvwhd(r) == [f \in DOMAIN r \cap Fields[r.kind] |-> r[f]]
Made(r) == Attach(New(heap, r.kind, Read_tlchvwhd(r)), Fresh(heap))

Reading(kind) ==
  {r \in Records : /\ r.kind = kind
                   /\ Cardinality({n \in DOMAIN heap.node : Type(heap, n) = kind}) < mix[kind]
                   /\ "line" \in DOMAIN r => InputWithTag(heap, r.tag) # NULL}
InMain == status = "parsing" /\ cur.mode = "main"
InContent == status = "parsing" /\ cur.mode = "content" /\ ~cur.skip

------------------------------------------------------------------------------
(* Sheets and forms.                                                       *)
Appended(H, first, n) ==
  IF first = NULL THEN H ELSE Set(H, LastOf(Siblings(H, first)), "sibling", n)

NewSheet(r) == Appended(New(heap, "sheet", [page |-> r.page]), scanner.sheet, Fresh(heap))
NewForm(r) == Appended(New(heap, "form", [tag |-> r.tag]), scanner.form, Fresh(heap))

BeginSheet ==
  /\ InMain
  /\ \E r \in Reading("sheet") :
       /\ heap' = NewSheet(r)
       /\ scanner' = [scanner EXCEPT !.sheet = IF @ = NULL THEN Fresh(heap) ELSE @]
       /\ cur' = [cur EXCEPT !.mode = "content", !.sheet = Fresh(heap), !.form = NULL,
                             !.parent = Fresh(heap), !.child = NULL,
                             !.last_k = NULL, !.last_g = NULL]
  /\ UNCHANGED status

EndSheet ==
  /\ InContent /\ cur.sheet # NULL /\ cur.parent = cur.sheet
  /\ cur' = [cur EXCEPT !.mode = "main", !.parent = NULL, !.sheet = NULL,
                        !.child = NULL, !.form = NULL]
  /\ UNCHANGED <<heap, scanner, status>>

(* A form may begin anywhere.  The test that was to put a form inside      *)
(* another aside reads the parent of a form, which has none.  The bound    *)
(* inner_form of a file is 0 if its forms are in nothing else, 1 if they   *)
(* may be in forms, 2 if they may be in sheets too.                        *)
BeginForm ==
  /\ InMain \/ InContent
  /\ cur.sheet # NULL => mix.inner_form = 2
  /\ cur.form # NULL => mix.inner_form # 0
  /\ \E r \in Reading("form") : heap' = NewForm(r)
  /\ scanner' = [scanner EXCEPT !.form = IF @ = NULL THEN Fresh(heap) ELSE @]
  /\ cur' = [cur EXCEPT !.mode = "content", !.form = Fresh(heap), !.parent = Fresh(heap),
                        !.child = NULL, !.last_k = NULL, !.last_g = NULL,
                        !.form_depth = @ + 1]
  /\ UNCHANGED status

EndForm ==
  /\ InContent /\ cur.form # NULL /\ cur.parent = cur.form /\ cur.form_depth > 0
  /\ cur' = IF cur.sheet # NULL
            THEN [cur EXCEPT !.form = NULL, !.parent = cur.sheet, !.form_depth = @ - 1,
                             !.child = LastOf(Siblings(heap, @))]
            ELSE [cur EXCEPT !.mode = "main", !.form = NULL, !.parent = NULL,
                             !.child = NULL, !.form_depth = @ - 1]
  /\ UNCHANGED <<heap, scanner, status>>

(* Input records between the sheets: the current input is forgotten.       *)
MoreInput ==
  /\ InMain
  /\ \E r \in {s \in Reading("input") : s.tag \notin {Get(heap, n, "tag") : n \in ToSet(Siblings(heap, scanner.input))}} :
       heap' = New(heap, "input", [tag |-> r.tag, sibling |-> scanner.input])
  /\ scanner' = [scanner EXCEPT !.input = Fresh(heap)]
  /\ cur' = [cur EXCEPT !.input = NULL]
  /\ UNCHANGED status

------------------------------------------------------------------------------
(* Boxes.                                                                  *)
Entered(r, H, child) ==
  /\ heap' = RegisterLine(H, Fresh(heap))
  /\ cur' = [cur EXCEPT !.parent = Fresh(heap), !.child = child, !.x = <<(<<>>)>> \o @,
                        !.input = Input(H, Fresh(heap)), !.last_k = NULL, !.last_g = NULL]
  /\ UNCHANGED <<scanner, status>>

BeginVbox ==
  /\ InContent
  /\ \E r \in Reading("vbox") : Entered(r, Made(r), NULL)

(* An hbox begins with a boundary node that stands where the hbox does.    *)
BeginHbox ==
  /\ InContent
  /\ \E r \in Reading("hbox") :
       LET n == Fresh(heap)
           bdry == n + 1
           boxed == Made(r)
           headed == SetChild(New(boxed, "box_bdry", [f \in tlchv |-> Get(boxed, n, f)]), n, bdry)
       IN  Entered(r, IF cur.form = NULL THEN MakeFriendTlc(headed, bdry) ELSE headed, bdry)

(* Leaving a box: its heading boundary nodes become friends, the pending   *)
(* ones of the enclosing box take its place.                               *)
Left(H) ==
  LET free == cur.form = NULL
      own == IF free THEN HandleMakeFriendTlc(H, cur.x) ELSE H
  IN  HandleSetTlc(own, Tail(cur.x), cur.parent, free)
(* Mutant of LeftCur: the handle of the enclosing box is not emptied.      *)
LeftCurKept ==
  [cur EXCEPT !.child = cur.parent, !.parent = Get(heap, cur.parent, "parent"),
              !.x = Tail(@), !.last_k = NULL, !.last_g = NULL]
LeftCur ==
  [cur EXCEPT !.child = cur.parent, !.parent = Get(heap, cur.parent, "parent"),
              !.x = <<(<<>>)>> \o Tail(Tail(@)), !.last_k = NULL, !.last_g = NULL]

EndVbox ==
  /\ InContent /\ Type(heap, cur.parent) = "vbox"
  /\ heap' = Left(IF Get(heap, cur.parent, "child") = NULL /\ cur.form = NULL
                  THEN MakeFriendTlc(heap, cur.parent) ELSE heap)
  /\ cur' = LeftCur
  /\ UNCHANGED <<scanner, status>>

(* The mean line of an hbox, weighted by the number of nodes below.        *)
WeightOf(H, n) ==
  IF Type(H, n) = "hbox" /\ Get(H, n, "weight") # 0 THEN Get(H, n, "weight") ELSE 1
LineOf(H, n) == IF Type(H, n) = "hbox" THEN Get(H, n, "mean_line") ELSE Line(H, n)
SetMeanLine(H, n) ==
  LET nodes == Siblings(H, Get(H, n, "child"))
      counted == Tail(nodes)
      weight == Added([i \in DOMAIN counted |-> WeightOf(H, counted[i])])
      lines == Added([i \in DOMAIN counted |-> LineOf(H, counted[i]) * WeightOf(H, counted[i])])
  IN  IF Len(nodes) < 2
      THEN Set(Set(H, n, "mean_line", Get(H, n, "line")), n, "weight", 1)
      ELSE Set(Set(Set(H, nodes[1], "line", Get(H, nodes[2], "line")),
                   n, "mean_line", (lines + weight \div 2) \div weight), n, "weight", weight)

(* Mutant of NextHbox: the rest of the chain is dropped.                   *)
NextHboxAlone(H, n) == Set(H, cur.sheet, "next_hbox", n)
NextHbox(H, n) ==
  Set(Set(H, n, "next_hbox", Get(H, cur.sheet, "next_hbox")), cur.sheet, "next_hbox", n)

(* The boundary nodes of a closed hbox frame what is visible of it; the    *)
(* last one is placed like the last node that is no ref.                   *)
Framed(H, n) ==
  LET nodes == Siblings(H, Get(H, n, "child"))
      plain == {i \in DOMAIN nodes : Type(H, nodes[i]) # "ref"}
      model == nodes[CHOOSE i \in plain : \A j \in plain : j <= i]
      seen == H.node[n].visible
      closed == SetSibling(New(H, "box_bdry", [h |-> seen.h + seen.width, v |-> seen.v]),
                           cur.child, Fresh(H))
  IN  Set(Set(SetTlc(closed, <<Fresh(H)>>, model), nodes[1], "h", seen.h), nodes[1], "v", seen.v)

(* A kern and a glue at the end, the infinite glue of a paragraph: they    *)
(* take the place of what precedes them.                                   *)
EndGlue(H, n) ==
  LET nodes == Siblings(H, Get(H, n, "child"))
      before == {nodes[i] : i \in {j \in 1 .. Len(nodes) - 1 : nodes[j + 1] = cur.last_k}}
  IN  IF cur.last_k = NULL \/ cur.last_g = NULL \/ before = {} THEN H
      ELSE LET model == CHOOSE m \in before : TRUE
           IN  SetTlc(H, <<cur.last_k, cur.last_g>>, model)

EndHbox ==
  /\ InContent /\ Type(heap, cur.parent) = "hbox"
  /\ LET n == cur.parent
         chained == IF cur.form = NULL THEN NextHbox(heap, n) ELSE heap
         done == Left(EndGlue(Framed(SetMeanLine(chained, n), n), n))
         outer == Get(heap, n, "parent")
     IN  heap' = Contain(done, outer, ContainBox(Visible(done, outer), BoxOf(Visible(done, n))))
  /\ cur' = LeftCur
  /\ UNCHANGED <<scanner, status>>

------------------------------------------------------------------------------
(* The other nodes.  Placed: attached, made a friend unless in a form or   *)
(* void, the heading boundary nodes follow it, the hbox around contains it *)
Placed(H, friend, size) ==
  LET n == Fresh(heap)
      free == cur.form = NULL
      friended == IF friend /\ free THEN MakeFriendTlc(H, n) ELSE H
      followed == HandleSetTlc(friended, cur.x, n, free)
  IN  /\ heap' = RegisterLine(Contain(followed, cur.parent, size), n)
      /\ UNCHANGED <<scanner, status>>
AfterLeaf(H, k, g) ==
  cur' = [cur EXCEPT !.child = Fresh(heap), !.x = <<(<<>>)>> \o Tail(@),
                     !.input = Input(H, Fresh(heap)), !.last_k = k, !.last_g = g]

VoidVbox ==
  /\ InContent
  /\ \E r \in Reading("void_vbox") :
       /\ Placed(Made(r), FALSE, Visible(heap, cur.parent))
       /\ AfterLeaf(Made(r), NULL, NULL)
VoidHbox ==
  /\ InContent
  /\ \E r \in Reading("void_hbox") :
       /\ Placed(Made(r), FALSE, ContainBox(Visible(heap, cur.parent), BoxOf(SizeOf(Made(r), Fresh(heap)))))
       /\ AfterLeaf(Made(r), NULL, NULL)
Kern ==
  /\ InContent
  /\ \E r \in Reading("kern") :
       /\ Placed(Made(r), TRUE, ContainBox(Visible(heap, cur.parent), XobOf(SizeOf(Made(r), Fresh(heap)))))
       /\ AfterLeaf(Made(r), Fresh(heap), NULL)
Glue ==
  /\ InContent
  /\ \E r \in Reading("glue") :
       /\ Placed(Made(r), TRUE, ContainPoint(Visible(heap, cur.parent), PointOf(Made(r), Fresh(heap))))
       /\ AfterLeaf(Made(r), cur.last_k, IF cur.last_k # NULL THEN Fresh(heap) ELSE NULL)
Rule ==
  /\ InContent
  /\ \E r \in Reading("rule") :
       /\ Placed(Made(r), TRUE, Visible(heap, cur.parent))
       /\ AfterLeaf(Made(r), NULL, NULL)
Math ==
  /\ InContent
  /\ \E r \in Reading("math") :
       /\ Placed(Made(r), TRUE, ContainPoint(Visible(heap, cur.parent), PointOf(Made(r), Fresh(heap))))
       /\ AfterLeaf(Made(r), NULL, NULL)

(* A boundary node at the head of an hbox waits for the node it belongs to.*)
Heading == Type(heap, cur.child) = "box_bdry" \/ cur.x[1] # <<>>
Boundary ==
  /\ InContent
  /\ \E r \in Reading("boundary") :
       LET n == Fresh(heap)
           made == Made(r)
           friended == IF ~Heading /\ cur.form = NULL THEN MakeFriendTlc(made, n) ELSE made
           size == ContainPoint(Visible(heap, cur.parent), PointOf(made, n))
       IN  /\ heap' = RegisterLine(Contain(friended, cur.parent, size), n)
           /\ cur' = [cur EXCEPT !.child = n, !.input = Input(made, n),
                                 !.x[1] = IF Heading THEN <<n>> \o @ ELSE @,
                                 !.last_k = NULL, !.last_g = NULL]
  /\ UNCHANGED <<scanner, status>>

(* The program that writes the file defines a form before it uses it in    *)
(* another one.  An empty form inside a sheet could leave a ref without a  *)
(* parent: refs and such forms do not come in one file.                    *)
Defined(tag) ==
  \E n \in ToSet(Siblings(heap, scanner.form)) : n < cur.form /\ Get(heap, n, "tag") = tag
NewRef(r) == New(heap, "ref", [tag |-> r.tag, h |-> r.h, v |-> r.v])
FormRef ==
  /\ InContent /\ Type(heap, cur.parent) \in RefPlaces /\ mix.inner_form # 2
  /\ \E r \in {s \in Reading("ref") : cur.form = NULL \/ Defined(s.tag)} :
       LET n == Fresh(heap)
           refs == IF cur.form # NULL THEN "ref_in_form" ELSE "ref_in_sheet"
       IN  /\ heap' = Set(Attach(NewRef(r), n), n, "friend", scanner[refs])
           /\ scanner' = [scanner EXCEPT ![refs] = n]
           /\ cur' = [cur EXCEPT !.child = n, !.last_k = NULL, !.last_g = NULL]
  /\ UNCHANGED status

(* Characters and anchors, and any record that is not possible where it    *)
(* stands, are passed over.  A record that cannot be decoded takes the     *)
(* next one with it: its reader and the loop both go to the next line.     *)
PassOver ==
  /\ InContent
  /\ cur' = [cur EXCEPT !.last_k = NULL, !.last_g = NULL]
  /\ UNCHANGED <<heap, scanner, status>>
BadRecord ==
  /\ InContent
  /\ \E r \in Reading("bad") : TRUE
  /\ cur' = [cur EXCEPT !.skip = TRUE, !.last_k = NULL, !.last_g = NULL]
  /\ UNCHANGED <<heap, scanner, status>>
LoseRecord ==
  /\ status = "parsing" /\ cur.skip
  /\ cur' = [cur EXCEPT !.skip = FALSE]
  /\ UNCHANGED <<heap, scanner, status>>

------------------------------------------------------------------------------
(* The postamble ends the content; the end of the file before it, or in a  *)
(* sheet, makes the scanner give up the whole file.  Without refs nothing  *)
(* is left to be done.                                                     *)
Postamble(H) ==
  /\ status = "parsing" /\ cur.mode = "main"
  /\ heap' = H
  /\ scanner' = [scanner EXCEPT !.ref_in_form = NULL, !.ref_in_sheet = NULL]
  /\ cur' = startCur
  /\ status' = "ok"
WithoutRefs == scanner.ref_in_form = NULL /\ scanner.ref_in_sheet = NULL
EndOfContent == WithoutRefs /\ Postamble(heap)
EndOfFile ==
  /\ status = "parsing"
  /\ status' = "error"
  /\ heap' = EmptyHeap /\ cur' = startCur
  /\ scanner' = [k \in DOMAIN scanner |-> NULL]

Read ==
  \/ BeginSheet \/ EndSheet \/ BeginForm \/ EndForm \/ MoreInput
  \/ BeginVbox \/ EndVbox \/ BeginHbox \/ EndHbox
  \/ VoidVbox \/ VoidHbox \/ Kern \/ Glue \/ Rule \/ Math \/ Boundary \/ FormRef
  \/ PassOver \/ BadRecord \/ LoseRecord
ContentNext == (Read \/ EndOfContent \/ EndOfFile) /\ UNCHANGED mix
ContentSpec == Init /\ [][ContentNext]_vars
------------------------------------------------------------------------------
(* Properties.                                                             *)
Nodes == {n \in DOMAIN heap.node : heap.node[n].type # "freed"}
Of(types) == {n \in Nodes : heap.node[n].type \in types}
On(sheet) == {n \in Nodes : ParentSheet(heap, n) = sheet}
Sheets == Of({"sheet"})

(* The links of the tree agree at any time: a node is in the list of the   *)
(* children of its parent, siblings have one parent, the last child and    *)
(* the previous sibling that some classes keep are what they say, and      *)
(* nothing that was released is linked.  (_synctex_node_set_child and      *)
(* _synctex_node_set_sibling, which every record and every ref that is     *)
(* replaced go through.)                                                   *)
TreeCoherent ==
  \A n \in Nodes :
    LET sibling == Get(heap, n, "sibling")
        parent == Get(heap, n, "parent")
        children == Siblings(heap, Get(heap, n, "child"))
    IN  /\ ToSet(children) \subseteq Nodes
        /\ \A c \in ToSet(children) : Has(heap, c, "parent") => Get(heap, c, "parent") = n
        /\ Has(heap, parent, "child") =>
             n \in ToSet(Siblings(heap, Get(heap, parent, "child")))
        /\ Has(heap, sibling, "arg_sibling") => Get(heap, sibling, "arg_sibling") = n
        /\ Has(heap, n, "last") => Get(heap, n, "last") = LastOf(children)

(* A node is in one list of friends, once, and the lists end: no two       *)
(* nodes, and no node and a head, lead to the same node; and it is in the  *)
(* list in which a query looks for it.  (A boundary node of an hbox, and   *)
(* the kern and the glue at its end, change their line when they are       *)
(* already there: they are left out.)                                      *)
Heads == {heap.list[i] : i \in DOMAIN heap.list} \ {NULL}
Registered == Heads \cup ({Get(heap, n, "friend") : n \in Nodes} \ {NULL})
FriendLists ==
  /\ \A m, n \in Nodes :
       (m # n /\ Get(heap, m, "friend") # NULL) => Get(heap, m, "friend") # Get(heap, n, "friend")
  /\ \A n \in Nodes : Get(heap, n, "friend") \notin Heads
  /\ Registered \subseteq Nodes
  /\ \A i, j \in DOMAIN heap.list : (i # j /\ heap.list[i] # NULL) => heap.list[i] # heap.list[j]
  /\ \A i \in DOMAIN heap.list : \A n \in ToSet(Chain(heap, heap.list[i], "friend")) :
       Type(heap, n) \in {"rule", "math", "boundary", "vbox"} =>
         (Tag(heap, n) + Line(heap, n)) % NumberOfLists = i

(* Once a file is read, every node of a sheet that a display query may     *)
(* answer with is a friend: also the boundary nodes at the head of a box,  *)
(* which wait in a handle until something else or the end of the box       *)
(* comes.                                                                  *)
SheetNodesFound ==
  (status = "ok" /\ mix.inner_form = 0) =>
    \A n \in Of({"kern", "glue", "rule", "math", "boundary"}) :
      (n \in Registered) <=> (ParentSheet(heap, n) # NULL)

(* The chain of hboxes that an edit query goes through holds every hbox of *)
(* the sheet that was closed, once, an hbox before those inside it, and    *)
(* nothing of another sheet.                                               *)
NextHboxes ==
  (status # "error" /\ mix.inner_form # 2) =>
    \A s \in Sheets :
      LET chain == Tail(Chain(heap, s, "next_hbox"))
          at(n) == CHOOSE i \in DOMAIN chain : chain[i] = n
          closed == {n \in On(s) \cap Of({"hbox"}) : Get(heap, n, "weight") > 0}
      IN  /\ IsInjective(chain)
          /\ ToSet(chain) \cap Of({"hbox"}) = closed
          /\ ToSet(chain) \subseteq On(s)
          /\ \A m, n \in closed : (m # n /\ m \in Ancestors(heap, n)) => at(m) < at(n)

(* What is visible of an hbox contains its glues, its math nodes and its   *)
(* boundary nodes, however wide TeX says the box is.                       *)
VisiblePoints ==
  \A n \in Of({"hbox"}) : \A c \in ToSet(Siblings(heap, Get(heap, n, "child"))) :
    Type(heap, c) \in {"glue", "math", "boundary"} =>
      Within(PointOf(heap, c), BoxOf(Visible(heap, n)))
==============================================================================
