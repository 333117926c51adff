---------------------------- MODULE SynctexParser ----------------------------
(***************************************************************************)
(* What follows the content of a synctex file: _synctex_post_process puts  *)
(* proxies to the forms in the place of the refs, each of which then makes *)
(* the nodes of its form appear on the page.                               *)
(***************************************************************************)
EXTENDS SynctexContent

(* Proxies.  A ref is replaced by a proxy to the content of its form; the  *)
(* children of a proxy are made when somebody asks for them.               *)
ProxyFromRef(H, ref, to) ==
  New(H, IF Type(H, to) = "vbox" THEN "proxy_vbox" ELSE "proxy_hbox",
      [h |-> Get(H, ref, "h"), v |-> Get(H, ref, "v") - Get(H, to, "height"), target |-> to])

ChildProxy(H, owner, to) ==
  LET via == Type(H, to) \in Proxies
      type == CASE Type(H, to) \in {"vbox", "proxy_vbox"} -> "proxy_vbox"
                [] Type(H, to) \in {"hbox", "proxy_hbox"} -> "proxy_hbox"
                [] OTHER -> "proxy"
      shift(f) == Get(H, owner, f) + (IF via THEN Get(H, to, f) ELSE 0)
  IN  New(H, type, [h |-> shift("h"), v |-> shift("v"),
                    target |-> IF via THEN Get(H, to, "target") ELSE to])

(* One proxy for each node of the list, the last one, unless it is also    *)
(* the first, of a class of its own.                                       *)
ChildProxies(H, owner, to) ==
  LET list == Siblings(H, to)
      first == Fresh(H)
      add(G, i) ==
        LET made == IF i < Len(list) THEN ChildProxy(G, owner, list[i])
                    ELSE New(G, "proxy_last", [h |-> Get(G, first, "h"), v |-> Get(G, first, "v"),
                                               target |-> list[i]])
        IN  TreeSetSibling(made, Fresh(G) - 1, Fresh(G))
  IN  FoldLeft(add, ChildProxy(H, owner, to), [i \in 1 .. Len(list) - 1 |-> i + 1])

(* synctex_node_child: the child, and the heap with what had to be made.   *)
WithChildren(n, target) ==
  [heap |-> SetChild(ChildProxies(target.heap, n, target.node), n, Fresh(target.heap)),
   node |-> Fresh(target.heap)]
RECURSIVE Child(_, _)
Child(H, n) ==
  LET c == Get(H, n, "child")
      target == Get(H, n, "target")
      below == Child(H, target)
  IN  CASE c # NULL \/ target = NULL -> [heap |-> H, node |-> c]
        [] c = NULL /\ target # NULL /\ below.node = NULL -> below
        [] OTHER -> WithChildren(n, below)

------------------------------------------------------------------------------
(* Post processing.                                                        *)
Free(H, n) == [H EXCEPT !.node[n] = [type |-> "freed"]]
ProxyMakeFriendAndNextHbox(H, n) ==
  LET target == Get(H, n, "target")
      friended == IF target = NULL THEN Set(H, n, "friend", NULL)
                  ELSE MakeFriend(H, n, Get(H, target, "tag") + Get(H, target, "line"))
      sheet == ParentSheet(H, n)
  IN  IF Type(H, n) # "proxy_hbox" \/ sheet = NULL THEN friended
      ELSE Set(Set(friended, n, "next_hbox", Get(H, sheet, "next_hbox")),
               sheet, "next_hbox", n)
ResetFriend(H, n) == Set(H, n, "friend", NULL)

RECURSIVE SiblingOrParents(_, _)
SiblingOrParents(H, n) ==
  LET parent == Get(H, n, "parent") IN
  CASE Get(H, n, "sibling") # NULL -> Get(H, n, "sibling")
    [] Get(H, n, "sibling") = NULL /\ Type(H, parent) \notin {"none", "sheet", "form"}
         -> SiblingOrParents(H, parent)
    [] OTHER -> NULL

FormContent(H, tag) ==
  LET forms == Siblings(H, scanner.form)
      tagged == SelectSeq(forms, LAMBDA n : Get(H, n, "tag") = tag)
      form == CASE tagged # <<>> -> tagged[1]
                [] tagged = <<>> /\ tag = 0 -> scanner.form
                [] OTHER -> NULL
  IN  Get(H, form, "child")

(* The ref gives its place to a proxy, or to nobody when its form has no   *)
(* box; it is released.                                                    *)
ReplaceRef(H, ref) ==
  LET sibling == Get(H, ref, "sibling")
      before == Get(H, ref, "arg_sibling")
      content == FormContent(H, Get(H, ref, "tag"))
      cut == Set(H, ref, "sibling", NULL)
      proxy == Fresh(H)
      placed == SetSibling(SetSibling(ProxyFromRef(cut, ref, content), before, proxy), proxy, sibling)
  IN  IF Type(H, content) \in {"vbox", "hbox"}
      THEN [heap |-> Free(placed, ref), node |-> proxy]
      ELSE [heap |-> Free(TreeSetSibling(cut, before, sibling), ref), node |-> NULL]

(* The proxies that replace a list of refs, linked by their friend field.  *)
(* A ref that is only removed ends the list: what it held is forgotten.    *)
(* Mutant of ProxyList: each proxy forgets those before it.                *)
ProxyAlone(H, proxy, proxies) == Set(H, proxy, "friend", NULL)
ProxyList(H, proxy, proxies) == Set(H, proxy, "friend", proxies)

RECURSIVE PostProcessRef(_, _, _)
PostProcessRef(H, ref, proxies) ==
  LET next == Get(H, ref, "friend")
      replaced == ReplaceRef(H, ref)
  IN  IF ref = NULL THEN [heap |-> H, node |-> proxies]
      ELSE PostProcessRef(ProxyList(replaced.heap, replaced.node, proxies), next, replaced.node)

(* The walk below a proxy makes its nodes, and registers each one in a     *)
(* sheet.  It stops at the node that follows the proxy; the search for it  *)
(* goes on above the root and reads a node that is not there, unless it    *)
(* finds one before.                                                       *)
HaltOf(H, proxy) ==
  LET after == SelectSeq(Chain(H, proxy, "parent"), LAMBDA n : Get(H, n, "sibling") # NULL)
  IN  IF after = <<>> THEN NULL ELSE Get(H, after[1], "sibling")

NextOf(c, n) == IF c.node # NULL THEN c.node ELSE SiblingOrParents(c.heap, n)
RECURSIVE Walk(_, _, _, _)
Walk(H, n, halt, register) ==
  LET c == Child(IF register THEN ProxyMakeFriendAndNextHbox(H, n) ELSE ResetFriend(H, n), n)
      next == NextOf(c, n)
  IN  IF next \in {NULL, halt} THEN c.heap ELSE Walk(c.heap, next, halt, register)

RECURSIVE PostProcessProxy(_, _, _)
PostProcessProxy(H, proxy, register) ==
  IF proxy = NULL THEN H
  ELSE PostProcessProxy(Walk(H, proxy, HaltOf(H, proxy), register), Get(H, proxy, "friend"), register)

(* The proxies that have replaced the refs of a list.                      *)
Grown(replaced, register) == PostProcessProxy(replaced.heap, replaced.node, register)
PostProcessed ==
  LET forms == Grown(PostProcessRef(heap, scanner.ref_in_form, NULL), FALSE)
  IN  Grown(PostProcessRef(forms, scanner.ref_in_sheet, NULL), TRUE)

EndWithRefs == ~ WithoutRefs /\ Postamble(PostProcessed)
Next == ContentNext \/ (EndWithRefs /\ UNCHANGED mix)
Spec == Init /\ [][Next]_vars
------------------------------------------------------------------------------
(* Where every ref found its form, each proxy that stands for something on *)
(* a sheet is a friend, each one of an hbox is in the chain, and a box     *)
(* seen through a proxy has all its children, unless it is the last of its *)
(* siblings.  (A ref without a form makes the code forget the proxies it   *)
(* has made so far.)                                                       *)
AllReplaced ==
  LET roots == {n \in Of(Proxies) : Type(heap, Get(heap, n, "parent")) \notin Proxies}
  IN  Cardinality(roots) = Cardinality(DOMAIN heap.node \ Nodes)
ProxiesFound ==
  (status = "ok" /\ mix.inner_form # 2 /\ AllReplaced) =>
    \A s \in Sheets : \A n \in On(s) \cap Of(Proxies) :
      /\ n \in Registered
      /\ Type(heap, n) = "proxy_hbox" => n \in ToSet(Chain(heap, s, "next_hbox"))
      /\ Has(heap, n, "child") =>
           Len(Siblings(heap, Get(heap, n, "child")))
             = Len(Siblings(heap, Get(heap, Noxy(heap, n), "child")))
==============================================================================
