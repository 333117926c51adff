---------------------------- MODULE MCSynctexQuery ----------------------------
(* Queries on small synctex files.                                         *)
EXTENDS SynctexQuery

R(kind, tag, line, h, w) ==
  [kind |-> kind, tag |-> tag, line |-> line, h |-> h, v |-> 0,
   width |-> w, height |-> 1, depth |-> 0]
MCRecords ==
  {[kind |-> "input", tag |-> 1, early |-> TRUE],
   [kind |-> "sheet", page |-> 1], [kind |-> "sheet", page |-> 2],
   [kind |-> "form", tag |-> 7], [kind |-> "ref", tag |-> 7, h |-> 1, v |-> 0],
   R("vbox", 1, 1, 0, 4), R("hbox", 1, 2, 0, 2), R("hbox", 1, 1, 1, 1), R("glue", 1, 1, 3, 0),
   R("kern", 1, 3, 2, 1), R("math", 1, 3, 1, 0), R("boundary", 1, 3, 0, 0)}
Kinds == {r.kind : r \in MCRecords}
Mix(m) == m @@ [k \in Kinds \cup {"inner_form", "bad", "rule", "void_hbox", "void_vbox"} |-> 0]
MCMixes ==
  {Mix([sheet |-> 1, hbox |-> 2, boundary |-> 1, math |-> 1]),
   Mix([sheet |-> 2, hbox |-> 1, boundary |-> 2]),
   Mix([sheet |-> 1, vbox |-> 1, hbox |-> 2]),
   Mix([sheet |-> 1, vbox |-> 1, hbox |-> 1, glue |-> 1]),
   Mix([sheet |-> 1, form |-> 1, hbox |-> 2, ref |-> 1]),
   Mix([sheet |-> 1, form |-> 1, hbox |-> 1, kern |-> 1, ref |-> 1])}
MCPoints == {[h |-> 0, v |-> 0], [h |-> 2, v |-> 0], [h |-> 5, v |-> 2]}
==============================================================================
