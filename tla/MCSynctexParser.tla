--------------------------- MODULE MCSynctexParser ---------------------------
(* Small synctex files: at most the records that one of the mixes allows.  *)
EXTENDS SynctexParser

R(kind, tag, line, h, w) ==
  [kind |-> kind, tag |-> tag, line |-> line, h |-> h, v |-> 0,
   width |-> w, height |-> 1, depth |-> 0]
MCRecords ==
  {[kind |-> "input", tag |-> 1, early |-> TRUE], [kind |-> "input", tag |-> 2, early |-> TRUE],
   [kind |-> "input", tag |-> 3, early |-> FALSE],
   [kind |-> "sheet", page |-> 1], [kind |-> "sheet", page |-> 2],
   [kind |-> "form", tag |-> 7], [kind |-> "bad"],
   R("vbox", 1, 1, 0, 4), R("hbox", 1, 2, 0, 2), R("kern", 1, 3, 3, 1),
   R("glue", 2, 1, 3, 0), R("boundary", 1, 3, 0, 0), [kind |-> "ref", tag |-> 7, h |-> 1, v |-> 0],
   R("rule", 1, 2, 1, 1), R("math", 1, 1, 1, 0),
   R("void_hbox", 1, 2, -1, 1), R("void_vbox", 1, 1, 1, 1)}
Kinds == {r.kind : r \in MCRecords}
Mix(m) == m @@ [k \in Kinds \cup {"inner_form"} |-> 0]
MCMixes ==
  {Mix([sheet |-> 1, form |-> 1, hbox |-> 3, glue |-> 1, ref |-> 1]),
   Mix([sheet |-> 1, form |-> 1, hbox |-> 2, vbox |-> 1, ref |-> 2]),
   Mix([sheet |-> 1, form |-> 2, hbox |-> 3, ref |-> 2, inner_form |-> 1]),
   Mix([sheet |-> 1, hbox |-> 2, glue |-> 1, kern |-> 1, boundary |-> 2, bad |-> 1]),
   Mix([sheet |-> 1, hbox |-> 1, kern |-> 1, rule |-> 1, math |-> 1, void_hbox |-> 1,
        void_vbox |-> 1]),
   Mix([sheet |-> 1, form |-> 1, hbox |-> 2, vbox |-> 1, glue |-> 1, boundary |-> 1, ref |-> 1]),
   Mix([sheet |-> 2, vbox |-> 1, hbox |-> 2, kern |-> 1, boundary |-> 1]),
   Mix([sheet |-> 2, form |-> 1, hbox |-> 2, boundary |-> 1, input |-> 3, inner_form |-> 2])}
==============================================================================
