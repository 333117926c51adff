---------------------------- MODULE SynctexNames ----------------------------
(***************************************************************************)
(* Which input of a synctex file is the source that an editor names        *)
(* (synctex_scanner_get_tag of synctex_parser.c and the comparison of file *)
(* names of synctex_parser_utils.c).  TeX names its inputs as it finds     *)
(* them, relative to the directory it runs in, with that directory before  *)
(* a "./", or absolutely; the editor gives an absolute name, and the       *)
(* project may have been moved since TeX ran.                              *)
(*                                                                         *)
(* A name is a sequence of characters; directories and files have names of *)
(* one or two.                                                             *)
(***************************************************************************)
EXTENDS Integers, SequencesExt

CONSTANTS Sources  \* names of sources relative to the project's directory

Slash == "/"
Dot   == "."
After(s, i) == SubSeq(s, i + 1, Len(s))

VARIABLES home,      \* the project's directory now
          output,    \* the output the scanner was opened for
          inputs,    \* the names of the inputs by tag, the last one read first
          asked,     \* the name the editor gives
          tag        \* the answer

vars == <<home, output, inputs, asked, tag>>
-----------------------------------------------------------------------------
(* Any number of "./" at the beginning, and what separators follow them,   *)
(* is no part of a name.                                                   *)
SkipSeparators(s) ==
  After(s, CHOOSE n \in 0 .. Len(s) : /\ \A i \in 1 .. n : s[i] = Slash
                                      /\ n = Len(s) \/ s[n + 1] # Slash)
IgnoreDots(s) ==
  LET left[t \in Seq(STRING)] ==
        IF IsPrefix(<<Dot, Slash>>, t) THEN left[SkipSeparators(After(t, 2))] ELSE t
  IN left[s]

(* Two names are equivalent if they are equal without "./" at the          *)
(* beginning and after each separator.                                     *)
Normal(s) ==
  LET normal[t \in Seq(STRING)] ==
        LET i == CHOOSE k \in DOMAIN t : t[k] = Slash /\ \A j \in 1 .. k - 1 : t[j] # Slash
        IN IF Contains(t, Slash) THEN SubSeq(t, 1, i) \o normal[IgnoreDots(After(t, i))] ELSE t
  IN normal[IgnoreDots(s)]
Equivalent(s, t) == Normal(s) = Normal(t)

(* What follows the first "./" of a directory, or the whole name.          *)
BaseName(s) ==
  LET after == {i \in 0 .. Len(s) - 2 : /\ i = 0 \/ (i > 1 /\ s[i] = Slash)
                                        /\ s[i + 1] = Dot /\ s[i + 2] = Slash}
  IN IF after = {} THEN s
     ELSE IgnoreDots(After(s, CHOOSE i \in after : \A j \in after : i <= j))

First(tags) == IF tags = {} THEN 0 ELSE CHOOSE i \in tags : \A j \in tags : i <= j

(* _synctex_scanner_get_tag: the first input with an equivalent name, or   *)
(* the only one with an equivalent base name.  The tag is its place here.  *)
TagOf(name) ==
  LET exact == First({i \in DOMAIN inputs : Equivalent(name, inputs[i])})
      alike == {i \in DOMAIN inputs : Equivalent(BaseName(name), BaseName(inputs[i]))}
      based == First(alike)
      other == {i \in alike : i > based /\ inputs[i] # inputs[based]}
  IN IF exact # 0 THEN exact
     ELSE IF based # 0 /\ other # {} THEN 0 ELSE based

(* The name from where it leaves that of the output, or rather from the    *)
(* beginning of the directory or file where it does.                       *)
RelativeToOutput(name) ==
  LET common == {k \in 0 .. Len(name) : IsPrefix(SubSeq(name, 1, k), output)}
      most   == CHOOSE k \in common : \A j \in common : j <= k
      starts == {k \in 0 .. most : k = 0 \/ name[k] = Slash}
  IN After(name, CHOOSE k \in starts : \A j \in starts : j <= k)

Tails(name) == {k \in 1 .. Len(name) - 1 : name[k] = Slash}

(* Mutant of GetTag: the ends of the name are tried before the name        *)
(* relative to the output.                                                 *)
GetTagByTails(name) ==
  LET known == {k \in Tails(name) : TagOf(After(name, k)) # 0}
  IN CASE TagOf(name) # 0 -> TagOf(name)
       [] TagOf(name) = 0 /\ known # {} ->
            TagOf(After(name, CHOOSE k \in known : \A j \in known : j <= k))
       [] OTHER -> TagOf(RelativeToOutput(name))

(* The name as it is, relative to the output, then its ends, the shortest  *)
(* one first.                                                              *)
GetTag(name) ==
  LET rel   == RelativeToOutput(name)
      known == {k \in Tails(name) : TagOf(After(name, k)) # 0}
  IN CASE Last(name) = Slash -> 0
       [] Last(name) # Slash /\ TagOf(name) # 0 -> TagOf(name)
       [] Last(name) # Slash /\ TagOf(name) = 0 /\ rel # name /\ TagOf(rel) # 0 -> TagOf(rel)
       [] OTHER -> IF name[1] # Slash \/ known = {} THEN 0
                   ELSE TagOf(After(name, CHOOSE k \in known : \A j \in known : j <= k))

(* What TeX wrote as it ran in directory Old: its sources and one from     *)
(* elsewhere.                                                              *)
Old    == <<Slash, "d">>
Homes  == {Old, <<Slash, "e">>, <<Slash, "e", Slash, "d">>}
In(dir, s) == dir \o <<Slash>> \o s
Elsewhere  == {<<Slash, "t", Slash, "a">>, <<Slash, "e", Slash, "t">>}
Written(s) == {s, <<Dot, Slash>> \o s, In(Old, <<Dot, Slash>> \o s),
               <<Dot, Slash, Slash>> \o s}

Init ==
  /\ home \in Homes
  /\ \E o \in {s \in Sources : ~Contains(s, Slash)} \cup {<<"o">>} : output = In(home, o)
  /\ \E s, t \in Sources :
       /\ s # t
       /\ \E n \in Written(s), m \in Written(t) \cup Elsewhere : inputs = <<n, m>>
  /\ asked = <<>> /\ tag = 0

(* What the editor asks about: a file of the project, or one elsewhere.    *)
Ask ==
  /\ asked = <<>>
  /\ asked' \in {In(home, s) : s \in Sources} \cup Elsewhere
  /\ tag' = GetTag(asked')
  /\ UNCHANGED <<home, output, inputs>>

Next == Ask
Spec == Init /\ [][Next]_vars
-----------------------------------------------------------------------------
(* The file that the name of an input means now.                           *)
Means(n) == CASE n[1] # Slash -> Normal(In(home, n))
              [] n[1] = Slash /\ BaseName(n) # n -> Normal(In(home, BaseName(n)))
              [] OTHER -> n

(* The source of the project is found when it is an input, however TeX     *)
(* wrote its name and wherever the project is now; an input with the same  *)
(* name in another directory is not taken for it.  It assumes the output   *)
(* in the project's directory.                                             *)
OwnSource ==
  (\E i \in DOMAIN inputs : Means(inputs[i]) = asked) =>
    tag # 0 /\ Means(inputs[tag]) = asked
==============================================================================
