--------------------------- MODULE ExpandFunction ---------------------------
(***************************************************************************)
(* expand-function-expand-n-words of expand-function.el: words behind the  *)
(* point are collected, the text up to the end of the first is deleted,    *)
(* and a definition for each is inserted.  A text is a sequence of         *)
(* characters, the point a number of characters before it, which may stand *)
(* inside a word.  Of a definition its head, its braces (none in Python)   *)
(* and its body are told apart, as one element each.                       *)
(***************************************************************************)
EXTENDS Subsequence, FiniteSets, SequencesExt, FiniteSetsExt

CONSTANTS WordChars,          \* characters of words
          Modes,              \* "python" and modes with braces
          MaxText,            \* bound: characters of the text
          MaxCount            \* bound: the prefix argument

Letter(c) == <<"letter", c>>
Under  == <<"_", "">>         \* of symbols, not of words
Gap    == <<" ", "">>         \* of neither
Left   == <<"{", "">>
Right  == <<"}", "">>
Def(w) == <<"def", w>>
Body   == <<"body", "">>
Plain  == {Letter(c) : c \in WordChars} \cup {Under, Gap}
Chars  == Plain \cup {Left}

VARIABLES text, point, mode,
          old,       \* the text and the point before the command
          count,     \* its argument
          outcome    \* "none", "done" or "error"

vars == <<text, point, mode, old, count, outcome>>
-----------------------------------------------------------------------------
IsLetter(s, i) == i \in DOMAIN s /\ s[i][1] = "letter"
InSymbol(s, i) == i \in DOMAIN s /\ s[i][1] \in {"letter", "_"}

(* From b to e stands a symbol that is one word, \_<\w+\_>.                *)
WholeWord(s, b, e) ==
  /\ b < e /\ \A i \in b + 1 .. e : IsLetter(s, i)
  /\ ~ InSymbol(s, b) /\ ~ InSymbol(s, e + 1)

(* Where the next of them behind p ends, p itself if there is none: what   *)
(* is left of the word the point is in is none, nor are parts of a_b.      *)
WordEnds(s, p) == {e \in p + 1 .. Len(s) : \E b \in p .. e - 1 : WholeWord(s, b, e)}
NextWord(s, p) == IF WordEnds(s, p) = {} THEN p ELSE Min(WordEnds(s, p))
WordTo(s, e) ==
  LET b == CHOOSE b \in 0 .. e - 1 : WholeWord(s, b, e)
  IN  [i \in 1 .. e - b |-> s[b + i][2]]

(* forward-word: to the end of a word, of any, or of the buffer.           *)
ForwardWord(s, p) ==
  LET ends == {e \in p + 1 .. Len(s) : IsLetter(s, e) /\ ~ IsLetter(s, e + 1)}
  IN  IF ends = {} THEN Len(s) ELSE Min(ends)

(* Mutant of Collect1: the bounds reach to the last word found.            *)
CollectToLast(s, c) ==
  LET i == NextWord(s, c.p)
  IN IF i = c.p
     THEN [c EXCEPT !.p = ForwardWord(s, i)]
     ELSE [p |-> ForwardWord(s, i), words |-> Append(c.words, WordTo(s, i)), end |-> i]

(* One round of the loop that collects: search a word, then move by one    *)
(* word more.  c.end is where the first word ended.                        *)
Collect1(s, c) ==
  LET i == NextWord(s, c.p)
  IN IF i = c.p
     THEN [c EXCEPT !.p = ForwardWord(s, i)]
     ELSE [p |-> ForwardWord(s, i), words |-> Append(c.words, WordTo(s, i)),
           end |-> IF c.end = 0 THEN i ELSE c.end]

Collect(s, p, n) ==
  LET c[i \in 0 .. n] == IF i = 0 THEN [p |-> p, words |-> <<>>, end |-> 0]
                         ELSE Collect1(s, c[i - 1])
  IN  c[n]

(* The text from the point to the end of the first word is deleted; the    *)
(* point stays where the collecting has brought it.  A buffer is its text  *)
(* and its point, ok until a search fails.                                 *)
Delete(s, p, c) ==
  [text |-> SubSeq(s, 1, p) \o SubSeq(s, c.end + 1, Len(s)),
   point |-> c.p - (c.end - p), ok |-> TRUE]

Template(w) == IF mode = "python" THEN <<Def(w), Body>>
                                  ELSE <<Def(w), Left, Body, Right>>

InsertText(b, ts) ==
  [b EXCEPT !.text = SubSeq(b.text, 1, b.point) \o ts
                       \o SubSeq(b.text, b.point + 1, Len(b.text)),
            !.point = b.point + Len(ts)]

(* search-backward "{" moves before the brace or fails; in modes with      *)
(* braces the point then moves behind it.                                  *)
Braces(b)       == {i \in 1 .. b.point : b.text[i] = Left}
BehindBrace(b)  == [b EXCEPT !.point = Max(Braces(b))]
BeforeBrace(b)  == [b EXCEPT !.point = Max(Braces(b)) - 1]
ToBrace(b)      == IF mode = "python" THEN BeforeBrace(b) ELSE BehindBrace(b)

(* The last search; in Python the point moves to the next line.            *)
Finish(b) == ToBrace(b)

(* The definitions are inserted one by one; after the first the point goes *)
(* into it.  A search that fails ends the command where it is.             *)
Insert1(b, w, first) ==
  LET new == InsertText(b, Template(w))
  IN IF ~ b.ok THEN b
     ELSE IF ~ first THEN new
     ELSE IF Braces(new) = {} THEN [new EXCEPT !.ok = FALSE]
     ELSE ToBrace(new)

InsertAll(b, words) ==
  LET c[i \in 0 .. Len(words)] == IF i = 0 THEN b ELSE Insert1(c[i - 1], words[i], i = 1)
  IN  c[Len(words)]
-----------------------------------------------------------------------------
(* The command, called with n.                                             *)
Expand(n) ==
  LET c == Collect(text, point, n)
      b == InsertAll(Delete(text, point, c), c.words)
  IN /\ outcome = "none"
     /\ count' = n /\ old' = [text |-> text, point |-> point]
     /\ UNCHANGED mode
     /\ \/ /\ c.words = <<>>
           /\ point' = c.p /\ outcome' = "error"
           /\ UNCHANGED text
        \/ /\ c.words # <<>> /\ b.ok /\ Braces(b) # {}
           /\ text' = b.text /\ point' = Finish(b).point
           /\ outcome' = "done"
        \/ /\ c.words # <<>> /\ (~ b.ok \/ Braces(b) = {})
           /\ text' = b.text /\ point' = b.point
           /\ outcome' = "error"

(* expand-function-expand-region: the words of the region are counted, the *)
(* point, at one of its ends, stays.                                       *)
ExpandRegion(mark) ==
  LET lo == Min({mark, point})
      hi == Max({mark, point})
      n  == Cardinality({i \in lo + 1 .. hi :
                          IsLetter(text, i) /\ (i = hi \/ ~ IsLetter(text, i + 1))})
  IN n \in 0 .. MaxCount /\ Expand(n)

Init ==
  /\ text \in SeqOf(Chars, MaxText)
  /\ point \in 0 .. Len(text)
  /\ mode \in Modes
  /\ old = [text |-> text, point |-> point] /\ count = 0 /\ outcome = "none"

Next == \/ \E n \in 0 .. MaxCount : Expand(n)
        \/ \E mark \in 0 .. Len(text) : ExpandRegion(mark)

Spec == Init /\ [][Next]_vars
-----------------------------------------------------------------------------
(* What the command takes off the text is what stands between the point    *)
(* and the end of the first whole word behind it, the rest of a word the   *)
(* point is in and any symbols passed over included, and nothing else: all *)
(* other characters stay, in their order, wherever the definitions are put *)
(* (re-search-forward, forward-word, delete-region, insert).               *)
FirstEnd == NextWord(old.text, old.point)
Kept(s)  == Those(s, Plain)
KeepsRest ==
  outcome = "done" =>
    Kept(text) = Kept(SubSeq(old.text, 1, old.point)
                      \o SubSeq(old.text, FirstEnd + 1, Len(old.text)))
=============================================================================
