----------------------------- MODULE Subsequence -----------------------------
(* What cl-remove-if and its like leave of a list.                         *)
EXTENDS Integers, Sequences

(* The elements of s that are in S, in their order.                        *)
Those(s, S) ==
  LET kept[n \in 0 .. Len(s)] ==
        IF n = 0 THEN <<>>
        ELSE IF s[n] \in S THEN Append(kept[n - 1], s[n]) ELSE kept[n - 1]
  IN  kept[Len(s)]
==============================================================================
