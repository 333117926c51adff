---------------------------- MODULE QueryService ----------------------------
(***************************************************************************)
(* What pdf-info-query promises to its callers: queries are answered at    *)
(* most once and in the order in which they were made.  When the server is *)
(* gone, what was pending is lost, all of it at once, and stays lost; an   *)
(* answer that cannot be read is lost alone, in its turn.                  *)
(***************************************************************************)
EXTENDS Naturals

CONSTANT NQueries      \* bound on the queries made in a behaviour

VARIABLE st            \* the state of each query

Ids == 1 .. NQueries
TypeOK == st \in [Ids -> {"new", "pending", "answered", "lost"}]

Lose == [q \in Ids |-> IF st[q] = "pending" THEN "lost" ELSE st[q]]

Init == st = [q \in Ids |-> "new"]

(* A query is made; if its server had to be started anew, what was pending *)
(* at the old one is lost.                                                 *)
Submit(q) ==
  /\ st[q] = "new"
  /\ \A r \in Ids : r < q => st[r] # "new"
  /\ \/ st' = [st EXCEPT ![q] = "pending"]
     \/ st' = [Lose EXCEPT ![q] = "pending"]

(* The oldest pending query gets its answer, or loses it.                  *)
Answer(q) ==
  /\ st[q] = "pending"
  /\ \A r \in Ids : r < q => st[r] # "pending"
  /\ \E a \in {"answered", "lost"} : st' = [st EXCEPT ![q] = a]

Stop == st' = Lose

Next == (\E q \in Ids : Submit(q) \/ Answer(q)) \/ Stop
Spec == Init /\ [][Next]_st
=============================================================================
