---------------------------- MODULE PdfInfoProofs ----------------------------
(***************************************************************************)
(* Proofs about the queries of the client: the queue of queries to one     *)
(* server (PdfInfoQueue), and the searches of many documents that are made *)
(* with a server of their own (PdfOccur).                                  *)
(***************************************************************************)
EXTENDS PdfInfoQueue, PdfOccur, SubsequenceProofs, FiniteSetTheorems, SequenceTheorems, TLAPS

------------------------------------------------------------------------------
(***************************************************************************)
(* PdfInfoQueue, for servers whose answers hold no line with a single dot: *)
(* the invariant IInv, that every closure is given its own answer, and     *)
(* that the queue implements QueryService.                                 *)
(***************************************************************************)

(* Appending to the closures and to the lines sent keeps them aligned.     *)
LEMMA AppendAligned ==
  ASSUME NEW S, NEW s \in Seq(S), NEW o \in Seq(S), NEW i \in Seq(S),
         NEW q \in S, Begins(o \o i, s), Len(o \o i) = Len(s)
  PROVE  Begins(o \o Append(i, q), Append(s, q))
         /\ Len(o \o Append(i, q)) = Len(Append(s, q))
<1> DEFINE t == o \o i
           u == o \o Append(i, q)
<1>1. t \in Seq(S) /\ Len(t) = Len(o) + Len(i)
  OBVIOUS
<1>2. Append(i, q) \in Seq(S) /\ Len(Append(i, q)) = Len(i) + 1
  OBVIOUS
<1>3. Len(u) = Len(t) + 1
  BY <1>1, <1>2
<1>4. ASSUME NEW n \in 1 .. Len(t) PROVE u[n] = t[n]
  BY <1>1, <1>2
<1>5. u[Len(t) + 1] = q
  BY <1>1, <1>2
<1>6. Len(Append(s, q)) = Len(s) + 1 /\ Append(s, q)[Len(s) + 1] = q
  OBVIOUS
<1>7. ASSUME NEW n \in 1 .. Len(s) PROVE Append(s, q)[n] = s[n]
  OBVIOUS
<1> HIDE DEF t, u
<1>8. Len(t) = Len(s) /\ \A n \in 1 .. Len(t) : t[n] = s[n]
  BY DEF Begins, t
<1>9. \A n \in 1 .. Len(u) : u[n] = Append(s, q)[n]
  BY <1>1, <1>3, <1>4, <1>5, <1>6, <1>7, <1>8
<1>10. Len(u) = Len(Append(s, q))
  BY <1>3, <1>6, <1>8
<1>11. QED
  BY <1>1, <1>3, <1>9, <1>10 DEF Begins, u

(* Moving a line from the input to the output leaves them as they are.     *)
LEMMA MoveAligned ==
  ASSUME NEW S, NEW o \in Seq(S), NEW i \in Seq(S), i # <<>>
  PROVE  Append(o, Head(i)) \o Tail(i) = o \o i
<1>1. Len(i) > 0 /\ Len(Tail(i)) = Len(i) - 1 /\ Head(i) = i[1]
      /\ Head(i) \in S /\ Tail(i) \in Seq(S)
  OBVIOUS
<1>2. \A n \in 1 .. Len(Tail(i)) : Tail(i)[n] = i[n + 1]
  OBVIOUS
<1>3. Append(o, Head(i)) \in Seq(S) /\ Len(Append(o, Head(i))) = Len(o) + 1
  BY <1>1
<1> DEFINE u == Append(o, Head(i)) \o Tail(i)
           t == o \o i
<1>4. u \in Seq(S) /\ t \in Seq(S)
  BY <1>1, <1>3
<1>5. Len(u) = Len(t)
  BY <1>1, <1>3
<1>6. ASSUME NEW n \in 1 .. Len(t) PROVE u[n] = t[n]
  <2>1. CASE n <= Len(o)
    BY <1>1, <1>3, <2>1
  <2>2. CASE n = Len(o) + 1
    BY <1>1, <1>3, <2>2
  <2>3. CASE n > Len(o) + 1
    BY <1>1, <1>2, <1>3, <2>3
  <2>4. QED
    BY <1>4, <2>1, <2>2, <2>3
<1>7. QED
  BY <1>4, <1>5, <1>6

(* The output alone, with the next line or without, is a beginning.        *)
LEMMA PrefixAligned ==
  ASSUME NEW S, NEW o \in Seq(S), NEW i \in Seq(S), NEW s \in Seq(S),
         Begins(o \o i, s)
  PROVE  /\ Begins(o \o <<>>, s)
         /\ i # <<>> => Begins(Append(o, Head(i)) \o <<>>, s)
<1>1. Len(o \o i) = Len(o) + Len(i)
  OBVIOUS
<1>2. \A n \in 1 .. Len(o) : o[n] = (o \o i)[n]
  OBVIOUS
<1>3. o \o <<>> = o /\ Append(o, Head(i)) \o <<>> = Append(o, Head(i))
  OBVIOUS
<1>4. Begins(o, s)
  BY <1>1, <1>2 DEF Begins
<1>5. ASSUME i # <<>> PROVE Begins(Append(o, Head(i)), s)
  <2>1. Len(i) > 0 /\ Head(i) = i[1]
    BY <1>5
  <2>2. (o \o i)[Len(o) + 1] = Head(i)
    BY <2>1
  <2>3. QED
    BY <1>1, <1>2, <1>4, <2>1, <2>2 DEF Begins
<1>6. QED
  BY <1>3, <1>4, <1>5

(* The first answer goes with the first closure.                           *)
LEMMA TailAligned ==
  ASSUME NEW S, NEW o \in Seq(S), NEW i \in Seq(S), NEW s \in Seq(S),
         o # <<>>, s # <<>>, Begins(o \o i, s)
  PROVE  /\ Head(o) = Head(s)
         /\ Begins(Tail(o) \o i, Tail(s))
         /\ Len(o \o i) = Len(s) => Len(Tail(o) \o i) = Len(Tail(s))
<1> DEFINE t == o \o i
           u == Tail(o) \o i
<1>1. Len(o) > 0 /\ Head(o) = o[1] /\ Head(s) = s[1] /\ t[1] = o[1]
  OBVIOUS
<1>2. Tail(o) \in Seq(S) /\ Len(Tail(o)) = Len(o) - 1
      /\ \A n \in 1 .. Len(Tail(o)) : Tail(o)[n] = o[n + 1]
  BY <1>1
<1>3. Len(t) = Len(o) + Len(i) /\ Len(u) = Len(t) - 1
  BY <1>1, <1>2
<1>4. ASSUME NEW n \in 1 .. Len(u) PROVE u[n] = t[n + 1]
  BY <1>1, <1>2
<1>5. Tail(s) \in Seq(S) /\ Len(Tail(s)) = Len(s) - 1
      /\ \A n \in 1 .. Len(Tail(s)) : Tail(s)[n] = s[n + 1]
  OBVIOUS
<1>6. t \in Seq(S) /\ u \in Seq(S)
  BY <1>2
<1> HIDE DEF t, u
<1>7. Len(t) <= Len(s) /\ \A n \in 1 .. Len(t) : t[n] = s[n]
  BY DEF Begins, t
<1>8. QED
  <2>1. Head(o) = Head(s)
    BY <1>1, <1>3, <1>6, <1>7
  <2>2. \A n \in 1 .. Len(u) : u[n] = Tail(s)[n]
    BY <1>3, <1>4, <1>5, <1>6, <1>7
  <2>3. Begins(u, Tail(s))
    BY <1>3, <1>5, <1>6, <1>7, <2>2 DEF Begins
  <2>4. Len(t) = Len(s) => Len(u) = Len(Tail(s))
    BY <1>3, <1>5
  <2>5. QED
    BY <2>1, <2>3, <2>4 DEF t, u
-----------------------------------------------------------------------------
(* What the other steps leave alone keeps the invariant.                   *)
LEMMA ClosedGood ==
  ASSUME IInv, Close, state' = Dropped, next' = next,
         stack' \in Seq(Ids), kind' \in [Ids -> Kinds],
         policy' \in {"nil", "t", "ask"}, got' = got, stops' \in 0 .. NStops
  PROVE  IInv'
<1>1. TypeOK'
  BY DEF IInv, TypeOK, Close, Dropped
<1>2. Aligned'
  BY DEF Close, Aligned, InFlight, Begins, Running
<1>3. Ordered'
  BY DEF IInv, TypeOK, Close, Dropped, Ordered
<1>4. QED
  BY <1>1, <1>2, <1>3 DEF IInv

(* A query that is sent, to the running server or to a new one.            *)
LEMMA QueryGood ==
  ASSUME IInv, NEW k \in Kinds, Query(k), stops' \in 0 .. NStops
  PROVE  IInv'
<1>1. /\ tq \in Seq(Ids) /\ inpipe \in Seq(Ids) /\ outpipe \in Seq(Ids)
      /\ next \in Ids /\ stack \in Seq(Ids) /\ next \in Nat /\ next + 1 \in 1 .. NQueries + 1
  BY BoundsAssumption DEF IInv, TypeOK, Query, Ids
<1>2. stack' \in Seq(Ids) /\ kind' \in [Ids -> Kinds]
  BY <1>1 DEF IInv, TypeOK, Query, Wait
<1>3. CASE /\ Running
           /\ tq'      = Append(tq, next)
           /\ inpipe'  = Append(inpipe, next)
           /\ state'   = [state EXCEPT ![next] = "pending"]
           /\ UNCHANGED <<queue, proc, outpipe>>
  <2>1. TypeOK'
    BY <1>1, <1>2, <1>3 DEF IInv, TypeOK, Query
  <2>2. Aligned'
    <3>1. Begins(InFlight, tq) /\ Len(outpipe \o inpipe) = Len(tq)
      BY <1>3 DEF IInv, Aligned, InFlight
    <3>2. Begins(outpipe \o Append(inpipe, next), Append(tq, next))
          /\ Len(outpipe \o Append(inpipe, next)) = Len(Append(tq, next))
      BY <3>1, <1>1, AppendAligned DEF InFlight
    <3>3. QED
      BY <3>2, <1>3 DEF Aligned, InFlight, Begins
  <2>3. Ordered'
    <3>1. /\ Len(tq') = Len(tq) + 1 /\ tq'[Len(tq) + 1] = next
          /\ \A i \in 1 .. Len(tq) : tq'[i] = tq[i] /\ tq[i] \in Ids
      BY <1>1, <1>3
    <3>2. \A i \in 1 .. Len(tq) : tq[i] < next
      BY <1>1, <3>1 DEF IInv, TypeOK, Ordered, Ids
    <3>3. next' = next + 1
      BY DEF Query
    <3> DEFINE n == Len(tq)
    <3>0. n \in Nat /\ 1 .. Len(tq') = (1 .. n) \cup {n + 1}
      BY <1>1, <3>1
    <3>4. ASSUME NEW i \in 1 .. Len(tq'), NEW j \in 1 .. Len(tq'), i < j
          PROVE  tq'[i] < tq'[j]
      <4>1. i \in 1 .. n /\ (j \in 1 .. n \/ j = n + 1)
        BY <3>0, <3>4
      <4>2. \A a, b \in 1 .. n : a < b => tq[a] < tq[b]
        BY DEF IInv, Ordered
      <4>3. QED
        BY <4>1, <4>2, <3>1, <3>2, <3>4
    <3>5. \A q \in Ids :
            state'[q] = "pending" <=> \E i \in 1 .. Len(tq') : tq'[i] = q
      <4> SUFFICES ASSUME NEW q \in Ids
                   PROVE  state'[q] = "pending" <=>
                            \E i \in 1 .. Len(tq') : tq'[i] = q
        OBVIOUS
      <4>1. CASE q = next
        BY <4>1, <1>1, <1>3, <3>1 DEF IInv, TypeOK
      <4>2. CASE q # next
        <5>1. state'[q] = state[q]
          BY <4>2, <1>3 DEF IInv, TypeOK
        <5>2. (\E i \in 1 .. Len(tq') : tq'[i] = q) <=>
              (\E i \in 1 .. Len(tq) : tq[i] = q)
          BY <4>2, <3>0, <3>1
        <5>3. QED
          BY <5>1, <5>2 DEF IInv, Ordered
      <4>3. QED
        BY <4>1, <4>2
    <3>6. \A q \in Ids : state'[q] = "new" <=> q >= next'
      BY <1>1, <1>3, <3>3 DEF IInv, TypeOK, Ordered, Ids
    <3>7. QED
      BY <1>3, <3>4, <3>5, <3>6 DEF Ordered, Running
  <2>4. QED
    BY <2>1, <2>2, <2>3 DEF IInv
<1>4. CASE /\ queue'   = "open" /\ proc' = "run"
           /\ tq'      = <<next>>
           /\ inpipe'  = <<next>>
           /\ outpipe' = <<>>
           /\ state'   = [Dropped EXCEPT ![next] = "pending"]
  <2>1. TypeOK'
    BY <1>1, <1>2, <1>4 DEF IInv, TypeOK, Query, Dropped
  <2>2. Aligned'
    <3>1. <<>> \o <<next>> = <<next>>
      BY <1>1
    <3>2. QED
      BY <1>4, <3>1 DEF Aligned, InFlight, Begins
  <2>3. Ordered'
    <3>1. /\ \A i, j \in 1 .. Len(tq') : i < j => tq'[i] < tq'[j]
          /\ \A q \in Ids : q = next <=> \E i \in 1 .. Len(tq') : tq'[i] = q
      BY <1>1, <1>4
    <3>2. \A q \in Ids : state'[q] = IF q = next THEN "pending" ELSE
                           IF state[q] = "pending" THEN "dropped" ELSE state[q]
      BY <1>4 DEF Dropped
    <3>3. \A q \in Ids : state'[q] = "new" <=> q >= next'
      BY <1>1, <3>2 DEF IInv, Ordered, Query, Ids
    <3>4. queue' = "open"
      BY <1>4
    <3>5. QED
      BY <1>4, <3>1, <3>2, <3>3, <3>4 DEF Ordered
  <2>4. QED
    BY <2>1, <2>2, <2>3 DEF IInv
<1>5. QED
  BY <1>3, <1>4 DEF Query

(* The server's steps move lines from the input to the output, or lose     *)
(* what is in the input.                                                   *)
LEMMA ServerGood ==
  ASSUME IInv, ~ Split, ServerAnswer
  PROVE  IInv'
<1>1. /\ tq \in Seq(Ids) /\ inpipe \in Seq(Ids) /\ outpipe \in Seq(Ids)
      /\ inpipe # <<>> /\ Begins(outpipe \o inpipe, tq)
      /\ Len(outpipe \o inpipe) = Len(tq)
  BY DEF IInv, TypeOK, ServerAnswer, Aligned, InFlight
<1>2. Head(inpipe) \in Ids /\ Tail(inpipe) \in Seq(Ids)
  BY <1>1
<1>3. UNCHANGED <<queue, policy, stops, tq, stack, kind, state, got, next>>
  BY DEF ServerAnswer, client
<1>4. Ordered'
  BY <1>3 DEF IInv, Ordered
<1>5. CASE /\ outpipe' = Append(outpipe, Head(inpipe))
           /\ proc' = "dead" /\ inpipe' = <<>>
  <2>1. TypeOK'
    BY <1>1, <1>2, <1>3, <1>5 DEF IInv, TypeOK
  <2>2. Begins(Append(outpipe, Head(inpipe)) \o <<>>, tq)
    BY <1>1, PrefixAligned
  <2>3. ~ Running'
    BY <1>5 DEF Running
  <2>4. Aligned'
    BY <1>3, <1>5, <2>2, <2>3 DEF Aligned, InFlight, Begins
  <2>5. QED
    BY <1>4, <2>1, <2>4 DEF IInv
<1>6. CASE /\ outpipe' = Append(outpipe, Head(inpipe))
           /\ proc' = proc /\ inpipe' = Tail(inpipe)
  <2>1. TypeOK'
    BY <1>1, <1>2, <1>3, <1>6 DEF IInv, TypeOK
  <2>2. outpipe' \o inpipe' = outpipe \o inpipe
    BY <1>1, <1>6, MoveAligned
  <2>3. Aligned'
    BY <1>1, <1>3, <2>2 DEF Aligned, InFlight, Begins
  <2>4. QED
    BY <1>4, <2>1, <2>3 DEF IInv
<1>7. QED
  BY <1>5, <1>6 DEF ServerAnswer

LEMMA CrashGood ==
  ASSUME IInv, Crash
  PROVE  IInv'
<1>1. TypeOK'
  BY BoundsAssumption DEF IInv, TypeOK, Crash, client
<1>2. Begins(outpipe \o <<>>, tq)
  BY PrefixAligned DEF IInv, TypeOK, Aligned, InFlight
<1>3. Aligned'
  BY <1>2 DEF Crash, client, Aligned, InFlight, Running, Begins
<1>4. Ordered'
  BY DEF IInv, Crash, client, Ordered
<1>5. QED
  BY <1>1, <1>3, <1>4 DEF IInv

(* The closure at the head is called with the answer to its query.         *)
LEMMA OwnHead ==
  ASSUME IInv, Deliver
  PROVE  /\ Head(outpipe) = Head(tq)
         /\ Head(tq) \in Ids
         /\ state[Head(tq)] = "pending"
         /\ \A q \in Ids : state[q] = "pending" => Head(tq) <= q
<1>1. /\ tq \in Seq(Ids) /\ inpipe \in Seq(Ids) /\ outpipe \in Seq(Ids)
      /\ tq # <<>> /\ outpipe # <<>>
      /\ Begins(outpipe \o inpipe, tq)
  BY DEF IInv, TypeOK, Deliver, Aligned, InFlight
<1>2. Head(outpipe) = Head(tq)
  BY <1>1, TailAligned
<1>3. Head(tq) = tq[1] /\ 1 \in 1 .. Len(tq) /\ Head(tq) \in Ids
  BY <1>1
<1>4. state[Head(tq)] = "pending"
  BY <1>3 DEF IInv, Ordered
<1>5. ASSUME NEW q \in Ids, state[q] = "pending"
      PROVE  Head(tq) <= q
  <2>1. PICK i \in 1 .. Len(tq) : tq[i] = q
    BY <1>5 DEF IInv, Ordered
  <2>2. i = 1 \/ 1 < i
    OBVIOUS
  <2>3. Head(tq) \in Nat /\ q \in Nat
    BY <1>3 DEF Ids
  <2>4. QED
    BY <1>3, <2>1, <2>2, <2>3 DEF IInv, Ordered
<1>6. QED
  BY <1>2, <1>3, <1>4, <1>5

LEMMA DeliverGood ==
  ASSUME IInv, Deliver
  PROVE  IInv'
<1>1. /\ tq \in Seq(Ids) /\ inpipe \in Seq(Ids) /\ outpipe \in Seq(Ids)
      /\ tq # <<>> /\ outpipe # <<>>
      /\ Begins(outpipe \o inpipe, tq)
  BY DEF IInv, TypeOK, Deliver, Aligned, InFlight
<1>2. /\ Tail(tq) \in Seq(Ids) /\ Tail(outpipe) \in Seq(Ids)
      /\ Head(outpipe) \in Ids /\ Len(Tail(tq)) = Len(tq) - 1
      /\ Head(tq) = tq[1] /\ Len(tq) > 0
      /\ \A i \in 1 .. Len(tq) - 1 : Tail(tq)[i] = tq[i + 1]
  BY <1>1
<1>3. TypeOK'
  BY <1>1, <1>2 DEF IInv, TypeOK, Deliver
<1>4. Aligned'
  <2>1. Begins(Tail(outpipe) \o inpipe, Tail(tq))
    BY <1>1, TailAligned
  <2>2. Running => Len(Tail(outpipe) \o inpipe) = Len(Tail(tq))
    BY <1>1, TailAligned DEF IInv, Aligned, InFlight
  <2>3. QED
    BY <2>1, <2>2 DEF Deliver, Aligned, InFlight, Running, Begins
<1>5. Ordered'
  <2> DEFINE n == Len(tq)
  <2>1. /\ n \in Nat /\ Len(tq') = n - 1
        /\ \A i \in 1 .. n - 1 : tq'[i] = tq[i + 1]
        /\ \A i \in 1 .. n : tq[i] \in Ids /\ tq[i] \in Nat
    <3>1. n \in Nat /\ \A i \in 1 .. n : tq[i] \in Ids
      BY <1>1
    <3>2. tq' = Tail(tq)
      BY DEF Deliver
    <3>3. \A i \in 1 .. n : tq[i] \in Nat
      BY <3>1 DEF Ids
    <3>4. QED
      BY <1>2, <3>1, <3>2, <3>3
  <2>2. \A a, b \in 1 .. n : a < b => tq[a] < tq[b]
    BY DEF IInv, Ordered
  <2> HIDE DEF n
  <2>3. \A i, j \in 1 .. Len(tq') : i < j => tq'[i] < tq'[j]
    BY <2>1, <2>2
  <2>4. PICK a \in {"answered", "unread"} :
          \A q \in Ids : state'[q] = IF q = Head(tq) THEN a ELSE state[q]
    BY DEF Deliver, IInv, TypeOK
  <2>5. ASSUME NEW q \in Ids
        PROVE  state'[q] = "pending" <=> \E i \in 1 .. Len(tq') : tq'[i] = q
    <3>1. state[q] = "pending" <=> \E i \in 1 .. n : tq[i] = q
      BY DEF IInv, Ordered, n
    <3>2. CASE q = Head(tq)
      <4>1. \A i \in 1 .. n - 1 : tq[i + 1] # q
        BY <2>1, <2>2, <1>2, <3>2
      <4>2. QED
        BY <4>1, <2>1, <2>4, <3>2
    <3>3. CASE q # Head(tq)
      <4>1. ASSUME NEW i \in 1 .. n, tq[i] = q
            PROVE  i - 1 \in 1 .. n - 1 /\ tq'[i - 1] = q
        BY <4>1, <2>1, <1>2, <3>3
      <4>2. ASSUME NEW i \in 1 .. n - 1, tq'[i] = q
            PROVE  i + 1 \in 1 .. n /\ tq[i + 1] = q
        BY <4>2, <2>1
      <4>3. QED
        BY <4>1, <4>2, <2>1, <2>4, <3>1, <3>3
    <3>4. QED
      BY <3>2, <3>3
  <2>6. \A q \in Ids : state'[q] = "new" <=> q >= next'
    BY <2>4, OwnHead DEF IInv, Ordered, Deliver
  <2>7. QED
    BY <2>3, <2>5, <2>6 DEF Ordered, Deliver
<1>6. QED
  BY <1>3, <1>4, <1>5 DEF IInv

LEMMA SpuriousGood ==
  ASSUME IInv, Spurious
  PROVE  IInv'
<1>1. outpipe \in Seq(Ids) /\ inpipe \in Seq(Ids) /\ outpipe # <<>> /\ tq = <<>>
      /\ Len(outpipe \o inpipe) <= Len(tq)
  BY DEF IInv, TypeOK, Spurious, Aligned, InFlight, Begins
<1>2. FALSE
  BY <1>1
<1>3. QED
  BY <1>2

LEMMA ReturnGood ==
  ASSUME IInv, Return
  PROVE  IInv'
<1>1. stack' \in Seq(Ids)
  <2>1. stack \in Seq(Ids) /\ stack # <<>>
    BY DEF IInv, TypeOK, Return
  <2>2. stack' = Tail(stack)
    BY DEF Return
  <2>3. QED
    BY <2>1, <2>2
<1>2. UNCHANGED <<policy, kind, got, next, stops>>
  BY DEF Return
<1>3. CASE Close /\ state' = Dropped
  BY <1>1, <1>2, <1>3, ClosedGood DEF IInv, TypeOK
<1>4. CASE UNCHANGED <<queue, proc, tq, inpipe, outpipe, state>>
  BY <1>1, <1>2, <1>4 DEF IInv, TypeOK, Aligned, InFlight, Begins, Running, Ordered
<1>5. QED
  BY <1>3, <1>4 DEF Return
-----------------------------------------------------------------------------
LEMMA InitInv == Init => IInv
<1> SUFFICES ASSUME Init PROVE IInv
  OBVIOUS
<1>1. TypeOK
  BY BoundsAssumption, PolicyAssumption DEF Init, TypeOK, Ids, Kinds, None
<1>2. Aligned
  BY DEF Init, Aligned, InFlight, Begins, Running
<1>3. Ordered
  BY DEF Init, Ordered, Ids
<1>4. QED
  BY <1>1, <1>2, <1>3 DEF IInv

(* One stop more is within the bound.                                      *)
LEMMA StopsBounded ==
  ASSUME stops \in 0 .. NStops, stops < NStops, stops' = stops + 1
  PROVE  stops' \in 0 .. NStops
BY BoundsAssumption

LEMMA NextInv ==
  ASSUME IInv, ~ Split, [Next]_vars
  PROVE  IInv'
<1>1. CASE Ask
  BY <1>1, QueryGood DEF Ask, Kinds, IInv, TypeOK
<1>2. CASE QueryRefused
  <2>1. CASE queue = "open"
    BY <1>2, <2>1, ClosedGood DEF QueryRefused, IInv, TypeOK
  <2>2. CASE queue # "open"
    <3>1. TypeOK'
      BY <1>2, <2>2 DEF QueryRefused, IInv, TypeOK, Dropped
    <3>2. Aligned'
      BY <1>2, <2>2 DEF QueryRefused, IInv, Aligned, InFlight, Begins, Running
    <3>3. tq = <<>> /\ tq' = tq /\ queue' = queue /\ next' = next
      BY <1>2, <2>2 DEF QueryRefused, IInv, Ordered
    <3>4. \A q \in Ids : state[q] # "pending" /\ state'[q] = state[q]
      BY <1>2, <3>3 DEF QueryRefused, IInv, Ordered, Dropped
    <3>5. Ordered'
      BY <3>3, <3>4 DEF IInv, Ordered
    <3>6. QED
      BY <3>1, <3>2, <3>5 DEF IInv
  <2>3. QED
    BY <2>1, <2>2
<1>3. CASE \E k \in {"quit", "quit timeout"} : Quit(k)
  <2>1. PICK k \in {"quit", "quit timeout"} : Quit(k)
    BY <1>3
  <2>2. stops' \in 0 .. NStops
    <3>1. stops \in 0 .. NStops
      BY DEF IInv, TypeOK
    <3>2. stops < NStops /\ stops' = stops + 1
      BY <2>1 DEF Quit
    <3>3. QED
      BY <3>1, <3>2, StopsBounded
  <2>3. QED
    BY <2>1, <2>2, QueryGood DEF Quit, Kinds
<1>4. CASE Kill
  <2>1. stops' \in 0 .. NStops
    BY <1>4, BoundsAssumption DEF Kill, IInv, TypeOK
  <2>2. QED
    BY <1>4, <2>1, ClosedGood DEF Kill, IInv, TypeOK
<1>5. CASE UNCHANGED vars
  BY <1>5 DEF vars, server, client, IInv, TypeOK, Aligned, InFlight, Begins,
              Running, Ordered
<1>6. QED
  BY <1>1, <1>2, <1>3, <1>4, <1>5, ServerGood, CrashGood, DeliverGood,
     SpuriousGood, ReturnGood DEF Next
-----------------------------------------------------------------------------
(* Whatever is queried, crashes, is killed and restarted, in any number    *)
(* and however nested: what is on its way is what the closures wait for,   *)
(* in the same order (pdf-info-query, tq.el).                              *)
THEOREM Invariant == ASSUME ~ Split PROVE Spec => []IInv
<1>1. IInv /\ [Next]_vars => IInv'
  BY NextInv
<1>2. QED
  BY <1>1, InitInv, PTL DEF Spec

(* No closure is ever called with the answer to the query of another: a    *)
(* step calls the closure at the head of the queue, with the first answer. *)
THEOREM OwnAnswers == ASSUME ~ Split PROVE Spec => []OwnAnswer
<1>1. Init => OwnAnswer
  BY DEF Init, OwnAnswer
<1>2. ASSUME IInv, OwnAnswer, [Next]_vars PROVE OwnAnswer'
  <2>1. CASE Deliver
    <3>1. Head(outpipe) = Head(tq)
      BY <1>2, <2>1, OwnHead
    <3>2. got' = [got EXCEPT ![Head(tq)] = Head(outpipe)] \/ got' = got
      BY <2>1 DEF Deliver
    <3>3. QED
      BY <1>2, <3>1, <3>2 DEF IInv, TypeOK, OwnAnswer
  <2>2. CASE got' = got
    BY <1>2, <2>2 DEF OwnAnswer
  <2>3. QED
    BY <1>2, <2>1, <2>2
    DEF Next, vars, client, Ask, Quit, Query, QueryRefused, Kill, ServerAnswer,
        Crash, Spurious, Return
<1>3. QED
  BY <1>1, <1>2, Invariant, PTL DEF Spec

(* The queue implements the promise of QueryService: answers at most once  *)
(* and in the order of the queries, losses for good.                       *)
THEOREM Refinement == ASSUME ~ Split PROVE Spec => ServiceSpec
<1> DEFINE st == [q \in Ids |-> IF state[q] \in {"dropped", "unread"} THEN "lost"
                               ELSE state[q]]
<1>1. Init => Service!Init
  BY DEF Init, Service!Init, Ids, Service!Ids
<1>2. ASSUME IInv, [Next]_vars PROVE [Service!Next]_st
  <2>1. CASE \E k \in Kinds : Query(k)
    <3>1. PICK k \in Kinds : Query(k)
      BY <2>1
    <3>2. /\ next \in Ids
          /\ state \in [Ids -> {"new", "pending", "answered", "unread", "dropped"}]
          /\ \A r \in Ids : state[r] = "new" <=> r >= next
      BY <1>2, <3>1 DEF Query, IInv, TypeOK, Ordered
    <3>3. \/ state' = [state EXCEPT ![next] = "pending"]
          \/ state' = [Dropped EXCEPT ![next] = "pending"]
      BY <3>1 DEF Query
    <3>4. \/ st' = [st EXCEPT ![next] = "pending"]
          \/ st' = [Service!Lose EXCEPT ![next] = "pending"]
      BY <3>2, <3>3 DEF Dropped, Service!Lose, Service!Ids, Ids
    <3>5. st[next] = "new" /\ \A r \in Ids : r < next => st[r] # "new"
      BY <3>2 DEF Ids
    <3>7. next \in Service!Ids
      BY <3>2 DEF Service!Ids, Ids
    <3>8. \E r \in Service!Ids : r = next /\ Service!Submit(r)
      BY <3>4, <3>5, <3>7 DEF Service!Submit, Service!Ids, Ids
    <3>9. Service!Next
      BY <3>8 DEF Service!Next
    <3>10. QED
      BY <3>9
  <2>2. CASE Deliver
    <3> DEFINE q == Head(tq)
    <3>1. /\ q \in Ids /\ state[q] = "pending"
          /\ \A r \in Ids : state[r] = "pending" => q <= r
          /\ \A r \in Ids : r \in Nat
      BY <1>2, <2>2, OwnHead DEF Ids
    <3>2. /\ \/ state' = [state EXCEPT ![q] = "answered"]
             \/ state' = [state EXCEPT ![q] = "unread"]
          /\ state \in [Ids -> {"new", "pending", "answered", "unread", "dropped"}]
      BY <1>2, <2>2 DEF Deliver, IInv, TypeOK
    <3> HIDE DEF q
    <3>3. \E a \in {"answered", "lost"} : st' = [st EXCEPT ![q] = a]
      <4>1. CASE state' = [state EXCEPT ![q] = "answered"]
        <5>1. st' = [st EXCEPT ![q] = "answered"]
          BY <3>1, <3>2, <4>1
        <5>2. QED
          BY <5>1
      <4>2. CASE state' = [state EXCEPT ![q] = "unread"]
        <5>1. st' = [st EXCEPT ![q] = "lost"]
          BY <3>1, <3>2, <4>2
        <5>2. QED
          BY <5>1
      <4>3. QED
        BY <3>2, <4>1, <4>2
    <3>4. st[q] = "pending" /\ \A r \in Ids : r < q => st[r] # "pending"
      <4>1. st[q] = state[q]
        BY <3>1
      <4>2. \A r \in Ids : st[r] = "pending" => state[r] = "pending"
        OBVIOUS
      <4>3. \A r \in Ids : r < q => ~ (q <= r)
        BY <3>1
      <4>4. QED
        BY <3>1, <4>1, <4>2, <4>3
    <3>5. q \in Service!Ids
      BY <3>1 DEF Service!Ids, Ids
    <3>6. \E r \in Service!Ids : r = q /\ Service!Answer(r)
      BY <3>3, <3>4, <3>5 DEF Service!Answer, Service!Ids, Ids
    <3>7. Service!Next
      BY <3>6 DEF Service!Next
    <3>8. QED
      BY <3>7
  <2>3. CASE state' = Dropped
    <3>1. Service!Stop
      BY <2>3 DEF Service!Stop, Service!Lose, Service!Ids, Ids, Dropped
    <3>2. QED
      BY <3>1 DEF Service!Next
  <2>4. CASE state' = state
    BY <2>4
  <2>5. QED
    BY <1>2, <2>1, <2>2, <2>3, <2>4
    DEF Next, vars, client, Ask, Quit, Kinds, QueryRefused, Kill, ServerAnswer,
        Crash, Spurious, Return
<1>3. QED
  BY <1>1, <1>2, Invariant, PTL DEF Spec, ServiceSpec, Service!Spec

------------------------------------------------------------------------------
(***************************************************************************)
(* PdfOccur: searches of any number of documents of any length, in batches *)
(* of any size, with any number of restarts and crashes: the rows, the     *)
(* number of matches and the pages left are those of the search shown.     *)
(*                                                                         *)
(* The batches not answered yet have no page in common.  So an answer      *)
(* takes as many pages off the ones left as its batch has, and its matches *)
(* are not among the rows yet.                                             *)
(***************************************************************************)
(* A batch has at least one page, and no two batches of bs have one in     *)
(* common.                                                                 *)
Batch == {b \in [doc : Documents, first : Nat, last : Nat, search : Nat] :
            b.first <= b.last}
Disjoint(bs) ==
  \A i, j \in 1 .. Len(bs) : i # j => PagesOf(bs[i]) \cap PagesOf(bs[j]) = {}
PagesIn(bs) == UNION {PagesOf(bs[i]) : i \in DOMAIN bs}

RowType == [doc : Documents, page : Nat, nth : Nat, search : Nat]
OccurTypeOK ==
  /\ docs \in Seq(Documents) /\ Once(docs)
  /\ rows \subseteq RowType /\ IsFiniteSet(rows)
  /\ batches \in Seq(Batch) /\ Disjoint(batches)
  /\ answer \in Int /\ count \in Int /\ left \in Int /\ search \in Nat

(* What is asked for belongs to the search shown, and none of its matches  *)
(* is shown yet.                                                           *)
Asked == \A i \in 1 .. Len(batches) : batches[i].search = search
Unseen == \A i \in 1 .. Len(batches), r \in rows :
            IsMatch(r) => <<r.doc, r.page>> \notin PagesOf(batches[i])

OccurInv == OccurTypeOK /\ Asked /\ Unseen /\ OwnMatches /\ MatchesCounted /\ PagesLeft
------------------------------------------------------------------------------
(* The number of pages of batches that have none in common.                *)
LEMMA PagesOfBatch ==
  ASSUME NEW b \in Batch
  PROVE  /\ IsFiniteSet(PagesOf(b)) /\ Cardinality(PagesOf(b)) = Size(b)
         /\ Size(b) \in Nat /\ Size(b) > 0 /\ <<b.doc, b.first>> \in PagesOf(b)
<1> DEFINE f == [p \in b.first .. b.last |-> <<b.doc, p>>]
<1>1. b.first \in Nat /\ b.last \in Nat /\ b.first <= b.last
  BY DEF Batch
<1>2. f \in Bijection(b.first .. b.last, PagesOf(b))
  <2>1. f \in [b.first .. b.last -> PagesOf(b)]
    BY DEF PagesOf
  <2>2. \A t \in PagesOf(b) : \E p \in b.first .. b.last : f[p] = t
    BY DEF PagesOf
  <2>3. \A p, q \in b.first .. b.last : f[p] = f[q] => p = q
    OBVIOUS
  <2>4. QED
    BY <2>1, <2>2, <2>3 DEF Bijection, Injection, Surjection, IsInjective
<1>3. ExistsBijection(b.first .. b.last, PagesOf(b))
  BY <1>2 DEF ExistsBijection
<1>4. IsFiniteSet(b.first .. b.last) /\ Cardinality(b.first .. b.last) = Size(b)
  <2>1. b.first \in Int /\ b.last \in Int /\ ~ (b.first > b.last)
        /\ b.last - b.first + 1 = 1 + b.last - b.first
    BY <1>1
  <2>2. QED
    BY <2>1, FS_Interval DEF Size
<1>5. <<b.doc, b.first>> \in PagesOf(b) /\ Size(b) \in Nat /\ Size(b) > 0
  BY <1>1 DEF Size, PagesOf
<1>6. QED
  BY <1>3, <1>4, <1>5, FS_Bijection

LEMMA TotalOf ==
  ASSUME NEW bs \in Seq(Batch), Disjoint(bs)
  PROVE  IsFiniteSet(PagesIn(bs)) /\ Total(bs) = Cardinality(PagesIn(bs))
<1> DEFINE N == Len(bs)
           P(f) == f = [n \in 0 .. N |-> IF n = 0 THEN 0 ELSE f[n - 1] + Size(bs[n])]
           G == [y \in Int \X (1 .. N) |-> y[1] + Size(bs[y[2]])]
           sum == CHOOSE f : P(f)
<1>1. N \in Nat /\ G \in [Int \X (1 .. N) -> Int] /\ 0 \in Int
  <2>1. \A n \in 1 .. N : bs[n] \in Batch
    OBVIOUS
  <2>2. ASSUME NEW n \in 1 .. N PROVE Size(bs[n]) \in Int
    <3>1. Size(bs[n]) \in Nat
      BY <2>1, PagesOfBatch
    <3>2. QED
      BY <3>1
  <2>3. QED
    BY <2>2
<1>2. PICK h \in [0 .. N -> Int] : Computes(h, N, 0, G)
  <2> HIDE DEF G, N
  <2>1. QED
    BY <1>1, Recursion
<1>3. ASSUME NEW n \in 1 .. N
      PROVE  h[n] = h[n - 1] + Size(bs[n])
  <2>1. n - 1 \in 0 .. N
    BY <1>1
  <2>2. <<h[n - 1], n>> \in Int \X (1 .. N)
    BY <2>1
  <2>3. h[n] = G[<<h[n - 1], n>>]
    BY <1>2 DEF Computes
  <2> HIDE DEF N
  <2>4. QED
    BY <2>2, <2>3
<1>4. P(h)
  <2>1. h[0] = 0
    BY <1>2 DEF Computes
  <2>2. ASSUME NEW n \in 0 .. N
        PROVE  h[n] = IF n = 0 THEN 0 ELSE h[n - 1] + Size(bs[n])
    <3>1. n = 0 \/ n \in 1 .. N
      BY <1>1
    <3> HIDE DEF N, G
    <3>2. QED
      BY <1>3, <2>1, <3>1
  <2> HIDE DEF N, G
  <2>3. QED
    BY <2>2
<1>5. P(sum)
  <2> HIDE DEF P
  <2>1. QED
    BY <1>4
<1>6. Total(bs) = sum[N]
  BY DEF Total
<1>7. sum[0] = 0 /\ \A n \in 1 .. N : sum[n] = sum[n - 1] + Size(bs[n])
  <2>1. ASSUME NEW f, P(f)
        PROVE  f[0] = 0 /\ \A n \in 1 .. N : f[n] = f[n - 1] + Size(bs[n])
    <3> HIDE DEF N
    <3>1. 0 \in 0 .. N /\ \A n \in 1 .. N : n \in 0 .. N /\ n # 0
      BY <1>1
    <3>2. QED
      BY <2>1, <3>1
  <2> HIDE DEF P, sum
  <2>2. QED
    BY <1>5, <2>1
<1> HIDE DEF sum, G, P
<1> DEFINE U(n) == UNION {PagesOf(bs[i]) : i \in 1 .. n}
           Good(n) == IsFiniteSet(U(n)) /\ sum[n] = Cardinality(U(n))
           T == {n \in 0 .. N : Good(n)}
<1>8. 0 \in T
  <2>1. U(0) = {}
    OBVIOUS
  <2>2. Good(0)
    BY <1>7, <2>1, FS_EmptySet
  <2> HIDE DEF Good
  <2>3. QED
    BY <1>1, <2>2
<1>9. ASSUME NEW n \in 0 .. N, n < N, n \in T PROVE n + 1 \in T
  <2> DEFINE k == n + 1
  <2>1. k \in 1 .. N /\ k - 1 = n /\ Good(n) /\ bs[k] \in Batch
    BY <1>9
  <2>2. U(k) = U(n) \cup PagesOf(bs[k])
    <3>1. \A i : i \in 1 .. k <=> i \in 1 .. n \/ i = k
      BY <2>1
    <3> HIDE DEF k
    <3>2. QED
      BY <3>1
  <2>3. U(n) \cap PagesOf(bs[k]) = {}
    <3>1. \A i \in 1 .. n : i \in 1 .. N /\ i # k
      BY <2>1
    <3>2. \A i \in 1 .. n : PagesOf(bs[i]) \cap PagesOf(bs[k]) = {}
      BY <2>1, <3>1 DEF Disjoint
    <3>3. QED
      BY <3>2
  <2>4. IsFiniteSet(PagesOf(bs[k])) /\ Cardinality(PagesOf(bs[k])) = Size(bs[k])
    BY <2>1, PagesOfBatch
  <2> HIDE DEF U, k
  <2>5. /\ IsFiniteSet(U(k))
        /\ Cardinality(U(k)) = Cardinality(U(n)) + Size(bs[k]) - Cardinality({})
    BY <2>1, <2>2, <2>3, <2>4, FS_Union
  <2>6. Cardinality({}) = 0 /\ Cardinality(U(n)) \in Nat /\ Size(bs[k]) \in Nat
    BY <2>1, PagesOfBatch, FS_EmptySet, FS_CardinalityType
  <2>7. sum[k] = sum[n] + Size(bs[k])
    BY <1>7, <2>1
  <2>8. Good(k)
    BY <2>1, <2>5, <2>6, <2>7
  <2> HIDE DEF Good
  <2>9. QED
    BY <1>1, <2>1, <2>8 DEF k
<1>10. N \in T
  <2> HIDE DEF T, N
  <2>1. 0 .. N \subseteq T
    BY <1>1, <1>8, <1>9, Induction
  <2>2. QED
    BY <1>1, <2>1
<1>11. U(N) = PagesIn(bs)
  <2>1. DOMAIN bs = 1 .. N
    OBVIOUS
  <2>2. QED
    BY <2>1 DEF PagesIn
<1>12. QED
  BY <1>6, <1>10, <1>11
------------------------------------------------------------------------------
(* The batches of a search.                                                *)
LEMMA BatchesOfDocument ==
  ASSUME NEW d \in Documents, NEW n \in Nat
  PROVE  /\ BatchesOf(d, n) \in Seq(Batch) /\ Disjoint(BatchesOf(d, n))
         /\ \A i \in 1 .. Len(BatchesOf(d, n)) :
              BatchesOf(d, n)[i].doc = d /\ BatchesOf(d, n)[i].search = n
<1> DEFINE B == BatchSize
           N == NPages[d]
           M == (N + B - 1) \div B
           bs == BatchesOf(d, n)
<1>1. B \in Nat /\ B > 0 /\ N \in Nat /\ N > 0
  BY PagesAssumption, BatchAssumption DEF Documents
<1>2. M \in Nat /\ M * B < N + B
  BY <1>1
<1>3. ASSUME NEW i \in 1 .. M
      PROVE  /\ (i - 1) * B \in Nat /\ i * B \in Nat /\ (i - 1) * B < N
             /\ i * B = (i - 1) * B + B
  <2>1. i * B = (i - 1) * B + B /\ (i - 1) * B \in Nat /\ i * B \in Nat
    BY <1>1, <1>2
  <2>2. i * B <= M * B
    BY <1>1, <1>2
  <2> HIDE DEF M, B, N
  <2>3. M * B \in Nat
    BY <1>1, <1>2
  <2>4. QED
    BY <1>1, <1>2, <2>1, <2>2, <2>3
<1>4. /\ DOMAIN bs = 1 .. M
      /\ \A i \in 1 .. M : bs[i] = [doc |-> d, first |-> (i - 1) * B + 1,
                                    last |-> LastPage(d, i), search |-> n]
  BY DEF BatchesOf
<1> HIDE DEF M, B, N
<1>5. ASSUME NEW i \in 1 .. M
      PROVE  /\ LastPage(d, i) \in Nat /\ LastPage(d, i) <= i * B
             /\ (i - 1) * B + 1 <= LastPage(d, i)
  <2>1. LastPage(d, i) = IF i * B < N THEN i * B ELSE N
    BY DEF LastPage, B, N
  <2>2. QED
    BY <1>1, <1>3, <2>1
<1>6. ASSUME NEW i \in 1 .. M PROVE bs[i] \in Batch
  <2>1. (i - 1) * B + 1 \in Nat
    BY <1>3
  <2>2. QED
    BY <1>4, <1>5, <2>1 DEF Batch
<1>7. bs \in Seq(Batch) /\ Len(bs) = M
  <2>1. bs = [i \in 1 .. M |-> bs[i]]
    BY <1>4 DEF BatchesOf, M, B, N
  <2>2. QED
    BY <1>2, <1>6, <2>1
<1>8. ASSUME NEW i \in 1 .. M, NEW j \in 1 .. M, i < j
      PROVE  PagesOf(bs[i]) \cap PagesOf(bs[j]) = {}
  <2>1. i * B <= (j - 1) * B
    BY <1>1, <1>2, <1>8
  <2>2. bs[i].last < bs[j].first /\ bs[i] \in Batch /\ bs[j] \in Batch
    BY <1>3, <1>4, <1>5, <1>6, <2>1
  <2> HIDE DEF bs
  <2>3. QED
    BY <2>2 DEF PagesOf, Batch
<1>9. Disjoint(bs)
  BY <1>2, <1>7, <1>8 DEF Disjoint
<1>10. QED
  BY <1>4, <1>7, <1>9

(* Batches of different documents have no page in common.                  *)
LEMMA BatchesOfSearch ==
  ASSUME NEW ds \in Seq(Documents), Once(ds), ds # <<>>, search \in Nat
  PROVE  /\ Batches(ds) \in Seq(Batch) /\ Disjoint(Batches(ds))
         /\ \A i \in 1 .. Len(Batches(ds)) : Batches(ds)[i].search = search + 1
<1> DEFINE N == Len(ds)
           n == search + 1
           ss == [i \in DOMAIN ds |-> BatchesOf(ds[i], n)]
           P(f) == f = [i \in 1 .. Len(ss) |-> IF i = 1 THEN ss[i] ELSE f[i - 1] \o ss[i]]
           G == [y \in Seq(Batch) \X (1 .. N) |-> y[1] \o ss[y[2]]]
           flat == CHOOSE f : P(f)
<1>1. /\ N \in Nat /\ N > 0 /\ n \in Nat /\ DOMAIN ds = 1 .. N /\ DOMAIN ss = 1 .. N
      /\ \A i \in 1 .. N : ds[i] \in Documents /\ ss[i] = BatchesOf(ds[i], n)
  OBVIOUS
<1>2. ASSUME NEW k \in 1 .. N
      PROVE  /\ ss[k] \in Seq(Batch) /\ Disjoint(ss[k])
             /\ \A i \in 1 .. Len(ss[k]) : ss[k][i].doc = ds[k] /\ ss[k][i].search = n
  <2> HIDE DEF ss, N, n
  <2>1. ds[k] \in Documents /\ ss[k] = BatchesOf(ds[k], n)
    BY <1>1
  <2>2. QED
    BY <1>1, <2>1, BatchesOfDocument
<1>3. Len(ss) = N /\ ss \in Seq(Seq(Batch))
  <2>1. ss = [i \in 1 .. N |-> ss[i]]
    BY <1>1
  <2> HIDE DEF ss, N
  <2>2. QED
    BY <1>1, <1>2, <2>1
<1>4. Batches(ds) = flat[N]
  <2>1. Len(ss) # 0
    BY <1>1, <1>3
  <2>2. FlattenSeq(ss) = flat[Len(ss)]
    <3> HIDE DEF ss
    <3>1. QED
      BY <2>1 DEF FlattenSeq
  <2>3. Batches(ds) = FlattenSeq(ss)
    BY DEF Batches
  <2>4. QED
    BY <1>3, <2>2, <2>3
<1> HIDE DEF ss
<1>5. G \in [Seq(Batch) \X (1 .. N) -> Seq(Batch)] /\ <<>> \in Seq(Batch)
  BY <1>2
<1>6. PICK h \in [0 .. N -> Seq(Batch)] : Computes(h, N, <<>>, G)
  <2> HIDE DEF G, N
  <2>1. QED
    BY <1>1, <1>5, Recursion
<1>7. ASSUME NEW k \in 1 .. N PROVE h[k] = h[k - 1] \o ss[k]
  <2>1. k - 1 \in 0 .. N
    BY <1>1
  <2>2. <<h[k - 1], k>> \in Seq(Batch) \X (1 .. N)
    BY <2>1
  <2>3. h[k] = G[<<h[k - 1], k>>]
    BY <1>6 DEF Computes
  <2> HIDE DEF N
  <2>4. QED
    BY <2>2, <2>3
<1> DEFINE g == [k \in 1 .. N |-> h[k]]
<1>8. P(g)
  <2>1. ASSUME NEW k \in 1 .. N
        PROVE  g[k] = IF k = 1 THEN ss[k] ELSE g[k - 1] \o ss[k]
    <3>1. h[0] = <<>>
      BY <1>6 DEF Computes
    <3>2. <<>> \o ss[k] = ss[k]
      BY <1>2
    <3>3. k # 1 => k - 1 \in 1 .. N
      BY <1>1
    <3> HIDE DEF N
    <3>4. g[k] = h[k] /\ (k # 1 => g[k - 1] = h[k - 1])
      BY <3>3
    <3>5. h[k] = h[k - 1] \o ss[k]
      BY <1>7
    <3> HIDE DEF g
    <3>6. CASE k = 1
      <4>1. k - 1 = 0
        BY <3>6
      <4>2. h[k] = <<>> \o ss[k]
        BY <3>1, <3>5, <4>1
      <4>3. QED
        BY <3>2, <3>4, <3>6, <4>2
    <3>7. CASE k # 1
      BY <3>4, <3>5, <3>7
    <3>8. QED
      BY <3>6, <3>7
  <2>2. g = [k \in 1 .. N |-> g[k]]
    OBVIOUS
  <2> HIDE DEF N, g
  <2>3. QED
    BY <1>3, <2>1, <2>2
<1>9. P(flat)
  <2> HIDE DEF P, g
  <2>1. QED
    BY <1>8
<1>10. flat[1] = ss[1] /\ \A k \in 1 .. N : k # 1 => flat[k] = flat[k - 1] \o ss[k]
  <2>1. ASSUME NEW f, P(f)
        PROVE  f[1] = ss[1] /\ \A k \in 1 .. N : k # 1 => f[k] = f[k - 1] \o ss[k]
    <3> HIDE DEF N
    <3>1. 1 \in 1 .. N
      BY <1>1
    <3>2. QED
      BY <1>3, <2>1, <3>1
  <2> HIDE DEF P, flat
  <2>2. QED
    BY <1>9, <2>1
<1> HIDE DEF flat, G, P
<1> DEFINE Good(k, s) ==
             /\ s \in Seq(Batch) /\ Disjoint(s)
             /\ \A i \in 1 .. Len(s) : s[i].search = n /\ \E j \in 1 .. k : s[i].doc = ds[j]
           T == {k \in 0 .. N : k = 0 \/ Good(k, flat[k])}
<1>11. 0 \in T
  BY <1>1
<1>12. ASSUME NEW k \in 0 .. N, k < N, k \in T PROVE k + 1 \in T
  <2> DEFINE m == k + 1
  <2>1. m \in 1 .. N /\ m \in 0 .. N /\ m - 1 = k /\ m # 0
    BY <1>12
  <2>2. CASE k = 0
    <3>1. flat[m] = ss[m] /\ m = 1
      BY <1>10, <2>2
    <3>2. Good(m, ss[m])
      <4> HIDE DEF n, N
      <4>1. QED
        BY <1>2, <2>1
    <3> HIDE DEF Good, m
    <3>3. QED
      BY <2>1, <3>1, <3>2 DEF m
  <2>3. CASE k # 0
    <3> DEFINE s == flat[k]
               t == ss[m]
    <3>1. flat[m] = s \o t
      <4>1. m # 1
        BY <2>1, <2>3
      <4> HIDE DEF m
      <4>2. flat[m] = flat[m - 1] \o ss[m]
        BY <1>10, <2>1, <4>1
      <4>3. QED
        BY <2>1, <4>2
    <3>2. Good(k, s)
      BY <1>12, <2>3
    <3>3. /\ t \in Seq(Batch) /\ Disjoint(t)
          /\ \A i \in 1 .. Len(t) : t[i].doc = ds[m] /\ t[i].search = n
      <4> HIDE DEF n, N, m
      <4>1. QED
        BY <1>2, <2>1
    <3> HIDE DEF s, t
    <3>4. /\ s \o t \in Seq(Batch) /\ Len(s \o t) = Len(s) + Len(t)
          /\ \A i \in 1 .. Len(s) + Len(t) :
               (s \o t)[i] = IF i <= Len(s) THEN s[i] ELSE t[i - Len(s)]
      BY <3>2, <3>3
    <3>5. \A i \in 1 .. Len(s) + Len(t) :
            i <= Len(s) \/ (i - Len(s) \in 1 .. Len(t))
      BY <3>2, <3>3
    <3>6. ASSUME NEW i \in 1 .. Len(s) + Len(t)
          PROVE  (s \o t)[i].search = n /\ \E j \in 1 .. m : (s \o t)[i].doc = ds[j]
      <4>1. \A j \in 1 .. k : j \in 1 .. m
        BY <2>1
      <4>2. m \in 1 .. m
        BY <2>1
      <4> HIDE DEF m, n
      <4>3. CASE i <= Len(s)
        BY <3>2, <3>4, <4>1, <4>3
      <4>4. CASE ~ i <= Len(s)
        BY <3>3, <3>4, <3>5, <4>2, <4>4
      <4>5. QED
        BY <4>3, <4>4
    <3>7. ASSUME NEW i \in 1 .. Len(s), NEW j \in 1 .. Len(t)
          PROVE  PagesOf(s[i]) \cap PagesOf(t[j]) = {}
      <4>1. PICK l \in 1 .. k : s[i].doc = ds[l]
        BY <3>2
      <4>2. t[j].doc = ds[m] /\ l # m /\ l \in 1 .. N
        BY <2>1, <3>3
      <4>3. s[i].doc # t[j].doc
        BY <2>1, <4>1, <4>2 DEF Once
      <4>4. QED
        BY <4>3 DEF PagesOf
    <3>8. Disjoint(s \o t)
      <4> SUFFICES ASSUME NEW i \in 1 .. Len(s) + Len(t), NEW j \in 1 .. Len(s) + Len(t),
                          i # j
                   PROVE  PagesOf((s \o t)[i]) \cap PagesOf((s \o t)[j]) = {}
        BY <3>4 DEF Disjoint
      <4> DEFINE x == (s \o t)[i]
                 y == (s \o t)[j]
      <4>1. x = (IF i <= Len(s) THEN s[i] ELSE t[i - Len(s)])
            /\ y = (IF j <= Len(s) THEN s[j] ELSE t[j - Len(s)])
        BY <3>4
      <4>2. Len(s) \in Nat /\ Len(t) \in Nat
        BY <3>2, <3>3
      <4> HIDE DEF x, y
      <4> DEFINE Apart == PagesOf(x) \cap PagesOf(y) = {}
      <4>3. ASSUME i <= Len(s), j <= Len(s) PROVE Apart
        <5>1. i \in 1 .. Len(s) /\ j \in 1 .. Len(s) /\ x = s[i] /\ y = s[j]
          BY <4>1, <4>2, <4>3
        <5>2. PagesOf(s[i]) \cap PagesOf(s[j]) = {}
          BY <3>2, <5>1 DEF Disjoint
        <5>3. QED
          BY <5>1, <5>2
      <4>4. ASSUME ~ i <= Len(s), ~ j <= Len(s) PROVE Apart
        <5>1. /\ i - Len(s) # j - Len(s)
              /\ i - Len(s) \in 1 .. Len(t) /\ j - Len(s) \in 1 .. Len(t)
          BY <3>5, <4>2, <4>4
        <5>2. x = t[i - Len(s)] /\ y = t[j - Len(s)]
          BY <4>1, <4>4
        <5>3. PagesOf(t[i - Len(s)]) \cap PagesOf(t[j - Len(s)]) = {}
          BY <3>3, <5>1 DEF Disjoint
        <5>4. QED
          BY <5>2, <5>3
      <4>5. ASSUME i <= Len(s), ~ j <= Len(s) PROVE Apart
        <5>1. i \in 1 .. Len(s) /\ j - Len(s) \in 1 .. Len(t)
          BY <3>5, <4>2, <4>5
        <5>2. x = s[i] /\ y = t[j - Len(s)]
          BY <4>1, <4>5
        <5>3. QED
          BY <3>7, <5>1, <5>2
      <4>6. ASSUME ~ i <= Len(s), j <= Len(s) PROVE Apart
        <5>1. j \in 1 .. Len(s) /\ i - Len(s) \in 1 .. Len(t)
          BY <3>5, <4>2, <4>6
        <5>2. y = s[j] /\ x = t[i - Len(s)]
          BY <4>1, <4>6
        <5>3. QED
          BY <3>7, <5>1, <5>2
      <4>7. QED
        BY <4>3, <4>4, <4>5, <4>6 DEF x, y
    <3>9. Good(m, s \o t)
      BY <3>4, <3>6, <3>8
    <3> HIDE DEF Good, m
    <3>10. QED
      BY <2>1, <3>1, <3>9 DEF m
  <2>4. QED
    BY <2>2, <2>3
<1>13. N \in T
  <2> HIDE DEF T, N
  <2>1. 0 .. N \subseteq T
    BY <1>1, <1>11, <1>12, Induction
  <2>2. QED
    BY <1>1, <2>1
<1>14. Good(N, flat[N])
  BY <1>1, <1>13
<1>15. QED
  BY <1>4, <1>14
------------------------------------------------------------------------------
(* The batches after the first, and their pages.                           *)
LEMMA BatchesAfter ==
  ASSUME NEW bs \in Seq(Batch), bs # <<>>, Disjoint(bs)
  PROVE  /\ Tail(bs) \in Seq(Batch) /\ Disjoint(Tail(bs)) /\ Head(bs) \in Batch
         /\ Len(Tail(bs)) = Len(bs) - 1
         /\ \A i \in 1 .. Len(Tail(bs)) :
              /\ i + 1 \in 1 .. Len(bs) /\ Tail(bs)[i] = bs[i + 1]
              /\ PagesOf(Head(bs)) \cap PagesOf(Tail(bs)[i]) = {}
         /\ Cardinality(PagesIn(bs)) = Size(Head(bs)) + Cardinality(PagesIn(Tail(bs)))
<1> DEFINE h == Head(bs)
           t == Tail(bs)
<1>1. /\ t \in Seq(Batch) /\ h \in Batch /\ h = bs[1] /\ Len(t) = Len(bs) - 1
      /\ 1 \in 1 .. Len(bs)
      /\ \A i \in 1 .. Len(t) : i + 1 \in 1 .. Len(bs) /\ t[i] = bs[i + 1]
  OBVIOUS
<1> HIDE DEF h, t
<1>2. \A i \in 1 .. Len(t) : PagesOf(h) \cap PagesOf(t[i]) = {}
  <2>1. \A i \in 1 .. Len(t) : i + 1 # 1
    OBVIOUS
  <2>2. QED
    BY <1>1, <2>1 DEF Disjoint
<1>3. Disjoint(t)
  <2>1. \A i, j \in 1 .. Len(t) : i # j => i + 1 # j + 1
    OBVIOUS
  <2>2. QED
    BY <1>1, <2>1 DEF Disjoint
<1>4. PagesIn(bs) = PagesOf(h) \cup PagesIn(t)
  <2>1. DOMAIN bs = 1 .. Len(bs) /\ DOMAIN t = 1 .. Len(t)
    BY <1>1
  <2>2. ASSUME NEW i \in 1 .. Len(bs), i # 1 PROVE i - 1 \in 1 .. Len(t) /\ t[i - 1] = bs[i]
    <3>1. Len(bs) \in Nat /\ i - 1 \in 1 .. Len(t) /\ (i - 1) + 1 = i
      BY <1>1, <2>2
    <3>2. QED
      BY <1>1, <3>1
  <2>3. PagesIn(bs) \subseteq PagesOf(h) \cup PagesIn(t)
    BY <1>1, <2>1, <2>2 DEF PagesIn
  <2>4. PagesOf(h) \cup PagesIn(t) \subseteq PagesIn(bs)
    BY <1>1, <2>1 DEF PagesIn
  <2>5. QED
    BY <2>3, <2>4
<1>5. PagesOf(h) \cap PagesIn(t) = {}
  <2>1. DOMAIN t = 1 .. Len(t)
    BY <1>1
  <2>2. QED
    BY <1>2, <2>1 DEF PagesIn
<1>6. IsFiniteSet(PagesIn(t)) /\ IsFiniteSet(PagesOf(h))
      /\ Cardinality(PagesOf(h)) = Size(h) /\ Size(h) \in Nat
  BY <1>1, <1>3, TotalOf, PagesOfBatch
<1>7. Cardinality(PagesIn(bs)) = Size(h) + Cardinality(PagesIn(t))
  <2>1. Cardinality(PagesIn(bs)) =
          Cardinality(PagesOf(h)) + Cardinality(PagesIn(t)) - Cardinality({})
    BY <1>4, <1>5, <1>6, FS_Union
  <2>2. Cardinality({}) = 0 /\ Cardinality(PagesIn(t)) \in Nat
    BY <1>6, FS_EmptySet, FS_CardinalityType
  <2>3. QED
    BY <1>6, <2>1, <2>2
<1>8. QED
  BY <1>1, <1>2, <1>3, <1>7 DEF h, t

Matches(rs) == {r \in rs : IsMatch(r)}

LEMMA FiniteImage ==
  ASSUME NEW S, NEW T, NEW f \in [S -> T], IsFiniteSet(S)
  PROVE  IsFiniteSet({f[x] : x \in S})
<1> DEFINE U == {f[x] : x \in S}
<1>1. f \in [S -> U] /\ \A u \in U : \E x \in S : f[x] = u
  OBVIOUS
<1> HIDE DEF U
<1>2. f \in Surjection(S, U)
  BY <1>1 DEF Surjection
<1>3. IsFiniteSet(U)
  BY <1>2, FS_Surjection
<1>4. QED
  BY <1>3 DEF U

(* The end of a search adds no match.                                      *)
LEMMA Finishing ==
  ASSUME OccurTypeOK, NEW rs \in SUBSET RowType, IsFiniteSet(rs), Finished(rs)
  PROVE  /\ rows' \subseteq RowType /\ IsFiniteSet(rows') /\ left' = 0
         /\ Matches(rows') = Matches(rs)
<1> DEFINE Bare == {e \in ToSet(docs) : RowsOf(rs, e) = {}}
           New == IF Len(docs) > 1 THEN {NoMatch(d) : d \in Bare} ELSE {}
<1>1. rows' = rs \cup New /\ left' = 0
  BY DEF Finished
<1>2. ToSet(docs) \subseteq Documents /\ IsFiniteSet(ToSet(docs))
  <2>1. docs \in Seq(Documents) /\ DOMAIN docs = 1 .. Len(docs) /\ IsFiniteSet(1 .. Len(docs))
    BY FS_Interval DEF OccurTypeOK
  <2>2. docs \in [1 .. Len(docs) -> Documents] /\ ToSet(docs) = {docs[i] : i \in 1 .. Len(docs)}
    BY <2>1 DEF ToSet
  <2>3. IsFiniteSet({docs[i] : i \in 1 .. Len(docs)})
    BY <2>1, <2>2, FiniteImage
  <2>4. QED
    BY <2>2, <2>3
<1>3. ASSUME NEW d \in Documents
      PROVE  NoMatch(d) \in RowType /\ ~ IsMatch(NoMatch(d))
  BY DEF NoMatch, RowType, IsMatch, OccurTypeOK
<1>4. IsFiniteSet(Bare) /\ Bare \subseteq Documents
  BY <1>2, FS_Subset
<1>5. IsFiniteSet({NoMatch(d) : d \in Bare})
  <2> DEFINE f == [d \in Bare |-> NoMatch(d)]
  <2> HIDE DEF Bare
  <2>1. f \in [Bare -> RowType] /\ {f[d] : d \in Bare} = {NoMatch(d) : d \in Bare}
    BY <1>3, <1>4
  <2> HIDE DEF f
  <2>2. IsFiniteSet({f[d] : d \in Bare})
    BY <1>4, <2>1, FiniteImage
  <2>3. QED
    BY <2>1, <2>2
<1> HIDE DEF Bare
<1>6. IsFiniteSet(New) /\ New \subseteq RowType /\ \A r \in New : ~ IsMatch(r)
  BY <1>3, <1>4, <1>5, FS_EmptySet
<1> HIDE DEF New
<1>7. IsFiniteSet(rows')
  BY <1>1, <1>6, FS_Union
<1>8. QED
  BY <1>1, <1>6, <1>7 DEF Matches

(* The matches of an answer are new, and in the pages of its batch.        *)
LEMMA Adding ==
  ASSUME OccurInv, answer >= 0, batches # <<>>, NEW b, b = Head(batches)
  PROVE  /\ NewRows(b) \subseteq RowType /\ IsFiniteSet(NewRows(b))
         /\ \A r \in Matches(NewRows(b)) \ Matches(rows) :
              r.search = search /\ <<r.doc, r.page>> \in PagesOf(b)
         /\ Cardinality(Matches(NewRows(b))) - Cardinality(Matches(rows)) =
              NewCount(b) - count
         /\ NewCount(b) \in Int
<1> DEFINE New == {Row(b, i) : i \in 1 .. answer}
<1>1. /\ b \in Batch /\ b = batches[1] /\ 1 \in 1 .. Len(batches) /\ b.search = search
      /\ <<b.doc, b.first>> \in PagesOf(b) /\ answer \in Nat /\ count \in Int
      /\ rows \subseteq RowType /\ IsFiniteSet(rows)
  BY PagesOfBatch DEF OccurInv, OccurTypeOK, Asked
<1>2. ASSUME NEW i \in 1 .. answer
      PROVE  /\ Row(b, i) \in RowType /\ IsMatch(Row(b, i)) /\ Row(b, i).nth = i
             /\ Row(b, i).search = search
             /\ <<Row(b, i).doc, Row(b, i).page>> \in PagesOf(b)
  BY <1>1 DEF Row, RowType, IsMatch, Batch
<1>3. \A r \in New : r \notin rows
  <2>1. ASSUME NEW i \in 1 .. answer PROVE Row(b, i) \notin rows
    BY <1>1, <1>2 DEF OccurInv, Unseen
  <2>2. QED
    BY <2>1
<1>4. IsFiniteSet(New) /\ Cardinality(New) = answer
  <2> DEFINE f == [i \in 1 .. answer |-> Row(b, i)]
  <2>1. f \in Bijection(1 .. answer, New)
    <3>1. f \in [1 .. answer -> New]
      OBVIOUS
    <3>2. \A i, j \in 1 .. answer : f[i] = f[j] => i = j
      <4>1. ASSUME NEW i \in 1 .. answer, NEW j \in 1 .. answer, f[i] = f[j] PROVE i = j
        <5>1. f[i] = Row(b, i) /\ f[j] = Row(b, j)
          OBVIOUS
        <5> HIDE DEF f
        <5>2. Row(b, i).nth = Row(b, j).nth
          BY <4>1, <5>1
        <5>3. QED
          BY <1>2, <5>2
      <4> HIDE DEF f
      <4>2. QED
        BY <4>1
    <3>3. \A r \in New : \E i \in 1 .. answer : f[i] = r
      OBVIOUS
    <3> HIDE DEF f, New
    <3>4. QED
      BY <3>1, <3>2, <3>3 DEF Bijection, Injection, Surjection, IsInjective
  <2>2. ExistsBijection(1 .. answer, New)
    BY <2>1 DEF ExistsBijection
  <2>3. IsFiniteSet(1 .. answer) /\ Cardinality(1 .. answer) = answer
    <3>1. 1 \in Int /\ answer \in Int /\ answer - 1 + 1 = answer /\ (1 > answer => answer = 0)
      BY <1>1
    <3>2. QED
      BY <3>1, FS_Interval
  <2> HIDE DEF New
  <2>4. QED
    BY <2>2, <2>3, FS_Bijection
<1>5. IsFiniteSet(Matches(rows)) /\ Cardinality(Matches(rows)) \in Nat
  <2>1. Matches(rows) \subseteq rows
    BY DEF Matches
  <2>2. IsFiniteSet(Matches(rows))
    BY <1>1, <2>1, FS_Subset
  <2>3. QED
    BY <2>2, FS_CardinalityType
<1>6. CASE b.doc \in ToSet(docs)
  <2>1. NewRows(b) = rows \cup New /\ NewCount(b) = count + answer
    BY <1>6 DEF NewRows, NewCount
  <2>2. New \subseteq RowType /\ \A r \in New : r.search = search /\ IsMatch(r)
                                             /\ <<r.doc, r.page>> \in PagesOf(b)
    <3>1. ASSUME NEW r \in New
          PROVE  /\ r \in RowType /\ r.search = search /\ IsMatch(r)
                 /\ <<r.doc, r.page>> \in PagesOf(b)
      <4>1. PICK i \in 1 .. answer : r = Row(b, i)
        OBVIOUS
      <4> HIDE DEF New
      <4>2. QED
        BY <1>2, <4>1
    <3>2. QED
      BY <3>1
  <2> HIDE DEF New
  <2>3. Matches(NewRows(b)) = Matches(rows) \cup New
    BY <2>1, <2>2 DEF Matches
  <2>4. Matches(rows) \cap New = {}
    BY <1>3 DEF Matches
  <2>5. Cardinality(Matches(NewRows(b))) =
          Cardinality(Matches(rows)) + Cardinality(New) - Cardinality({})
    BY <1>4, <1>5, <2>3, <2>4, FS_Union
  <2>6. Cardinality({}) = 0
    BY FS_EmptySet
  <2>7. IsFiniteSet(NewRows(b))
    BY <1>1, <1>4, <2>1, FS_Union
  <2>8. Cardinality(Matches(NewRows(b))) - Cardinality(Matches(rows)) = NewCount(b) - count
    BY <1>1, <1>4, <1>5, <2>1, <2>5, <2>6
  <2>9. QED
    BY <1>1, <2>1, <2>2, <2>3, <2>7, <2>8
<1>7. CASE b.doc \notin ToSet(docs)
  <2>1. NewRows(b) = rows /\ NewCount(b) = count
    BY <1>7 DEF NewRows, NewCount
  <2>2. QED
    BY <1>1, <1>5, <2>1
<1>8. QED
  BY <1>6, <1>7
------------------------------------------------------------------------------
LEMMA OccurInitially == OccurInit => OccurInv
<1> SUFFICES ASSUME OccurInit PROVE OccurInv
  OBVIOUS
<1>1. Len(docs) = 0 /\ Len(batches) = 0
  BY DEF OccurInit
<1>2. IsFiniteSet({}) /\ Cardinality({}) = 0
  BY FS_EmptySet
<1>3. OccurTypeOK
  BY <1>1, <1>2 DEF OccurTypeOK, OccurInit, Once, Disjoint, NoAnswer
<1>4. Asked /\ Unseen /\ OwnMatches
  BY <1>1 DEF OccurInit, Asked, Unseen, OwnMatches
<1>5. MatchesCounted
  BY <1>2 DEF OccurInit, MatchesCounted
<1>6. UNION {PagesOf(batches[i]) : i \in DOMAIN batches} = {}
  BY DEF OccurInit
<1>7. PagesLeft
  BY <1>2, <1>6 DEF OccurInit, PagesLeft
<1>8. QED
  BY <1>3, <1>4, <1>5, <1>7 DEF OccurInv

(* No batch is asked for: there is no page left, and nothing to be asked.  *)
LEMMA NothingAsked ==
  /\ <<>> \in Seq(Batch) /\ Disjoint(<<>>) /\ Len(<<>>) = 0 /\ NoAnswer \in Int
  /\ UNION {PagesOf(<<>>[i]) : i \in DOMAIN <<>>} = {} /\ Cardinality({}) = 0
<1>1. Cardinality({}) = 0
  BY FS_EmptySet
<1>2. QED
  BY <1>1 DEF Disjoint, NoAnswer

LEMMA NoPagesLeft ==
  ASSUME batches' = <<>>, left' = 0 \/ lost' = TRUE
  PROVE  PagesLeft'
<1>1. DOMAIN batches' = {} /\ Cardinality({}) = 0
  BY NothingAsked
<1>2. (UNION {PagesOf(batches[i]) : i \in DOMAIN batches})' = {}
  BY <1>1
<1>3. lost' \/ left' = Cardinality((UNION {PagesOf(batches[i]) : i \in DOMAIN batches})')
  <2>1. CASE lost' = TRUE
    BY <2>1
  <2>2. CASE left' = 0
    BY <1>1, <1>2, <2>2
  <2>3. QED
    BY <2>1, <2>2
<1>4. QED
  BY <1>3 DEF PagesLeft

LEMMA TypedNext ==
  ASSUME docs' \in Seq(Documents), Once(docs'), rows' \subseteq RowType, IsFiniteSet(rows'),
         batches' \in Seq(Batch), Disjoint(batches'),
         answer' \in Int, count' \in Int, left' \in Int, search' \in Nat
  PROVE  OccurTypeOK'
<1>1. Once(docs)'
  BY DEF Once
<1>2. Disjoint(batches)'
  BY DEF Disjoint, PagesOf
<1>3. QED
  BY <1>1, <1>2 DEF OccurTypeOK

LEMMA StartKeeps ==
  ASSUME NEW ds \in Seq(Documents), Once(ds), NEW shown \in Int, NEW before \in Int,
         OccurInv, Start(ds, shown, before)
  PROVE  OccurInv'
<1>1. /\ ds # <<>> /\ docs' = ds /\ rows' = {} /\ search' = search + 1
      /\ answer' = NoAnswer /\ search \in Nat
  BY DEF Start, OccurInv, OccurTypeOK
<1>2. IsFiniteSet({}) /\ Cardinality({}) = 0 /\ NoAnswer \in Int
  BY FS_EmptySet DEF NoAnswer
<1>3. Unseen' /\ OwnMatches'
  BY <1>1 DEF Unseen, OwnMatches
<1>4. CASE batches' = Batches(ds) /\ left' = Total(Batches(ds)) /\ count' = 0
  <2>1. /\ batches' \in Seq(Batch) /\ Disjoint(batches')
        /\ \A i \in 1 .. Len(batches') : batches'[i].search = search'
    BY <1>1, <1>4, BatchesOfSearch
  <2>2. IsFiniteSet(PagesIn(batches')) /\ left' = Cardinality(PagesIn(batches'))
    BY <1>4, <2>1, TotalOf
  <2>3. left' \in Int
    BY <2>2, FS_CardinalityType
  <2>4. OccurTypeOK'
    BY <1>1, <1>2, <1>4, <2>1, <2>3, TypedNext
  <2>5. PagesLeft'
    BY <2>2 DEF PagesLeft, PagesIn, PagesOf
  <2>6. MatchesCounted'
    <3>1. {r \in rows' : IsMatch(r)} = {}
      BY <1>1
    <3>2. QED
      BY <1>2, <1>4, <3>1 DEF MatchesCounted, IsMatch
  <2>7. Asked'
    BY <2>1 DEF Asked
  <2>8. QED
    BY <1>3, <2>4, <2>5, <2>6, <2>7 DEF OccurInv
<1>5. CASE batches' = <<>> /\ left' = before /\ count' = shown /\ failed' = TRUE
  <2>1. Len(batches') = 0 /\ batches' \in Seq(Batch)
    BY <1>5, NothingAsked
  <2>2. OccurTypeOK'
    BY <1>1, <1>2, <1>5, <2>1 DEF OccurTypeOK, Disjoint, PagesOf, Once
  <2>3. Asked' /\ MatchesCounted' /\ PagesLeft'
    BY <1>5, <2>1 DEF Asked, MatchesCounted, PagesLeft
  <2>4. QED
    BY <1>3, <2>2, <2>3 DEF OccurInv
<1>6. QED
  BY <1>4, <1>5 DEF Start

(* The documents of a set, in their order.                                 *)
LEMMA SortedOf ==
  ASSUME NEW S
  PROVE  /\ Sorted(S) \in Seq(Documents) /\ Once(Sorted(S))
         /\ \A i \in 1 .. Len(Sorted(S)) : Sorted(S)[i] \in S
<1> DEFINE all == [d \in Documents |-> d]
<1>1. Documents = 1 .. Len(NPages) /\ Len(NPages) \in Nat
  BY PagesAssumption DEF Documents
<1>2. all = [d \in 1 .. Len(NPages) |-> d]
  BY <1>1
<1>3. Len(all) = Len(NPages) /\ \A i \in 1 .. Len(all) : all[i] = i /\ all[i] \in Documents
  BY <1>1, <1>2
<1>4. all \in Seq(Documents)
  BY <1>1, <1>2
<1>5. Once(all)
  BY <1>3 DEF Once
<1> HIDE DEF all
<1>6. QED
  BY <1>4, <1>5, ThoseOf DEF Sorted, all

LEMMA SearchKeeps ==
  ASSUME NEW S \in SUBSET Documents, OccurInv, Search(S) PROVE OccurInv'
<1>1. Sorted(S) \in Seq(Documents) /\ Once(Sorted(S))
  BY SortedOf
<1>2. Start(Sorted(S), 0, 0)
  BY DEF Search
<1>3. QED
  BY <1>1, <1>2, StartKeeps

LEMMA RevertKeeps == ASSUME OccurInv, Revert PROVE OccurInv'
<1>1. /\ docs \in Seq(Documents) /\ Once(docs) /\ count \in Int /\ left \in Int
      /\ Start(docs, count, left)
  BY DEF Revert, OccurInv, OccurTypeOK
<1>2. QED
  BY <1>1, StartKeeps

LEMMA GatherKeeps ==
  ASSUME NEW S \in SUBSET Documents, OccurInv, Gather(S) PROVE OccurInv'
<1> DEFINE t == Sorted(S)
<1>1. t \in Seq(Documents) /\ Once(t) /\ \A i \in 1 .. Len(t) : t[i] \in S
  BY SortedOf
<1>2. /\ docs \in Seq(Documents) /\ Once(docs) /\ S \cap ToSet(docs) = {}
      /\ docs' = docs \o t
  BY DEF Gather, OccurInv, OccurTypeOK
<1> HIDE DEF t
<1>3. \A i \in 1 .. Len(docs), j \in 1 .. Len(t) : docs[i] # t[j]
  BY <1>1, <1>2 DEF ToSet
<1>4. /\ docs \o t \in Seq(Documents) /\ Len(docs \o t) = Len(docs) + Len(t)
      /\ \A i \in 1 .. Len(docs) + Len(t) :
           (docs \o t)[i] = IF i <= Len(docs) THEN docs[i] ELSE t[i - Len(docs)]
  BY <1>1, <1>2
<1>5. Once(docs \o t)
  <2> SUFFICES ASSUME NEW i \in 1 .. Len(docs) + Len(t), NEW j \in 1 .. Len(docs) + Len(t),
                      (docs \o t)[i] = (docs \o t)[j]
               PROVE  i = j
    BY <1>4 DEF Once
  <2>1. Len(docs) \in Nat /\ Len(t) \in Nat
    BY <1>1, <1>2
  <2>2. CASE i <= Len(docs) /\ j <= Len(docs)
    BY <1>2, <1>4, <2>1, <2>2 DEF Once
  <2>3. CASE ~ i <= Len(docs) /\ ~ j <= Len(docs)
    <3>1. i - Len(docs) \in 1 .. Len(t) /\ j - Len(docs) \in 1 .. Len(t)
      BY <2>1, <2>3
    <3>2. t[i - Len(docs)] = t[j - Len(docs)]
      BY <1>4, <2>3
    <3>3. i - Len(docs) = j - Len(docs)
      BY <1>1, <3>1, <3>2 DEF Once
    <3>4. QED
      BY <2>1, <3>3
  <2>4. CASE i <= Len(docs) /\ ~ j <= Len(docs)
    <3>1. i \in 1 .. Len(docs) /\ j - Len(docs) \in 1 .. Len(t)
      BY <2>1, <2>4
    <3>2. QED
      BY <1>3, <1>4, <2>4, <3>1
  <2>5. CASE ~ i <= Len(docs) /\ j <= Len(docs)
    <3>1. j \in 1 .. Len(docs) /\ i - Len(docs) \in 1 .. Len(t)
      BY <2>1, <2>5
    <3>2. QED
      BY <1>3, <1>4, <2>5, <3>1
  <2>6. QED
    BY <2>2, <2>3, <2>4, <2>5
<1>6. UNCHANGED <<rows, count, left, batches, answer, search, lost, failed>>
  BY DEF Gather
<1>7. OccurTypeOK'
  BY <1>2, <1>4, <1>5, <1>6, TypedNext DEF OccurInv, OccurTypeOK
<1>8. QED
  BY <1>6, <1>7 DEF OccurInv, Asked, Unseen, OwnMatches, MatchesCounted, PagesLeft,
                    PagesOf, IsMatch

LEMMA DeleteKeeps ==
  ASSUME NEW S, OccurInv, Delete(S) PROVE OccurInv'
<1>1. /\ docs \in Seq(Documents) /\ Once(docs) /\ docs' = Those(docs, Documents \ S)
      /\ rows' = {r \in rows : r.doc \notin S}
      /\ count' = count - Cardinality({r \in rows : r.doc \in S /\ IsMatch(r)})
      /\ UNCHANGED <<left, batches, answer, search, lost, failed>>
  BY DEF Delete, OccurInv, OccurTypeOK
<1>2. docs' \in Seq(Documents) /\ Once(docs')
  BY <1>1, ThoseOf
<1> DEFINE gone == {r \in rows : r.doc \in S /\ IsMatch(r)}
<1>3. IsFiniteSet(rows) /\ IsFiniteSet(rows') /\ IsFiniteSet(gone) /\ Cardinality(gone) \in Nat
  <2>1. IsFiniteSet(rows) /\ rows' \subseteq rows /\ gone \subseteq rows
    BY <1>1 DEF OccurInv, OccurTypeOK
  <2>2. IsFiniteSet(rows') /\ IsFiniteSet(gone)
    BY <2>1, FS_Subset
  <2>3. QED
    BY <2>1, <2>2, FS_CardinalityType
<1>4. OccurTypeOK'
  <2>1. rows' \subseteq RowType /\ count' \in Int
    BY <1>1, <1>3 DEF OccurInv, OccurTypeOK
  <2>2. QED
    BY <1>1, <1>2, <1>3, <2>1, TypedNext DEF OccurInv, OccurTypeOK
<1>5. Asked' /\ Unseen' /\ OwnMatches'
  BY <1>1 DEF OccurInv, Asked, Unseen, OwnMatches, PagesOf, IsMatch
<1>6. MatchesCounted'
  <2>1. Matches(rows) = Matches(rows') \cup gone /\ Matches(rows') \cap gone = {}
    BY <1>1 DEF Matches
  <2>2. IsFiniteSet(Matches(rows'))
    <3>1. Matches(rows') \subseteq rows'
      BY DEF Matches
    <3>2. QED
      BY <1>3, <3>1, FS_Subset
  <2> HIDE DEF gone
  <2>3. Cardinality(Matches(rows)) =
          Cardinality(Matches(rows')) + Cardinality(gone) - Cardinality({})
    BY <1>3, <2>1, <2>2, FS_Union
  <2>4. Cardinality({}) = 0 /\ Cardinality(Matches(rows')) \in Nat
    BY <2>2, FS_EmptySet, FS_CardinalityType
  <2>5. failed \/ count = Cardinality(Matches(rows))
    BY DEF OccurInv, MatchesCounted, Matches
  <2>6. failed' \/ count' = Cardinality(Matches(rows'))
    BY <1>1, <1>3, <2>3, <2>4, <2>5 DEF gone
  <2>7. QED
    BY <2>6 DEF MatchesCounted, Matches, IsMatch
<1>7. PagesLeft'
  BY <1>1 DEF OccurInv, PagesLeft, PagesOf
<1>8. QED
  BY <1>4, <1>5, <1>6, <1>7 DEF OccurInv

(* The matches shown stay, and nothing is asked for any more.              *)
LEMMA EndKeeps ==
  ASSUME OccurInv, OccurTypeOK', UNCHANGED <<count, search, failed>>,
         batches' = <<>>, Matches(rows') = Matches(rows),
         left' = 0 \/ lost' = TRUE
  PROVE  OccurInv'
<1>1. Asked' /\ Unseen'
  BY NothingAsked DEF Asked, Unseen
<1>2. OwnMatches'
  BY DEF OccurInv, OwnMatches, Matches, IsMatch
<1>3. MatchesCounted'
  BY DEF OccurInv, MatchesCounted, Matches, IsMatch
<1>4. PagesLeft'
  BY NoPagesLeft
<1>5. QED
  BY <1>1, <1>2, <1>3, <1>4 DEF OccurInv

LEMMA AbortKeeps == ASSUME OccurInv, Abort PROVE OccurInv'
<1>1. /\ Finished(rows) /\ batches' = <<>> /\ answer' = NoAnswer
      /\ UNCHANGED <<docs, count, search, failed>>
  BY DEF Abort
<1>2. OccurTypeOK /\ rows \in SUBSET RowType /\ IsFiniteSet(rows)
  BY DEF OccurInv, OccurTypeOK
<1>3. /\ rows' \subseteq RowType /\ IsFiniteSet(rows') /\ left' = 0
      /\ Matches(rows') = Matches(rows)
  BY <1>1, <1>2, Finishing
<1>4. OccurTypeOK'
  <2>1. docs' \in Seq(Documents) /\ Once(docs') /\ count' \in Int /\ search' \in Nat
    BY <1>1, <1>2 DEF OccurTypeOK
  <2>2. batches' \in Seq(Batch) /\ Disjoint(batches') /\ answer' \in Int
    BY <1>1, NothingAsked
  <2>3. QED
    BY <1>3, <2>1, <2>2, TypedNext
<1>5. QED
  BY <1>1, <1>3, <1>4, EndKeeps

LEMMA ConsumeErrorKeeps == ASSUME OccurInv, ConsumeError PROVE OccurInv'
<1>1. /\ batches' = <<>> /\ answer' = NoAnswer /\ lost' = TRUE
      /\ UNCHANGED <<docs, rows, count, left, search, failed>>
  BY DEF ConsumeError
<1>2. OccurTypeOK'
  <2>1. /\ docs' \in Seq(Documents) /\ Once(docs') /\ count' \in Int /\ search' \in Nat
        /\ rows' \subseteq RowType /\ IsFiniteSet(rows') /\ left' \in Int
    BY <1>1 DEF OccurInv, OccurTypeOK
  <2>2. batches' \in Seq(Batch) /\ Disjoint(batches') /\ answer' \in Int
    BY <1>1, NothingAsked
  <2>3. QED
    BY <2>1, <2>2, TypedNext
<1>3. Matches(rows') = Matches(rows)
  BY <1>1 DEF Matches
<1>4. QED
  BY <1>1, <1>2, <1>3, EndKeeps

LEMMA KillBufferKeeps == ASSUME OccurInv, KillBuffer PROVE OccurInv'
<1>1. /\ docs' = <<>> /\ rows' = {} /\ count' = 0 /\ left' = 0 /\ batches' = <<>>
      /\ answer' = NoAnswer /\ search' = search /\ search \in Nat
  BY DEF KillBuffer, OccurInv, OccurTypeOK
<1>2. IsFiniteSet({}) /\ Cardinality({}) = 0 /\ Len(<<>>) = 0
  BY FS_EmptySet
<1>3. OccurTypeOK'
  <2>1. docs' \in Seq(Documents) /\ Once(docs')
    BY <1>1 DEF Once
  <2>2. batches' \in Seq(Batch) /\ Disjoint(batches') /\ answer' \in Int
    BY <1>1, NothingAsked
  <2>3. QED
    BY <1>1, <1>2, <2>1, <2>2, TypedNext
<1>4. Asked' /\ Unseen' /\ OwnMatches'
  BY <1>1 DEF Asked, Unseen, OwnMatches
<1>5. {r \in rows' : IsMatch(r)} = {}
  BY <1>1
<1>6. MatchesCounted'
  BY <1>1, <1>2, <1>5 DEF MatchesCounted, IsMatch
<1>7. PagesLeft'
  BY <1>1, NoPagesLeft
<1>8. QED
  BY <1>3, <1>4, <1>6, <1>7 DEF OccurInv

LEMMA ConsumeKeeps == ASSUME OccurInv, Consume PROVE OccurInv'
<1> DEFINE b == Head(batches)
           rs == NewRows(b)
<1>1. /\ answer >= 0 /\ count' = NewCount(b) /\ answer' = NoAnswer
      /\ UNCHANGED <<docs, search, failed>>
      /\ \/ /\ Len(batches) > 1 /\ left' = left - Size(b) /\ rows' = rs /\ AskNext
         \/ /\ Len(batches) = 1 /\ batches' = <<>> /\ Finished(rs)
            /\ UNCHANGED <<localServer, lost>>
  BY DEF Consume
<1>2. /\ OccurTypeOK /\ batches \in Seq(Batch) /\ Disjoint(batches) /\ batches # <<>>
      /\ left \in Int
  <2>1. Len(<<>>) = 0
    OBVIOUS
  <2>2. QED
    BY <1>1, <2>1 DEF OccurInv, OccurTypeOK
<1>3. /\ rs \subseteq RowType /\ IsFiniteSet(rs)
      /\ \A r \in Matches(rs) \ Matches(rows) :
           r.search = search /\ <<r.doc, r.page>> \in PagesOf(b)
      /\ Cardinality(Matches(rs)) - Cardinality(Matches(rows)) = count' - count
      /\ count' \in Int
  BY <1>1, <1>2, Adding
<1>4. /\ rows' \subseteq RowType /\ IsFiniteSet(rows') /\ Matches(rows') = Matches(rs)
      /\ \/ batches' = Tail(batches) /\ left' = left - Size(b) /\ lost' = lost
         \/ batches' = <<>> /\ (left' = 0 \/ lost' = TRUE) /\ left' \in Int
  <2>1. CASE Len(batches) > 1 /\ left' = left - Size(b) /\ rows' = rs /\ AskNext
    <3>1. Size(b) \in Nat
      BY <1>2, BatchesAfter, PagesOfBatch
    <3>2. \/ batches' = Tail(batches) /\ lost' = lost
          \/ batches' = <<>> /\ lost' = TRUE
      BY <2>1 DEF AskNext
    <3> HIDE DEF rs, b
    <3>3. left' \in Int
      BY <1>2, <2>1, <3>1
    <3>4. QED
      BY <1>3, <2>1, <3>2, <3>3
  <2>2. CASE batches' = <<>> /\ Finished(rs)
    <3> HIDE DEF rs, b
    <3>1. QED
      BY <1>2, <1>3, <2>2, Finishing
  <2>3. QED
    BY <1>1, <2>1, <2>2
<1>5. /\ Tail(batches) \in Seq(Batch) /\ Disjoint(Tail(batches)) /\ b \in Batch
      /\ \A i \in 1 .. Len(Tail(batches)) :
           /\ i + 1 \in 1 .. Len(batches) /\ Tail(batches)[i] = batches[i + 1]
           /\ PagesOf(b) \cap PagesOf(Tail(batches)[i]) = {}
      /\ Cardinality(PagesIn(batches)) = Size(b) + Cardinality(PagesIn(Tail(batches)))
      /\ Size(b) \in Nat
  <2>1. b \in Batch
    BY <1>2, BatchesAfter
  <2>2. Size(b) \in Nat
    BY <2>1, PagesOfBatch
  <2>3. QED
    BY <1>2, <2>1, <2>2, BatchesAfter
<1> HIDE DEF rs, b
<1>6. batches' \in Seq(Batch) /\ Disjoint(batches')
  BY <1>4, <1>5, NothingAsked
<1>7. \A i \in 1 .. Len(batches') :
        batches'[i] = Tail(batches)[i] /\ i \in 1 .. Len(Tail(batches))
  <2>1. CASE batches' = Tail(batches)
    BY <2>1
  <2>2. CASE batches' = <<>>
    <3>1. Len(batches') = 0
      BY <2>2
    <3>2. QED
      BY <3>1
  <2>3. QED
    BY <1>4, <2>1, <2>2
<1>8. OccurTypeOK'
  <2>1. left' \in Int
    BY <1>2, <1>4, <1>5
  <2>2. docs' \in Seq(Documents) /\ Once(docs') /\ search' \in Nat /\ answer' \in Int
    BY <1>1, <1>2 DEF OccurTypeOK, NoAnswer
  <2>3. QED
    BY <1>3, <1>4, <1>6, <2>1, <2>2, TypedNext
<1>9. Asked'
  <2>1. \A i \in 1 .. Len(batches') :
          batches'[i] = Tail(batches)[i] /\ i \in 1 .. Len(Tail(batches))
    BY <1>7
  <2>2. QED
    BY <1>1, <1>5, <2>1 DEF OccurInv, Asked
<1>10. \A r \in rows' : IsMatch(r) =>
        r \in rows \/ (r.search = search /\ <<r.doc, r.page>> \in PagesOf(b))
  BY <1>3, <1>4 DEF Matches
<1>11. OwnMatches'
  BY <1>1, <1>10 DEF OccurInv, OwnMatches, IsMatch
<1>12. Unseen'
  <2> SUFFICES ASSUME NEW i \in 1 .. Len(batches'), NEW r \in rows', IsMatch(r)
               PROVE  <<r.doc, r.page>> \notin PagesOf(batches'[i])
    BY DEF Unseen, PagesOf, IsMatch
  <2>1. batches'[i] = Tail(batches)[i] /\ i \in 1 .. Len(Tail(batches))
    BY <1>7
  <2>2. CASE r \in rows
    BY <1>5, <2>1, <2>2 DEF OccurInv, Unseen
  <2>3. CASE <<r.doc, r.page>> \in PagesOf(b)
    BY <1>5, <2>1, <2>3
  <2>4. QED
    BY <1>10, <2>2, <2>3
<1>13. MatchesCounted'
  <2>1. IsFiniteSet(Matches(rows)) /\ IsFiniteSet(Matches(rs))
    <3>1. Matches(rows) \subseteq rows /\ Matches(rs) \subseteq rs
      BY DEF Matches
    <3>2. QED
      BY <1>2, <1>3, <3>1, FS_Subset DEF OccurTypeOK
  <2>2. Cardinality(Matches(rows)) \in Nat /\ Cardinality(Matches(rs)) \in Nat
    BY <2>1, FS_CardinalityType
  <2>3. failed \/ count = Cardinality(Matches(rows))
    BY DEF OccurInv, MatchesCounted, Matches
  <2>4. failed' \/ count' = Cardinality(Matches(rs))
    BY <1>1, <1>3, <2>2, <2>3
  <2>5. QED
    BY <1>4, <2>4 DEF MatchesCounted, Matches, IsMatch
<1>14. PagesLeft'
  <2>1. CASE batches' = <<>> /\ (left' = 0 \/ lost' = TRUE)
    BY <2>1, NoPagesLeft
  <2>2. CASE batches' = Tail(batches) /\ left' = left - Size(b) /\ lost' = lost
    <3>1. IsFiniteSet(PagesIn(Tail(batches)))
      BY <1>5, TotalOf
    <3>2. Cardinality(PagesIn(Tail(batches))) \in Nat
      BY <3>1, FS_CardinalityType
    <3>3. failed \/ lost \/ left = Cardinality(PagesIn(batches))
      BY DEF OccurInv, PagesLeft, PagesIn
    <3>4. failed' \/ lost' \/ left' = Cardinality(PagesIn(batches'))
      BY <1>1, <1>5, <2>2, <3>2, <3>3
    <3>5. QED
      BY <3>4 DEF PagesLeft, PagesIn, PagesOf
  <2>3. QED
    BY <1>4, <2>1, <2>2
<1>15. QED
  BY <1>8, <1>9, <1>11, <1>12, <1>13, <1>14 DEF OccurInv

LEMMA AnswerKeeps == ASSUME OccurInv, Answer \/ LocalCrash \/ UNCHANGED occurVars PROVE OccurInv'
<1>1. UNCHANGED <<docs, rows, count, left, batches, search, lost, failed>>
  BY DEF Answer, LocalCrash, occurVars
<1>2. answer' \in Int
  BY OccurBounds DEF OccurInv, OccurTypeOK, Answer, LocalCrash, occurVars, ErrorAnswer
<1>3. OccurTypeOK'
  <2>1. /\ docs' \in Seq(Documents) /\ Once(docs') /\ count' \in Int /\ left' \in Int
        /\ rows' \subseteq RowType /\ IsFiniteSet(rows') /\ search' \in Nat
    BY <1>1 DEF OccurInv, OccurTypeOK
  <2>2. batches' \in Seq(Batch) /\ Disjoint(batches')
    BY <1>1 DEF OccurInv, OccurTypeOK
  <2>3. QED
    BY <1>2, <2>1, <2>2, TypedNext
<1>4. QED
  BY <1>1, <1>3 DEF OccurInv, Asked, Unseen, OwnMatches, MatchesCounted, PagesLeft,
                    PagesOf, IsMatch

LEMMA OccurKeeps == OccurInv /\ [OccurNext]_occurVars => OccurInv'
<1> SUFFICES ASSUME OccurInv, [OccurNext]_occurVars PROVE OccurInv'
  OBVIOUS
<1>1. ASSUME NEW S \in SUBSET Documents, Search(S) \/ Gather(S) PROVE OccurInv'
  BY <1>1, SearchKeeps, GatherKeeps
<1>2. ASSUME NEW S \in SUBSET {r.doc : r \in rows}, Delete(S) PROVE OccurInv'
  BY <1>2, DeleteKeeps
<1>3. CASE Revert
  BY <1>3, RevertKeeps
<1>4. CASE Abort
  BY <1>4, AbortKeeps
<1>5. CASE KillBuffer
  BY <1>5, KillBufferKeeps
<1>6. CASE Answer \/ LocalCrash \/ UNCHANGED occurVars
  BY <1>6, AnswerKeeps
<1>7. CASE ConsumeError
  BY <1>7, ConsumeErrorKeeps
<1>8. CASE Consume
  BY <1>8, ConsumeKeeps
<1>9. QED
  BY <1>1, <1>2, <1>3, <1>4, <1>5, <1>6, <1>7, <1>8 DEF OccurNext

LEMMA OccurAlways == OccurSpec => []OccurInv
<1>1. QED
  BY OccurInitially, OccurKeeps, PTL DEF OccurSpec

(* No row is left or added that an earlier search asked for, although its  *)
(* batches were still under way when the search shown was started.         *)
THEOREM MatchesOwn == OccurSpec => []OwnMatches
<1>1. OccurInv => OwnMatches
  BY DEF OccurInv
<1>2. QED
  BY <1>1, OccurAlways, PTL

(* The number of matches shown is that of the rows that are matches, for   *)
(* any documents, whatever was searched again, added, deleted or aborted.  *)
THEOREM CountedMatches == OccurSpec => []MatchesCounted
<1>1. OccurInv => MatchesCounted
  BY DEF OccurInv
<1>2. QED
  BY <1>1, OccurAlways, PTL

(* The pages left are those of the batches not answered yet, with no page  *)
(* counted twice or left out.                                              *)
THEOREM LeftPages == OccurSpec => []PagesLeft
<1>1. OccurInv => PagesLeft
  BY DEF OccurInv
<1>2. QED
  BY <1>1, OccurAlways, PTL
==============================================================================
