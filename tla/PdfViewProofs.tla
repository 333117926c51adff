---------------------------- MODULE PdfViewProofs ----------------------------
(***************************************************************************)
(* A PDF buffer with any number of pages, edits, nested waits, prefetched  *)
(* images, writes by other programs and crashes, in which no Lisp runs in  *)
(* the waits of a remote buffer: the caches hold what the server would     *)
(* answer, and no edit is lost.                                            *)
(*                                                                         *)
(* What is old in the caches is so during an edit, a save or a revert that *)
(* forgets it when it ends.  Answers before its own may still put old      *)
(* values there, those after it are new.                                   *)
(***************************************************************************)
EXTENDS PdfView, SubsequenceProofs, SequenceTheorems, TLAPS

(* What a file, what is seen of it and what an answer may be.              *)
Written   == [rev : Nat, edits : SUBSET Nat]
SightType == [page : Nat, rev : Nat, edits : SUBSET Nat]
Values    == {"ok"} \cup SightType \cup Written

Reads    == {"data", "display", "image"}
Ops      == Reads \cup {"edit", "save", "close", "revert"}
Asks(op) == IF op \in Reads THEN "read" ELSE IF op = "revert" THEN "close" ELSE op
Frames   == [op : Ops, n : Nat, temp : SUBSET Written, answer : SUBSET Values]
Requests == [op : {"read", "edit", "save", "close"}, n : Nat, to : Nat]
Answers  == [to : Nat, answer : SUBSET Values]

ViewTypeOK ==
  /\ kind \in {"local", "remote"} /\ file \in Written /\ copy \in Written
  /\ doc = {} \/ \E c \in Written : doc = {c}
  /\ pipe \in Seq(Requests) /\ out \in Seq(Answers) /\ stack \in Seq(Frames)
  /\ data \in [0 .. NPages -> SUBSET SightType]
  /\ images \in Seq(SightType) /\ Len(images) <= ImageLimit
  /\ modified \in BOOLEAN /\ made \in SUBSET Nat /\ lost \in SUBSET Nat
  /\ nedits \in Nat /\ crashes \in Nat

(* What waits in the stack st, with the requests pi on their way and the   *)
(* answers ou.  Above the first wait there are lookups only; each request  *)
(* and answer is for a wait that has none yet, and for no wait there are   *)
(* two.  Nothing else happens in the waits of a remote buffer.             *)
Fits(f, answer) ==
  IF f.op \in Reads THEN \E s \in SightType : answer = {s} /\ s.page = f.n
  ELSE IF f.op = "save" THEN \E c \in Written : answer = {c}
  ELSE answer = {"ok"}
IsSight(answer) == \E s \in SightType : answer = {s}
Waits(st, to) == to \in 1 .. Len(st) /\ st[to].answer = {}
Stacked(st) ==
  /\ \A i \in 2 .. Len(st) : st[i].op = "data"
  /\ \A i \in 1 .. Len(st) :
       /\ st[i].answer # {} => Fits(st[i], st[i].answer)
       /\ st[i].op = "close" => \E c \in Written : st[i].temp = {c}
Requested(st, pi) ==
  \A a \in 1 .. Len(pi) :
    \/ pi[a].to = Async /\ pi[a].op = "read"
    \/ /\ Waits(st, pi[a].to) /\ pi[a].n = st[pi[a].to].n
       /\ pi[a].op = Asks(st[pi[a].to].op)
Replied(st, ou) ==
  \A a \in 1 .. Len(ou) :
    \/ ou[a].to = Async /\ IsSight(ou[a].answer)
    \/ Waits(st, ou[a].to) /\ Fits(st[ou[a].to], ou[a].answer)
OnceEach(q) == \A a, b \in 1 .. Len(q) : a # b => q[a].to = Async \/ q[a].to # q[b].to
Single(pi, ou) ==
  /\ OnceEach(pi) /\ OnceEach(ou)
  /\ \A a \in 1 .. Len(pi), b \in 1 .. Len(ou) : pi[a].to = Async \/ pi[a].to # ou[b].to
Alone(k, st, pi, ou) ==
  k \notin Busy => /\ Len(st) <= 1
                   /\ \A a \in 1 .. Len(pi) : pi[a].to # Async
                   /\ \A a \in 1 .. Len(ou) : ou[a].to # Async
WaitsOK(k, st, pi, ou) ==
  Stacked(st) /\ Requested(st, pi) /\ Replied(st, ou) /\ Single(pi, ou) /\ Alone(k, st, pi, ou)

(* The pages whose cached values will be forgotten when the first wait     *)
(* ends: they may be old until then, as may be the answers before its own. *)
First(st, op) == st # <<>> /\ st[1].op = op
Old(k, st) ==
  IF First(st, "edit") THEN {PageOf(st[1].n)}
  ELSE IF First(st, "revert") \/ (First(st, "close") /\ k = "local") THEN Nat
  ELSE {}
Due(pi, ou, a) ==
  \/ \E b \in 1 .. Len(ou) : b > a /\ ou[b].to = 1
  \/ \E b \in 1 .. Len(pi) : pi[b].to = 1

(* Everything else that was seen is what one of the contents cs shows now: *)
(* that of the document, or of a remote file's copy; while the copy is     *)
(* old, what was saved counts.                                             *)
New(s, cs) == \E c \in cs : s = Sight(c, s.page)
DataNew(cs, old, da) ==
  \A p \in 0 .. NPages : p \notin old => \A s \in da[p] : s.page = p /\ New(s, cs)
ImagesNew(cs, old, im) == \A i \in 1 .. Len(im) : im[i].page \notin old => New(im[i], cs)
WaitsNew(cs, old, st) ==
  \A i \in 1 .. Len(st) : st[i].op \in Reads =>
    \A s \in st[i].answer : s.page \notin old => New(s, cs)
OutNew(cs, old, st, pi, ou) ==
  \A a \in 1 .. Len(ou) : (ou[a].to = Async \/ st[ou[a].to].op \in Reads) =>
    \A s \in ou[a].answer : (s.page \in old /\ Due(pi, ou, a)) \/ New(s, cs)
CachesNew(cs, old, st, pi, ou, da, im) ==
  /\ DataNew(cs, old, da) /\ ImagesNew(cs, old, im)
  /\ WaitsNew(cs, old, st) /\ OutNew(cs, old, st, pi, ou)
Shown == IF kind = "local" THEN doc
         ELSE IF First(stack, "close") THEN stack[1].temp ELSE {Current}
CachesInv ==
  crashes = 0 => CachesNew(Shown, Old(kind, stack), stack, pipe, out, data, images)

(* The answer that the first wait has or that is on its way to it: what is *)
(* saved is what the document holds, and a copy is closed by then.         *)
Coming(st, ou) ==
  {ou[a].answer : a \in {b \in 1 .. Len(ou) : ou[b].to = 1}}
    \cup {st[i].answer : i \in {j \in 1 .. Len(st) : j = 1 /\ st[j].answer # {}}}
SavedInv == crashes = 0 /\ First(stack, "save") =>
              \A answer \in Coming(stack, out) : doc = answer
ClosedInv == First(stack, "close") /\ kind = "remote" /\ Coming(stack, out) # {} =>
               doc = {}

(* The edits not lost are in the document, but for the end of a save; they *)
(* are in what is saved, and in what is read instead of them.              *)
Kept == made \ lost
Numbered == file.edits \cup copy.edits \cup Current.edits \subseteq 1 .. nedits
InDocument ==
  \/ kind = "remote" /\ First(stack, "close") /\ doc = {}
  \/ Kept \subseteq Current.edits
InFile == ~ modified => Kept \subseteq file.edits
Saving ==
  First(stack, "save") => \A answer \in Coming(stack, out) : \A c \in answer :
    Kept \subseteq c.edits /\ c.edits \subseteq 1 .. nedits
Closing ==
  First(stack, "close") =>
    /\ Kept \subseteq file.edits
    /\ \A c \in stack[1].temp : Kept \subseteq c.edits /\ c.edits \subseteq 1 .. nedits
Reverting == First(stack, "revert") => Kept \subseteq ServerFile.edits
Editing ==
  First(stack, "edit") =>
    /\ stack[1].n = nedits /\ nedits > 0
    /\ file.edits \cup copy.edits \subseteq 1 .. nedits - 1
    /\ Coming(stack, out) # {} => nedits \in Current.edits \cup lost
EditsInv == /\ Numbered /\ InDocument /\ InFile /\ Saving /\ Closing /\ Reverting
            /\ Editing

ViewInv == /\ ViewTypeOK /\ WaitsOK(kind, stack, pipe, out)
           /\ CachesInv /\ SavedInv /\ ClosedInv /\ EditsInv

(* A step that leaves the first wait alone, unless it only reads.          *)
Keeps(st, ou, st2, ou2) ==
  /\ st # <<>> /\ st2 # <<>>
  /\ st2[1].op = st[1].op /\ st2[1].n = st[1].n /\ st2[1].temp = st[1].temp
  /\ Coming(st2, ou2) \subseteq Coming(st, ou)
Plain(st) == st # <<>> => st[1].op \in Reads
Calm(st, ou, st2, ou2) == Keeps(st, ou, st2, ou2) \/ (Plain(st) /\ Plain(st2))
------------------------------------------------------------------------------
(* A query is made on top of the waits, and the innermost wait ends.       *)
LEMMA Pushed ==
  ASSUME NEW k, NEW st \in Seq(Frames), NEW pi \in Seq(Requests), NEW ou \in Seq(Answers),
         WaitsOK(k, st, pi, ou),
         NEW op \in Ops, NEW n \in Nat, NEW temp \in SUBSET Written,
         op = "close" => \E c \in Written : temp = {c},
         st = <<>> \/ (op = "data" /\ k \in Busy)
  PROVE  LET st2 == Append(st, Frame(op, n, temp))
             pi2 == Append(pi, Request(Asks(op), n, Len(st) + 1))
         IN  /\ st2 \in Seq(Frames) /\ pi2 \in Seq(Requests)
             /\ Len(st2) = Len(st) + 1 /\ Len(pi2) = Len(pi) + 1
             /\ st2[Len(st) + 1] = Frame(op, n, temp)
             /\ pi2[Len(pi) + 1] = Request(Asks(op), n, Len(st) + 1)
             /\ \A i \in 1 .. Len(st) : st2[i] = st[i]
             /\ \A i \in 1 .. Len(pi) : pi2[i] = pi[i]
             /\ WaitsOK(k, st2, pi2, ou)
<1> DEFINE f == Frame(op, n, temp)
           r == Request(Asks(op), n, Len(st) + 1)
           st2 == Append(st, f)
           pi2 == Append(pi, r)
<1>1. f \in Frames /\ f.op = op /\ f.n = n /\ f.temp = temp /\ f.answer = {}
  BY DEF Frame, Frames
<1>2. Asks(op) \in {"read", "edit", "save", "close"}
  BY DEF Asks, Ops, Reads
<1>3. r \in Requests /\ r.op = Asks(op) /\ r.n = n /\ r.to = Len(st) + 1 /\ Len(st) \in Nat
      /\ Len(pi) \in Nat
  BY <1>2 DEF Request, Requests
<1> HIDE DEF f, r
<1>4. /\ st2 \in Seq(Frames) /\ pi2 \in Seq(Requests)
      /\ Len(st2) = Len(st) + 1 /\ Len(pi2) = Len(pi) + 1
      /\ st2[Len(st) + 1] = f /\ pi2[Len(pi) + 1] = r
      /\ \A i \in 1 .. Len(st) : st2[i] = st[i]
      /\ \A i \in 1 .. Len(pi) : pi2[i] = pi[i]
      /\ \A i \in 1 .. Len(st2) : i \in 1 .. Len(st) \/ i = Len(st) + 1
      /\ \A i \in 1 .. Len(pi2) : i \in 1 .. Len(pi) \/ i = Len(pi) + 1
      /\ \A i \in 1 .. Len(st) : i # Len(st) + 1 /\ i \in 1 .. Len(st2)
      /\ Len(st) + 1 \in 1 .. Len(st2)
  BY <1>1, <1>3
<1> HIDE DEF st2, pi2
<1>5. st # <<>> => op = "data" /\ k \in Busy
  OBVIOUS
<1>6. Stacked(st2)
  <2>1. ASSUME NEW i \in 2 .. Len(st2) PROVE st2[i].op = "data"
    <3>1. CASE i \in 2 .. Len(st)
      BY <1>4, <3>1 DEF WaitsOK, Stacked
    <3>2. CASE i = Len(st) + 1
      <4>1. st # <<>>
        BY <3>2
      <4>2. QED
        BY <1>1, <1>4, <1>5, <3>2, <4>1
    <3>3. QED
      BY <1>3, <1>4, <3>1, <3>2
  <2>2. ASSUME NEW i \in 1 .. Len(st2)
        PROVE  /\ st2[i].answer # {} => Fits(st2[i], st2[i].answer)
               /\ st2[i].op = "close" => \E c \in Written : st2[i].temp = {c}
    <3>1. CASE i \in 1 .. Len(st)
      BY <1>4, <3>1 DEF WaitsOK, Stacked
    <3>2. CASE i = Len(st) + 1
      BY <1>1, <1>4, <3>2
    <3>3. QED
      BY <1>4, <3>1, <3>2
  <2>3. QED
    BY <2>1, <2>2 DEF Stacked
<1>7. \A to : Waits(st, to) => Waits(st2, to) /\ st2[to] = st[to]
  BY <1>4 DEF Waits
<1>8. Requested(st2, pi2)
  <2> SUFFICES ASSUME NEW a \in 1 .. Len(pi2)
               PROVE  \/ pi2[a].to = Async /\ pi2[a].op = "read"
                      \/ /\ Waits(st2, pi2[a].to) /\ pi2[a].n = st2[pi2[a].to].n
                         /\ pi2[a].op = Asks(st2[pi2[a].to].op)
    BY DEF Requested
  <2>1. CASE a \in 1 .. Len(pi)
    BY <1>4, <1>7, <2>1 DEF WaitsOK, Requested
  <2>2. CASE a = Len(pi) + 1
    BY <1>1, <1>3, <1>4, <2>2 DEF Waits
  <2>3. QED
    BY <1>4, <2>1, <2>2
<1>9. Replied(st2, ou)
  BY <1>7 DEF WaitsOK, Replied
<1>10. Single(pi2, ou)
  <2>1. \A a \in 1 .. Len(pi) : pi[a].to = Async \/ pi[a].to \in 1 .. Len(st)
    BY DEF WaitsOK, Requested, Waits
  <2>2. \A a \in 1 .. Len(ou) : ou[a].to = Async \/ ou[a].to \in 1 .. Len(st)
    BY DEF WaitsOK, Replied, Waits
  <2>3. r.to # Async /\ r.to \notin 1 .. Len(st)
    BY <1>3 DEF Async
  <2>4. OnceEach(pi2)
    <3> SUFFICES ASSUME NEW a \in 1 .. Len(pi2), NEW b \in 1 .. Len(pi2), a # b
                 PROVE  pi2[a].to = Async \/ pi2[a].to # pi2[b].to
      BY DEF OnceEach
    <3>1. CASE a \in 1 .. Len(pi) /\ b \in 1 .. Len(pi)
      BY <1>4, <3>1 DEF WaitsOK, Single, OnceEach
    <3>2. CASE a \in 1 .. Len(pi) /\ b = Len(pi) + 1
      BY <1>4, <2>1, <2>3, <3>2
    <3>3. CASE a = Len(pi) + 1 /\ b \in 1 .. Len(pi)
      BY <1>4, <2>1, <2>3, <3>3
    <3>4. QED
      BY <1>4, <3>1, <3>2, <3>3
  <2>5. ASSUME NEW a \in 1 .. Len(pi2), NEW b \in 1 .. Len(ou)
        PROVE  pi2[a].to = Async \/ pi2[a].to # ou[b].to
    <3>1. CASE a \in 1 .. Len(pi)
      BY <1>4, <3>1 DEF WaitsOK, Single
    <3>2. CASE a = Len(pi) + 1
      BY <1>4, <2>2, <2>3, <3>2
    <3>3. QED
      BY <1>4, <3>1, <3>2
  <2>6. QED
    BY <2>4, <2>5 DEF WaitsOK, Single
<1>11. Alone(k, st2, pi2, ou)
  <2> SUFFICES ASSUME k \notin Busy
               PROVE  /\ Len(st2) <= 1
                      /\ \A a \in 1 .. Len(pi2) : pi2[a].to # Async
                      /\ \A a \in 1 .. Len(ou) : ou[a].to # Async
    BY DEF Alone
  <2>1. Len(st) = 0
    BY <1>5
  <2>2. /\ \A a \in 1 .. Len(pi) : pi[a].to # Async
        /\ \A a \in 1 .. Len(ou) : ou[a].to # Async
    BY DEF WaitsOK, Alone
  <2>3. r.to # Async
    BY <1>3, <2>1 DEF Async
  <2>4. QED
    BY <1>4, <2>1, <2>2, <2>3
<1>12. WaitsOK(k, st2, pi2, ou)
  BY <1>6, <1>8, <1>9, <1>10, <1>11 DEF WaitsOK
<1>13. QED
  BY <1>4, <1>12 DEF st2, pi2, f, r

LEMMA FrontOf ==
  ASSUME NEW X, NEW s \in Seq(X), s # <<>>
  PROVE  /\ Len(s) \in Nat \ {0} /\ Len(s) \in 1 .. Len(s)
         /\ Front(s) \in Seq(X) /\ Len(Front(s)) = Len(s) - 1
         /\ \A i \in 1 .. Len(s) - 1 : Front(s)[i] = s[i] /\ i \in 1 .. Len(s)
<1>1. Len(s) \in Nat \ {0}
  OBVIOUS
<1>2. Front(s) = SubSeq(s, 1, Len(s) - 1)
  BY DEF Front
<1>3. /\ Front(s) \in Seq(X) /\ Len(Front(s)) = Len(s) - 1
      /\ \A i \in 1 .. Len(s) - 1 : Front(s)[i] = s[i]
  <2> DEFINE n == Len(s) - 1
  <2>1. n \in Int /\ n >= 0 /\ \A i \in 1 .. n : i \in 1 .. Len(s)
    BY <1>1
  <2>2. \A i \in 1 .. n : s[i] \in X
    BY <2>1
  <2>3. Front(s) = SubSeq(s, 1, n)
    BY <1>2
  <2> HIDE DEF n
  <2>4. n - 1 + 1 = n /\ (IF 1 <= n THEN n - 1 + 1 ELSE 0) = n
        /\ \A i \in 1 .. n : 1 + i - 1 = i
    BY <2>1
  <2>5. /\ Front(s) \in Seq(X) /\ Len(Front(s)) = n
        /\ \A i \in 1 .. n : Front(s)[i] = s[i]
    BY <2>1, <2>2, <2>3, <2>4, SubSeqProperties
  <2>6. QED
    BY <2>5 DEF n
<1>4. QED
  BY <1>1, <1>3

LEMMA Popped ==
  ASSUME NEW k, NEW st \in Seq(Frames), NEW pi \in Seq(Requests), NEW ou \in Seq(Answers),
         WaitsOK(k, st, pi, ou), st # <<>>, st[Len(st)].answer # {}
  PROVE  /\ \A to : Waits(st, to) => /\ to # Len(st) /\ Waits(Front(st), to)
                                     /\ Front(st)[to] = st[to]
         /\ WaitsOK(k, Front(st), pi, ou)
<1> DEFINE t == Front(st)
<1>1. /\ t \in Seq(Frames) /\ Len(t) = Len(st) - 1 /\ Len(st) \in 1 .. Len(st)
      /\ Len(st) \in Nat
      /\ \A i \in 1 .. Len(st) - 1 : t[i] = st[i] /\ i \in 1 .. Len(st)
  BY FrontOf
<1> HIDE DEF t
<1>2. \A to : Waits(st, to) => to # Len(st) /\ Waits(t, to) /\ t[to] = st[to]
  <2> SUFFICES ASSUME NEW to, Waits(st, to)
               PROVE  to # Len(st) /\ Waits(t, to) /\ t[to] = st[to]
    OBVIOUS
  <2>1. to \in 1 .. Len(st) /\ st[to].answer = {} /\ to # Len(st)
    BY DEF Waits
  <2>2. to \in 1 .. Len(st) - 1
    BY <1>1, <2>1
  <2>3. QED
    BY <1>1, <2>1, <2>2 DEF Waits
<1>3. Stacked(t)
  <2>1. ASSUME NEW i \in 2 .. Len(t) PROVE t[i].op = "data"
    BY <1>1, i \in 2 .. Len(st) DEF WaitsOK, Stacked
  <2>2. ASSUME NEW i \in 1 .. Len(t)
        PROVE  /\ t[i].answer # {} => Fits(t[i], t[i].answer)
               /\ t[i].op = "close" => \E c \in Written : t[i].temp = {c}
    <3>1. t[i] = st[i] /\ i \in 1 .. Len(st)
      BY <1>1
    <3>2. QED
      BY <3>1 DEF WaitsOK, Stacked
  <2>3. QED
    BY <2>1, <2>2 DEF Stacked
<1>4. Requested(t, pi)
  BY <1>2 DEF WaitsOK, Requested
<1>5. Replied(t, ou)
  BY <1>2 DEF WaitsOK, Replied
<1>6. Alone(k, t, pi, ou)
  BY <1>1 DEF WaitsOK, Alone
<1>7. WaitsOK(k, t, pi, ou)
  BY <1>3, <1>4, <1>5, <1>6 DEF WaitsOK
<1>8. QED
  BY <1>2, <1>7 DEF t

------------------------------------------------------------------------------
(* What these steps do to the waits and answers that are new.              *)
LEMMA Comers ==
  ASSUME NEW st, NEW ou, NEW answer
  PROVE  answer \in Coming(st, ou) <=>
           \/ \E a \in 1 .. Len(ou) : ou[a].to = 1 /\ ou[a].answer = answer
           \/ 1 \in 1 .. Len(st) /\ st[1].answer = answer /\ answer # {}
BY DEF Coming

LEMMA Calmly ==
  ASSUME NEW k, NEW st, NEW ou, NEW st2, NEW ou2, Calm(st, ou, st2, ou2)
  PROVE  /\ Old(k, st2) = Old(k, st)
         /\ \A op : op \notin Reads => (First(st2, op) <=> First(st, op))
<1>1. \A op : op \notin Reads => (First(st2, op) <=> First(st, op))
  BY DEF Calm, Keeps, Plain, First
<1>2. "edit" \notin Reads /\ "revert" \notin Reads /\ "close" \notin Reads
  BY DEF Reads
<1>3. First(st, "edit") => st2[1].n = st[1].n
  BY <1>2 DEF Calm, Keeps, Plain, First
<1>4. QED
  BY <1>1, <1>2, <1>3 DEF Old

LEMMA PushedNew ==
  ASSUME NEW k, NEW st \in Seq(Frames), NEW pi \in Seq(Requests), NEW ou \in Seq(Answers),
         WaitsOK(k, st, pi, ou),
         NEW op \in Ops, NEW n \in Nat, NEW temp \in SUBSET Written,
         op = "close" => \E c \in Written : temp = {c},
         st = <<>> \/ (op = "data" /\ k \in Busy),
         NEW cs, NEW old, NEW old2, old \subseteq old2,
         WaitsNew(cs, old, st), OutNew(cs, old, st, pi, ou)
  PROVE  LET st2 == Append(st, Frame(op, n, temp))
             pi2 == Append(pi, Request(Asks(op), n, Len(st) + 1))
         IN  /\ WaitsNew(cs, old2, st2) /\ OutNew(cs, old2, st2, pi2, ou)
             /\ st = <<>> => Coming(st2, ou) = {}
             /\ st # <<>> => Keeps(st, ou, st2, ou)
<1> DEFINE f == Frame(op, n, temp)
           r == Request(Asks(op), n, Len(st) + 1)
           st2 == Append(st, f)
           pi2 == Append(pi, r)
<1>1. /\ Len(st2) = Len(st) + 1 /\ Len(pi2) = Len(pi) + 1
      /\ st2[Len(st) + 1] = f /\ f.answer = {}
      /\ \A i \in 1 .. Len(st) : st2[i] = st[i]
      /\ \A i \in 1 .. Len(pi) : pi2[i] = pi[i]
  BY Pushed DEF Frame
<1>2. Len(st) \in Nat /\ Len(pi) \in Nat
  OBVIOUS
<1> HIDE DEF st2, pi2, f, r
<1>3. \A a \in 1 .. Len(ou) : ou[a].to # Async => ou[a].to \in 1 .. Len(st)
  BY DEF WaitsOK, Replied, Waits
<1>4. WaitsNew(cs, old2, st2)
  <2> SUFFICES ASSUME NEW i \in 1 .. Len(st2), st2[i].op \in Reads,
                      NEW s \in st2[i].answer, s.page \notin old2
               PROVE  New(s, cs)
    BY DEF WaitsNew
  <2>1. i \in 1 .. Len(st)
    BY <1>1, <1>2
  <2>2. QED
    BY <1>1, <2>1 DEF WaitsNew
<1>5. \A a : Due(pi, ou, a) => Due(pi2, ou, a)
  BY <1>1, <1>2 DEF Due
<1>6. OutNew(cs, old2, st2, pi2, ou)
  <2> SUFFICES ASSUME NEW a \in 1 .. Len(ou), ou[a].to = Async \/ st2[ou[a].to].op \in Reads,
                      NEW s \in ou[a].answer
               PROVE  (s.page \in old2 /\ Due(pi2, ou, a)) \/ New(s, cs)
    BY DEF OutNew
  <2>1. ou[a].to = Async \/ st[ou[a].to].op \in Reads
    BY <1>1, <1>3
  <2>2. QED
    BY <1>5, <2>1 DEF OutNew
<1>7. ASSUME st = <<>> PROVE Coming(st2, ou) = {}
  <2>1. \A a \in 1 .. Len(ou) : ou[a].to # 1
    BY <1>3, <1>7 DEF Async
  <2>2. st2[1].answer = {}
    BY <1>1, <1>7
  <2>3. QED
    BY <2>1, <2>2, Comers
<1>8. ASSUME st # <<>> PROVE Keeps(st, ou, st2, ou)
  <2>1. 1 \in 1 .. Len(st) /\ st2 # <<>>
    BY <1>1, <1>2, <1>8 DEF st2
  <2>2. st2[1] = st[1]
    BY <1>1, <2>1
  <2>3. Coming(st2, ou) \subseteq Coming(st, ou)
    BY <2>1, <2>2, Comers
  <2>4. QED
    BY <1>8, <2>1, <2>2, <2>3 DEF Keeps
<1>9. QED
  BY <1>4, <1>6, <1>7, <1>8 DEF st2, pi2, f, r

LEMMA PoppedNew ==
  ASSUME NEW k, NEW st \in Seq(Frames), NEW pi \in Seq(Requests), NEW ou \in Seq(Answers),
         WaitsOK(k, st, pi, ou), st # <<>>, st[Len(st)].answer # {},
         NEW cs, NEW old, WaitsNew(cs, old, st), OutNew(cs, old, st, pi, ou)
  PROVE  /\ WaitsNew(cs, old, Front(st)) /\ OutNew(cs, old, Front(st), pi, ou)
         /\ Len(st) # 1 => Keeps(st, ou, Front(st), ou)
<1> DEFINE t == Front(st)
<1>1. /\ Len(t) = Len(st) - 1 /\ Len(st) \in Nat \ {0}
      /\ \A i \in 1 .. Len(t) : t[i] = st[i] /\ i \in 1 .. Len(st)
  BY FrontOf
<1>2. t \in Seq(Frames)
  BY FrontOf
<1>3. \A to : Waits(st, to) => t[to] = st[to]
  BY Popped
<1> HIDE DEF t
<1>4. WaitsNew(cs, old, t)
  BY <1>1 DEF WaitsNew
<1>5. OutNew(cs, old, t, pi, ou)
  <2>1. \A a \in 1 .. Len(ou) : ou[a].to = Async \/ t[ou[a].to] = st[ou[a].to]
    BY <1>3 DEF WaitsOK, Replied
  <2>2. QED
    BY <2>1 DEF OutNew
<1>6. ASSUME Len(st) # 1 PROVE Keeps(st, ou, t, ou)
  <2>1. 1 \in 1 .. Len(t) /\ 1 \in 1 .. Len(st) /\ t # <<>>
    BY <1>1, <1>2, <1>6
  <2>2. t[1] = st[1]
    BY <1>1, <2>1
  <2>3. Coming(t, ou) \subseteq Coming(st, ou)
    BY <2>1, <2>2, Comers
  <2>4. QED
    BY <2>1, <2>2, <2>3 DEF Keeps
<1>7. QED
  BY <1>4, <1>5, <1>6 DEF t

LEMMA Topmost ==
  ASSUME NEW k, NEW st \in Seq(Frames), NEW pi \in Seq(Requests), NEW ou \in Seq(Answers),
         WaitsOK(k, st, pi, ou), st # <<>>
  PROVE  /\ Len(st) \in Nat /\ Len(st) >= 1
         /\ st[Len(st)].answer # {} => Fits(st[Len(st)], st[Len(st)].answer)
         /\ st[Len(st)].op = "close" => \E c \in Written : st[Len(st)].temp = {c}
         /\ st[Len(st)].op # "data" => Len(st) = 1 /\ Front(st) = <<>>
<1>1. Len(st) \in 1 .. Len(st) /\ Len(st) \in Nat /\ Len(st) >= 1
  OBVIOUS
<1>2. /\ st[Len(st)].answer # {} => Fits(st[Len(st)], st[Len(st)].answer)
      /\ st[Len(st)].op = "close" => \E c \in Written : st[Len(st)].temp = {c}
  BY <1>1 DEF WaitsOK, Stacked
<1>3. ASSUME st[Len(st)].op # "data" PROVE Len(st) = 1 /\ Front(st) = <<>>
  <2>1. Len(st) \notin 2 .. Len(st)
    BY <1>3 DEF WaitsOK, Stacked
  <2>2. Len(st) = 1
    <3>1. \A m \in Nat : m >= 1 /\ m \notin 2 .. m => m = 1
      OBVIOUS
    <3>2. QED
      BY <1>1, <2>1, <3>1
  <2>3. Front(st) \in Seq(Frames) /\ Len(Front(st)) = 0
    BY <2>2, FrontOf
  <2>4. QED
    BY <2>2, <2>3
<1>4. QED
  BY <1>1, <1>2, <1>3

(* After the first wait nothing is old.                                    *)
LEMMA PoppedLast ==
  ASSUME NEW k, NEW st \in Seq(Frames), NEW pi \in Seq(Requests), NEW ou \in Seq(Answers),
         WaitsOK(k, st, pi, ou), Len(st) = 1, st[1].answer # {},
         NEW cs, NEW old, OutNew(cs, old, st, pi, ou)
  PROVE  /\ WaitsOK(k, <<>>, pi, ou)
         /\ WaitsNew(cs, {}, <<>>) /\ OutNew(cs, {}, <<>>, pi, ou)
<1>1. ~ Waits(st, 1)
  BY DEF Waits
<1>2. \A a : ~ Due(pi, ou, a)
  <2>1. \A b \in 1 .. Len(ou) : ou[b].to # 1
    BY <1>1 DEF WaitsOK, Replied, Async
  <2>2. \A b \in 1 .. Len(pi) : pi[b].to # 1
    BY <1>1 DEF WaitsOK, Requested, Async
  <2>3. QED
    BY <2>1, <2>2 DEF Due
<1>3. \A a \in 1 .. Len(ou) : ou[a].to = Async
  BY <1>1 DEF WaitsOK, Replied, Waits
<1>4. st # <<>> /\ Front(st) = <<>>
  <2>1. st # <<>>
    <3>1. Len(<<>>) # 1
      OBVIOUS
    <3>2. QED
      BY <3>1
  <2>2. Front(st) \in Seq(Frames) /\ Len(Front(st)) = 0
    BY <2>1, FrontOf
  <2>3. QED
    BY <2>1, <2>2
<1>5. WaitsOK(k, <<>>, pi, ou)
  <2>1. st[Len(st)].answer # {}
    OBVIOUS
  <2>2. WaitsOK(k, Front(st), pi, ou)
    BY <1>4, <2>1, Popped
  <2>3. QED
    BY <1>4, <2>2
<1>6. OutNew(cs, {}, <<>>, pi, ou)
  BY <1>2, <1>3 DEF OutNew
<1>7. WaitsNew(cs, {}, <<>>)
  BY DEF WaitsNew
<1>8. QED
  BY <1>5, <1>6, <1>7
------------------------------------------------------------------------------
(* An answer is taken from the sequence of answers.                        *)
LEMMA TailOf ==
  ASSUME NEW X, NEW s \in Seq(X), s # <<>>
  PROVE  /\ Len(s) \in Nat \ {0} /\ 1 \in 1 .. Len(s)
         /\ Head(s) \in X /\ Head(s) = s[1]
         /\ Tail(s) \in Seq(X) /\ Len(Tail(s)) = Len(s) - 1
         /\ \A i \in 1 .. Len(Tail(s)) : /\ i \in 1 .. Len(s) - 1 /\ i + 1 \in 2 .. Len(s)
                                         /\ i + 1 \in 1 .. Len(s) /\ i + 1 # 1
                                         /\ Tail(s)[i] = s[i + 1]
<1>1. Len(s) \in Nat \ {0} /\ 1 \in 1 .. Len(s) /\ Head(s) = s[1]
  OBVIOUS
<1>2. /\ Head(s) \in X /\ Tail(s) \in Seq(X) /\ Len(Tail(s)) = Len(s) - 1
      /\ \A i \in 1 .. Len(Tail(s)) : Tail(s)[i] = s[i + 1]
  BY HeadTailProperties
<1>3. QED
  BY <1>1, <1>2

LEMMA Taken ==
  ASSUME NEW k, NEW st \in Seq(Frames), NEW pi \in Seq(Requests), NEW ou \in Seq(Answers),
         WaitsOK(k, st, pi, ou), ou # <<>>
  PROVE  /\ WaitsOK(k, st, pi, Tail(ou))
         /\ Coming(st, Tail(ou)) \subseteq Coming(st, ou)
         /\ \A cs, old : OutNew(cs, old, st, pi, ou) => OutNew(cs, old, st, pi, Tail(ou))
         /\ Head(ou).to # Async =>
              /\ \A a \in 1 .. Len(pi) : pi[a].to = Async \/ pi[a].to # Head(ou).to
              /\ \A a \in 1 .. Len(Tail(ou)) :
                   Tail(ou)[a].to = Async \/ Tail(ou)[a].to # Head(ou).to
<1> DEFINE o == Tail(ou)
<1>1. /\ Len(ou) \in Nat \ {0} /\ 1 \in 1 .. Len(ou) /\ Head(ou) = ou[1]
      /\ Len(o) = Len(ou) - 1
      /\ \A i \in 1 .. Len(o) : /\ i + 1 \in 2 .. Len(ou)
                                /\ i + 1 \in 1 .. Len(ou) /\ i + 1 # 1
                                /\ o[i] = ou[i + 1]
  BY TailOf
<1> HIDE DEF o
<1>2. Replied(st, o)
  BY <1>1 DEF WaitsOK, Replied
<1>3. Alone(k, st, pi, o)
  BY <1>1 DEF WaitsOK, Alone
<1>4. OnceEach(o)
  <2> SUFFICES ASSUME NEW a \in 1 .. Len(o), NEW b \in 1 .. Len(o), a # b
               PROVE  o[a].to = Async \/ o[a].to # o[b].to
    BY DEF OnceEach
  <2>1. a + 1 # b + 1
    OBVIOUS
  <2>2. QED
    BY <1>1, <2>1 DEF WaitsOK, Single, OnceEach
<1>5. Single(pi, o)
  BY <1>1, <1>4 DEF WaitsOK, Single
<1>6. WaitsOK(k, st, pi, o)
  BY <1>2, <1>3, <1>5 DEF WaitsOK
<1>7. ASSUME NEW x \in Coming(st, o) PROVE x \in Coming(st, ou)
  <2>1. CASE \E a \in 1 .. Len(o) : o[a].to = 1 /\ o[a].answer = x
    <3>1. \E a \in 1 .. Len(ou) : ou[a].to = 1 /\ ou[a].answer = x
      BY <1>1, <2>1
    <3>2. QED
      BY <3>1, Comers
  <2>2. CASE 1 \in 1 .. Len(st) /\ st[1].answer = x /\ x # {}
    BY <2>2, Comers
  <2>3. QED
    BY <1>7, <2>1, <2>2, Comers
<1>8. \A a \in 1 .. Len(o) : Due(pi, ou, a + 1) => Due(pi, o, a)
  <2> SUFFICES ASSUME NEW a \in 1 .. Len(o), NEW b \in 1 .. Len(ou), b > a + 1, ou[b].to = 1
               PROVE  \E e \in 1 .. Len(o) : e > a /\ o[e].to = 1
    BY DEF Due
  <2>1. b - 1 \in 1 .. Len(o) /\ b - 1 > a /\ b - 1 + 1 = b
    BY <1>1
  <2>2. QED
    BY <1>1, <2>1
<1>9. ASSUME NEW cs, NEW old, OutNew(cs, old, st, pi, ou) PROVE OutNew(cs, old, st, pi, o)
  BY <1>1, <1>8, <1>9 DEF OutNew
<1>10. ASSUME Head(ou).to # Async
       PROVE  /\ \A a \in 1 .. Len(pi) : pi[a].to = Async \/ pi[a].to # Head(ou).to
              /\ \A a \in 1 .. Len(o) : o[a].to = Async \/ o[a].to # Head(ou).to
  <2>1. \A a \in 1 .. Len(pi) : pi[a].to = Async \/ pi[a].to # Head(ou).to
    BY <1>1 DEF WaitsOK, Single
  <2>2. \A a \in 1 .. Len(o) : o[a].to = Async \/ o[a].to # Head(ou).to
    BY <1>1 DEF WaitsOK, Single, OnceEach
  <2>3. QED
    BY <2>1, <2>2
<1>11. QED
  BY <1>6, <1>7, <1>9, <1>10 DEF o

LEMMA Changed ==
  ASSUME NEW X, NEW s \in Seq(X), NEW i \in 1 .. Len(s), NEW e \in X
  PROVE  /\ [s EXCEPT ![i] = e] \in Seq(X) /\ Len([s EXCEPT ![i] = e]) = Len(s)
         /\ [s EXCEPT ![i] = e][i] = e
         /\ \A j \in 1 .. Len(s) : j # i => [s EXCEPT ![i] = e][j] = s[j]
BY ExceptSeq

LEMMA Arrived ==
  ASSUME NEW k, NEW st \in Seq(Frames), NEW pi \in Seq(Requests), NEW ou \in Seq(Answers),
         WaitsOK(k, st, pi, ou), ou # <<>>, Head(ou).to # Async
  PROVE  LET st2 == [st EXCEPT ![Head(ou).to].answer = Head(ou).answer]
         IN  /\ st2 \in Seq(Frames) /\ Len(st2) = Len(st)
             /\ WaitsOK(k, st2, pi, Tail(ou)) /\ Keeps(st, ou, st2, Tail(ou))
             /\ \A cs, old :
                  WaitsNew(cs, old, st) /\ OutNew(cs, old, st, pi, ou) =>
                  WaitsNew(cs, old, st2) /\ OutNew(cs, old, st2, pi, Tail(ou))
<1> DEFINE to == Head(ou).to
           ans == Head(ou).answer
           st2 == [st EXCEPT ![to].answer = ans]
           o == Tail(ou)
<1>1. Head(ou) \in Answers /\ 1 \in 1 .. Len(ou) /\ Head(ou) = ou[1]
  BY TailOf
<1>2. Waits(st, to) /\ Fits(st[to], ans)
  BY <1>1 DEF WaitsOK, Replied
<1>3. to \in 1 .. Len(st) /\ st[to].answer = {} /\ ans \in SUBSET Values
  BY <1>1, <1>2 DEF Waits, Answers
<1>4. /\ st2 \in Seq(Frames) /\ Len(st2) = Len(st)
      /\ st2[to] = [st[to] EXCEPT !.answer = ans]
      /\ \A i \in 1 .. Len(st) : i # to => st2[i] = st[i]
  <2>1. st[to] \in Frames
    BY <1>3
  <2>2. [st[to] EXCEPT !.answer = ans] \in Frames
    BY <1>3, <2>1 DEF Frames
  <2> DEFINE e == [st[to] EXCEPT !.answer = ans]
  <2>3. st2 = [st EXCEPT ![to] = e]
    OBVIOUS
  <2> HIDE DEF st2, e, to, ans
  <2>4. e \in Frames
    BY <2>2 DEF e
  <2>5. /\ st2 \in Seq(Frames) /\ Len(st2) = Len(st)
        /\ st2[to] = e
        /\ \A i \in 1 .. Len(st) : i # to => st2[i] = st[i]
    BY <1>3, <2>3, <2>4, Changed
  <2>6. QED
    BY <2>5 DEF e
<1>5. /\ st2[to].op = st[to].op /\ st2[to].n = st[to].n /\ st2[to].temp = st[to].temp
      /\ st2[to].answer = ans
  <2>1. st[to] \in Frames
    BY <1>3
  <2>2. QED
    BY <1>4, <2>1 DEF Frames
<1>6. /\ WaitsOK(k, st, pi, o) /\ Coming(st, o) \subseteq Coming(st, ou)
      /\ \A cs, old : OutNew(cs, old, st, pi, ou) => OutNew(cs, old, st, pi, o)
      /\ \A a \in 1 .. Len(pi) : pi[a].to = Async \/ pi[a].to # to
      /\ \A a \in 1 .. Len(o) : o[a].to = Async \/ o[a].to # to
  BY Taken
<1> HIDE DEF to, ans, st2, o
<1>7. Stacked(st2)
  <2>1. ASSUME NEW i \in 2 .. Len(st2) PROVE st2[i].op = "data"
    <3>1. Len(st2) = Len(st) /\ i \in 1 .. Len(st) /\ i \in 2 .. Len(st)
      BY <1>4
    <3>2. st2[i].op = st[i].op
      <4>1. CASE i = to
        BY <1>5, <4>1
      <4>2. CASE i # to
        BY <1>4, <3>1, <4>2
      <4>3. QED
        BY <4>1, <4>2
    <3>3. QED
      BY <3>1, <3>2 DEF WaitsOK, Stacked
  <2>2. ASSUME NEW i \in 1 .. Len(st2)
        PROVE  /\ st2[i].answer # {} => Fits(st2[i], st2[i].answer)
               /\ st2[i].op = "close" => \E c \in Written : st2[i].temp = {c}
    <3>1. CASE i = to
      <4>1. Fits(st2[i], st2[i].answer)
        BY <1>2, <1>5, <3>1 DEF Fits
      <4>2. QED
        BY <1>3, <1>5, <3>1, <4>1 DEF WaitsOK, Stacked
    <3>2. CASE i # to
      <4>1. st2[i] = st[i] /\ i \in 1 .. Len(st)
        BY <1>4, <3>2
      <4>2. QED
        BY <4>1 DEF WaitsOK, Stacked
    <3>3. QED
      BY <3>1, <3>2
  <2>3. QED
    BY <2>1, <2>2 DEF Stacked
<1>8. \A t : t # to /\ Waits(st, t) => Waits(st2, t) /\ st2[t] = st[t]
  BY <1>4 DEF Waits
<1>9. Requested(st2, pi)
  <2> SUFFICES ASSUME NEW a \in 1 .. Len(pi), ~ (pi[a].to = Async /\ pi[a].op = "read")
               PROVE  /\ Waits(st2, pi[a].to) /\ pi[a].n = st2[pi[a].to].n
                      /\ pi[a].op = Asks(st2[pi[a].to].op)
    BY DEF Requested
  <2>1. /\ Waits(st, pi[a].to) /\ pi[a].n = st[pi[a].to].n
        /\ pi[a].op = Asks(st[pi[a].to].op)
    BY DEF WaitsOK, Requested
  <2>2. pi[a].to # to
    BY <1>3, <1>6, <2>1 DEF Waits, Async
  <2>3. QED
    BY <1>8, <2>1, <2>2
<1>10. Replied(st2, o)
  <2> SUFFICES ASSUME NEW a \in 1 .. Len(o), ~ (o[a].to = Async /\ IsSight(o[a].answer))
               PROVE  Waits(st2, o[a].to) /\ Fits(st2[o[a].to], o[a].answer)
    BY DEF Replied
  <2>1. Waits(st, o[a].to) /\ Fits(st[o[a].to], o[a].answer)
    BY <1>6 DEF WaitsOK, Replied
  <2>2. o[a].to # to
    BY <1>3, <1>6, <2>1 DEF Waits, Async
  <2>3. QED
    BY <1>8, <2>1, <2>2
<1>11. Alone(k, st2, pi, o)
  BY <1>4, <1>6 DEF WaitsOK, Alone
<1>12. WaitsOK(k, st2, pi, o)
  BY <1>6, <1>7, <1>9, <1>10, <1>11 DEF WaitsOK
<1>13. Keeps(st, ou, st2, o)
  <2>1. st # <<>> /\ st2 # <<>> /\ 1 \in 1 .. Len(st)
    BY <1>3, <1>4
  <2>2. st2[1].op = st[1].op /\ st2[1].n = st[1].n /\ st2[1].temp = st[1].temp
    BY <1>4, <1>5, <2>1
  <2>3. ASSUME NEW x \in Coming(st2, o) PROVE x \in Coming(st, ou)
    <3>1. CASE to = 1
      <4>1. ou[1].to = 1 /\ ou[1].answer = ans
        BY <1>1, <3>1 DEF to, ans
      <4>2. st2[1].answer = ans
        BY <1>5, <3>1
      <4>3. ans \in Coming(st, ou)
        BY <1>1, <4>1, Comers
      <4>4. x = ans \/ \E a \in 1 .. Len(o) : o[a].to = 1 /\ o[a].answer = x
        BY <2>3, <4>2, Comers
      <4>5. x = ans \/ x \in Coming(st, o)
        BY <4>4, Comers
      <4>6. QED
        BY <1>6, <4>3, <4>5
    <3>2. CASE to # 1
      <4>1. st2[1] = st[1]
        BY <1>4, <2>1, <3>2
      <4>2. x \in Coming(st, o)
        BY <1>4, <2>3, <4>1, Comers
      <4>3. QED
        BY <1>6, <4>2
    <3>3. QED
      BY <3>1, <3>2
  <2>4. QED
    BY <2>1, <2>2, <2>3 DEF Keeps
<1>14. ASSUME NEW cs, NEW old, WaitsNew(cs, old, st), OutNew(cs, old, st, pi, ou)
       PROVE  WaitsNew(cs, old, st2) /\ OutNew(cs, old, st2, pi, o)
  <2>1. OutNew(cs, old, st2, pi, o)
    <3>1. OutNew(cs, old, st, pi, o)
      BY <1>6, <1>14
    <3>2. \A a \in 1 .. Len(o) : o[a].to = Async \/ st2[o[a].to] = st[o[a].to]
      BY <1>6, <1>8 DEF WaitsOK, Replied
    <3>3. QED
      BY <3>1, <3>2 DEF OutNew
  <2>2. ASSUME st[to].op \in Reads, NEW s \in ans, s.page \notin old PROVE New(s, cs)
    BY <1>1, <1>14, <2>2 DEF OutNew, to, ans
  <2>3. WaitsNew(cs, old, st2)
    <3> SUFFICES ASSUME NEW i \in 1 .. Len(st2), st2[i].op \in Reads,
                        NEW s \in st2[i].answer, s.page \notin old
                 PROVE  New(s, cs)
      BY DEF WaitsNew
    <3>1. CASE i = to
      BY <1>5, <2>2, <3>1
    <3>2. CASE i # to
      BY <1>4, <1>14, <3>2 DEF WaitsNew
    <3>3. QED
      BY <3>1, <3>2
  <2>4. QED
    BY <2>1, <2>3
<1>15. QED
  BY <1>4, <1>12, <1>13, <1>14 DEF st2, o, to, ans

------------------------------------------------------------------------------
(* The first request is answered.                                          *)
LEMMA Served ==
  ASSUME NEW k, NEW st \in Seq(Frames), NEW pi \in Seq(Requests), NEW ou \in Seq(Answers),
         WaitsOK(k, st, pi, ou), pi # <<>>, NEW ans \in SUBSET Values,
         \/ Head(pi).to = Async /\ IsSight(ans)
         \/ Head(pi).to # Async /\ Fits(st[Head(pi).to], ans)
  PROVE  LET pi2 == Tail(pi)
             ou2 == Append(ou, [to |-> Head(pi).to, answer |-> ans])
         IN  /\ ou2 \in Seq(Answers) /\ pi2 \in Seq(Requests)
             /\ WaitsOK(k, st, pi2, ou2)
             /\ Coming(st, ou2) \subseteq Coming(st, ou) \cup {ans}
             /\ Head(pi).to # 1 => Coming(st, ou2) \subseteq Coming(st, ou)
             /\ Head(pi).to = 1 => Coming(st, ou) = {}
             /\ Len(ou2) = Len(ou) + 1 /\ Len(ou) \in Nat
             /\ ou2[Len(ou) + 1] = [to |-> Head(pi).to, answer |-> ans]
             /\ \A a \in 1 .. Len(ou) : ou2[a] = ou[a]
             /\ \A a \in 1 .. Len(ou) : Due(pi, ou, a) => Due(pi2, ou2, a)
             /\ Head(pi).to = 1 => \A a \in 1 .. Len(ou) : Due(pi2, ou2, a)
<1> DEFINE h == Head(pi)
           e == [to |-> h.to, answer |-> ans]
           pi2 == Tail(pi)
           ou2 == Append(ou, e)
<1>1. /\ Len(pi) \in Nat \ {0} /\ 1 \in 1 .. Len(pi) /\ h = pi[1] /\ h \in Requests
      /\ pi2 \in Seq(Requests) /\ Len(pi2) = Len(pi) - 1
      /\ \A i \in 1 .. Len(pi2) : /\ i + 1 \in 2 .. Len(pi)
                                  /\ i + 1 \in 1 .. Len(pi) /\ i + 1 # 1
                                  /\ pi2[i] = pi[i + 1]
  BY TailOf
<1>2. h.to \in Nat
  BY <1>1 DEF Requests
<1>3. e \in Answers /\ e.to = h.to /\ e.answer = ans
  BY <1>2 DEF Answers
<1> HIDE DEF e, h
<1>4. /\ ou2 \in Seq(Answers) /\ Len(ou2) = Len(ou) + 1 /\ Len(ou) \in Nat
      /\ ou2[Len(ou) + 1] = e
      /\ \A a \in 1 .. Len(ou) : ou2[a] = ou[a] /\ a \in 1 .. Len(ou2)
      /\ \A a \in 1 .. Len(ou2) : a \in 1 .. Len(ou) \/ a = Len(ou) + 1
      /\ Len(ou) + 1 \in 1 .. Len(ou2)
  BY <1>3
<1> HIDE DEF pi2, ou2
<1>5. h.to = Async \/ Waits(st, h.to)
  BY <1>1 DEF WaitsOK, Requested
<1>6. Requested(st, pi2)
  BY <1>1 DEF WaitsOK, Requested
<1>7. Replied(st, ou2)
  <2> SUFFICES ASSUME NEW a \in 1 .. Len(ou2)
               PROVE  \/ ou2[a].to = Async /\ IsSight(ou2[a].answer)
                      \/ Waits(st, ou2[a].to) /\ Fits(st[ou2[a].to], ou2[a].answer)
    BY DEF Replied
  <2>1. CASE a \in 1 .. Len(ou)
    BY <1>4, <2>1 DEF WaitsOK, Replied
  <2>2. CASE a = Len(ou) + 1
    BY <1>3, <1>4, <1>5, <2>2 DEF h
  <2>3. QED
    BY <1>4, <2>1, <2>2
<1>8. /\ \A a \in 1 .. Len(ou) : h.to = Async \/ ou[a].to # h.to
      /\ \A a \in 1 .. Len(pi2) : h.to = Async \/ pi2[a].to # h.to
  <2>1. \A a \in 1 .. Len(ou) : h.to = Async \/ ou[a].to # h.to
    BY <1>1 DEF WaitsOK, Single
  <2>2. \A a \in 1 .. Len(pi2) : h.to = Async \/ pi2[a].to # h.to
    BY <1>1 DEF WaitsOK, Single, OnceEach
  <2>3. QED
    BY <2>1, <2>2
<1>9. Single(pi2, ou2)
  <2>1. OnceEach(pi2)
    <3> SUFFICES ASSUME NEW a \in 1 .. Len(pi2), NEW b \in 1 .. Len(pi2), a # b
                 PROVE  pi2[a].to = Async \/ pi2[a].to # pi2[b].to
      BY DEF OnceEach
    <3>1. a + 1 # b + 1
      OBVIOUS
    <3>2. QED
      BY <1>1, <3>1 DEF WaitsOK, Single, OnceEach
  <2>2. OnceEach(ou2)
    <3> SUFFICES ASSUME NEW a \in 1 .. Len(ou2), NEW b \in 1 .. Len(ou2), a # b
                 PROVE  ou2[a].to = Async \/ ou2[a].to # ou2[b].to
      BY DEF OnceEach
    <3>1. CASE a \in 1 .. Len(ou) /\ b \in 1 .. Len(ou)
      BY <1>4, <3>1 DEF WaitsOK, Single, OnceEach
    <3>2. CASE a \in 1 .. Len(ou) /\ b = Len(ou) + 1
      BY <1>3, <1>4, <1>8, <3>2
    <3>3. CASE a = Len(ou) + 1 /\ b \in 1 .. Len(ou)
      BY <1>3, <1>4, <1>8, <3>3
    <3>4. QED
      BY <1>4, <3>1, <3>2, <3>3
  <2>3. ASSUME NEW a \in 1 .. Len(pi2), NEW b \in 1 .. Len(ou2)
        PROVE  pi2[a].to = Async \/ pi2[a].to # ou2[b].to
    <3>1. CASE b \in 1 .. Len(ou)
      BY <1>1, <1>4, <3>1 DEF WaitsOK, Single
    <3>2. CASE b = Len(ou) + 1
      BY <1>3, <1>4, <1>8, <3>2
    <3>3. QED
      BY <1>4, <3>1, <3>2
  <2>4. QED
    BY <2>1, <2>2, <2>3 DEF Single
<1>10. Alone(k, st, pi2, ou2)
  <2> SUFFICES ASSUME k \notin Busy
               PROVE  /\ Len(st) <= 1
                      /\ \A a \in 1 .. Len(pi2) : pi2[a].to # Async
                      /\ \A a \in 1 .. Len(ou2) : ou2[a].to # Async
    BY DEF Alone
  <2>1. Len(st) <= 1 /\ \A a \in 1 .. Len(pi) : pi[a].to # Async
    BY DEF WaitsOK, Alone
  <2>2. \A a \in 1 .. Len(ou) : ou[a].to # Async
    BY DEF WaitsOK, Alone
  <2>3. e.to # Async
    BY <1>1, <1>3, <2>1
  <2>4. QED
    BY <1>1, <1>4, <2>1, <2>2, <2>3
<1>11. WaitsOK(k, st, pi2, ou2)
  BY <1>6, <1>7, <1>9, <1>10 DEF WaitsOK
<1>12. ASSUME NEW x \in Coming(st, ou2)
       PROVE  x \in Coming(st, ou) \/ (h.to = 1 /\ x = ans)
  <2>1. CASE \E a \in 1 .. Len(ou2) : ou2[a].to = 1 /\ ou2[a].answer = x
    <3>1. PICK a \in 1 .. Len(ou2) : ou2[a].to = 1 /\ ou2[a].answer = x
      BY <2>1
    <3>2. CASE a \in 1 .. Len(ou)
      BY <1>4, <3>1, <3>2, Comers
    <3>3. CASE a = Len(ou) + 1
      BY <1>3, <1>4, <3>1, <3>3
    <3>4. QED
      BY <1>4, <3>2, <3>3
  <2>2. CASE 1 \in 1 .. Len(st) /\ st[1].answer = x /\ x # {}
    BY <2>2, Comers
  <2>3. QED
    BY <1>12, <2>1, <2>2, Comers
<1>13. ASSUME h.to = 1 PROVE Coming(st, ou) = {}
  <2>1. \A a \in 1 .. Len(ou) : ou[a].to # 1
    BY <1>8, <1>13 DEF Async
  <2>2. st[1].answer = {}
    BY <1>5, <1>13 DEF Waits, Async
  <2>3. QED
    BY <2>1, <2>2, Comers
<1>14. ASSUME h.to = 1, NEW a \in 1 .. Len(ou) PROVE Due(pi2, ou2, a)
  <2>1. ou2[Len(ou) + 1].to = 1 /\ Len(ou) + 1 > a
    BY <1>3, <1>4, <1>14
  <2>2. QED
    BY <1>4, <2>1 DEF Due
<1>15. ASSUME NEW a \in 1 .. Len(ou), Due(pi, ou, a) PROVE Due(pi2, ou2, a)
  <2>1. CASE \E b \in 1 .. Len(ou) : b > a /\ ou[b].to = 1
    BY <1>4, <2>1 DEF Due
  <2>2. ASSUME NEW b \in 1 .. Len(pi), pi[b].to = 1 PROVE Due(pi2, ou2, a)
    <3>1. CASE b = 1
      BY <1>1, <1>14, <2>2, <3>1
    <3>2. CASE b # 1
      <4>1. b - 1 \in 1 .. Len(pi2) /\ b - 1 + 1 = b
        BY <1>1, <3>2
      <4>2. pi2[b - 1].to = 1
        BY <1>1, <2>2, <4>1
      <4>3. QED
        BY <4>1, <4>2 DEF Due
    <3>3. QED
      BY <3>1, <3>2
  <2>3. QED
    BY <1>15, <2>1, <2>2 DEF Due
<1>16. QED
  BY <1>1, <1>4, <1>11, <1>12, <1>13, <1>14, <1>15 DEF pi2, ou2, e, h

(* What was new of cs is new of cs2, or it is old and the answer of the    *)
(* first wait is on its way.                                               *)
LEMMA ServedNew ==
  ASSUME NEW k, NEW st \in Seq(Frames), NEW pi \in Seq(Requests), NEW ou \in Seq(Answers),
         WaitsOK(k, st, pi, ou), pi # <<>>, NEW ans \in SUBSET Values,
         \/ Head(pi).to = Async /\ IsSight(ans)
         \/ Head(pi).to # Async /\ Fits(st[Head(pi).to], ans),
         NEW cs, NEW cs2, NEW old,
         NEW da \in [0 .. NPages -> SUBSET SightType], NEW im \in Seq(SightType),
         CachesNew(cs, old, st, pi, ou, da, im),
         \A s \in SightType : New(s, cs) => New(s, cs2) \/ (s.page \in old /\ Head(pi).to = 1),
         (Head(pi).to = Async \/ st[Head(pi).to].op \in Reads) => \A s \in ans : New(s, cs2)
  PROVE  CachesNew(cs2, old, st, Tail(pi),
                   Append(ou, [to |-> Head(pi).to, answer |-> ans]), da, im)
<1> DEFINE h == Head(pi)
           e == [to |-> h.to, answer |-> ans]
           pi2 == Tail(pi)
           ou2 == Append(ou, e)
<1>1. /\ Len(ou2) = Len(ou) + 1 /\ Len(ou) \in Nat
      /\ ou2[Len(ou) + 1] = e /\ e.to = h.to /\ e.answer = ans
      /\ \A a \in 1 .. Len(ou) : ou2[a] = ou[a]
      /\ \A a \in 1 .. Len(ou) : Due(pi, ou, a) => Due(pi2, ou2, a)
      /\ h.to = 1 => \A a \in 1 .. Len(ou) : Due(pi2, ou2, a)
  <2>1. e.to = h.to /\ e.answer = ans
    OBVIOUS
  <2>2. /\ Len(ou2) = Len(ou) + 1 /\ Len(ou) \in Nat
        /\ ou2[Len(ou) + 1] = e
        /\ \A a \in 1 .. Len(ou) : ou2[a] = ou[a]
    BY Served
  <2>3. /\ \A a \in 1 .. Len(ou) : Due(pi, ou, a) => Due(pi2, ou2, a)
        /\ h.to = 1 => \A a \in 1 .. Len(ou) : Due(pi2, ou2, a)
    BY Served
  <2>4. QED
    BY <2>1, <2>2, <2>3
<1> HIDE DEF ou2, pi2, e, h
<1>2. \A s \in SightType : s.page \notin old /\ New(s, cs) => New(s, cs2)
  OBVIOUS
<1>3. DataNew(cs2, old, da)
  <2> SUFFICES ASSUME NEW p \in 0 .. NPages, p \notin old, NEW s \in da[p]
               PROVE  s.page = p /\ New(s, cs2)
    BY DEF DataNew
  <2>1. s \in SightType
    OBVIOUS
  <2>2. QED
    BY <1>2, <2>1 DEF CachesNew, DataNew
<1>4. ImagesNew(cs2, old, im)
  <2>1. \A i \in 1 .. Len(im) : im[i] \in SightType
    OBVIOUS
  <2>2. QED
    BY <1>2, <2>1 DEF CachesNew, ImagesNew
<1>5. WaitsNew(cs2, old, st)
  <2> SUFFICES ASSUME NEW i \in 1 .. Len(st), st[i].op \in Reads,
                      NEW s \in st[i].answer, s.page \notin old
               PROVE  New(s, cs2)
    BY DEF WaitsNew
  <2>1. s \in SightType
    BY DEF WaitsOK, Stacked, Fits
  <2>2. QED
    BY <1>2, <2>1 DEF CachesNew, WaitsNew
<1>6. OutNew(cs2, old, st, pi2, ou2)
  <2> SUFFICES ASSUME NEW a \in 1 .. Len(ou2), ou2[a].to = Async \/ st[ou2[a].to].op \in Reads,
                      NEW s \in ou2[a].answer
               PROVE  (s.page \in old /\ Due(pi2, ou2, a)) \/ New(s, cs2)
    BY DEF OutNew
  <2>1. CASE a \in 1 .. Len(ou)
    <3>1. s \in SightType
      <4>1. ou[a].to = Async => IsSight(ou[a].answer)
        BY <2>1 DEF WaitsOK, Replied, Waits, Async
      <4>2. ou[a].to # Async => Fits(st[ou[a].to], ou[a].answer)
        BY <2>1 DEF WaitsOK, Replied
      <4>3. QED
        BY <1>1, <2>1, <4>1, <4>2 DEF IsSight, Fits
    <3>2. (s.page \in old /\ Due(pi, ou, a)) \/ New(s, cs)
      BY <1>1, <2>1 DEF CachesNew, OutNew
    <3>3. New(s, cs) => New(s, cs2) \/ (s.page \in old /\ h.to = 1)
      BY <3>1 DEF h
    <3>4. QED
      BY <1>1, <2>1, <3>2, <3>3
  <2>2. CASE a = Len(ou) + 1
    BY <1>1, <2>2 DEF h
  <2>3. QED
    BY <1>1, <2>1, <2>2
<1>7. QED
  BY <1>3, <1>4, <1>5, <1>6 DEF CachesNew, pi2, ou2, e, h

(* An image is asked for that no wait waits for.                           *)
LEMMA Prefetched ==
  ASSUME NEW k \in Busy, NEW st \in Seq(Frames), NEW pi \in Seq(Requests),
         NEW ou \in Seq(Answers), WaitsOK(k, st, pi, ou), NEW n \in Nat
  PROVE  LET pi2 == Append(pi, Request("read", n, Async))
         IN  /\ pi2 \in Seq(Requests) /\ WaitsOK(k, st, pi2, ou)
             /\ \A cs, old : OutNew(cs, old, st, pi, ou) => OutNew(cs, old, st, pi2, ou)
<1> DEFINE r == Request("read", n, Async)
           pi2 == Append(pi, r)
<1>1. r \in Requests /\ r.to = Async /\ r.op = "read"
  BY DEF Request, Requests, Async
<1> HIDE DEF r
<1>2. /\ pi2 \in Seq(Requests) /\ pi2[Len(pi) + 1] = r
      /\ \A i \in 1 .. Len(pi) : pi2[i] = pi[i] /\ i \in 1 .. Len(pi2)
      /\ \A i \in 1 .. Len(pi2) : i \in 1 .. Len(pi) \/ i = Len(pi) + 1
  BY <1>1
<1> HIDE DEF pi2
<1>3. Requested(st, pi2)
  BY <1>1, <1>2 DEF WaitsOK, Requested
<1>4. Single(pi2, ou)
  <2>1. OnceEach(pi2)
    <3> SUFFICES ASSUME NEW a \in 1 .. Len(pi2), NEW b \in 1 .. Len(pi2), a # b
                 PROVE  pi2[a].to = Async \/ pi2[a].to # pi2[b].to
      BY DEF OnceEach
    <3>1. CASE a \in 1 .. Len(pi) /\ b \in 1 .. Len(pi)
      BY <1>2, <3>1 DEF WaitsOK, Single, OnceEach
    <3>2. CASE a = Len(pi) + 1 \/ b = Len(pi) + 1
      BY <1>1, <1>2, <3>2
    <3>3. QED
      BY <1>2, <3>1, <3>2
  <2>2. ASSUME NEW a \in 1 .. Len(pi2), NEW b \in 1 .. Len(ou)
        PROVE  pi2[a].to = Async \/ pi2[a].to # ou[b].to
    BY <1>1, <1>2 DEF WaitsOK, Single
  <2>3. QED
    BY <2>1, <2>2 DEF WaitsOK, Single
<1>5. WaitsOK(k, st, pi2, ou)
  BY <1>3, <1>4 DEF WaitsOK, Alone
<1>6. \A a : Due(pi, ou, a) => Due(pi2, ou, a)
  BY <1>2 DEF Due
<1>7. ASSUME NEW cs, NEW old, OutNew(cs, old, st, pi, ou) PROVE OutNew(cs, old, st, pi2, ou)
  BY <1>6, <1>7 DEF OutNew
<1>8. QED
  BY <1>2, <1>5, <1>7 DEF pi2, r

(* A crash leaves the waits that have their answers.                       *)
LEMMA Crashed ==
  ASSUME NEW k, NEW st \in Seq(Frames), NEW pi \in Seq(Requests), NEW ou \in Seq(Answers),
         WaitsOK(k, st, pi, ou), NEW S
  PROVE  /\ Those(st, S) \in Seq(Frames)
         /\ WaitsOK(k, Those(st, S), <<>>, <<>>)
         /\ Keeps(st, ou, Those(st, S), <<>>) \/ Plain(Those(st, S))
<1> DEFINE t == Those(st, S)
<1>1. /\ t \in Seq(Frames) /\ Len(t) <= Len(st)
      /\ \A i \in 1 .. Len(t) : \E j \in 1 .. Len(st) : i <= j /\ t[i] = st[j]
  BY ThoseOf
<1> HIDE DEF t
<1>2. Stacked(t)
  <2>1. ASSUME NEW i \in 2 .. Len(t) PROVE t[i].op = "data"
    <3>1. i \in 1 .. Len(t)
      BY <1>1
    <3>2. PICK j \in 1 .. Len(st) : i <= j /\ t[i] = st[j]
      BY <1>1, <3>1
    <3>3. j \in 2 .. Len(st)
      BY <3>2
    <3>4. QED
      BY <3>2, <3>3 DEF WaitsOK, Stacked
  <2>2. ASSUME NEW i \in 1 .. Len(t)
        PROVE  /\ t[i].answer # {} => Fits(t[i], t[i].answer)
               /\ t[i].op = "close" => \E c \in Written : t[i].temp = {c}
    <3>1. PICK j \in 1 .. Len(st) : t[i] = st[j]
      BY <1>1
    <3>2. QED
      BY <3>1 DEF WaitsOK, Stacked
  <2>3. QED
    BY <2>1, <2>2 DEF Stacked
<1>3. Requested(t, <<>>) /\ Replied(t, <<>>) /\ Single(<<>>, <<>>)
  BY DEF Requested, Replied, Single, OnceEach
<1>4. Alone(k, t, <<>>, <<>>)
  BY <1>1 DEF WaitsOK, Alone
<1>5. WaitsOK(k, t, <<>>, <<>>)
  BY <1>2, <1>3, <1>4 DEF WaitsOK
<1>6. Keeps(st, ou, t, <<>>) \/ Plain(t)
  <2> SUFFICES ASSUME t # <<>> PROVE Keeps(st, ou, t, <<>>) \/ Plain(t)
    BY DEF Plain
  <2>1. 1 \in 1 .. Len(t)
    BY <1>1
  <2>2. PICK j \in 1 .. Len(st) : t[1] = st[j]
    BY <1>1, <2>1
  <2>3. CASE j = 1
    <3>1. st # <<>>
      BY <2>3
    <3>2. Coming(t, <<>>) \subseteq Coming(st, ou)
      BY <2>1, <2>2, <2>3, Comers
    <3>3. QED
      BY <2>2, <2>3, <3>1, <3>2 DEF Keeps
  <2>4. CASE j # 1
    <3>1. j \in 2 .. Len(st)
      BY <2>4
    <3>2. t[1].op = "data"
      BY <2>2, <3>1 DEF WaitsOK, Stacked
    <3>3. QED
      BY <3>2 DEF Plain, Reads
  <2>5. QED
    BY <2>3, <2>4
<1>7. QED
  BY <1>1, <1>5, <1>6 DEF t
------------------------------------------------------------------------------
(* The image cache: nothing gets in but what is put there, and never too   *)
(* much.                                                                   *)
Within(im, old) == \A i \in 1 .. Len(im) : \E j \in 1 .. Len(old) : im[i] = old[j]

LEMMA WithinNew ==
  ASSUME NEW cs, NEW old, NEW im, NEW im2, ImagesNew(cs, old, im), Within(im2, im)
  PROVE  ImagesNew(cs, old, im2)
BY DEF ImagesNew, Within

LEMMA TouchOf ==
  ASSUME NEW im \in Seq(SightType), NEW p, Has(im, p)
  PROVE  /\ Touch(im, p) \in Seq(SightType) /\ Len(Touch(im, p)) = Len(im)
         /\ Within(Touch(im, p), im)
<1> DEFINE Q == {k \in 1 .. Len(im) : im[k].page = p}
<1>1. Q \in SUBSET Nat /\ Q # {}
  BY DEF Has
<1>2. PICK k \in Q : \A j \in Q : k <= j
  <2> HIDE DEF Q
  <2>1. QED
    BY <1>1, Least
<1>3. \A j \in 1 .. k - 1 : im[j].page # p
  BY <1>2
<1> DEFINE i == CHOOSE n \in DOMAIN im : im[n].page = p /\ \A j \in 1 .. n - 1 : im[j].page # p
           a == SubSeq(im, 1, i - 1)
           b == SubSeq(im, i + 1, Len(im))
<1>4. i \in 1 .. Len(im)
  <2>1. \E n \in DOMAIN im : im[n].page = p /\ \A j \in 1 .. n - 1 : im[j].page # p
    BY <1>2, <1>3
  <2>2. i \in DOMAIN im
    BY <2>1
  <2>3. QED
    BY <2>2
<1>5. Touch(im, p) = <<im[i]>> \o a \o b
  BY DEF Touch
<1> HIDE DEF i, Q
<1>6. /\ a \in Seq(SightType) /\ Len(a) = i - 1
      /\ \A j \in 1 .. Len(a) : a[j] = im[j] /\ j \in 1 .. Len(im)
  BY <1>4
<1>7. /\ b \in Seq(SightType) /\ Len(b) = Len(im) - i
      /\ \A j \in 1 .. Len(b) : b[j] = im[i + j] /\ i + j \in 1 .. Len(im)
  BY <1>4
<1> HIDE DEF a, b
<1> DEFINE c == <<im[i]>> \o a
<1>8. /\ c \in Seq(SightType) /\ Len(c) = i
      /\ \A j \in 1 .. Len(c) : \E n \in 1 .. Len(im) : c[j] = im[n]
  <2>1. <<im[i]>> \in Seq(SightType) /\ Len(<<im[i]>>) = 1 /\ <<im[i]>>[1] = im[i]
    BY <1>4
  <2>2. c \in Seq(SightType) /\ Len(c) = i
    BY <1>4, <1>6, <2>1
  <2>3. ASSUME NEW j \in 1 .. Len(c) PROVE \E n \in 1 .. Len(im) : c[j] = im[n]
    <3>1. CASE j = 1
      BY <1>4, <1>6, <2>1, <3>1
    <3>2. CASE j # 1
      <4>1. j - 1 \in 1 .. Len(a) /\ c[j] = a[j - 1]
        BY <1>4, <1>6, <2>1, <2>2, <3>2
      <4>2. QED
        BY <1>6, <4>1
    <3>3. QED
      BY <3>1, <3>2
  <2>4. QED
    BY <2>2, <2>3
<1> HIDE DEF c
<1> DEFINE d == c \o b
<1>9. d \in Seq(SightType) /\ Len(d) = Len(im)
  BY <1>4, <1>7, <1>8
<1>10. ASSUME NEW j \in 1 .. Len(d) PROVE \E n \in 1 .. Len(im) : d[j] = im[n]
  <2>1. CASE j \in 1 .. Len(c)
    BY <1>7, <1>8, <2>1
  <2>2. CASE j \notin 1 .. Len(c)
    <3>1. j - i \in 1 .. Len(b) /\ d[j] = b[j - i]
      BY <1>4, <1>7, <1>8, <1>9, <2>2
    <3>2. QED
      BY <1>7, <3>1
  <2>3. QED
    BY <2>1, <2>2
<1>11. Touch(im, p) = d
  BY <1>5 DEF c
<1> HIDE DEF d
<1>12. QED
  BY <1>9, <1>10, <1>11 DEF Within

LEMMA PutOf ==
  ASSUME images \in Seq(SightType), NEW s \in SightType
  PROVE  /\ PutImage(s) \in Seq(SightType) /\ Len(PutImage(s)) <= ImageLimit
         /\ \A i \in 1 .. Len(PutImage(s)) :
              PutImage(s)[i] = s \/ \E j \in 1 .. Len(images) : PutImage(s)[i] = images[j]
<1> DEFINE new == <<s>> \o images
<1>1. /\ new \in Seq(SightType) /\ Len(new) = Len(images) + 1 /\ Len(images) \in Nat
      /\ \A i \in 1 .. Len(new) : new[i] = s \/ \E j \in 1 .. Len(images) : new[i] = images[j]
  <2>1. <<s>> \in Seq(SightType) /\ Len(<<s>>) = 1 /\ <<s>>[1] = s
    OBVIOUS
  <2>2. new \in Seq(SightType) /\ Len(new) = Len(images) + 1 /\ Len(images) \in Nat
    BY <2>1
  <2>3. ASSUME NEW i \in 1 .. Len(new), i # 1
        PROVE  i - 1 \in 1 .. Len(images) /\ new[i] = images[i - 1]
    BY <2>1, <2>2, <2>3
  <2>4. new[1] = s
    BY <2>1
  <2>5. QED
    BY <2>2, <2>3, <2>4
<1>2. ImageLimit \in Nat
  BY PagesAssumption
<1>3. PutImage(s) = IF Len(new) <= ImageLimit THEN new
                    ELSE IF ImageLimit > 1 THEN SubSeq(new, 1, ImageLimit)
                    ELSE <<>>
  BY DEF PutImage
<1> HIDE DEF new
<1>4. CASE Len(new) <= ImageLimit
  BY <1>1, <1>3, <1>4
<1>5. CASE Len(new) > ImageLimit /\ ImageLimit > 1
  <2> DEFINE t == SubSeq(new, 1, ImageLimit)
  <2>1. /\ t \in Seq(SightType) /\ Len(t) = ImageLimit
        /\ \A i \in 1 .. Len(t) : t[i] = new[i] /\ i \in 1 .. Len(new)
    BY <1>1, <1>2, <1>5
  <2>2. PutImage(s) = t
    BY <1>1, <1>2, <1>3, <1>5
  <2> HIDE DEF t
  <2>3. QED
    BY <1>1, <1>2, <2>1, <2>2
<1>6. CASE Len(new) > ImageLimit /\ ~ (ImageLimit > 1)
  <2>1. PutImage(s) = <<>>
    BY <1>1, <1>2, <1>3, <1>6
  <2>2. QED
    BY <1>2, <2>1
<1>7. QED
  BY <1>1, <1>2, <1>4, <1>5, <1>6

LEMMA OthersOf ==
  ASSUME images \in Seq(SightType), NEW p
  PROVE  /\ NoImagesOf(p) \in Seq(SightType) /\ Len(NoImagesOf(p)) <= Len(images)
         /\ Within(NoImagesOf(p), images)
         /\ \A i \in 1 .. Len(NoImagesOf(p)) : NoImagesOf(p)[i].page # p
<1> DEFINE S == {s \in ToSet(images) : s.page # p}
<1>1. NoImagesOf(p) = Those(images, S)
  BY DEF NoImagesOf
<1>2. \A s \in S : s.page # p
  OBVIOUS
<1> HIDE DEF S
<1>3. /\ Those(images, S) \in Seq(SightType) /\ Len(Those(images, S)) <= Len(images)
      /\ \A i \in 1 .. Len(Those(images, S)) :
           /\ Those(images, S)[i] \in S
           /\ \E j \in 1 .. Len(images) : i <= j /\ Those(images, S)[i] = images[j]
  BY ThoseOf
<1>4. QED
  BY <1>1, <1>2, <1>3 DEF Within
------------------------------------------------------------------------------
(* The first wait begins.  If all pages are old until it ends, nothing     *)
(* else has to be new.                                                     *)
LEMMA Begun ==
  ASSUME NEW k, pipe \in Seq(Requests), out \in Seq(Answers), WaitsOK(k, <<>>, pipe, out),
         NEW op \in Ops, NEW n \in Nat, NEW temp \in SUBSET Written,
         op = "close" => \E c \in Written : temp = {c},
         QueryFrom(<<>>, op, n, temp, Asks(op))
  PROVE  /\ stack' \in Seq(Frames) /\ pipe' \in Seq(Requests)
         /\ WaitsOK(k, stack', pipe', out) /\ Coming(stack', out) = {}
         /\ stack' # <<>> /\ stack'[1].op = op /\ stack'[1].n = n /\ stack'[1].temp = temp
         /\ \A cs, old : WaitsNew(cs, {}, <<>>) /\ OutNew(cs, {}, <<>>, pipe, out)
                        => WaitsNew(cs, old, stack') /\ OutNew(cs, old, stack', pipe', out)
         /\ \A cs : WaitsNew(cs, Nat, stack') /\ OutNew(cs, Nat, stack', pipe', out)
<1>1. PICK st : st = <<>>
  OBVIOUS
<1>2. st \in Seq(Frames) /\ Len(st) = 0
  BY <1>1
<1>3. /\ stack' = Append(st, Frame(op, n, temp))
      /\ pipe' = Append(pipe, Request(Asks(op), n, Len(st) + 1))
  BY <1>1 DEF QueryFrom
<1>4. WaitsOK(k, st, pipe, out)
  BY <1>1
<1>5. /\ stack' \in Seq(Frames) /\ pipe' \in Seq(Requests)
      /\ Len(stack') = Len(st) + 1 /\ Len(pipe') = Len(pipe) + 1
      /\ stack'[Len(st) + 1] = Frame(op, n, temp)
      /\ pipe'[Len(pipe) + 1] = Request(Asks(op), n, Len(st) + 1)
      /\ WaitsOK(k, stack', pipe', out)
  <2> DEFINE st2 == Append(st, Frame(op, n, temp))
             pi2 == Append(pipe, Request(Asks(op), n, Len(st) + 1))
  <2>1. /\ st2 \in Seq(Frames) /\ pi2 \in Seq(Requests)
        /\ Len(st2) = Len(st) + 1 /\ Len(pi2) = Len(pipe) + 1
        /\ st2[Len(st) + 1] = Frame(op, n, temp)
        /\ pi2[Len(pipe) + 1] = Request(Asks(op), n, Len(st) + 1)
        /\ WaitsOK(k, st2, pi2, out)
    <3>1. st = <<>> \/ (op = "data" /\ k \in Busy)
      BY <1>1
    <3>2. st2 \in Seq(Frames) /\ pi2 \in Seq(Requests)
      BY <1>2, <1>4, <3>1, Pushed
    <3>3. Len(st2) = Len(st) + 1 /\ Len(pi2) = Len(pipe) + 1
      BY <1>2, <1>4, <3>1, Pushed
    <3>4. /\ st2[Len(st) + 1] = Frame(op, n, temp)
          /\ pi2[Len(pipe) + 1] = Request(Asks(op), n, Len(st) + 1)
      BY <1>2, <1>4, <3>1, Pushed
    <3>5. WaitsOK(k, st2, pi2, out)
      BY <1>2, <1>4, <3>1, Pushed
    <3>6. QED
      BY <3>2, <3>3, <3>4, <3>5
  <2>2. stack' = st2 /\ pipe' = pi2
    BY <1>3
  <2> HIDE DEF st2, pi2
  <2>3. QED
    BY <2>1, <2>2
<1>6. /\ stack' # <<>> /\ stack'[1].op = op /\ stack'[1].n = n /\ stack'[1].temp = temp
      /\ stack'[1].answer = {} /\ Len(stack') = 1
  <2>1. Len(st) + 1 = 1
    BY <1>2
  <2>2. stack'[1] = Frame(op, n, temp) /\ Len(stack') = 1
    BY <1>5, <2>1
  <2>3. stack' # <<>>
    <3>1. Len(<<>>) # 1
      OBVIOUS
    <3>2. QED
      BY <2>2, <3>1
  <2>4. QED
    BY <2>2, <2>3 DEF Frame
<1>7. ASSUME NEW cs, NEW old, WaitsNew(cs, {}, <<>>), OutNew(cs, {}, <<>>, pipe, out)
      PROVE  WaitsNew(cs, old, stack') /\ OutNew(cs, old, stack', pipe', out)
  <2>1. WaitsNew(cs, {}, st) /\ OutNew(cs, {}, st, pipe, out) /\ {} \subseteq old
    BY <1>1, <1>7
  <2>2. QED
    BY <1>1, <1>2, <1>3, <1>4, <2>1, PushedNew
<1>8. Coming(stack', out) = {}
  <2>1. \A a \in 1 .. Len(out) : out[a].to # 1
    BY <1>1, <1>2, <1>4 DEF WaitsOK, Replied, Waits, Async
  <2>2. QED
    BY <1>6, <2>1, Comers
<1>9. ASSUME NEW cs PROVE WaitsNew(cs, Nat, stack') /\ OutNew(cs, Nat, stack', pipe', out)
  <2>1. WaitsNew(cs, Nat, stack')
    BY <1>6 DEF WaitsNew
  <2>2. \A a : Due(pipe', out, a)
    <3>1. Len(pipe) + 1 \in 1 .. Len(pipe') /\ pipe'[Len(pipe) + 1].to = 1
      BY <1>2, <1>5 DEF Request
    <3>2. QED
      BY <3>1 DEF Due
  <2>3. \A a \in 1 .. Len(out) : IsSight(out[a].answer)
    BY <1>2, <1>4 DEF WaitsOK, Replied, Waits
  <2>4. \A a \in 1 .. Len(out) : \A s \in out[a].answer : s.page \in Nat
    BY <2>3 DEF IsSight, SightType
  <2>5. QED
    BY <2>1, <2>2, <2>4 DEF OutNew
<1>10. QED
  BY <1>5, <1>6, <1>7, <1>8, <1>9

------------------------------------------------------------------------------
(* Steps that leave the first wait alone.                                  *)
LEMMA Displayed ==
  ASSUME NEW k, pipe \in Seq(Requests), out \in Seq(Answers), WaitsOK(k, <<>>, pipe, out),
         NEW p \in Nat, NEW d \in [0 .. NPages -> SUBSET SightType],
         NEW im \in Seq(SightType), Len(im) <= ImageLimit, Display(<<>>, p, d, im)
  PROVE  /\ stack' \in Seq(Frames) /\ pipe' \in Seq(Requests)
         /\ data' = d /\ images' \in Seq(SightType) /\ Len(images') <= ImageLimit
         /\ WaitsOK(k, stack', pipe', out) /\ Plain(stack')
         /\ \A cs : /\ WaitsNew(cs, {}, <<>>) /\ OutNew(cs, {}, <<>>, pipe, out)
                    /\ DataNew(cs, {}, d) /\ ImagesNew(cs, {}, im)
                    => CachesNew(cs, {}, stack', pipe', out, data', images')
<1>1. \/ /\ images' = im
         /\ \E op \in {"display", "image"} : QueryFrom(<<>>, op, p, {}, "read")
      \/ /\ images' = im \/ (Has(im, p) /\ images' = Touch(im, p))
         /\ stack' = <<>> /\ pipe' = pipe
  BY DEF Display
<1>2. data' = d
  BY DEF Display
<1>3. images' = im \/ (Has(im, p) /\ images' = Touch(im, p))
  BY <1>1
<1>4. images' \in Seq(SightType) /\ Len(images') <= ImageLimit /\ Within(images', im)
  <2>1. CASE images' = im
    BY <2>1 DEF Within
  <2>2. CASE Has(im, p) /\ images' = Touch(im, p)
    BY <2>2, TouchOf
  <2>3. QED
    BY <1>3, <2>1, <2>2
<1>5. \A cs : ImagesNew(cs, {}, im) => ImagesNew(cs, {}, images')
  BY <1>4, WithinNew
<1>6. ASSUME NEW op \in {"display", "image"}, QueryFrom(<<>>, op, p, {}, "read")
      PROVE  /\ stack' \in Seq(Frames) /\ pipe' \in Seq(Requests)
             /\ WaitsOK(k, stack', pipe', out) /\ Plain(stack')
             /\ \A cs : WaitsNew(cs, {}, <<>>) /\ OutNew(cs, {}, <<>>, pipe, out)
                        => WaitsNew(cs, {}, stack') /\ OutNew(cs, {}, stack', pipe', out)
  <2>1. /\ op \in Ops /\ Asks(op) = "read" /\ op # "close" /\ p \in Nat /\ {} \in SUBSET Written
        /\ op \in Reads
    BY DEF Ops, Reads, Asks
  <2>2. QueryFrom(<<>>, op, p, {}, Asks(op))
    BY <1>6, <2>1
  <2>3. /\ stack' \in Seq(Frames) /\ pipe' \in Seq(Requests)
        /\ WaitsOK(k, stack', pipe', out) /\ stack'[1].op = op
        /\ \A cs : WaitsNew(cs, {}, <<>>) /\ OutNew(cs, {}, <<>>, pipe, out)
                   => WaitsNew(cs, {}, stack') /\ OutNew(cs, {}, stack', pipe', out)
    BY <2>1, <2>2, Begun
  <2>4. QED
    BY <2>1, <2>3 DEF Plain
<1>7. CASE \E op \in {"display", "image"} : QueryFrom(<<>>, op, p, {}, "read")
  <2>1. /\ stack' \in Seq(Frames) /\ pipe' \in Seq(Requests)
        /\ WaitsOK(k, stack', pipe', out) /\ Plain(stack')
        /\ \A cs : WaitsNew(cs, {}, <<>>) /\ OutNew(cs, {}, <<>>, pipe, out)
                   => WaitsNew(cs, {}, stack') /\ OutNew(cs, {}, stack', pipe', out)
    BY <1>6, <1>7
  <2>2. QED
    BY <1>2, <1>4, <1>5, <2>1 DEF CachesNew
<1>8. CASE stack' = <<>> /\ pipe' = pipe
  <2>1. stack' \in Seq(Frames) /\ Plain(stack')
    BY <1>8 DEF Plain
  <2>2. QED
    BY <1>2, <1>4, <1>5, <1>8, <2>1 DEF CachesNew
<1>9. QED
  BY <1>1, <1>7, <1>8

LEMMA CalmStep ==
  ASSUME ViewInv, UNCHANGED <<files, doc, modified, made, ghosts>>,
         stack' \in Seq(Frames), pipe' \in Seq(Requests), out' \in Seq(Answers),
         data' \in [0 .. NPages -> SUBSET SightType],
         images' \in Seq(SightType), Len(images') <= ImageLimit,
         WaitsOK(kind, stack', pipe', out'), Calm(stack, out, stack', out'),
         crashes = 0 =>
           CachesNew(Shown, Old(kind, stack), stack', pipe', out', data', images')
  PROVE  ViewInv'
<1>1. /\ kind' = kind /\ file' = file /\ copy' = copy /\ doc' = doc
      /\ modified' = modified /\ made' = made
      /\ nedits' = nedits /\ crashes' = crashes /\ lost' = lost
  BY DEF files, ghosts
<1>2. ServerFile' = ServerFile /\ Current' = Current /\ Kept' = Kept
  BY <1>1 DEF ServerFile, Current, Kept
<1>3. ASSUME NEW op, op \notin Reads
      PROVE  /\ First(stack', op) <=> First(stack, op)
             /\ First(stack, op) => Keeps(stack, out, stack', out')
  <2>1. First(stack', op) <=> First(stack, op)
    BY <1>3, Calmly
  <2>2. First(stack, op) => Keeps(stack, out, stack', out')
    BY <1>3 DEF Calm, Plain, First
  <2>3. QED
    BY <2>1, <2>2
<1>4. /\ "edit" \notin Reads /\ "revert" \notin Reads /\ "close" \notin Reads
      /\ "save" \notin Reads
  BY DEF Reads
<1>5. ViewTypeOK'
  BY <1>1 DEF ViewInv, ViewTypeOK
<1>6. WaitsOK(kind, stack, pipe, out)'
  BY <1>1
<1>7. CachesInv'
  <2>1. Shown' = Shown
    BY <1>1, <1>2, <1>3, <1>4 DEF Shown, Keeps
  <2>2. Old(kind, stack') = Old(kind, stack)
    BY Calmly
  <2>3. QED
    BY <1>1, <2>1, <2>2 DEF CachesInv
<1>8. SavedInv'
  BY <1>1, <1>3, <1>4 DEF SavedInv, ViewInv, Keeps
<1>9. ClosedInv'
  BY <1>1, <1>3, <1>4 DEF ClosedInv, ViewInv, Keeps
<1>10. EditsInv'
  <2>1. Numbered' /\ InFile'
    BY <1>1, <1>2 DEF ViewInv, EditsInv, Numbered, InFile
  <2>2. InDocument'
    BY <1>1, <1>2, <1>3, <1>4 DEF ViewInv, EditsInv, InDocument
  <2>3. Saving'
    BY <1>1, <1>2, <1>3, <1>4 DEF ViewInv, EditsInv, Saving, Keeps
  <2>4. Closing'
    BY <1>1, <1>2, <1>3, <1>4 DEF ViewInv, EditsInv, Closing, Keeps
  <2>5. Reverting'
    BY <1>1, <1>2, <1>3, <1>4 DEF ViewInv, EditsInv, Reverting
  <2>6. Editing'
    BY <1>1, <1>2, <1>3, <1>4 DEF ViewInv, EditsInv, Editing, Keeps
  <2>7. QED
    BY <2>1, <2>2, <2>3, <2>4, <2>5, <2>6 DEF EditsInv
<1>11. QED
  BY <1>5, <1>6, <1>7, <1>8, <1>9, <1>10 DEF ViewInv

LEMMA DataAsked ==
  ASSUME NEW k, stack \in Seq(Frames), pipe \in Seq(Requests), NEW ou \in Seq(Answers),
         WaitsOK(k, stack, pipe, ou), NEW p \in Nat, stack = <<>> \/ k \in Busy,
         QueryFrom(stack, "data", p, {}, "read")
  PROVE  /\ stack' \in Seq(Frames) /\ pipe' \in Seq(Requests)
         /\ WaitsOK(k, stack', pipe', ou) /\ Calm(stack, ou, stack', ou)
         /\ \A cs, old : WaitsNew(cs, old, stack) /\ OutNew(cs, old, stack, pipe, ou)
                         => WaitsNew(cs, old, stack') /\ OutNew(cs, old, stack', pipe', ou)
<1> DEFINE op == "data"
           temp == {}
           st2 == Append(stack, Frame(op, p, temp))
           pi2 == Append(pipe, Request(Asks(op), p, Len(stack) + 1))
<1>1. /\ op \in Ops /\ Asks(op) = "read" /\ op # "close" /\ p \in Nat /\ temp \in SUBSET Written
      /\ op = "data" /\ op \in Reads
  BY DEF Ops, Reads, Asks
<1>2. stack' = st2 /\ pipe' = pi2
  BY <1>1 DEF QueryFrom
<1> HIDE DEF op, temp
<1>3. stack = <<>> \/ (op = "data" /\ k \in Busy)
  BY <1>1
<1>4. st2 \in Seq(Frames) /\ pi2 \in Seq(Requests)
  BY <1>1, <1>3, Pushed
<1>5. st2[Len(stack) + 1] = Frame(op, p, temp)
  BY <1>1, <1>3, Pushed
<1>6. WaitsOK(k, st2, pi2, ou)
  BY <1>1, <1>3, Pushed
<1>7. ASSUME NEW cs, NEW old, WaitsNew(cs, old, stack), OutNew(cs, old, stack, pipe, ou)
      PROVE  /\ WaitsNew(cs, old, st2) /\ OutNew(cs, old, st2, pi2, ou)
             /\ stack # <<>> => Keeps(stack, ou, st2, ou)
  <2>1. old \subseteq old
    OBVIOUS
  <2>2. WaitsNew(cs, old, st2)
    BY <1>1, <1>3, <1>7, <2>1, PushedNew
  <2>3. OutNew(cs, old, st2, pi2, ou)
    BY <1>1, <1>3, <1>7, <2>1, PushedNew
  <2>4. stack # <<>> => Keeps(stack, ou, st2, ou)
    BY <1>1, <1>3, <1>7, <2>1, PushedNew
  <2>5. QED
    BY <2>2, <2>3, <2>4
<1>8. Calm(stack, ou, st2, ou)
  <2>1. CASE stack = <<>>
    <3>1. st2[1].op = op
      BY <1>5, <2>1 DEF Frame
    <3>2. Plain(stack) /\ Plain(st2)
      BY <1>1, <2>1, <3>1 DEF Plain
    <3>3. QED
      BY <3>2 DEF Calm
  <2>2. CASE stack # <<>>
    <3>1. 1 \in 1 .. Len(stack) /\ st2 # <<>> /\ st2[1] = stack[1] /\ 1 \in 1 .. Len(st2)
      BY <2>2
    <3> HIDE DEF st2
    <3>2. Coming(st2, ou) \subseteq Coming(stack, ou)
      BY <3>1, Comers
    <3>3. QED
      BY <2>2, <3>1, <3>2 DEF Calm, Keeps
  <2>3. QED
    BY <2>1, <2>2
<1> HIDE DEF st2, pi2
<1>9. QED
  BY <1>2, <1>4, <1>6, <1>7, <1>8

LEMMA SameWaits ==
  ASSUME NEW st, NEW ou, NEW ou2, Coming(st, ou2) \subseteq Coming(st, ou)
  PROVE  Calm(st, ou, st, ou2)
BY DEF Calm, Keeps, Plain

LEMMA AtTop ==
  ASSUME stack = <<>>
  PROVE  Plain(stack) /\ Old(kind, stack) = {}
BY DEF Plain, Old, First

LEMMA RedisplayStep ==
  ASSUME ViewInv, NEW p \in Pages, Redisplay(p)
  PROVE  ViewInv'
<1>1. /\ stack = <<>> /\ Display(<<>>, p, data, images) /\ out' = out
      /\ UNCHANGED <<files, doc, modified, made, ghosts>>
  BY DEF Redisplay, TopLevel
<1>2. /\ pipe \in Seq(Requests) /\ out \in Seq(Answers) /\ images \in Seq(SightType)
      /\ Len(images) <= ImageLimit /\ data \in [0 .. NPages -> SUBSET SightType]
      /\ WaitsOK(kind, stack, pipe, out)
  BY DEF ViewInv, ViewTypeOK
<1>3. p \in Nat /\ WaitsOK(kind, <<>>, pipe, out)
  BY <1>1, <1>2, PagesAssumption DEF Pages
<1>4. /\ stack' \in Seq(Frames) /\ pipe' \in Seq(Requests)
      /\ data' = data /\ images' \in Seq(SightType) /\ Len(images') <= ImageLimit
      /\ WaitsOK(kind, stack', pipe', out) /\ Plain(stack')
      /\ \A cs : /\ WaitsNew(cs, {}, <<>>) /\ OutNew(cs, {}, <<>>, pipe, out)
                 /\ DataNew(cs, {}, data) /\ ImagesNew(cs, {}, images)
                 => CachesNew(cs, {}, stack', pipe', out, data', images')
  BY <1>1, <1>2, <1>3, Displayed
<1>5. Calm(stack, out, stack', out')
  BY <1>1, <1>4, AtTop DEF Calm
<1>6. crashes = 0 =>
        CachesNew(Shown, Old(kind, stack), stack', pipe', out', data', images')
  BY <1>1, <1>4, AtTop DEF ViewInv, CachesInv, CachesNew
<1>7. QED
  BY <1>1, <1>2, <1>4, <1>5, <1>6, CalmStep

LEMMA LookupStep ==
  ASSUME ViewInv, NEW p \in 0 .. NPages, Lookup(p)
  PROVE  ViewInv'
<1>1. /\ stack = <<>> \/ kind \in Busy
      /\ QueryFrom(stack, "data", p, {}, "read")
      /\ out' = out /\ data' = data /\ images' = images
      /\ UNCHANGED <<files, doc, modified, made, ghosts>>
  BY DEF Lookup, LispRuns, TopLevel
<1>2. /\ stack \in Seq(Frames) /\ pipe \in Seq(Requests) /\ out \in Seq(Answers)
      /\ images \in Seq(SightType)
      /\ Len(images) <= ImageLimit /\ data \in [0 .. NPages -> SUBSET SightType]
      /\ WaitsOK(kind, stack, pipe, out) /\ p \in Nat
  BY PagesAssumption DEF ViewInv, ViewTypeOK
<1>3. /\ stack' \in Seq(Frames) /\ pipe' \in Seq(Requests)
      /\ WaitsOK(kind, stack', pipe', out) /\ Calm(stack, out, stack', out)
      /\ \A cs, old : WaitsNew(cs, old, stack) /\ OutNew(cs, old, stack, pipe, out)
                      => WaitsNew(cs, old, stack') /\ OutNew(cs, old, stack', pipe', out)
  BY <1>1, <1>2, DataAsked
<1>4. crashes = 0 =>
        CachesNew(Shown, Old(kind, stack), stack', pipe', out', data', images')
  BY <1>1, <1>3 DEF ViewInv, CachesInv, CachesNew
<1>5. QED
  BY <1>1, <1>2, <1>3, <1>4, CalmStep

LEMMA PrefetchStep ==
  ASSUME ViewInv, NEW p \in Pages, Prefetch(p)
  PROVE  ViewInv'
<1>1. /\ kind \in Busy /\ pipe' = Append(pipe, Request("read", p, Async))
      /\ stack' = stack /\ out' = out /\ data' = data /\ images' = images
      /\ UNCHANGED <<files, doc, modified, made, ghosts>>
  BY DEF Prefetch, emacs
<1>2. /\ stack \in Seq(Frames) /\ pipe \in Seq(Requests) /\ out \in Seq(Answers)
      /\ images \in Seq(SightType)
      /\ Len(images) <= ImageLimit /\ data \in [0 .. NPages -> SUBSET SightType]
      /\ WaitsOK(kind, stack, pipe, out) /\ p \in Nat
  BY PagesAssumption DEF ViewInv, ViewTypeOK, Pages
<1>3. pipe' \in Seq(Requests) /\ WaitsOK(kind, stack, pipe', out)
  BY <1>1, <1>2, Prefetched
<1>4. \A cs, old : OutNew(cs, old, stack, pipe, out) => OutNew(cs, old, stack, pipe', out)
  BY <1>1, <1>2, Prefetched
<1>5. Calm(stack, out, stack', out')
  BY <1>1, SameWaits
<1>6. crashes = 0 =>
        CachesNew(Shown, Old(kind, stack), stack', pipe', out', data', images')
  BY <1>1, <1>4 DEF ViewInv, CachesInv, CachesNew
<1>7. QED
  BY <1>1, <1>2, <1>3, <1>5, <1>6, CalmStep

LEMMA OnTop ==
  ASSUME ViewInv, stack # <<>>, Top.answer # {}
  PROVE  /\ Len(stack) \in 1 .. Len(stack) /\ Top = stack[Len(stack)] /\ Top \in Frames
         /\ Fits(Top, Top.answer) /\ Below \in Seq(Frames)
         /\ Top.op = "close" => \E c \in Written : Top.temp = {c}
         /\ WaitsOK(kind, Below, pipe, out)
         /\ Top.op = "data" => Calm(stack, out, Below, out)
         /\ Top.op # "data" => Len(stack) = 1 /\ Below = <<>> /\ stack[1] = Top
         /\ crashes = 0 => /\ WaitsNew(Shown, Old(kind, stack), Below)
                           /\ OutNew(Shown, Old(kind, stack), Below, pipe, out)
<1>1. /\ stack \in Seq(Frames) /\ pipe \in Seq(Requests) /\ out \in Seq(Answers)
      /\ WaitsOK(kind, stack, pipe, out) /\ stack[Len(stack)].answer # {}
  BY DEF ViewInv, ViewTypeOK, Top
<1>2. /\ Len(stack) \in 1 .. Len(stack) /\ Top = stack[Len(stack)] /\ Below = Front(stack)
      /\ Len(stack) \in Nat
  BY <1>1 DEF Top, Below
<1>3. Top \in Frames /\ Below \in Seq(Frames)
  BY <1>1, <1>2, FrontOf
<1>4. /\ Fits(Top, Top.answer)
      /\ Top.op = "close" => \E c \in Written : Top.temp = {c}
      /\ Top.op # "data" => Len(stack) = 1 /\ Below = <<>>
  BY <1>1, <1>2, Topmost
<1>5. WaitsOK(kind, Below, pipe, out)
  BY <1>1, <1>2, Popped
<1>6. ASSUME crashes = 0
      PROVE  /\ WaitsNew(Shown, Old(kind, stack), Below)
             /\ OutNew(Shown, Old(kind, stack), Below, pipe, out)
  <2>1. /\ WaitsNew(Shown, Old(kind, stack), stack)
        /\ OutNew(Shown, Old(kind, stack), stack, pipe, out)
    BY <1>6 DEF ViewInv, CachesInv, CachesNew
  <2>2. QED
    BY <1>1, <1>2, <2>1, PoppedNew
<1>7. ASSUME Top.op = "data" PROVE Calm(stack, out, Below, out)
  <2>1. CASE Len(stack) = 1
    <3>1. Front(stack) \in Seq(Frames) /\ Len(Front(stack)) = 0
      BY <1>1, <2>1, FrontOf
    <3>2. Below = <<>>
      BY <1>2, <3>1
    <3>3. Plain(stack) /\ Plain(Below)
      BY <1>2, <1>7, <2>1, <3>2 DEF Plain, Reads
    <3>4. QED
      BY <3>3 DEF Calm
  <2>2. CASE Len(stack) # 1
    <3>1. 1 \in 1 .. Len(stack) - 1
      <4>1. \A m \in Nat : m \in 1 .. m /\ m # 1 => 1 \in 1 .. m - 1
        OBVIOUS
      <4>2. QED
        BY <1>2, <2>2, <4>1
    <3>2. 1 \in 1 .. Len(stack) /\ Below[1] = stack[1] /\ Len(Below) = Len(stack) - 1
      BY <1>1, <1>2, <3>1, FrontOf
    <3>3. 1 \in 1 .. Len(Below) /\ Below # <<>>
      BY <1>3, <3>1, <3>2
    <3>4. Coming(Below, out) \subseteq Coming(stack, out)
      BY <3>2, <3>3, Comers
    <3>5. QED
      BY <3>2, <3>3, <3>4 DEF Calm, Keeps
  <2>3. QED
    BY <2>1, <2>2
<1>8. QED
  BY <1>2, <1>3, <1>4, <1>5, <1>6, <1>7

LEMMA DataArrivesStep ==
  ASSUME ViewInv, DataArrives
  PROVE  ViewInv'
<1>1. /\ stack # <<>> /\ Top.answer # {} /\ Top.op = "data"
      /\ data' = [data EXCEPT ![Top.n] = Top.answer] /\ stack' = Below
      /\ pipe' = pipe /\ out' = out /\ images' = images
      /\ UNCHANGED <<files, doc, modified, made, ghosts>>
  BY DEF DataArrives, Answered
<1>2. /\ stack \in Seq(Frames) /\ pipe \in Seq(Requests) /\ out \in Seq(Answers)
      /\ images \in Seq(SightType)
      /\ Len(images) <= ImageLimit /\ data \in [0 .. NPages -> SUBSET SightType]
  BY DEF ViewInv, ViewTypeOK
<1>3. /\ Len(stack) \in 1 .. Len(stack) /\ Top = stack[Len(stack)]
      /\ Fits(Top, Top.answer) /\ Below \in Seq(Frames)
      /\ WaitsOK(kind, Below, pipe, out) /\ Calm(stack, out, Below, out)
      /\ crashes = 0 => /\ WaitsNew(Shown, Old(kind, stack), Below)
                        /\ OutNew(Shown, Old(kind, stack), Below, pipe, out)
  BY <1>1, OnTop
<1>4. PICK s \in SightType : Top.answer = {s} /\ s.page = Top.n
  BY <1>1, <1>3 DEF Fits, Reads
<1>5. data' \in [0 .. NPages -> SUBSET SightType]
  BY <1>1, <1>2, <1>4
<1>6. ASSUME crashes = 0
      PROVE  CachesNew(Shown, Old(kind, stack), stack', pipe', out', data', images')
  <2>1. /\ DataNew(Shown, Old(kind, stack), data) /\ ImagesNew(Shown, Old(kind, stack), images)
        /\ WaitsNew(Shown, Old(kind, stack), stack)
    BY <1>6 DEF ViewInv, CachesInv, CachesNew
  <2>2. s.page \notin Old(kind, stack) => New(s, Shown)
    BY <1>1, <1>3, <1>4, <2>1 DEF WaitsNew, Reads
  <2>3. DataNew(Shown, Old(kind, stack), data')
    BY <1>1, <1>2, <1>4, <2>1, <2>2 DEF DataNew
  <2>4. QED
    BY <1>1, <1>3, <1>6, <2>1, <2>3 DEF CachesNew
<1>7. QED
  BY <1>1, <1>2, <1>3, <1>5, <1>6, CalmStep

LEMMA SizeArrivesStep ==
  ASSUME ViewInv, SizeArrives
  PROVE  ViewInv'
<1> DEFINE d == [data EXCEPT ![Top.n] = Top.answer]
<1>1. /\ stack # <<>> /\ Top.answer # {} /\ Top.op = "display"
      /\ Display(Below, Top.n, d, images) /\ out' = out
      /\ UNCHANGED <<files, doc, modified, made, ghosts>>
  BY DEF SizeArrives, Answered
<1>2. /\ stack \in Seq(Frames) /\ pipe \in Seq(Requests) /\ out \in Seq(Answers)
      /\ images \in Seq(SightType)
      /\ Len(images) <= ImageLimit /\ data \in [0 .. NPages -> SUBSET SightType]
  BY DEF ViewInv, ViewTypeOK
<1>3. /\ 1 \in 1 .. Len(stack) /\ stack[1] = Top /\ Top \in Frames
      /\ Fits(Top, Top.answer) /\ Below = <<>>
      /\ WaitsOK(kind, Below, pipe, out)
      /\ crashes = 0 => /\ WaitsNew(Shown, Old(kind, stack), Below)
                        /\ OutNew(Shown, Old(kind, stack), Below, pipe, out)
  BY <1>1, OnTop
<1>4. PICK s \in SightType : Top.answer = {s} /\ s.page = Top.n
  BY <1>1, <1>3 DEF Fits, Reads
<1>5. d \in [0 .. NPages -> SUBSET SightType] /\ Top.n \in Nat
  BY <1>2, <1>3, <1>4 DEF Frames
<1>6. Plain(stack) /\ Old(kind, stack) = {}
  BY <1>1, <1>3 DEF Plain, Old, First, Reads
<1>7. ASSUME crashes = 0
      PROVE  /\ WaitsNew(Shown, {}, <<>>) /\ OutNew(Shown, {}, <<>>, pipe, out)
             /\ DataNew(Shown, {}, d) /\ ImagesNew(Shown, {}, images)
  <2>1. /\ DataNew(Shown, {}, data) /\ ImagesNew(Shown, {}, images)
        /\ WaitsNew(Shown, {}, stack)
    BY <1>6, <1>7 DEF ViewInv, CachesInv, CachesNew
  <2>2. New(s, Shown)
    BY <1>1, <1>3, <1>4, <2>1 DEF WaitsNew, Reads
  <2>3. DataNew(Shown, {}, d)
    BY <1>2, <1>4, <2>1, <2>2 DEF DataNew
  <2>4. QED
    BY <1>3, <1>6, <1>7, <2>1, <2>3
<1> HIDE DEF d
<1>8. /\ stack' \in Seq(Frames) /\ pipe' \in Seq(Requests)
      /\ data' = d /\ images' \in Seq(SightType) /\ Len(images') <= ImageLimit
      /\ WaitsOK(kind, stack', pipe', out) /\ Plain(stack')
      /\ \A cs : /\ WaitsNew(cs, {}, <<>>) /\ OutNew(cs, {}, <<>>, pipe, out)
                 /\ DataNew(cs, {}, d) /\ ImagesNew(cs, {}, images)
                 => CachesNew(cs, {}, stack', pipe', out, data', images')
  <2>1. Display(<<>>, Top.n, d, images) /\ WaitsOK(kind, <<>>, pipe, out)
    BY <1>1, <1>3
  <2>2. QED
    BY <1>2, <1>5, <2>1, Displayed
<1>9. Calm(stack, out, stack', out')
  BY <1>6, <1>8 DEF Calm
<1>10. crashes = 0 =>
         CachesNew(Shown, Old(kind, stack), stack', pipe', out', data', images')
  BY <1>1, <1>6, <1>7, <1>8
<1>11. QED
  BY <1>1, <1>2, <1>5, <1>8, <1>9, <1>10, CalmStep

LEMMA ImageArrivesStep ==
  ASSUME ViewInv, ImageArrives
  PROVE  ViewInv'
<1>1. /\ stack # <<>> /\ Top.answer # {} /\ Top.op = "image" /\ stack' = Below
      /\ \E s \in Top.answer : images' = PutImage(s)
      /\ pipe' = pipe /\ out' = out /\ data' = data
      /\ UNCHANGED <<files, doc, modified, made, ghosts>>
  BY DEF ImageArrives, Answered
<1>2. /\ stack \in Seq(Frames) /\ pipe \in Seq(Requests) /\ out \in Seq(Answers)
      /\ images \in Seq(SightType)
      /\ Len(images) <= ImageLimit /\ data \in [0 .. NPages -> SUBSET SightType]
  BY DEF ViewInv, ViewTypeOK
<1>3. /\ 1 \in 1 .. Len(stack) /\ stack[1] = Top
      /\ Fits(Top, Top.answer) /\ Below = <<>> /\ Below \in Seq(Frames)
      /\ WaitsOK(kind, Below, pipe, out)
      /\ crashes = 0 => /\ WaitsNew(Shown, Old(kind, stack), Below)
                        /\ OutNew(Shown, Old(kind, stack), Below, pipe, out)
  BY <1>1, OnTop
<1>4. PICK s \in SightType : Top.answer = {s} /\ images' = PutImage(s)
  BY <1>1, <1>3 DEF Fits, Reads
<1>5. /\ images' \in Seq(SightType) /\ Len(images') <= ImageLimit
      /\ \A i \in 1 .. Len(images') :
           images'[i] = s \/ \E j \in 1 .. Len(images) : images'[i] = images[j]
  BY <1>2, <1>4, PutOf
<1>6. Plain(stack) /\ Plain(stack') /\ Old(kind, stack) = {}
  BY <1>1, <1>3 DEF Plain, Old, First, Reads
<1>7. ASSUME crashes = 0
      PROVE  CachesNew(Shown, Old(kind, stack), stack', pipe', out', data', images')
  <2>1. /\ DataNew(Shown, {}, data) /\ ImagesNew(Shown, {}, images)
        /\ WaitsNew(Shown, {}, stack)
    BY <1>6, <1>7 DEF ViewInv, CachesInv, CachesNew
  <2>2. New(s, Shown)
    BY <1>1, <1>3, <1>4, <2>1 DEF WaitsNew, Reads
  <2>3. ImagesNew(Shown, {}, images')
    BY <1>5, <2>1, <2>2 DEF ImagesNew
  <2>4. QED
    BY <1>1, <1>3, <1>6, <1>7, <2>1, <2>3 DEF CachesNew
<1>8. Calm(stack, out, stack', out')
  BY <1>6 DEF Calm
<1>9. QED
  BY <1>1, <1>2, <1>3, <1>5, <1>7, <1>8, CalmStep

LEMMA DeliverStep ==
  ASSUME ViewInv, Deliver
  PROVE  ViewInv'
<1> DEFINE a == Head(out)
           o == Tail(out)
           C == Shown
           old == Old(kind, stack)
<1>1. /\ out # <<>> /\ out' = o /\ data' = data
      /\ UNCHANGED <<files, doc, modified, made, ghosts>>
      /\ \/ /\ a.to # Async
            /\ stack' = [stack EXCEPT ![a.to].answer = a.answer]
            /\ pipe' = pipe /\ images' = images
         \/ a.to = Async /\ stack' = stack /\ pipe' = pipe /\ images' = images
         \/ /\ a.to = Async
            /\ \E s \in a.answer :
                 /\ images' = PutImage(s)
                 /\ IF data[s.page] = {}
                    THEN QueryFrom(stack, "data", s.page, {}, "read")
                    ELSE stack' = stack /\ pipe' = pipe
  BY DEF Deliver
<1>2. /\ stack \in Seq(Frames) /\ pipe \in Seq(Requests) /\ out \in Seq(Answers)
      /\ images \in Seq(SightType)
      /\ Len(images) <= ImageLimit /\ data \in [0 .. NPages -> SUBSET SightType]
      /\ WaitsOK(kind, stack, pipe, out)
  BY DEF ViewInv, ViewTypeOK
<1>3. crashes = 0 => /\ DataNew(C, old, data) /\ ImagesNew(C, old, images)
                     /\ WaitsNew(C, old, stack) /\ OutNew(C, old, stack, pipe, out)
  BY DEF ViewInv, CachesInv, CachesNew
<1>4. /\ WaitsOK(kind, stack, pipe, o) /\ Coming(stack, o) \subseteq Coming(stack, out)
      /\ \A cs, old2 : OutNew(cs, old2, stack, pipe, out) => OutNew(cs, old2, stack, pipe, o)
  BY <1>1, <1>2, Taken
<1>5. o \in Seq(Answers) /\ a = out[1] /\ 1 \in 1 .. Len(out)
  BY <1>1, <1>2, TailOf
<1> HIDE DEF a, o, C, old
<1>6. CASE /\ a.to # Async /\ stack' = [stack EXCEPT ![a.to].answer = a.answer]
           /\ pipe' = pipe /\ images' = images
  <2>1. stack' \in Seq(Frames) /\ WaitsOK(kind, stack', pipe, o) /\ Keeps(stack, out, stack', o)
    BY <1>1, <1>2, <1>6, Arrived DEF a, o
  <2>2. WaitsNew(C, old, stack) /\ OutNew(C, old, stack, pipe, out)
        => WaitsNew(C, old, stack') /\ OutNew(C, old, stack', pipe, o)
    BY <1>1, <1>2, <1>6, Arrived DEF a, o
  <2>3. Calm(stack, out, stack', o)
    BY <2>1 DEF Calm
  <2>4. crashes = 0 => CachesNew(C, old, stack', pipe', out', data', images')
    BY <1>1, <1>3, <1>6, <2>2 DEF CachesNew
  <2>5. QED
    BY <1>1, <1>2, <1>5, <1>6, <2>1, <2>3, <2>4, CalmStep DEF C, old
<1>7. CASE a.to = Async /\ stack' = stack /\ pipe' = pipe /\ images' = images
  <2>1. Calm(stack, out, stack', o)
    BY <1>4, <1>7, SameWaits
  <2>2. crashes = 0 => CachesNew(C, old, stack', pipe', out', data', images')
    BY <1>1, <1>3, <1>4, <1>7 DEF CachesNew
  <2>3. QED
    BY <1>1, <1>2, <1>4, <1>5, <1>7, <2>1, <2>2, CalmStep DEF C, old
<1>8. ASSUME a.to = Async, NEW s \in a.answer, images' = PutImage(s),
             IF data[s.page] = {} THEN QueryFrom(stack, "data", s.page, {}, "read")
             ELSE stack' = stack /\ pipe' = pipe
      PROVE  ViewInv'
  <2>1. s \in SightType /\ s.page \in Nat
    <3>1. IsSight(out[1].answer)
      BY <1>2, <1>5, <1>8 DEF WaitsOK, Replied, Waits, Async
    <3>2. QED
      BY <1>5, <1>8, <3>1 DEF IsSight, SightType
  <2>2. stack = <<>> \/ kind \in Busy
    BY <1>2, <1>5, <1>8 DEF WaitsOK, Alone
  <2>3. /\ images' \in Seq(SightType) /\ Len(images') <= ImageLimit
        /\ \A i \in 1 .. Len(images') :
             images'[i] = s \/ \E j \in 1 .. Len(images) : images'[i] = images[j]
    BY <1>2, <1>8, <2>1, PutOf
  <2>4. ASSUME crashes = 0 PROVE ImagesNew(C, old, images')
    <3>1. s.page \in old \/ New(s, C)
      BY <1>3, <1>5, <1>8, <2>4 DEF OutNew
    <3>2. QED
      BY <1>3, <2>3, <2>4, <3>1 DEF ImagesNew
  <2>5. /\ stack' \in Seq(Frames) /\ pipe' \in Seq(Requests)
        /\ WaitsOK(kind, stack', pipe', o) /\ Calm(stack, o, stack', o)
        /\ WaitsNew(C, old, stack) /\ OutNew(C, old, stack, pipe, o)
             => WaitsNew(C, old, stack') /\ OutNew(C, old, stack', pipe', o)
    <3>1. CASE data[s.page] = {}
      <4>1. QueryFrom(stack, "data", s.page, {}, "read")
        BY <1>8, <3>1
      <4>2. QED
        BY <1>2, <1>4, <1>5, <2>1, <2>2, <4>1, DataAsked
    <3>2. CASE data[s.page] # {}
      <4>1. stack' = stack /\ pipe' = pipe
        BY <1>8, <3>2
      <4>2. Calm(stack, o, stack', o)
        BY <4>1, SameWaits
      <4>3. QED
        BY <1>2, <1>4, <4>1, <4>2
    <3>3. QED
      BY <3>1, <3>2
  <2>6. Calm(stack, out, stack', o)
    BY <1>4, <2>5 DEF Calm, Keeps
  <2>7. crashes = 0 => CachesNew(C, old, stack', pipe', out', data', images')
    BY <1>1, <1>3, <1>4, <2>4, <2>5 DEF CachesNew
  <2>8. QED
    BY <1>1, <1>2, <1>5, <2>3, <2>5, <2>6, <2>7, CalmStep DEF C, old
<1>9. QED
  BY <1>1, <1>6, <1>7, <1>8

------------------------------------------------------------------------------
(* Steps that begin or end the first wait.                                 *)
LEMMA Forgiven ==
  ASSUME NEW cs, NEW old, NEW da, NEW im
  PROVE  /\ DataNew(cs, {}, da) => DataNew(cs, old, da)
         /\ ImagesNew(cs, {}, im) => ImagesNew(cs, old, im)
         /\ DataNew(cs, Nat, da)
         /\ im \in Seq(SightType) => ImagesNew(cs, Nat, im)
<1>1. 0 .. NPages \subseteq Nat
  BY PagesAssumption
<1>2. ASSUME im \in Seq(SightType) PROVE \A i \in 1 .. Len(im) : im[i].page \in Nat
  <2>1. \A i \in 1 .. Len(im) : im[i] \in SightType
    BY <1>2
  <2>2. QED
    BY <2>1 DEF SightType
<1>3. QED
  BY <1>1, <1>2 DEF DataNew, ImagesNew

LEMMA Held ==
  ASSUME ViewTypeOK
  PROVE  /\ ServerFile \in Written /\ Current \in Written
         /\ ServerFile = file \/ ServerFile = copy
         /\ doc = {} => Current = ServerFile
         /\ doc # {} => doc = {Current}
         /\ \A c : doc = {c} => Current = c
<1>1. ServerFile \in Written /\ (ServerFile = file \/ ServerFile = copy)
  BY DEF ViewTypeOK, ServerFile
<1>2. CASE doc = {}
  BY <1>1, <1>2 DEF Current
<1>3. ASSUME NEW c \in Written, doc = {c} PROVE Current = c
  BY <1>3 DEF Current
<1>4. QED
  BY <1>1, <1>2, <1>3 DEF ViewTypeOK

LEMMA EditStep ==
  ASSUME ViewInv, Edit
  PROVE  ViewInv'
<1>1. /\ stack = <<>> /\ QueryFrom(<<>>, "edit", nedits + 1, {}, "edit")
      /\ nedits' = nedits + 1 /\ kind' = kind /\ file' = file /\ copy' = copy /\ doc' = doc
      /\ out' = out /\ data' = data /\ images' = images /\ modified' = modified
      /\ made' = made /\ crashes' = crashes /\ lost' = lost
  BY DEF Edit, TopLevel, files
<1>2. /\ pipe \in Seq(Requests) /\ out \in Seq(Answers) /\ images \in Seq(SightType)
      /\ WaitsOK(kind, <<>>, pipe, out) /\ nedits \in Nat
  BY <1>1 DEF ViewInv, ViewTypeOK
<1>3. /\ "edit" \in Ops /\ nedits + 1 \in Nat /\ {} \in SUBSET Written
      /\ QueryFrom(<<>>, "edit", nedits + 1, {}, Asks("edit"))
  BY <1>1, <1>2 DEF Ops, Asks, Reads
<1>4. /\ stack' \in Seq(Frames) /\ pipe' \in Seq(Requests)
      /\ WaitsOK(kind, stack', pipe', out) /\ Coming(stack', out) = {}
      /\ stack' # <<>> /\ stack'[1].op = "edit" /\ stack'[1].n = nedits + 1
      /\ \A cs, old : WaitsNew(cs, {}, <<>>) /\ OutNew(cs, {}, <<>>, pipe, out)
                      => WaitsNew(cs, old, stack') /\ OutNew(cs, old, stack', pipe', out)
  BY <1>2, <1>3, Begun
<1>5. \A op : ~ First(stack, op) /\ (First(stack', op) <=> op = "edit")
  BY <1>1, <1>4 DEF First
<1>6. ServerFile' = ServerFile /\ Current' = Current /\ Kept' = Kept
  BY <1>1 DEF ServerFile, Current, Kept
<1>7. ViewTypeOK'
  BY <1>1, <1>3, <1>4 DEF ViewInv, ViewTypeOK
<1>8. WaitsOK(kind, stack, pipe, out)'
  BY <1>1, <1>4
<1>9. CachesInv'
  <2> SUFFICES ASSUME crashes' = 0
               PROVE  CachesNew(Shown, Old(kind, stack), stack, pipe, out, data, images)'
    BY DEF CachesInv
  <2>1. Shown' = Shown
    BY <1>1, <1>5, <1>6 DEF Shown
  <2>2. CachesNew(Shown, {}, <<>>, pipe, out, data, images)
    BY <1>1, AtTop DEF ViewInv, CachesInv
  <2>3. \A old : CachesNew(Shown, old, stack', pipe', out, data, images)
    BY <1>4, <2>2, Forgiven DEF CachesNew
  <2>4. QED
    BY <1>1, <2>1, <2>3
<1>10. SavedInv' /\ ClosedInv'
  BY <1>5 DEF SavedInv, ClosedInv
<1>11. EditsInv'
  <2>1. /\ file.edits \cup copy.edits \cup Current.edits \subseteq 1 .. nedits
        /\ Kept \subseteq Current.edits /\ (~ modified => Kept \subseteq file.edits)
    BY <1>5 DEF ViewInv, EditsInv, Numbered, InDocument, InFile
  <2>2. Numbered' /\ InDocument' /\ InFile'
    BY <1>1, <1>2, <1>6, <2>1 DEF Numbered, InDocument, InFile
  <2>3. Saving' /\ Closing' /\ Reverting'
    BY <1>5 DEF Saving, Closing, Reverting
  <2>4. Editing'
    BY <1>1, <1>2, <1>4, <2>1 DEF Editing
  <2>5. QED
    BY <2>2, <2>3, <2>4 DEF EditsInv
<1>12. QED
  BY <1>7, <1>8, <1>9, <1>10, <1>11 DEF ViewInv

LEMMA SaveStep ==
  ASSUME ViewInv, Save
  PROVE  ViewInv'
<1>1. /\ stack = <<>> /\ QueryFrom(<<>>, "save", 0, {}, "save")
      /\ kind' = kind /\ file' = file /\ copy' = copy /\ doc' = doc
      /\ out' = out /\ data' = data /\ images' = images /\ modified' = modified
      /\ made' = made /\ nedits' = nedits /\ crashes' = crashes /\ lost' = lost
  BY DEF Save, TopLevel, files, ghosts
<1>2. /\ pipe \in Seq(Requests) /\ out \in Seq(Answers) /\ images \in Seq(SightType)
      /\ WaitsOK(kind, <<>>, pipe, out)
  BY <1>1 DEF ViewInv, ViewTypeOK
<1>3. /\ "save" \in Ops /\ 0 \in Nat /\ {} \in SUBSET Written
      /\ QueryFrom(<<>>, "save", 0, {}, Asks("save"))
  BY <1>1 DEF Ops, Asks, Reads
<1>4. /\ stack' \in Seq(Frames) /\ pipe' \in Seq(Requests)
      /\ WaitsOK(kind, stack', pipe', out) /\ Coming(stack', out) = {}
      /\ stack' # <<>> /\ stack'[1].op = "save"
      /\ \A cs, old : WaitsNew(cs, {}, <<>>) /\ OutNew(cs, {}, <<>>, pipe, out)
                      => WaitsNew(cs, old, stack') /\ OutNew(cs, old, stack', pipe', out)
  BY <1>2, <1>3, Begun
<1>5. \A op : ~ First(stack, op) /\ (First(stack', op) <=> op = "save")
  BY <1>1, <1>4 DEF First
<1>6. ServerFile' = ServerFile /\ Current' = Current /\ Kept' = Kept
  BY <1>1 DEF ServerFile, Current, Kept
<1>7. ViewTypeOK'
  BY <1>1, <1>4 DEF ViewInv, ViewTypeOK
<1>8. WaitsOK(kind, stack, pipe, out)'
  BY <1>1, <1>4
<1>9. CachesInv'
  <2> SUFFICES ASSUME crashes' = 0
               PROVE  CachesNew(Shown, Old(kind, stack), stack, pipe, out, data, images)'
    BY DEF CachesInv
  <2>1. Shown' = Shown
    BY <1>1, <1>5, <1>6 DEF Shown
  <2>2. CachesNew(Shown, {}, <<>>, pipe, out, data, images)
    BY <1>1, AtTop DEF ViewInv, CachesInv
  <2>3. \A old : CachesNew(Shown, old, stack', pipe', out, data, images)
    BY <1>4, <2>2, Forgiven DEF CachesNew
  <2>4. QED
    BY <1>1, <2>1, <2>3
<1>10. SavedInv' /\ ClosedInv'
  BY <1>1, <1>4, <1>5 DEF SavedInv, ClosedInv
<1>11. EditsInv'
  <2>1. Kept \subseteq Current.edits
    BY <1>5 DEF ViewInv, EditsInv, InDocument
  <2>2. Numbered' /\ InDocument' /\ InFile'
    BY <1>1, <1>6, <2>1 DEF ViewInv, EditsInv, Numbered, InDocument, InFile
  <2>3. Closing' /\ Reverting' /\ Editing'
    BY <1>5 DEF Editing, Closing, Reverting
  <2>4. Saving'
    BY <1>1, <1>4 DEF Saving
  <2>5. QED
    BY <2>2, <2>3, <2>4 DEF EditsInv
<1>12. QED
  BY <1>7, <1>8, <1>9, <1>10, <1>11 DEF ViewInv

LEMMA RevertStep ==
  ASSUME ViewInv, NEW p \in Pages, Revert(p)
  PROVE  ViewInv'
<1>1. /\ stack = <<>> /\ QueryFrom(<<>>, "revert", p, {}, "close")
      /\ copy' = IF kind = "remote" THEN file ELSE copy
      /\ modified' = FALSE /\ made' = made \cap file.edits
      /\ kind' = kind /\ file' = file /\ doc' = doc
      /\ out' = out /\ data' = data /\ images' = images
      /\ nedits' = nedits /\ crashes' = crashes /\ lost' = lost
  BY DEF Revert, TopLevel, ghosts
<1>2. /\ pipe \in Seq(Requests) /\ out \in Seq(Answers) /\ images \in Seq(SightType)
      /\ WaitsOK(kind, <<>>, pipe, out) /\ ViewTypeOK
      /\ kind \in {"local", "remote"} /\ file \in Written /\ copy \in Written
      /\ made \in SUBSET Nat
  BY <1>1 DEF ViewInv, ViewTypeOK
<1>3. /\ "revert" \in Ops /\ p \in Nat /\ {} \in SUBSET Written /\ "revert" # "close"
      /\ QueryFrom(<<>>, "revert", p, {}, Asks("revert"))
  BY <1>1, PagesAssumption DEF Ops, Asks, Reads, Pages
<1>4. /\ stack' \in Seq(Frames) /\ pipe' \in Seq(Requests)
      /\ WaitsOK(kind, stack', pipe', out)
      /\ stack' # <<>> /\ stack'[1].op = "revert"
      /\ \A cs : WaitsNew(cs, Nat, stack') /\ OutNew(cs, Nat, stack', pipe', out)
  BY <1>2, <1>3, Begun
<1>5. \A op : ~ First(stack, op) /\ (First(stack', op) <=> op = "revert")
  BY <1>1, <1>4 DEF First
<1>6. ServerFile' = file /\ Kept' = Kept \cap file.edits
  BY <1>1, <1>2 DEF ServerFile, Kept
<1>7. \/ doc = {} /\ Current' = file
      \/ doc # {} /\ Current' = Current
  BY <1>1, <1>6 DEF Current
<1>8. ViewTypeOK'
  BY <1>1, <1>2, <1>4 DEF ViewInv, ViewTypeOK
<1>9. WaitsOK(kind, stack, pipe, out)'
  BY <1>1, <1>4
<1>10. CachesInv'
  <2>1. Old(kind, stack') = Nat
    BY <1>5 DEF Old
  <2>2. \A cs : CachesNew(cs, Nat, stack', pipe', out, data, images)
    BY <1>2, <1>4, Forgiven DEF CachesNew
  <2>3. QED
    BY <1>1, <2>1, <2>2 DEF CachesInv
<1>11. SavedInv' /\ ClosedInv'
  BY <1>5 DEF SavedInv, ClosedInv
<1>12. EditsInv'
  <2>1. /\ file.edits \cup copy.edits \cup Current.edits \subseteq 1 .. nedits
        /\ Kept \subseteq Current.edits
    BY <1>5 DEF ViewInv, EditsInv, Numbered, InDocument
  <2>2. Numbered'
    BY <1>1, <1>7, <2>1 DEF Numbered
  <2>3. InDocument' /\ InFile'
    BY <1>1, <1>6, <1>7, <2>1 DEF InDocument, InFile
  <2>4. Saving' /\ Closing' /\ Editing'
    BY <1>5 DEF Saving, Closing, Editing
  <2>5. Reverting'
    BY <1>6 DEF Reverting
  <2>6. QED
    BY <2>2, <2>3, <2>4, <2>5 DEF EditsInv
<1>13. QED
  BY <1>8, <1>9, <1>10, <1>11, <1>12 DEF ViewInv

LEMMA LastOff ==
  ASSUME ViewInv, stack # <<>>, Top.answer # {}, Top.op # "data"
  PROVE  /\ Len(stack) = 1 /\ stack[1] = Top /\ Top \in Frames /\ Below = <<>>
         /\ Fits(Top, Top.answer) /\ WaitsOK(kind, <<>>, pipe, out)
         /\ Top.op = "close" => \E c \in Written : Top.temp = {c}
         /\ \A op : First(stack, op) <=> op = Top.op
         /\ Top.answer \in Coming(stack, out)
         /\ crashes = 0 => WaitsNew(Shown, {}, <<>>) /\ OutNew(Shown, {}, <<>>, pipe, out)
<1>1. /\ Len(stack) = 1 /\ stack[1] = Top /\ Top \in Frames /\ Below = <<>>
      /\ Fits(Top, Top.answer) /\ WaitsOK(kind, Below, pipe, out)
      /\ Top.op = "close" => \E c \in Written : Top.temp = {c}
  BY OnTop
<1>2. \A op : First(stack, op) <=> op = Top.op
  BY <1>1 DEF First
<1>3. Top.answer \in Coming(stack, out)
  <2>1. 1 \in 1 .. Len(stack)
    BY <1>1
  <2>2. QED
    BY <1>1, <2>1, Comers
<1>4. /\ stack \in Seq(Frames) /\ pipe \in Seq(Requests) /\ out \in Seq(Answers)
      /\ WaitsOK(kind, stack, pipe, out)
  BY DEF ViewInv, ViewTypeOK
<1>5. ASSUME crashes = 0
      PROVE  WaitsNew(Shown, {}, <<>>) /\ OutNew(Shown, {}, <<>>, pipe, out)
  <2>1. OutNew(Shown, Old(kind, stack), stack, pipe, out)
    BY <1>5 DEF ViewInv, CachesInv, CachesNew
  <2>2. stack[1].answer # {}
    BY <1>1
  <2>3. QED
    BY <1>1, <1>4, <2>1, <2>2, PoppedLast
<1>6. QED
  BY <1>1, <1>2, <1>3, <1>5

LEMMA PlainStep ==
  ASSUME ViewTypeOK', WaitsOK(kind, stack, pipe, out)', Plain(stack'),
         crashes' = 0 =>
           CachesNew(IF kind' = "local" THEN doc' ELSE {Current'}, {},
                     stack', pipe', out', data', images'),
         Numbered', Kept' \subseteq Current'.edits, InFile'
  PROVE  ViewInv'
<1>1. /\ "edit" \notin Reads /\ "revert" \notin Reads /\ "close" \notin Reads
      /\ "save" \notin Reads
  BY DEF Reads
<1>2. /\ ~ First(stack', "edit") /\ ~ First(stack', "revert")
      /\ ~ First(stack', "close") /\ ~ First(stack', "save")
  BY <1>1 DEF Plain, First
<1>3. CachesInv'
  <2>1. Shown' = IF kind' = "local" THEN doc' ELSE {Current'}
    BY <1>2 DEF Shown
  <2>2. Old(kind', stack') = {}
    BY <1>2 DEF Old
  <2>3. QED
    BY <2>1, <2>2 DEF CachesInv
<1>4. SavedInv' /\ ClosedInv'
  BY <1>2 DEF SavedInv, ClosedInv
<1>5. Saving' /\ Closing' /\ Reverting' /\ Editing'
  BY <1>2 DEF Saving, Closing, Reverting, Editing
<1>6. InDocument'
  BY DEF InDocument
<1>7. QED
  BY <1>3, <1>4, <1>5, <1>6 DEF ViewInv, EditsInv

LEMMA EditedStep ==
  ASSUME ViewInv, Edited
  PROVE  ViewInv'
<1> DEFINE p == PageOf(Top.n)
           d == [data EXCEPT ![p] = {}]
           im == NoImagesOf(p)
<1>1. /\ stack # <<>> /\ Top.op = "edit" /\ Top.answer # {}
      /\ modified' = TRUE /\ made' = made \cup {Top.n}
      /\ \/ Display(Below, p, d, im)
         \/ data' = d /\ images' = im /\ stack' = Below /\ pipe' = pipe
      /\ kind' = kind /\ file' = file /\ copy' = copy /\ doc' = doc /\ out' = out
      /\ nedits' = nedits /\ crashes' = crashes /\ lost' = lost
  BY DEF Edited, Answered, files, ghosts
<1>2. /\ pipe \in Seq(Requests) /\ out \in Seq(Answers)
      /\ images \in Seq(SightType)
      /\ Len(images) <= ImageLimit /\ data \in [0 .. NPages -> SUBSET SightType]
      /\ made \in SUBSET Nat
  BY DEF ViewInv, ViewTypeOK
<1>3. /\ stack[1] = Top /\ Top \in Frames /\ Below = <<>>
      /\ WaitsOK(kind, <<>>, pipe, out)
      /\ \A op : First(stack, op) <=> op = "edit"
      /\ Coming(stack, out) # {}
      /\ crashes = 0 => WaitsNew(Shown, {}, <<>>) /\ OutNew(Shown, {}, <<>>, pipe, out)
  BY <1>1, LastOff
<1>4. Top.n \in Nat /\ p \in Nat
  <2>1. Top.n \in Nat
    BY <1>3 DEF Frames
  <2>2. QED
    BY <2>1, PagesAssumption DEF PageOf
<1>5. /\ im \in Seq(SightType) /\ Len(im) <= Len(images) /\ Within(im, images)
      /\ \A i \in 1 .. Len(im) : im[i].page # p
  BY <1>2, OthersOf
<1>6. d \in [0 .. NPages -> SUBSET SightType] /\ Len(im) <= ImageLimit
  <2>1. d \in [0 .. NPages -> SUBSET SightType]
    BY <1>2
  <2> HIDE DEF p, d, im
  <2>2. Len(images) \in Nat /\ Len(im) \in Nat /\ ImageLimit \in Nat
    BY <1>2, <1>5, PagesAssumption
  <2>3. QED
    BY <1>2, <1>5, <2>1, <2>2
<1>7. ASSUME crashes = 0 PROVE DataNew(Shown, {}, d) /\ ImagesNew(Shown, {}, im)
  <2>1. Old(kind, stack) = {p}
    BY <1>3 DEF Old
  <2>2. DataNew(Shown, {p}, data) /\ ImagesNew(Shown, {p}, images)
    BY <1>7, <2>1 DEF ViewInv, CachesInv, CachesNew
  <2>3. DataNew(Shown, {}, d)
    BY <1>2, <2>2 DEF DataNew
  <2>4. ImagesNew(Shown, {p}, im)
    BY <1>5, <2>2, WithinNew
  <2>5. ImagesNew(Shown, {}, im)
    BY <1>5, <2>4 DEF ImagesNew
  <2>6. QED
    BY <2>3, <2>5
<1> HIDE DEF p, d, im
<1>8. /\ stack' \in Seq(Frames) /\ pipe' \in Seq(Requests)
      /\ data' = d /\ images' \in Seq(SightType) /\ Len(images') <= ImageLimit
      /\ WaitsOK(kind, stack', pipe', out) /\ Plain(stack')
      /\ crashes = 0 => CachesNew(Shown, {}, stack', pipe', out, data', images')
  <2>1. CASE Display(Below, p, d, im)
    <3>1. Display(<<>>, p, d, im)
      BY <1>3, <2>1
    <3>2. QED
      BY <1>2, <1>3, <1>4, <1>5, <1>6, <1>7, <3>1, Displayed
  <2>2. CASE data' = d /\ images' = im /\ stack' = Below /\ pipe' = pipe
    <3>1. <<>> \in Seq(Frames) /\ Plain(<<>>)
      BY DEF Plain
    <3>2. QED
      BY <1>2, <1>3, <1>5, <1>6, <1>7, <2>2, <3>1 DEF CachesNew
  <2>3. QED
    BY <1>1, <2>1, <2>2
<1>9. ServerFile' = ServerFile /\ Current' = Current
  BY <1>1 DEF ServerFile, Current
<1>10. Shown = IF kind' = "local" THEN doc' ELSE {Current'}
  BY <1>1, <1>3, <1>9 DEF Shown
<1>11. ViewTypeOK'
  BY <1>1, <1>2, <1>4, <1>6, <1>8 DEF ViewInv, ViewTypeOK
<1>12. Numbered' /\ InFile'
  BY <1>1, <1>9 DEF ViewInv, EditsInv, Numbered, InFile
<1>13. Kept' \subseteq Current'.edits
  <2>1. Top.n \in Current.edits \cup lost
    BY <1>3 DEF ViewInv, EditsInv, Editing
  <2>2. Kept \subseteq Current.edits
    BY <1>3 DEF ViewInv, EditsInv, InDocument
  <2>3. QED
    BY <1>1, <1>9, <2>1, <2>2 DEF Kept
<1>14. QED
  BY <1>1, <1>8, <1>10, <1>11, <1>12, <1>13, PlainStep

LEMMA RevertedStep ==
  ASSUME ViewInv, Reverted
  PROVE  ViewInv'
<1>1. /\ stack # <<>> /\ Top.op = "revert" /\ Top.answer # {}
      /\ Display(Below, Top.n, NoData, <<>>)
      /\ kind' = kind /\ file' = file /\ copy' = copy /\ doc' = doc /\ out' = out
      /\ modified' = modified /\ made' = made
      /\ nedits' = nedits /\ crashes' = crashes /\ lost' = lost
  BY DEF Reverted, Answered, files, ghosts
<1>2. /\ pipe \in Seq(Requests) /\ out \in Seq(Answers)
  BY DEF ViewInv, ViewTypeOK
<1>3. /\ Top \in Frames /\ Below = <<>>
      /\ WaitsOK(kind, <<>>, pipe, out)
      /\ \A op : First(stack, op) <=> op = "revert"
      /\ crashes = 0 => WaitsNew(Shown, {}, <<>>) /\ OutNew(Shown, {}, <<>>, pipe, out)
  BY <1>1, LastOff
<1>4. PICK d, im : d = NoData /\ im = <<>>
  OBVIOUS
<1>5. /\ d \in [0 .. NPages -> SUBSET SightType] /\ im \in Seq(SightType)
      /\ Len(im) <= ImageLimit /\ Top.n \in Nat
      /\ \A cs : DataNew(cs, {}, d) /\ ImagesNew(cs, {}, im)
  BY <1>3, <1>4, PagesAssumption DEF NoData, Frames, DataNew, ImagesNew
<1>6. Display(<<>>, Top.n, d, im)
  BY <1>1, <1>3, <1>4
<1>7. /\ stack' \in Seq(Frames) /\ pipe' \in Seq(Requests)
      /\ data' = d /\ images' \in Seq(SightType) /\ Len(images') <= ImageLimit
      /\ WaitsOK(kind, stack', pipe', out) /\ Plain(stack')
      /\ crashes = 0 => CachesNew(Shown, {}, stack', pipe', out, data', images')
  BY <1>2, <1>3, <1>5, <1>6, Displayed
<1>8. ServerFile' = ServerFile /\ Current' = Current /\ Kept' = Kept
  BY <1>1 DEF ServerFile, Current, Kept
<1>9. Shown = IF kind' = "local" THEN doc' ELSE {Current'}
  BY <1>1, <1>3, <1>8 DEF Shown
<1>10. ViewTypeOK'
  BY <1>1, <1>2, <1>5, <1>7 DEF ViewInv, ViewTypeOK
<1>11. Numbered' /\ InFile' /\ Kept' \subseteq Current'.edits
  BY <1>1, <1>3, <1>8 DEF ViewInv, EditsInv, Numbered, InFile, InDocument
<1>12. QED
  BY <1>1, <1>7, <1>9, <1>10, <1>11, PlainStep

LEMMA SavedStep ==
  ASSUME ViewInv, Saved
  PROVE  ViewInv'
<1>1. /\ stack # <<>> /\ Top.op = "save" /\ Top.answer # {}
      /\ \/ \E c \in Top.answer : file' = c /\ QueryFrom(Below, "close", 0, {c}, "close")
         \/ stack' = Below /\ file' = file /\ pipe' = pipe
      /\ kind' = kind /\ copy' = copy /\ doc' = doc /\ out' = out
      /\ data' = data /\ images' = images /\ modified' = modified /\ made' = made
      /\ nedits' = nedits /\ crashes' = crashes /\ lost' = lost
  BY DEF Saved, Answered, ghosts
<1>2. /\ pipe \in Seq(Requests) /\ out \in Seq(Answers)
      /\ images \in Seq(SightType) /\ ViewTypeOK /\ kind \in {"local", "remote"}
  BY DEF ViewInv, ViewTypeOK
<1>3. /\ Fits(Top, Top.answer) /\ Below = <<>>
      /\ WaitsOK(kind, <<>>, pipe, out)
      /\ \A op : First(stack, op) <=> op = "save"
      /\ Top.answer \in Coming(stack, out)
      /\ crashes = 0 => WaitsNew(Shown, {}, <<>>) /\ OutNew(Shown, {}, <<>>, pipe, out)
  BY <1>1, LastOff
<1>4. PICK c \in Written : Top.answer = {c}
  BY <1>1, <1>3 DEF Fits, Reads
<1>5. Kept \subseteq c.edits /\ c.edits \subseteq 1 .. nedits
  BY <1>3, <1>4 DEF ViewInv, EditsInv, Saving
<1>6. /\ file.edits \cup copy.edits \cup Current.edits \subseteq 1 .. nedits
      /\ Kept \subseteq Current.edits /\ Kept' = Kept
  BY <1>1, <1>3 DEF ViewInv, EditsInv, Numbered, InDocument, Kept
<1>7. crashes = 0 => doc = {c} /\ Current = c
  BY <1>2, <1>3, <1>4, Held DEF ViewInv, SavedInv
<1>8. crashes = 0 => DataNew(Shown, {}, data) /\ ImagesNew(Shown, {}, images)
  <2>1. Old(kind, stack) = {}
    BY <1>3 DEF Old
  <2>2. QED
    BY <2>1 DEF ViewInv, CachesInv, CachesNew
<1>9. Shown = IF kind = "local" THEN doc ELSE {Current}
  BY <1>3 DEF Shown
<1>10. CASE stack' = Below /\ file' = file /\ pipe' = pipe
  <2>1. ServerFile' = ServerFile /\ Current' = Current
    BY <1>1, <1>10 DEF ServerFile, Current
  <2>2. Plain(stack') /\ stack' = <<>>
    BY <1>3, <1>10 DEF Plain
  <2>3. ViewTypeOK'
    BY <1>1, <1>10, <2>2 DEF ViewInv, ViewTypeOK
  <2>4. Numbered' /\ InFile' /\ Kept' \subseteq Current'.edits
    BY <1>1, <1>6, <1>10, <2>1 DEF ViewInv, EditsInv, Numbered, InFile
  <2>5. WaitsOK(kind, stack, pipe, out)'
    BY <1>1, <1>3, <1>10, <2>2
  <2>6. crashes' = 0 =>
          CachesNew(IF kind' = "local" THEN doc' ELSE {Current'}, {},
                    stack', pipe', out', data', images')
    BY <1>1, <1>3, <1>8, <1>9, <1>10, <2>1, <2>2 DEF CachesNew
  <2>7. QED
    BY <2>2, <2>3, <2>4, <2>5, <2>6, PlainStep
<1>11. CASE \E w \in Top.answer : file' = w /\ QueryFrom(Below, "close", 0, {w}, "close")
  <2>1. file' = c /\ QueryFrom(<<>>, "close", 0, {c}, "close")
    BY <1>3, <1>4, <1>11
  <2>2. /\ "close" \in Ops /\ 0 \in Nat /\ {c} \in SUBSET Written
        /\ (\E w \in Written : {c} = {w})
        /\ QueryFrom(<<>>, "close", 0, {c}, Asks("close"))
    BY <2>1 DEF Ops, Asks, Reads
  <2>3. /\ stack' \in Seq(Frames) /\ pipe' \in Seq(Requests)
        /\ WaitsOK(kind, stack', pipe', out) /\ Coming(stack', out) = {}
        /\ stack' # <<>> /\ stack'[1].op = "close" /\ stack'[1].temp = {c}
    BY <1>2, <1>3, <2>2, Begun
  <2>4. \A cs, old : WaitsNew(cs, {}, <<>>) /\ OutNew(cs, {}, <<>>, pipe, out)
                     => WaitsNew(cs, old, stack') /\ OutNew(cs, old, stack', pipe', out)
    BY <1>2, <1>3, <2>2, Begun
  <2>5. \A cs : WaitsNew(cs, Nat, stack') /\ OutNew(cs, Nat, stack', pipe', out)
    BY <1>2, <1>3, <2>2, Begun
  <2>6. \A op : First(stack', op) <=> op = "close"
    BY <2>3 DEF First
  <2>7. ViewTypeOK'
    BY <1>1, <2>1, <2>3 DEF ViewInv, ViewTypeOK
  <2>8. WaitsOK(kind, stack, pipe, out)'
    BY <1>1, <2>3
  <2>9. CachesInv'
    <3> SUFFICES ASSUME crashes' = 0
                 PROVE  CachesNew(Shown', Old(kind, stack'), stack', pipe', out, data, images)
      BY <1>1 DEF CachesInv
    <3>1. CASE kind = "local"
      <4>1. Old(kind, stack') = Nat
        BY <2>6, <3>1 DEF Old
      <4>2. \A cs : CachesNew(cs, Nat, stack', pipe', out, data, images)
        BY <1>2, <2>5, Forgiven DEF CachesNew
      <4>3. QED
        BY <4>1, <4>2
    <3>2. CASE kind = "remote"
      <4>1. Old(kind, stack') = {}
        BY <2>6, <3>2 DEF Old
      <4>2. Shown' = {c} /\ Shown = {c}
        BY <1>1, <1>7, <1>9, <2>3, <2>6, <3>2 DEF Shown
      <4>3. QED
        BY <1>1, <1>3, <1>8, <2>4, <4>1, <4>2 DEF CachesNew
    <3>3. QED
      BY <1>2, <3>1, <3>2
  <2>10. SavedInv' /\ ClosedInv'
    BY <1>1, <2>3, <2>6 DEF SavedInv, ClosedInv
  <2>11. \/ doc = {} /\ Current' = IF kind = "remote" THEN copy ELSE c
         \/ doc # {} /\ Current' = Current
    BY <1>1, <2>1 DEF Current, ServerFile
  <2>12. Numbered'
    BY <1>1, <1>5, <1>6, <2>1, <2>11 DEF Numbered
  <2>13. InDocument'
    <3>1. CASE doc = {} /\ kind = "remote"
      BY <1>1, <2>6, <3>1 DEF InDocument
    <3>2. CASE doc = {} /\ kind # "remote"
      BY <1>5, <1>6, <2>11, <3>2 DEF InDocument
    <3>3. CASE doc # {}
      BY <1>6, <2>11, <3>3 DEF InDocument
    <3>4. QED
      BY <3>1, <3>2, <3>3
  <2>14. InFile' /\ Closing'
    BY <1>1, <1>5, <1>6, <2>1, <2>3 DEF InFile, Closing
  <2>15. Saving' /\ Reverting' /\ Editing'
    BY <2>6 DEF Saving, Reverting, Editing
  <2>16. EditsInv'
    BY <2>12, <2>13, <2>14, <2>15 DEF EditsInv
  <2>17. QED
    BY <2>7, <2>8, <2>9, <2>10, <2>16 DEF ViewInv
<1>12. QED
  BY <1>1, <1>10, <1>11

LEMMA SaveEndsStep ==
  ASSUME ViewInv, SaveEnds
  PROVE  ViewInv'
<1>1. /\ stack # <<>> /\ Top.op = "close" /\ Top.answer # {}
      /\ data' = IF kind = "remote" THEN data ELSE NoData
      /\ images' = IF kind = "remote" THEN images ELSE <<>>
      /\ \E c \in Top.temp : copy' = IF kind = "remote" THEN c ELSE copy
      /\ modified' = FALSE /\ stack' = Below
      /\ kind' = kind /\ file' = file /\ doc' = doc /\ pipe' = pipe /\ out' = out
      /\ made' = made /\ nedits' = nedits /\ crashes' = crashes /\ lost' = lost
  BY DEF SaveEnds, Answered, ghosts
<1>2. /\ pipe \in Seq(Requests) /\ out \in Seq(Answers)
      /\ images \in Seq(SightType) /\ kind \in {"local", "remote"}
  BY DEF ViewInv, ViewTypeOK
<1>3. /\ stack[1] = Top /\ Below = <<>> /\ stack' = <<>>
      /\ WaitsOK(kind, <<>>, pipe, out)
      /\ \E w \in Written : Top.temp = {w}
      /\ \A op : First(stack, op) <=> op = "close"
      /\ Coming(stack, out) # {}
      /\ crashes = 0 => WaitsNew(Shown, {}, <<>>) /\ OutNew(Shown, {}, <<>>, pipe, out)
  BY <1>1, LastOff
<1>4. PICK c \in Written : Top.temp = {c}
  BY <1>3
<1>5. copy' = IF kind = "remote" THEN c ELSE copy
  BY <1>1, <1>4
<1>6. Kept \subseteq file.edits /\ Kept \subseteq c.edits /\ c.edits \subseteq 1 .. nedits
  BY <1>3, <1>4 DEF ViewInv, EditsInv, Closing
<1>7. kind = "remote" => doc = {}
  BY <1>3 DEF ViewInv, ClosedInv
<1>8. Current' = IF kind = "remote" THEN c ELSE Current
  BY <1>1, <1>5, <1>7 DEF Current, ServerFile
<1>9. ViewTypeOK'
  <2>1. /\ data' \in [0 .. NPages -> SUBSET SightType]
        /\ images' \in Seq(SightType) /\ Len(images') <= ImageLimit
    <3>1. CASE kind = "remote"
      BY <1>1, <3>1 DEF ViewInv, ViewTypeOK
    <3>2. CASE kind # "remote"
      BY <1>1, <3>2, PagesAssumption DEF NoData
    <3>3. QED
      BY <3>1, <3>2
  <2>2. stack' \in Seq(Frames) /\ copy' \in Written
    BY <1>3, <1>5 DEF ViewInv, ViewTypeOK
  <2>3. QED
    BY <1>1, <2>1, <2>2 DEF ViewInv, ViewTypeOK
<1>10. WaitsOK(kind, stack, pipe, out)'
  BY <1>1, <1>3
<1>11. Plain(stack')
  BY <1>3 DEF Plain
<1>12. ASSUME crashes = 0
       PROVE  CachesNew(IF kind' = "local" THEN doc' ELSE {Current'}, {},
                        stack', pipe', out', data', images')
  <2>1. CASE kind = "local"
    <3>1. Shown = doc
      BY <2>1 DEF Shown
    <3>2. \A cs : DataNew(cs, {}, NoData) /\ ImagesNew(cs, {}, <<>>)
      BY DEF NoData, DataNew, ImagesNew
    <3>3. QED
      BY <1>1, <1>3, <1>12, <2>1, <3>1, <3>2 DEF CachesNew
  <2>2. CASE kind = "remote"
    <3>1. Shown = {c} /\ Current' = c
      BY <1>3, <1>4, <1>8, <2>2 DEF Shown
    <3>2. Old(kind, stack) = {}
      BY <1>3, <2>2 DEF Old
    <3>3. DataNew(Shown, {}, data) /\ ImagesNew(Shown, {}, images)
      BY <1>12, <3>2 DEF ViewInv, CachesInv, CachesNew
    <3>4. QED
      BY <1>1, <1>3, <1>12, <2>2, <3>1, <3>3 DEF CachesNew
  <2>3. QED
    BY <1>2, <2>1, <2>2
<1>13. Numbered' /\ InFile' /\ Kept' \subseteq Current'.edits
  <2>1. /\ file.edits \cup copy.edits \cup Current.edits \subseteq 1 .. nedits
        /\ kind # "remote" => Kept \subseteq Current.edits
        /\ Kept' = Kept
    BY <1>1 DEF ViewInv, EditsInv, Numbered, InDocument, Kept
  <2>2. QED
    BY <1>1, <1>5, <1>6, <1>8, <2>1 DEF Numbered, InFile
<1>14. QED
  BY <1>1, <1>9, <1>10, <1>11, <1>12, <1>13, PlainStep

------------------------------------------------------------------------------
(* Steps of the server and of other programs.                              *)
LEMMA WriteFileStep ==
  ASSUME ViewInv, WriteFile
  PROVE  ViewInv'
<1>1. /\ file' = [rev |-> file.rev + 1, edits |-> {}] /\ made' = made \ file.edits
      /\ kind' = kind /\ copy' = copy /\ doc' = doc /\ pipe' = pipe /\ out' = out
      /\ stack' = stack /\ data' = data /\ images' = images /\ modified' = modified
      /\ nedits' = nedits /\ crashes' = crashes /\ lost' = lost
  BY DEF WriteFile, ghosts
<1>2. /\ file' \in Written /\ file'.edits = {} /\ kind \in {"local", "remote"}
      /\ nedits \in Nat
  BY <1>1 DEF ViewInv, ViewTypeOK, Written
<1>3. Kept' = Kept \ file.edits
  BY <1>1 DEF Kept
<1>4. /\ kind = "remote" => ServerFile' = ServerFile /\ Current' = Current
      /\ kind = "local" => ServerFile = file /\ ServerFile' = file'
      /\ doc # {} => Current' = Current
      /\ doc = {} => Current = ServerFile /\ Current' = ServerFile'
  BY <1>1 DEF Current, ServerFile
<1>5. ViewTypeOK'
  BY <1>1, <1>2 DEF ViewInv, ViewTypeOK
<1>6. WaitsOK(kind, stack, pipe, out)'
  BY <1>1 DEF ViewInv
<1>7. CachesInv'
  <2>1. Shown' = Shown
    BY <1>1, <1>2, <1>4 DEF Shown
  <2>2. QED
    BY <1>1, <2>1 DEF ViewInv, CachesInv
<1>8. SavedInv' /\ ClosedInv'
  BY <1>1 DEF ViewInv, SavedInv, ClosedInv
<1>9. EditsInv'
  <2>1. EditsInv
    BY DEF ViewInv
  <2>2. Numbered'
    BY <1>1, <1>2, <1>4, <2>1 DEF EditsInv, Numbered
  <2>3. InDocument'
    <3>1. CASE Kept \subseteq Current.edits
      BY <1>2, <1>3, <1>4, <3>1 DEF InDocument
    <3>2. CASE kind = "remote" /\ First(stack, "close") /\ doc = {}
      BY <1>1, <3>2 DEF InDocument
    <3>3. QED
      BY <2>1, <3>1, <3>2 DEF EditsInv, InDocument
  <2>4. InFile' /\ Saving' /\ Closing'
    BY <1>1, <1>2, <1>3, <2>1 DEF EditsInv, InFile, Saving, Closing
  <2>5. Reverting'
    BY <1>1, <1>2, <1>3, <1>4, <2>1 DEF EditsInv, Reverting
  <2>6. Editing'
    <3> SUFFICES ASSUME First(stack, "edit")
                 PROVE  /\ stack[1].n = nedits /\ nedits > 0
                        /\ file'.edits \cup copy.edits \subseteq 1 .. nedits - 1
                        /\ Coming(stack, out) # {} => nedits \in Current'.edits \cup lost
      BY <1>1 DEF Editing
    <3>1. /\ stack[1].n = nedits /\ nedits > 0
          /\ file.edits \cup copy.edits \subseteq 1 .. nedits - 1
          /\ Coming(stack, out) # {} => nedits \in Current.edits \cup lost
      BY <2>1 DEF EditsInv, Editing
    <3>2. nedits \notin file.edits
      BY <1>2, <3>1
    <3>3. QED
      BY <1>2, <1>4, <3>1, <3>2
  <2>7. QED
    BY <2>2, <2>3, <2>4, <2>5, <2>6 DEF EditsInv
<1>10. QED
  BY <1>5, <1>6, <1>7, <1>8, <1>9 DEF ViewInv

LEMMA CrashStep ==
  ASSUME ViewInv, Crash
  PROVE  ViewInv'
<1>1. /\ crashes' = crashes + 1 /\ doc' = {} /\ pipe' = <<>> /\ out' = <<>>
      /\ stack' = Those(stack, {f \in ToSet(stack) : f.answer # {}})
      /\ lost' = lost \cup ((Current.edits \cup made) \ ServerFile.edits)
      /\ kind' = kind /\ file' = file /\ copy' = copy /\ data' = data /\ images' = images
      /\ modified' = modified /\ made' = made /\ nedits' = nedits
  BY DEF Crash, files
<1>2. /\ stack \in Seq(Frames) /\ pipe \in Seq(Requests) /\ out \in Seq(Answers)
      /\ WaitsOK(kind, stack, pipe, out) /\ crashes \in Nat /\ ViewTypeOK /\ nedits \in Nat
      /\ made \in SUBSET Nat
  BY DEF ViewInv, ViewTypeOK
<1>3. /\ stack' \in Seq(Frames) /\ WaitsOK(kind, stack', <<>>, <<>>)
      /\ Keeps(stack, out, stack', <<>>) \/ Plain(stack')
  BY <1>1, <1>2, Crashed
<1>4. ASSUME NEW op, op \notin Reads, First(stack', op)
      PROVE  First(stack, op) /\ Keeps(stack, out, stack', out')
  BY <1>1, <1>3, <1>4 DEF Plain, First, Keeps
<1>5. /\ "edit" \notin Reads /\ "revert" \notin Reads /\ "close" \notin Reads
      /\ "save" \notin Reads
  BY DEF Reads
<1>6. /\ ServerFile' = ServerFile /\ Current' = ServerFile
      /\ Kept' \subseteq Kept /\ Kept' \subseteq ServerFile.edits
  BY <1>1 DEF ServerFile, Current, Kept
<1>7. ViewTypeOK'
  <2>1. lost' \in SUBSET Nat
    <3>1. Current.edits \subseteq Nat /\ lost \in SUBSET Nat
      BY <1>2, Held DEF Written, ViewTypeOK
    <3>2. QED
      BY <1>1, <1>2, <3>1
  <2>2. pipe' \in Seq(Requests) /\ out' \in Seq(Answers) /\ crashes' \in Nat
    BY <1>1, <1>2
  <2>3. QED
    BY <1>1, <1>2, <1>3, <2>1, <2>2 DEF ViewTypeOK
<1>8. WaitsOK(kind, stack, pipe, out)'
  BY <1>1, <1>3
<1>9. CachesInv' /\ SavedInv'
  <2>1. crashes' # 0
    BY <1>1, <1>2
  <2>2. QED
    BY <2>1 DEF CachesInv, SavedInv
<1>10. ClosedInv'
  BY <1>1 DEF ClosedInv
<1>11. EditsInv'
  <2>1. EditsInv
    BY DEF ViewInv
  <2>2. Numbered'
    BY <1>1, <1>2, <1>6, <2>1, Held DEF EditsInv, Numbered
  <2>3. InDocument' /\ InFile' /\ Reverting'
    BY <1>1, <1>6, <2>1 DEF EditsInv, InDocument, InFile, Reverting
  <2>4. Saving'
    BY <1>1, <1>4, <1>5, <1>6, <2>1 DEF EditsInv, Saving, Keeps
  <2>5. Closing'
    BY <1>1, <1>4, <1>5, <1>6, <2>1 DEF EditsInv, Closing, Keeps
  <2>6. Editing'
    <3> SUFFICES ASSUME First(stack', "edit")
                 PROVE  /\ stack'[1].n = nedits /\ nedits > 0
                        /\ file.edits \cup copy.edits \subseteq 1 .. nedits - 1
                        /\ Coming(stack', out') # {} => nedits \in lost'
      BY <1>1 DEF Editing
    <3>1. First(stack, "edit") /\ Keeps(stack, out, stack', out')
      BY <1>4, <1>5
    <3>2. /\ stack[1].n = nedits /\ nedits > 0
          /\ file.edits \cup copy.edits \subseteq 1 .. nedits - 1
          /\ Coming(stack, out) # {} => nedits \in Current.edits \cup lost
      BY <2>1, <3>1 DEF EditsInv, Editing
    <3>3. nedits \notin ServerFile.edits
      <4>1. nedits \notin 1 .. nedits - 1
        BY <1>2
      <4>2. QED
        BY <1>2, <3>2, <4>1, Held
    <3>4. QED
      BY <1>1, <3>1, <3>2, <3>3 DEF Keeps
  <2>7. QED
    BY <2>2, <2>3, <2>4, <2>5, <2>6 DEF EditsInv
<1>12. QED
  BY <1>7, <1>8, <1>9, <1>10, <1>11 DEF ViewInv

(* The first wait has no answer before the server has served its request.  *)
LEMMA NoneComing ==
  ASSUME NEW k, NEW st \in Seq(Frames), NEW pi \in Seq(Requests), NEW ou \in Seq(Answers),
         WaitsOK(k, st, pi, ou), pi # <<>>, Head(pi).to = 1
  PROVE  Coming(st, ou) = {}
<1>1. 1 \in 1 .. Len(pi) /\ Head(pi) = pi[1]
  BY TailOf
<1>2. Waits(st, 1)
  BY <1>1 DEF WaitsOK, Requested, Async
<1>3. \A a \in 1 .. Len(ou) : ou[a].to # 1
  BY <1>1 DEF WaitsOK, Single, Async
<1>4. st[1].answer = {}
  BY <1>2 DEF Waits
<1>5. QED
  BY <1>3, <1>4, Comers

LEMMA ComingFits ==
  ASSUME NEW k, NEW st, NEW pi, NEW ou, WaitsOK(k, st, pi, ou), NEW answer \in Coming(st, ou)
  PROVE  1 \in 1 .. Len(st) /\ Fits(st[1], answer)
<1>1. CASE \E a \in 1 .. Len(ou) : ou[a].to = 1 /\ ou[a].answer = answer
  BY <1>1 DEF WaitsOK, Replied, Waits, Async
<1>2. CASE 1 \in 1 .. Len(st) /\ st[1].answer = answer /\ answer # {}
  BY <1>2 DEF WaitsOK, Stacked
<1>3. QED
  BY <1>1, <1>2, Comers

(* Who asks: an edit, a save or a close is for the first wait.             *)
LEMMA Asked ==
  ASSUME NEW k, NEW st \in Seq(Frames), NEW pi \in Seq(Requests), NEW ou \in Seq(Answers),
         WaitsOK(k, st, pi, ou), pi # <<>>
  PROVE  LET h == Head(pi)
         IN  /\ h \in Requests
             /\ \/ h.to = Async /\ h.op = "read"
                \/ /\ h.to # Async /\ h.to \in 1 .. Len(st) /\ h.n = st[h.to].n
                   /\ h.op = Asks(st[h.to].op)
             /\ h.op # "read" => h.to = 1 /\ First(st, st[1].op)
             /\ h.to = 1 => st # <<>> /\ h.op = Asks(st[1].op) /\ h.n = st[1].n
             /\ k \notin Busy => h.to = 1
<1> DEFINE h == Head(pi)
<1>1. h \in Requests /\ h = pi[1] /\ 1 \in 1 .. Len(pi)
  BY TailOf
<1> HIDE DEF h
<1>2. \/ h.to = Async /\ h.op = "read"
      \/ /\ h.to # Async /\ h.to \in 1 .. Len(st) /\ h.n = st[h.to].n
         /\ h.op = Asks(st[h.to].op)
  BY <1>1 DEF WaitsOK, Requested, Waits, Async
<1>3. ASSUME h.op # "read" PROVE h.to = 1 /\ First(st, st[1].op)
  <2>1. h.to \in 1 .. Len(st) /\ h.op = Asks(st[h.to].op)
    BY <1>2, <1>3
  <2>2. st[h.to].op # "data"
    BY <1>3, <2>1 DEF Asks, Reads
  <2>3. h.to \notin 2 .. Len(st)
    BY <2>2 DEF WaitsOK, Stacked
  <2>4. h.to = 1 /\ st # <<>>
    BY <2>1, <2>3
  <2>5. QED
    BY <2>4 DEF First
<1>4. ASSUME h.to = 1 PROVE st # <<>> /\ h.op = Asks(st[1].op) /\ h.n = st[1].n
  <2>1. h.to # Async
    BY <1>4 DEF Async
  <2>2. 1 \in 1 .. Len(st)
    BY <1>2, <1>4, <2>1
  <2>3. QED
    BY <1>2, <1>4, <2>1, <2>2
<1>5. ASSUME k \notin Busy PROVE h.to = 1
  <2>1. h.to # Async /\ Len(st) <= 1
    BY <1>1, <1>5 DEF WaitsOK, Alone
  <2>2. QED
    BY <1>2, <2>1
<1>6. QED
  BY <1>1, <1>2, <1>3, <1>4, <1>5 DEF h

(* What the server does for the request that is first.                     *)
LEMMA Does ==
  ASSUME ViewInv, Serve
  PROVE  LET h == Head(pipe)
             c == Current
         IN  /\ c \in Written /\ h.n \in Nat
             /\ \E ans \in SUBSET Values :
                  /\ pipe # <<>> /\ pipe' = Tail(pipe)
                  /\ out' = Append(out, [to |-> h.to, answer |-> ans])
                  /\ \/ h.to = Async /\ IsSight(ans)
                     \/ h.to # Async /\ Fits(stack[h.to], ans)
                  /\ \/ h.op = "read" /\ doc' = {c} /\ ans = {Sight(c, h.n)}
                     \/ h.op = "edit" /\ doc' = {[c EXCEPT !.edits = @ \cup {h.n}]}
                     \/ h.op = "save" /\ doc' = {c} /\ ans = {c}
                     \/ h.op = "close" /\ doc' = {}
<1> DEFINE h == Head(pipe)
           c == Current
<1>1. /\ pipe # <<>> /\ pipe' = Tail(pipe)
      /\ \/ /\ h.op = "read" /\ doc' = {c}
            /\ out' = Append(out, [to |-> h.to, answer |-> {Sight(c, h.n)}])
         \/ /\ h.op = "edit" /\ doc' = {[c EXCEPT !.edits = @ \cup {h.n}]}
            /\ out' = Append(out, [to |-> h.to, answer |-> {"ok"}])
         \/ /\ h.op = "save" /\ doc' = {c}
            /\ out' = Append(out, [to |-> h.to, answer |-> {c}])
         \/ /\ h.op = "close" /\ doc' = {}
            /\ out' = Append(out, [to |-> h.to, answer |-> {"ok"}])
  BY DEF Serve
<1>2. /\ stack \in Seq(Frames) /\ pipe \in Seq(Requests) /\ out \in Seq(Answers)
      /\ WaitsOK(kind, stack, pipe, out) /\ ViewTypeOK
  BY DEF ViewInv, ViewTypeOK
<1>3. c \in Written
  BY <1>2, Held
<1>4. /\ h \in Requests
      /\ \/ h.to = Async /\ h.op = "read"
         \/ /\ h.to # Async /\ h.n = stack[h.to].n /\ h.op = Asks(stack[h.to].op)
            /\ stack[h.to].op \in Ops
  <2>1. /\ h \in Requests
        /\ \/ h.to = Async /\ h.op = "read"
           \/ /\ h.to # Async /\ h.to \in 1 .. Len(stack) /\ h.n = stack[h.to].n
              /\ h.op = Asks(stack[h.to].op)
    BY <1>1, <1>2, Asked
  <2>2. \A i \in 1 .. Len(stack) : stack[i].op \in Ops
    <3>1. \A i \in 1 .. Len(stack) : stack[i] \in Frames
      BY <1>2
    <3>2. QED
      BY <3>1 DEF Frames
  <2>3. QED
    BY <2>1, <2>2
<1>5. h.n \in Nat
  BY <1>4 DEF Requests
<1> HIDE DEF h, c
<1>6. Sight(c, h.n) \in SightType /\ Sight(c, h.n).page = h.n
  BY <1>3, <1>5 DEF Sight, SightType, Written
<1>7. CASE /\ h.op = "read" /\ doc' = {c}
           /\ out' = Append(out, [to |-> h.to, answer |-> {Sight(c, h.n)}])
  <2>1. h.to # Async => stack[h.to].op \in Reads
    BY <1>4, <1>7 DEF Asks, Ops
  <2>2. {Sight(c, h.n)} \in SUBSET Values
    BY <1>6 DEF Values
  <2>3. \/ h.to = Async /\ IsSight({Sight(c, h.n)})
        \/ h.to # Async /\ Fits(stack[h.to], {Sight(c, h.n)})
    BY <1>4, <1>6, <2>1 DEF IsSight, Fits
  <2>4. QED
    BY <1>1, <1>3, <1>5, <1>7, <2>2, <2>3 DEF h, c
<1>8. CASE /\ h.op = "save" /\ doc' = {c}
           /\ out' = Append(out, [to |-> h.to, answer |-> {c}])
  <2>1. h.to # Async /\ stack[h.to].op = "save"
    BY <1>4, <1>8 DEF Asks, Ops
  <2>2. Fits(stack[h.to], {c}) /\ {c} \in SUBSET Values
    BY <1>3, <2>1 DEF Fits, Reads, Values
  <2>3. QED
    BY <1>1, <1>3, <1>5, <1>8, <2>1, <2>2 DEF h, c
<1>9. CASE /\ h.op = "edit" /\ doc' = {[c EXCEPT !.edits = @ \cup {h.n}]}
           /\ out' = Append(out, [to |-> h.to, answer |-> {"ok"}])
  <2>1. h.to # Async /\ stack[h.to].op = "edit"
    BY <1>4, <1>9 DEF Asks, Ops
  <2>2. Fits(stack[h.to], {"ok"}) /\ {"ok"} \in SUBSET Values
    BY <2>1 DEF Fits, Reads, Values
  <2>3. QED
    BY <1>1, <1>3, <1>5, <1>9, <2>1, <2>2 DEF h, c
<1>10. CASE /\ h.op = "close" /\ doc' = {}
            /\ out' = Append(out, [to |-> h.to, answer |-> {"ok"}])
  <2>1. h.to # Async /\ stack[h.to].op \in {"close", "revert"}
    BY <1>4, <1>10 DEF Asks, Ops
  <2>2. Fits(stack[h.to], {"ok"}) /\ {"ok"} \in SUBSET Values
    BY <2>1 DEF Fits, Reads, Values
  <2>3. QED
    BY <1>1, <1>3, <1>5, <1>10, <2>1, <2>2 DEF h, c
<1>11. QED
  BY <1>1, <1>7, <1>8, <1>9, <1>10

LEMMA ServeStep ==
  ASSUME ViewInv, "remote" \notin Busy, Serve
  PROVE  ViewInv'
<1> DEFINE h == Head(pipe)
           c == Current
<1>1. /\ kind' = kind /\ file' = file /\ copy' = copy /\ stack' = stack /\ data' = data
      /\ images' = images /\ modified' = modified /\ made' = made
      /\ nedits' = nedits /\ crashes' = crashes /\ lost' = lost
  BY DEF Serve, files, emacs, ghosts
<1>2. /\ stack \in Seq(Frames) /\ pipe \in Seq(Requests) /\ out \in Seq(Answers)
      /\ data \in [0 .. NPages -> SUBSET SightType] /\ images \in Seq(SightType)
      /\ WaitsOK(kind, stack, pipe, out) /\ ViewTypeOK /\ kind \in {"local", "remote"}
      /\ nedits \in Nat
  BY DEF ViewInv, ViewTypeOK
<1>3. PICK ans \in SUBSET Values :
        /\ pipe # <<>> /\ pipe' = Tail(pipe)
        /\ out' = Append(out, [to |-> h.to, answer |-> ans])
        /\ \/ h.to = Async /\ IsSight(ans)
           \/ h.to # Async /\ Fits(stack[h.to], ans)
        /\ \/ h.op = "read" /\ doc' = {c} /\ ans = {Sight(c, h.n)}
           \/ h.op = "edit" /\ doc' = {[c EXCEPT !.edits = @ \cup {h.n}]}
           \/ h.op = "save" /\ doc' = {c} /\ ans = {c}
           \/ h.op = "close" /\ doc' = {}
  BY Does
<1>4. c \in Written /\ h.n \in Nat
  BY Does
<1>5. /\ \/ h.to = Async /\ h.op = "read"
         \/ h.to # Async /\ h.op = Asks(stack[h.to].op)
      /\ h.op # "read" => h.to = 1
      /\ h.to = 1 => stack # <<>> /\ h.op = Asks(stack[1].op) /\ h.n = stack[1].n
      /\ kind = "remote" => h.to = 1
  <2>1. \/ h.to = Async /\ h.op = "read"
        \/ h.to # Async /\ h.op = Asks(stack[h.to].op)
    BY <1>2, <1>3, Asked
  <2>2. h.op # "read" => h.to = 1
    BY <1>2, <1>3, Asked
  <2>3. h.to = 1 => stack # <<>> /\ h.op = Asks(stack[1].op) /\ h.n = stack[1].n
    BY <1>2, <1>3, Asked
  <2>4. kind \notin Busy => h.to = 1
    BY <1>2, <1>3, Asked
  <2>5. QED
    BY <2>1, <2>2, <2>3, <2>4
<1>6. /\ out' \in Seq(Answers) /\ pipe' \in Seq(Requests)
      /\ WaitsOK(kind, stack, pipe', out')
      /\ Coming(stack, out') \subseteq Coming(stack, out) \cup {ans}
      /\ h.to # 1 => Coming(stack, out') \subseteq Coming(stack, out)
      /\ h.to = 1 => Coming(stack, out) = {}
  <2>1. LET ou2 == Append(out, [to |-> Head(pipe).to, answer |-> ans])
        IN  /\ ou2 \in Seq(Answers) /\ Tail(pipe) \in Seq(Requests)
            /\ WaitsOK(kind, stack, Tail(pipe), ou2)
    BY <1>2, <1>3, Served
  <2>2. LET ou2 == Append(out, [to |-> Head(pipe).to, answer |-> ans])
        IN  Coming(stack, ou2) \subseteq Coming(stack, out) \cup {ans}
    BY <1>2, <1>3, Served
  <2>3. LET ou2 == Append(out, [to |-> Head(pipe).to, answer |-> ans])
        IN  Head(pipe).to # 1 => Coming(stack, ou2) \subseteq Coming(stack, out)
    BY <1>2, <1>3, Served
  <2>4. h.to = 1 => Coming(stack, out) = {}
    BY <1>2, <1>3, NoneComing
  <2>5. QED
    BY <1>3, <2>1, <2>2, <2>3, <2>4
<1>7. ServerFile' = ServerFile /\ Kept' = Kept
  BY <1>1 DEF ServerFile, Kept
<1>8. /\ \A w : doc' = {w} => Current' = w
      /\ doc' = {} => Current' = ServerFile
  BY <1>7 DEF Current
<1> DEFINE w == [c EXCEPT !.edits = @ \cup {h.n}]
<1>9. w \in Written /\ w.rev = c.rev /\ w.edits = c.edits \cup {h.n}
  BY <1>4 DEF Written
<1>10. /\ doc = {} => c = ServerFile
       /\ doc # {} => doc = {c}
       /\ ServerFile = file \/ ServerFile = copy
  BY <1>2, Held
<1>11. \/ h.op = "read" /\ doc' = {c} /\ Current' = c /\ ans = {Sight(c, h.n)}
       \/ h.op = "edit" /\ doc' = {w} /\ Current' = w
       \/ h.op = "save" /\ doc' = {c} /\ Current' = c /\ ans = {c}
       \/ h.op = "close" /\ doc' = {} /\ Current' = ServerFile
  BY <1>3, <1>8
<1>12. /\ h.to = 1 => \A op : First(stack, op) => h.op = Asks(op)
       /\ h.op = "edit" => First(stack, "edit") /\ h.n = stack[1].n
       /\ h.op = "save" => First(stack, "save")
       /\ h.op = "close" => First(stack, "close") \/ First(stack, "revert")
       /\ Asks("edit") = "edit" /\ Asks("save") = "save" /\ Asks("close") = "close"
       /\ Asks("revert") = "close"
  <2>1. h.to = 1 => stack[1] \in Frames
    BY <1>2, <1>5
  <2>2. h.to = 1 => stack[1].op \in Ops
    BY <2>1 DEF Frames
  <2>3. QED
    BY <1>5, <2>2 DEF First, Asks, Ops, Reads
<1> HIDE DEF h, c, w
<1>13. ViewTypeOK'
  BY <1>1, <1>4, <1>6, <1>9, <1>11 DEF ViewInv, ViewTypeOK
<1>14. WaitsOK(kind, stack, pipe, out)'
  BY <1>1, <1>6
<1>15. CachesInv'
  <2> SUFFICES ASSUME crashes = 0
               PROVE  CachesNew(Shown', Old(kind, stack), stack, pipe', out', data, images)
    BY <1>1 DEF CachesInv
  <2> DEFINE old == Old(kind, stack)
  <2>1. CachesNew(Shown, old, stack, pipe, out, data, images)
    BY DEF ViewInv, CachesInv
  <2>2. Shown' = IF kind = "local" THEN doc'
                 ELSE IF First(stack, "close") THEN stack[1].temp ELSE {Current'}
    BY <1>1 DEF Shown
  <2>3. Shown = IF kind = "local" THEN doc
                ELSE IF First(stack, "close") THEN stack[1].temp ELSE {c}
    BY DEF Shown, c
  <2>4. ASSUME NEW s \in SightType, New(s, Shown)
        PROVE  New(s, Shown') \/ (s.page \in old /\ h.to = 1)
    <3>1. CASE h.op \in {"read", "save"}
      <4>1. Shown \subseteq Shown'
        BY <1>5, <1>10, <1>11, <1>12, <2>2, <2>3, <3>1
      <4>2. QED
        BY <2>4, <4>1 DEF New
    <3>2. CASE h.op = "edit"
      <4>1. h.to = 1 /\ First(stack, "edit") /\ ~ First(stack, "close") /\ h.n = stack[1].n
        BY <1>5, <1>12, <3>2 DEF First
      <4>2. old = {PageOf(h.n)}
        BY <4>1 DEF Old
      <4>3. Shown \subseteq {c} /\ Shown' = {w}
        BY <1>10, <1>11, <2>2, <2>3, <3>2, <4>1
      <4>4. s = Sight(c, s.page)
        BY <2>4, <4>3 DEF New
      <4>5. ASSUME s.page # PageOf(h.n) PROVE Sight(w, s.page) = Sight(c, s.page)
        BY <1>9, <4>5 DEF Sight
      <4>6. QED
        BY <4>1, <4>2, <4>3, <4>4, <4>5 DEF New
    <3>3. CASE h.op = "close"
      <4>1. s.page \in Nat /\ h.to = 1
        BY <1>5, <3>3 DEF SightType
      <4>2. CASE kind = "remote" /\ First(stack, "close")
        BY <2>2, <2>3, <2>4, <4>2
      <4>3. CASE ~ (kind = "remote" /\ First(stack, "close"))
        <5>1. old = Nat
          BY <1>2, <1>12, <3>3, <4>3 DEF Old, First
        <5>2. QED
          BY <4>1, <5>1
      <4>4. QED
        BY <4>2, <4>3
    <3>4. QED
      BY <1>11, <3>1, <3>2, <3>3
  <2>5. ASSUME h.to = Async \/ stack[h.to].op \in Reads, NEW s \in ans PROVE New(s, Shown')
    <3>1. h.op = "read"
      BY <1>5, <2>5 DEF Asks
    <3>2. doc' = {c} /\ Current' = c /\ s = Sight(c, h.n)
      BY <1>11, <2>5, <3>1
    <3>3. c \in Shown'
      <4>1. CASE kind = "local"
        BY <2>2, <3>2, <4>1
      <4>2. CASE kind = "remote"
        <5>1. ~ First(stack, "close")
          BY <1>5, <1>12, <3>1, <4>2
        <5>2. Shown' = {Current'}
          BY <2>2, <4>2, <5>1
        <5>3. QED
          BY <3>2, <5>2
      <4>3. QED
        BY <1>2, <4>1, <4>2
    <3>4. s = Sight(c, s.page)
      BY <3>2 DEF Sight
    <3>5. QED
      BY <3>3, <3>4 DEF New
  <2> HIDE DEF old
  <2>6. CachesNew(Shown', old, stack, Tail(pipe),
                  Append(out, [to |-> Head(pipe).to, answer |-> ans]), data, images)
    BY <1>2, <1>3, <2>1, <2>4, <2>5, ServedNew DEF h
  <2>7. QED
    BY <1>3, <2>6 DEF old, h
<1>16. SavedInv'
  <2> SUFFICES ASSUME crashes = 0, First(stack, "save"), NEW x \in Coming(stack, out')
               PROVE  doc' = x
    BY <1>1 DEF SavedInv
  <2>1. CASE h.to = 1
    BY <1>6, <1>11, <1>12, <2>1
  <2>2. CASE h.to # 1
    <3>1. h.op = "read" /\ x \in Coming(stack, out)
      BY <1>5, <1>6, <2>2
    <3>2. doc = x
      BY <3>1 DEF ViewInv, SavedInv
    <3>3. Fits(stack[1], x)
      BY <1>2, <3>1, ComingFits
    <3>4. x # {}
      BY <3>3 DEF First, Fits, Reads
    <3>5. QED
      BY <1>10, <1>11, <3>1, <3>2, <3>4
  <2>3. QED
    BY <2>1, <2>2
<1>17. ClosedInv'
  <2> SUFFICES ASSUME First(stack, "close"), kind = "remote" PROVE doc' = {}
    BY <1>1 DEF ClosedInv
  <2>1. QED
    BY <1>5, <1>11, <1>12
<1>18. EditsInv'
  <2>1. EditsInv
    BY DEF ViewInv
  <2>2. file.edits \cup copy.edits \cup c.edits \subseteq 1 .. nedits
    BY <2>1 DEF EditsInv, Numbered, c
  <2>3. Numbered'
    <3>1. CASE h.op = "edit"
      <4>1. h.n \in 1 .. nedits
        BY <1>2, <1>12, <2>1, <3>1 DEF EditsInv, Editing
      <4>2. QED
        BY <1>1, <1>9, <1>11, <2>2, <3>1, <4>1 DEF Numbered
    <3>2. CASE h.op # "edit"
      BY <1>1, <1>10, <1>11, <2>2, <3>2 DEF Numbered
    <3>3. QED
      BY <3>1, <3>2
  <2>4. (kind = "remote" /\ First(stack, "close") /\ doc = {}) \/ Kept \subseteq c.edits
    BY <2>1 DEF EditsInv, InDocument, c
  <2>5. InDocument'
    <3>1. CASE h.op = "close"
      <4>1. CASE First(stack, "revert")
        BY <1>7, <1>11, <2>1, <3>1, <4>1 DEF EditsInv, Reverting, InDocument
      <4>2. CASE First(stack, "close") /\ kind = "remote"
        BY <1>1, <1>11, <3>1, <4>2 DEF InDocument
      <4>3. CASE First(stack, "close") /\ kind # "remote"
        <5>1. ServerFile = file
          BY <4>3 DEF ServerFile
        <5>2. QED
          BY <1>7, <1>11, <2>1, <3>1, <4>3, <5>1 DEF EditsInv, Closing, InDocument
      <4>4. QED
        BY <1>12, <3>1, <4>1, <4>2, <4>3
    <3>2. CASE h.op # "close"
      <4>1. ~ (kind = "remote" /\ First(stack, "close"))
        BY <1>5, <1>12, <3>2
      <4>2. Kept \subseteq c.edits /\ c.edits \subseteq Current'.edits
        BY <1>9, <1>11, <2>4, <3>2, <4>1
      <4>3. QED
        BY <1>7, <4>2 DEF InDocument
    <3>3. QED
      BY <3>1, <3>2
  <2>6. InFile' /\ Closing' /\ Reverting'
    BY <1>1, <1>7, <2>1 DEF EditsInv, InFile, Closing, Reverting
  <2>7. Saving'
    <3> SUFFICES ASSUME First(stack, "save"), NEW x \in Coming(stack, out'), NEW v \in x
                 PROVE  Kept \subseteq v.edits /\ v.edits \subseteq 1 .. nedits
      BY <1>1, <1>7 DEF Saving
    <3>1. CASE h.to = 1
      <4>1. v = c
        BY <1>6, <1>11, <1>12, <3>1
      <4>2. ~ First(stack, "close")
        BY DEF First
      <4>3. QED
        BY <2>2, <2>4, <4>1, <4>2
    <3>2. CASE h.to # 1
      BY <1>6, <2>1, <3>2 DEF EditsInv, Saving
    <3>3. QED
      BY <3>1, <3>2
  <2>8. Editing'
    <3> SUFFICES ASSUME First(stack, "edit"), Coming(stack, out') # {}
                 PROVE  nedits \in Current'.edits \cup lost
      BY <1>1, <2>1 DEF EditsInv, Editing
    <3>1. CASE h.to = 1
      BY <1>9, <1>11, <1>12, <2>1, <3>1 DEF EditsInv, Editing
    <3>2. CASE h.to # 1
      <4>1. h.op = "read" /\ Coming(stack, out) # {}
        BY <1>5, <1>6, <3>2
      <4>2. QED
        BY <1>11, <2>1, <4>1 DEF EditsInv, Editing, c
    <3>3. QED
      BY <3>1, <3>2
  <2>9. QED
    BY <2>3, <2>5, <2>6, <2>7, <2>8 DEF EditsInv
<1>19. QED
  BY <1>13, <1>14, <1>15, <1>16, <1>17, <1>18 DEF ViewInv

------------------------------------------------------------------------------
LEMMA ViewInit == Init => ViewInv
<1> SUFFICES ASSUME Init PROVE ViewInv
  OBVIOUS
<1>1. /\ kind \in {"local", "remote"}
      /\ file = [rev |-> 0, edits |-> {}] /\ copy = [rev |-> 0, edits |-> {}]
      /\ doc = {} /\ pipe = <<>> /\ out = <<>> /\ stack = <<>>
      /\ data = NoData /\ images = <<>> /\ made = {} /\ modified = FALSE
      /\ nedits = 0 /\ crashes = 0 /\ lost = {}
  BY DEF Init
<1>2. \A op : ~ First(stack, op)
  BY <1>1 DEF First
<1>3. ViewTypeOK
  BY <1>1, PagesAssumption DEF ViewTypeOK, Written, NoData
<1>4. WaitsOK(kind, stack, pipe, out)
  BY <1>1 DEF WaitsOK, Stacked, Requested, Replied, Single, OnceEach, Alone
<1>5. CachesInv
  BY <1>1 DEF CachesInv, CachesNew, DataNew, ImagesNew, WaitsNew, OutNew, NoData
<1>6. SavedInv /\ ClosedInv
  BY <1>2 DEF SavedInv, ClosedInv
<1>7. EditsInv
  <2>1. Kept = {} /\ Current.edits = {}
    BY <1>1 DEF Kept, Current, ServerFile
  <2>2. QED
    BY <1>1, <1>2, <2>1 DEF EditsInv, Numbered, InDocument, InFile, Saving, Closing,
                            Reverting, Editing
<1>8. QED
  BY <1>3, <1>4, <1>5, <1>6, <1>7 DEF ViewInv

LEMMA ViewNext ==
  ASSUME "remote" \notin Busy, ViewInv, [Next]_vars
  PROVE  ViewInv'
<1>1. CASE UNCHANGED vars
  <2>1. /\ UNCHANGED <<files, doc, modified, made, ghosts>>
        /\ stack' = stack /\ pipe' = pipe /\ out' = out /\ data' = data /\ images' = images
    BY <1>1 DEF vars, emacs
  <2>2. Calm(stack, out, stack, out)
    BY SameWaits
  <2>3. /\ stack' \in Seq(Frames) /\ pipe' \in Seq(Requests) /\ out' \in Seq(Answers)
        /\ data' \in [0 .. NPages -> SUBSET SightType]
        /\ images' \in Seq(SightType) /\ Len(images') <= ImageLimit
        /\ WaitsOK(kind, stack', pipe', out') /\ Calm(stack, out, stack', out')
        /\ crashes = 0 =>
             CachesNew(Shown, Old(kind, stack), stack', pipe', out', data', images')
    BY <2>1, <2>2 DEF ViewInv, ViewTypeOK, CachesInv
  <2>4. QED
    BY <2>1, <2>3, CalmStep
<1>2. ASSUME NEW p \in Pages, Redisplay(p) \/ Prefetch(p) \/ Revert(p) PROVE ViewInv'
  BY <1>2, RedisplayStep, PrefetchStep, RevertStep
<1>3. ASSUME NEW p \in 0 .. NPages, Lookup(p) PROVE ViewInv'
  BY <1>3, LookupStep
<1>4. CASE Edit \/ Save \/ Edited \/ Saved \/ SaveEnds \/ Reverted
  BY <1>4, EditStep, SaveStep, EditedStep, SavedStep, SaveEndsStep, RevertedStep
<1>5. CASE DataArrives \/ SizeArrives \/ ImageArrives \/ Deliver
  BY <1>5, DataArrivesStep, SizeArrivesStep, ImageArrivesStep, DeliverStep
<1>6. CASE Serve \/ Crash \/ WriteFile
  BY <1>6, ServeStep, CrashStep, WriteFileStep
<1>7. QED
  BY <1>1, <1>2, <1>3, <1>4, <1>5, <1>6 DEF Next

LEMMA ViewAlways ==
  ASSUME "remote" \notin Busy
  PROVE  Spec => []ViewInv
<1>1. ViewInv /\ [Next]_vars => ViewInv'
  BY ViewNext
<1>2. QED
  BY <1>1, ViewInit, PTL DEF Spec

(* When no command is under way the caches hold what the server would      *)
(* answer now, whatever was prefetched, looked up, edited, saved and       *)
(* reverted while other queries waited, and never too many images.         *)
THEOREM CachesAreCurrent ==
  ASSUME "remote" \notin Busy
  PROVE  Spec => []CacheCurrent
<1>1. ViewInv => CacheCurrent
  <2> SUFFICES ASSUME ViewInv PROVE CacheCurrent
    OBVIOUS
  <2>1. Len(images) <= ImageLimit /\ kind \in {"local", "remote"} /\ ViewTypeOK
    BY DEF ViewInv, ViewTypeOK
  <2>2. ASSUME TopLevel, crashes = 0
        PROVE  /\ \A p \in 0 .. NPages : data[p] \subseteq {Sight(Current, p)}
               /\ \A i \in DOMAIN images : images[i] = Sight(Current, images[i].page)
    <3>1. stack = <<>>
      BY <2>2 DEF TopLevel
    <3>2. DataNew(Shown, {}, data) /\ ImagesNew(Shown, {}, images)
      BY <2>2, <3>1, AtTop DEF ViewInv, CachesInv, CachesNew
    <3>3. Shown \subseteq {Current}
      BY <2>1, <3>1, Held DEF Shown, First
    <3>4. images \in Seq(SightType)
      BY <2>1 DEF ViewTypeOK
    <3>5. QED
      BY <3>2, <3>3, <3>4 DEF DataNew, ImagesNew, New
  <2>3. QED
    BY <2>1, <2>2 DEF CacheCurrent
<1>2. QED
  BY <1>1, ViewAlways, PTL

(* An edit that was made and neither discarded nor lost in a crash is in   *)
(* the server's document, and in the file once the buffer counts as saved. *)
THEOREM EditsAreKept ==
  ASSUME "remote" \notin Busy
  PROVE  Spec => []EditsKept
<1>1. ViewInv => EditsKept
  <2> SUFFICES ASSUME ViewInv, TopLevel
               PROVE  /\ made \ lost \subseteq Current.edits \cup lost
                      /\ ~ modified => made \ lost \subseteq file.edits
    BY DEF EditsKept
  <2>1. ~ First(stack, "close")
    BY DEF TopLevel, First
  <2>2. QED
    BY <2>1 DEF ViewInv, EditsInv, InDocument, InFile, Kept
<1>2. QED
  BY <1>1, ViewAlways, PTL
==============================================================================
