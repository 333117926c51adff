---------------------------- MODULE PdfInfoQueue ----------------------------
(***************************************************************************)
(* How Emacs talks to the server (pdf-info.el): pdf-info-query writes a    *)
(* line to the server's pipe and queues a closure in a transmission queue  *)
(* (tq.el); each answer that arrives is given to the closure at the head.  *)
(*                                                                         *)
(* Emacs has one thread.  A synchronous query waits in a loop around       *)
(* accept-process-output, and that call runs process filters and timers:   *)
(* callbacks and timers may query the server again (Reentrant), so waiting *)
(* queries are nested and only the innermost one looks at its condition.   *)
(* The server may die at any moment, be killed, or be told to quit.        *)
(***************************************************************************)
EXTENDS Integers, Sequences

CONSTANTS NQueries,       \* bound: queries made in a behaviour
          NStops,         \* bound: crashes, kills and quits in a behaviour
          Policy,         \* initial pdf-info-restart-process-p
          Reentrant,      \* Lisp runs while a query waits
          Split,          \* an answer may hold a line with a single dot
          Garbled         \* reading an answer may fail

ASSUME BoundsAssumption == NQueries \in Nat /\ NStops \in Nat
ASSUME PolicyAssumption == Policy \in {"nil", "t", "ask"}
ASSUME FlagsAssumption  ==
  Reentrant \in BOOLEAN /\ Split \in BOOLEAN /\ Garbled \in BOOLEAN

Ids   == 1 .. NQueries
Kinds == {"sync", "async", "quit", "quit timeout"}
None  == 0

VARIABLES queue,    \* pdf-info--queue: "never" (t), "nil" or "open"
          proc,     \* the status of the queue's process
          policy,   \* pdf-info-restart-process-p
          tq,       \* the queries whose closures wait in the queue
          inpipe,   \* queries sent that the server has not read
          outpipe,  \* answers written that Emacs has not read
          stack,    \* the calls that wait, innermost first
          kind,     \* what kind of call each query is
          state,    \* of each query: new, pending, answered, unread or dropped
          got,      \* whose answer each closure was given
          next,     \* the next query
          stops     \* crashes, kills and quits so far

server == <<queue, proc, policy, inpipe, outpipe, stops>>
client == <<tq, stack, kind, state, got, next>>
vars   == <<server, client>>
-----------------------------------------------------------------------------
Running == queue = "open" /\ proc = "run"

(* Lisp code runs at top level, or from a callback or a timer inside the   *)
(* wait of a query.                                                        *)
LispRuns == stack = <<>> \/ Reentrant

(* tq-close: the closures that wait are forgotten, the process is deleted. *)
Dropped == [q \in Ids |-> IF state[q] = "pending" THEN "dropped" ELSE state[q]]
(* Mutant of Close: the output of the old process is still read.           *)
CloseButRead ==
  /\ queue' = "nil" /\ proc' = "none"
  /\ tq' = <<>> /\ inpipe' = <<>> /\ UNCHANGED outpipe

Close ==
  /\ queue' = "nil" /\ proc' = "none"
  /\ tq' = <<>> /\ inpipe' = <<>> /\ outpipe' = <<>>

MayRestart == queue = "never" \/ policy \in {"t", "ask"}

(* pdf-info-query, up to its wait: the process runs or is started (then    *)
(* what was pending at a dead one is dropped), the line is sent, the       *)
(* closure queued.                                                         *)
Wait(k, q) == stack' = IF k = "async" THEN stack ELSE <<q>> \o stack

(* Mutant of Query: a new process, but the old queue of closures.          *)
QueryOnOldQueue(k) ==
  /\ next \in Ids /\ LispRuns
  /\ Running \/ MayRestart
  /\ queue'   = "open" /\ proc' = "run"
  /\ tq'      = Append(tq, next)
  /\ inpipe'  = Append(inpipe, next)
  /\ outpipe' = IF Running THEN outpipe ELSE <<>>
  /\ state'   = [state EXCEPT ![next] = "pending"]
  /\ kind'    = [kind EXCEPT ![next] = k]
  /\ Wait(k, next)
  /\ next' = next + 1
  /\ UNCHANGED <<policy, got>>

Query(k) ==
  /\ next \in Ids /\ LispRuns
  /\ \/ /\ Running
        /\ tq'      = Append(tq, next)
        /\ inpipe'  = Append(inpipe, next)
        /\ state'   = [state EXCEPT ![next] = "pending"]
        /\ UNCHANGED <<queue, proc, outpipe>>
     \/ /\ ~ Running /\ MayRestart
        /\ queue'   = "open" /\ proc' = "run"
        /\ tq'      = <<next>>
        /\ inpipe'  = <<next>>
        /\ outpipe' = <<>>
        /\ state'   = [Dropped EXCEPT ![next] = "pending"]
  /\ kind' = [kind EXCEPT ![next] = k]
  /\ Wait(k, next)
  /\ next' = next + 1
  /\ UNCHANGED <<policy, got>>

Ask == \E k \in {"sync", "async"} : Query(k) /\ UNCHANGED stops

(* The query fails because the server quit and may not, or cannot, be      *)
(* started: the user's no is remembered.                                   *)
QueryRefused ==
  /\ ~ Running /\ LispRuns
  /\ IF queue = "open" THEN Close
     ELSE UNCHANGED <<queue, proc, tq, inpipe, outpipe>>
  /\ state'  = Dropped
  /\ policy' = IF policy = "ask" /\ queue # "never" THEN "nil" ELSE policy
  /\ UNCHANGED <<stack, kind, got, next, stops>>

(* pdf-info-quit: the server is asked to quit, with or without a timeout.  *)
Quit(k) ==
  /\ Running /\ stops < NStops
  /\ Query(k)
  /\ stops' = stops + 1

(* pdf-info-kill, and pdf-info-quit when no server runs.                   *)
Kill ==
  /\ LispRuns /\ stops < NStops
  /\ Close
  /\ state' = Dropped
  /\ stops' = stops + 1
  /\ UNCHANGED <<policy, stack, kind, got, next>>

(* The server answers the next line; after "quit" it exits.  An answer     *)
(* with a line that is a single dot looks like two.                        *)
ServerAnswer ==
  /\ Running /\ inpipe # <<>>
  /\ LET q == Head(inpipe)
     IN IF kind[q] \in {"quit", "quit timeout"}
        THEN /\ outpipe' = Append(outpipe, q)
             /\ proc'    = "dead"
             /\ inpipe'  = <<>>
        ELSE /\ \/ outpipe' = Append(outpipe, q)
                \/ Split /\ outpipe' = outpipe \o <<q, q>>
             /\ inpipe'  = Tail(inpipe)
             /\ UNCHANGED proc
  /\ UNCHANGED <<queue, policy, stops, client>>

(* The server dies; what it has written can still be read.                 *)
Crash ==
  /\ Running /\ stops < NStops
  /\ proc' = "dead" /\ inpipe' = <<>>
  /\ stops' = stops + 1
  /\ UNCHANGED <<queue, policy, outpipe, client>>

(* Mutant of Deliver: the closure queued last gets the answer.             *)
DeliverToLast ==
  /\ queue = "open" /\ outpipe # <<>> /\ tq # <<>>
  /\ tq'      = SubSeq(tq, 1, Len(tq) - 1)
  /\ outpipe' = Tail(outpipe)
  /\ state'   = [state EXCEPT ![tq[Len(tq)]] = "answered"]
  /\ got'     = [got EXCEPT ![tq[Len(tq)]] = Head(outpipe)]
  /\ UNCHANGED <<queue, proc, policy, inpipe, stack, kind, next, stops>>

(* The answer cannot be parsed, or not be turned into the command's value: *)
(* the image file it names is gone, or it is (part of) another query's.    *)
MayFail(q) == Garbled /\ (Split \/ kind[q] \in {"sync", "async"})

(* An answer is read for the query at the head of the queue, which is      *)
(* removed before.  If reading it fails the error is caught by the filter, *)
(* and the closure is never called.                                        *)
Deliver ==
  /\ queue = "open" /\ outpipe # <<>> /\ tq # <<>>
  /\ tq'      = Tail(tq)
  /\ outpipe' = Tail(outpipe)
  /\ \/ /\ state' = [state EXCEPT ![Head(tq)] = "answered"]
        /\ got'   = [got EXCEPT ![Head(tq)] = Head(outpipe)]
     \/ /\ MayFail(Head(tq))
        /\ state' = [state EXCEPT ![Head(tq)] = "unread"]
        /\ UNCHANGED got
  /\ UNCHANGED <<queue, proc, policy, inpipe, stack, kind, next, stops>>

(* Output that nobody waits for: an error, and the text may be removed.    *)
Spurious ==
  /\ queue = "open" /\ outpipe # <<>> /\ tq = <<>>
  /\ outpipe' = <<>>
  /\ UNCHANGED <<queue, proc, policy, inpipe, client, stops>>

(* Mutant of Return: a wait ends with its answer only.                     *)
ReturnWithAnswer ==
  /\ stack # <<>> /\ state[Head(stack)] = "answered"
  /\ stack' = Tail(stack)
  /\ UNCHANGED <<server, tq, kind, state, got, next>>

(* The innermost wait ends: its answer is there, or the process of the     *)
(* queue, whichever that is by now, does not run.                          *)
Return ==
  /\ stack # <<>>
  /\ LET q == Head(stack)
     IN /\ \/ kind[q] # "quit timeout" /\ state[q] = "answered"
           \/ kind[q] = "quit timeout"
           \/ ~ Running
        /\ stack' = Tail(stack)
        /\ IF kind[q] \in {"quit", "quit timeout"}
           THEN Close /\ state' = Dropped
           ELSE UNCHANGED <<queue, proc, tq, inpipe, outpipe, state>>
  /\ UNCHANGED <<policy, kind, got, next, stops>>
-----------------------------------------------------------------------------
Init ==
  /\ queue = "never" /\ proc = "none" /\ policy = Policy
  /\ tq = <<>> /\ inpipe = <<>> /\ outpipe = <<>> /\ stack = <<>>
  /\ kind  = [q \in Ids |-> "async"]
  /\ state = [q \in Ids |-> "new"]
  /\ got   = [q \in Ids |-> None]
  /\ next  = 1
  /\ stops = 0

Next ==
  \/ Ask \/ QueryRefused \/ Quit("quit") \/ Quit("quit timeout") \/ Kill
  \/ ServerAnswer \/ Crash \/ Deliver \/ Spurious \/ Return

Spec == Init /\ [][Next]_vars

(* The server reads and answers, Emacs reads what it is sent while it      *)
(* waits, and the wait loop looks at its condition every 0.01 seconds.     *)
Fairness == WF_vars(ServerAnswer) /\ WF_vars(Deliver) /\ WF_vars(Return)
FairSpec == Spec /\ Fairness
-----------------------------------------------------------------------------
TypeOK ==
  /\ queue \in {"never", "nil", "open"} /\ proc \in {"none", "run", "dead"}
  /\ policy \in {"nil", "t", "ask"}
  /\ tq \in Seq(Ids) /\ inpipe \in Seq(Ids) /\ outpipe \in Seq(Ids)
  /\ stack \in Seq(Ids)
  /\ kind \in [Ids -> Kinds]
  /\ state \in [Ids -> {"new", "pending", "answered", "unread", "dropped"}]
  /\ got \in [Ids -> Ids \cup {None}]
  /\ next \in 1 .. NQueries + 1
  /\ stops \in 0 .. NStops

(* What is on its way, answers first, is what the closures wait for, in    *)
(* the same order; when the server has died, a beginning of it.            *)
InFlight == outpipe \o inpipe
Begins(s, t) == Len(s) <= Len(t) /\ \A i \in 1 .. Len(s) : s[i] = t[i]
Aligned ==
  /\ Begins(InFlight, tq)
  /\ Running => Len(InFlight) = Len(tq)

(* The inductive invariant: besides, the closures in the queue are those   *)
(* of the pending queries, oldest first, and the queries that were made    *)
(* are those before next.  Without a queue there are no closures.          *)
Ordered ==
  /\ \A i, j \in 1 .. Len(tq) : i < j => tq[i] < tq[j]
  /\ \A q \in Ids : state[q] = "pending" <=> \E i \in 1 .. Len(tq) : tq[i] = q
  /\ \A q \in Ids : state[q] = "new" <=> q >= next
  /\ queue # "open" => tq = <<>>
IInv == TypeOK /\ Aligned /\ Ordered

(* A closure is only ever given the answer to its own query, whatever died *)
(* or was killed, restarted and nested in between.                         *)
OwnAnswer == \A q \in Ids : got[q] \in {None, q}

(* A query that is waited for returns to its caller, with the answer or    *)
(* with an error ("The epdfinfo server quit unexpectedly",                 *)
(* pdf-info.el:387).                                                       *)
Waiting(q)  == \E i \in 1 .. Len(stack) : stack[i] = q
SyncReturns == \A q \in Ids : Waiting(q) ~> ~ Waiting(q)

(* It does so, however queries are nested and whatever dies, unless one of *)
(* the waits lost its closure, to a server that was restarted meanwhile or *)
(* to an answer that could not be read, and the server runs.               *)
Orphans ==
  Running /\ \E i \in 1 .. Len(stack) : state[stack[i]] \in {"dropped", "unread"}
ReturnsUnlessOrphaned ==
  \A q \in Ids : Waiting(q) ~> (~ Waiting(q) \/ Orphans)

(* Answers come at most once, in the order of the queries; what a dead     *)
(* server has not answered, or Emacs cannot read, is lost for good.        *)
Service == INSTANCE QueryService WITH
             st <- [q \in Ids |-> IF state[q] \in {"dropped", "unread"} THEN "lost"
                                  ELSE state[q]]
ServiceSpec == Service!Spec
=============================================================================
