------------------------------- MODULE Emacsql -------------------------------
(***************************************************************************)
(* A connection of EmacSQL to its SQLite process: emacsql.el sends a       *)
(* statement with its length, waits until its buffer ends like a prompt    *)
(* and reads what is at the beginning of the buffer; emacsql.c answers     *)
(* statements one after another, each time after a prompt.  A wait can be  *)
(* given up, timers can make queries while another waits, and the process  *)
(* can die.                                                                *)
(*                                                                         *)
(* Output is a sequence of pieces that the pipe may cut between any two:   *)
(* the prompt, and the rows, success and error of a query's answer.        *)
(* Texts are stored with their newlines escaped (emacsql-compiler.el:110), *)
(* so that no row contains the characters of a prompt.                     *)
(***************************************************************************)
EXTENDS Integers, Sequences, FiniteSets

CONSTANTS NSql,        \* bound: queries made
          NGiveUps,    \* bound: waits that time out or are quit
          Timers       \* timers make queries while another waits

Ids    == 1 .. NSql
Prompt == [of |-> 0, is |-> "prompt"]
Piece(q, is) == [of |-> q, is |-> is]

VARIABLES made,        \* queries made so far
          stdin,       \* queries on their way to the process
          process,     \* "run" or "dead"
          stdout,      \* pieces on their way to Emacs
          buffer,      \* the connection's buffer, Killed after the sentinel
          waits,       \* the queries that wait, the innermost last
          result,      \* of each query: the query whose answer it got, or an outcome
          quiet,       \* queries made while nothing was on its way
          disturbed    \* queries during whose wait another was made

sqlVars == <<made, stdin, process, stdout, buffer, waits, result, quiet, disturbed>>

Killed  == <<Piece(0, "killed")>>
NoneYet == -1
GivenUp == -2
Failed  == -3
Wait   == waits[Len(waits)]
Waits  == {waits[i] : i \in 1 .. Len(waits)}

SqlInit ==
  /\ made = 0 /\ stdin = <<>> /\ process = "run" /\ stdout = <<>>
  /\ buffer = <<Prompt>> /\ waits = <<>>
  /\ result = [q \in Ids |-> NoneYet]
  /\ quiet = {} /\ disturbed = {}
-----------------------------------------------------------------------------
(* Mutant of Cleared: what is in the buffer stays there.                   *)
NotCleared(b) == b

(* emacsql-clear.                                                          *)
Cleared(b) == IF b = Killed THEN b ELSE <<>>

(* emacsql: clear the buffer, send the statement and wait.  A query of a   *)
(* dead connection signals an error.                                       *)
Query ==
  /\ made < NSql
  /\ waits = <<>> \/ (Timers /\ Len(waits) < 2)
  /\ made' = made + 1
  /\ IF buffer = Killed
     THEN /\ result' = [result EXCEPT ![made + 1] = Failed]
          /\ UNCHANGED <<stdin, buffer, waits, quiet, disturbed>>
     ELSE /\ buffer' = Cleared(buffer)
          /\ stdin' = IF process = "run" THEN Append(stdin, made + 1) ELSE stdin
          /\ waits' = Append(waits, made + 1)
          /\ quiet' = IF stdin = <<>> /\ stdout = <<>> THEN quiet \cup {made + 1} ELSE quiet
          /\ disturbed' = disturbed \cup Waits
          /\ UNCHANGED result
  /\ UNCHANGED <<process, stdout>>

(* The main loop of emacsql.c: one statement, its rows and whether it      *)
(* succeeded.                                                              *)
Answers(q) == {<<Piece(q, "rows"), Piece(q, "success")>>,
               <<Piece(q, "rows"), Piece(q, "error")>>,
               <<Piece(q, "error")>>}
Serve ==
  /\ process = "run" /\ stdin # <<>>
  /\ \E answer \in Answers(Head(stdin)) : stdout' = stdout \o answer \o <<Prompt>>
  /\ stdin' = Tail(stdin)
  /\ UNCHANGED <<made, process, buffer, waits, result, quiet, disturbed>>

(* buffer_read finds no memory: the statement is not read, what follows    *)
(* the prompt is taken for a length, and the process quits.                *)
NoMemory ==
  /\ process = "run" /\ stdin # <<>>
  /\ stdout' = stdout \o <<Piece(Head(stdin), "error"), Prompt, Piece(0, "error")>>
  /\ stdin' = <<>> /\ process' = "dead"
  /\ UNCHANGED <<made, buffer, waits, result, quiet, disturbed>>

Die ==
  /\ process = "run" /\ process' = "dead" /\ stdin' = <<>>
  /\ UNCHANGED <<made, stdout, buffer, waits, result, quiet, disturbed>>

(* Emacs reads some of the output, whether or not a query waits for it.    *)
Deliver ==
  /\ buffer # Killed
  /\ \E n \in 1 .. Len(stdout) :
       /\ buffer' = buffer \o SubSeq(stdout, 1, n)
       /\ stdout' = SubSeq(stdout, n + 1, Len(stdout))
  /\ UNCHANGED <<made, stdin, process, waits, result, quiet, disturbed>>

(* The process's sentinel kills the buffer.                                *)
Sentinel ==
  /\ process = "dead" /\ stdout = <<>> /\ buffer # Killed
  /\ buffer' = Killed
  /\ UNCHANGED <<made, stdin, process, stdout, waits, result, quiet, disturbed>>

(* emacsql-waiting-p: the buffer ends like a prompt, or is killed.         *)
WaitingP == buffer # <<>> /\ (buffer = Killed \/ buffer[Len(buffer)] = Prompt)

(* emacsql-parse reads a value and what follows it, which it cannot when   *)
(* the beginning was erased or the end is not there yet.                   *)
Parse ==
  LET is(i)  == IF i <= Len(buffer) THEN buffer[i].is ELSE "nothing"
      ends   == {"success", "error"}
      readable == \/ is(1) = "error"
                  \/ is(1) = "rows" /\ is(2) \in ends
  IN IF buffer # Killed /\ readable THEN buffer[1].of ELSE Failed

Return ==
  /\ waits # <<>> /\ WaitingP
  /\ result' = [result EXCEPT ![Wait] = Parse]
  /\ waits' = SubSeq(waits, 1, Len(waits) - 1)
  /\ UNCHANGED <<made, stdin, process, stdout, buffer, quiet, disturbed>>

(* emacsql-timeout, or the user quits; with a query, those it interrupted  *)
(* are not given up.                                                       *)
GiveUp ==
  /\ waits # <<>> /\ ~WaitingP
  /\ Cardinality({q \in Ids : result[q] = GivenUp}) < NGiveUps
  /\ result' = [result EXCEPT ![Wait] = GivenUp]
  /\ waits' = SubSeq(waits, 1, Len(waits) - 1)
  /\ UNCHANGED <<made, stdin, process, stdout, buffer, quiet, disturbed>>

SqlNext == Query \/ Serve \/ NoMemory \/ Die \/ Deliver \/ Sentinel \/ Return \/ GiveUp
SqlSpec == SqlInit /\ [][SqlNext]_sqlVars
-----------------------------------------------------------------------------
(* A query made while nothing of an earlier one is on its way, and that no *)
(* other interrupts, gets its own answer, or no answer and then only       *)
(* because the process died or it was given up; also after others were     *)
(* given up.                                                               *)
InStep ==
  \A q \in quiet \ disturbed :
    /\ result[q] \in {NoneYet, GivenUp, Failed, q}
    /\ result[q] = Failed => process = "dead"
==============================================================================
