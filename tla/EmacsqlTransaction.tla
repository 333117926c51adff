-------------------------- MODULE EmacsqlTransaction --------------------------
(***************************************************************************)
(* emacsql-with-transaction, run by two Emacs processes on one SQLite      *)
(* file, each with a process of its own that executes its statements.      *)
(* The body reads and makes two writes; Nested says that the writes are in *)
(* a transaction of their own inside the first.  A wait for a statement    *)
(* may time out, be quit, or end with Emacs; the statement is executed     *)
(* nevertheless.  SQLite (external) lets one connection write at a time,   *)
(* commits when no other reads, says otherwise that the database is        *)
(* locked, and outside a transaction commits each write by itself.         *)
(***************************************************************************)
EXTENDS Integers, Sequences

CONSTANTS Emacsen,     \* the processes
          Nested,      \* the writes are in a nested transaction
          NTries       \* bound: times a process finds the database locked

VARIABLES pc,          \* where each Emacs is in the macro
          lock,        \* its transaction: "none", "begun", or "shared" (has read)
          pending,     \* what each transaction wrote
          stored,      \* what is in the database of each process's writes
          tries,       \* times each Emacs found it locked
          sent         \* what nobody waits for and the process has not executed

database        == <<lock, pending, stored>>
transactionVars == <<pc, database, tries, sent>>

Writes     == {1, 2}
At(w)      == IF w = 1 THEN "write1" ELSE "write2"
Statements == {"begin", "read", "write1", "write2", "commit"}
Closings   == {"rollback", "exit"}
Ended      == {"returned", "failed"}

TransactionInit ==
  /\ pc      = [e \in Emacsen |-> "begin"] /\ lock   = [e \in Emacsen |-> "none"]
  /\ pending = [e \in Emacsen |-> {}]      /\ stored = [e \in Emacsen |-> {}]
  /\ tries   = [e \in Emacsen |-> 0]       /\ sent   = [e \in Emacsen |-> <<>>]
-----------------------------------------------------------------------------
(* The process and SQLite.  Another connection is in the way of a write if *)
(* it has written, and of a commit also if it has read.                    *)
InTransaction(e) == lock[e] # "none"
Refused(e, commits) ==
  \E d \in Emacsen \ {e} : pending[d] # {} \/ (commits /\ lock[d] = "shared")
Busy(e, s) ==
  \/ s \in {"write1", "write2"} /\ Refused(e, ~ InTransaction(e))
  \/ s = "commit" /\ InTransaction(e) /\ Refused(e, TRUE)

(* [:begin] is an error in a transaction, [:commit] outside.               *)
Wrong(e, s) ==
  \/ s = "begin" /\ InTransaction(e)
  \/ s = "commit" /\ ~ InTransaction(e)

Rollback(e) ==
  /\ lock' = [lock EXCEPT ![e] = "none"] /\ pending' = [pending EXCEPT ![e] = {}]
  /\ UNCHANGED stored

(* A statement is executed with success.  At the end of its input the      *)
(* process closes the database, which rolls back.                          *)
Execute(e, s) ==
  \/ /\ s = "begin" /\ lock' = [lock EXCEPT ![e] = "begun"]
     /\ UNCHANGED <<pending, stored>>
  \/ /\ s = "read" /\ lock' = [lock EXCEPT ![e] = IF @ = "begun" THEN "shared" ELSE @]
     /\ UNCHANGED <<pending, stored>>
  \/ \E w \in Writes :
       /\ s = At(w) /\ UNCHANGED lock
       /\ IF InTransaction(e)
          THEN pending' = [pending EXCEPT ![e] = @ \cup {w}] /\ UNCHANGED stored
          ELSE stored' = [stored EXCEPT ![e] = @ \cup {w}] /\ UNCHANGED pending
  \/ /\ s = "commit" /\ lock' = [lock EXCEPT ![e] = "none"]
     /\ stored'  = [stored EXCEPT ![e] = @ \cup pending[e]]
     /\ pending' = [pending EXCEPT ![e] = {}]
  \/ s \in Closings /\ Rollback(e)
-----------------------------------------------------------------------------
(* The macro.                                                              *)
Goes(e, to) == pc' = [pc EXCEPT ![e] = to]
After(s) == CASE s = "begin" -> "read"    [] s = "read" -> "write1"
              [] s = "write1" -> "write2" [] s = "write2" -> "commit"
              [] s = "commit" -> "returned"

(* A statement of the macro or of its body is sent and answered.           *)
Statement(e) ==
  /\ pc[e] \in Statements /\ ~ Busy(e, pc[e]) /\ ~ Wrong(e, pc[e])
  /\ Execute(e, pc[e]) /\ Goes(e, After(pc[e]))
  /\ UNCHANGED <<tries, sent>>

(* It is an error, there is another one in the body, or the user quits     *)
(* before the next statement is sent.                                      *)
BodyFails(e) ==
  /\ pc[e] \in Statements /\ Goes(e, "unwind")
  /\ UNCHANGED <<database, tries, sent>>

(* emacsql-wait times out, or is quit, before the answer.                  *)
WaitEnds(e) ==
  /\ pc[e] \in Statements /\ Goes(e, "unwind")
  /\ sent' = [sent EXCEPT ![e] = Append(@, pc[e])]
  /\ UNCHANGED <<database, tries>>

(* Mutant of Again: the transaction is begun before the loop.              *)
AgainInLoop(at) == "read"

(* Where the innermost loop begins that handles a locked database.         *)
Again(at) == IF Nested /\ at # "commit" THEN "write1" ELSE "begin"

(* emacsql-locked: roll back, which is an error without a transaction, and *)
(* run the body again.                                                     *)
Locked(e) ==
  /\ pc[e] \in Statements /\ Busy(e, pc[e]) /\ tries[e] < NTries
  /\ tries' = [tries EXCEPT ![e] = @ + 1]
  /\ Goes(e, IF InTransaction(e) THEN Again(pc[e]) ELSE "unwind")
  /\ Rollback(e) /\ UNCHANGED sent

(* The unwind form of the outer transaction, and the error of the body.    *)
Unwind(e) ==
  /\ pc[e] = "unwind" /\ Goes(e, "failed")
  /\ sent' = [sent EXCEPT ![e] = Append(@, "rollback")]
  /\ UNCHANGED <<database, tries>>

(* The process executes what nobody waits for; an error changes nothing.   *)
Late(e) ==
  /\ sent[e] # <<>> /\ sent' = [sent EXCEPT ![e] = Tail(@)]
  /\ LET s == Head(sent[e])
     IN IF Busy(e, s) \/ Wrong(e, s) THEN UNCHANGED database ELSE Execute(e, s)
  /\ UNCHANGED <<pc, tries>>

(* Emacs is killed, with or without its statement in the pipe: the process *)
(* reads what was sent and then the end of its input.                      *)
EmacsKilled(e) ==
  /\ pc[e] \notin Ended /\ Goes(e, "failed")
  /\ \/ sent' = [sent EXCEPT ![e] = Append(@, "exit")]
     \/ pc[e] \in Statements /\ sent' = [sent EXCEPT ![e] = <<pc[e], "exit">>]
  /\ UNCHANGED <<database, tries>>

(* The process is killed; Emacs notices at this or the next statement.     *)
ProcessKilled(e) ==
  /\ sent' = [sent EXCEPT ![e] = <<>>] /\ Rollback(e)
  /\ Goes(e, IF pc[e] \in Ended THEN pc[e] ELSE "failed")
  /\ UNCHANGED tries

TransactionNext ==
  \E e \in Emacsen :
    \/ Statement(e) \/ BodyFails(e) \/ WaitEnds(e) \/ Locked(e) \/ Unwind(e)
    \/ Late(e) \/ EmacsKilled(e) \/ ProcessKilled(e)

TransactionSpec == TransactionInit /\ [][TransactionNext]_transactionVars
-----------------------------------------------------------------------------
(* emacsql.el:245: "This macro can be nested indefinitely, wrapping        *)
(* everything in a single transaction at the lowest level."  Whatever is   *)
(* quit, times out or dies, of a transaction's writes the database has all *)
(* or none at any time, all when it returned, and once all that was sent   *)
(* is executed no transaction that ended is left open.                     *)
AllOrNothing ==
  \A e \in Emacsen :
    /\ stored[e] \in {{}, Writes}
    /\ pc[e] = "returned" => stored[e] = Writes
    /\ pc[e] \in Ended /\ sent[e] = <<>> => ~ InTransaction(e)
==============================================================================
