------------------------------ MODULE PdfOccur ------------------------------
(***************************************************************************)
(* The search of many documents: the buffer *PDF-Occur* of pdf-occur.el    *)
(* with its own server (pdf-info-make-local-server) and the chain of       *)
(* asynchronous queries of pdf-info-local-batch-query: the callback of one *)
(* batch asks for the next, so at most one is under way.                   *)
(*                                                                         *)
(* A batch is some pages of a document.  A row of the buffer is a match    *)
(* in a batch, or the remark that a document has none.                     *)
(***************************************************************************)
EXTENDS Integers, Sequences, FiniteSets, SequencesExt, Subsequence

CONSTANTS NPages,         \* the pages of each document, documents are 1, 2, ...
          BatchSize,      \* pdf-occur-search-batch-size
          MaxMatches,     \* bound: matches in a batch
          NSearches,      \* bound: searches started in a behaviour
          NCrashes        \* bound: crashes of the server

ASSUME PagesAssumption  == NPages \in Seq(Nat \ {0})
ASSUME BatchAssumption  == BatchSize \in Nat \ {0}
ASSUME OccurBounds == {MaxMatches, NSearches, NCrashes} \subseteq Nat

Documents == DOMAIN NPages
NoAnswer  == -1
ErrorAnswer == -2

VARIABLES docs,       \* pdf-occur-search-documents
          rows,       \* tabulated-list-entries
          count,      \* pdf-occur-number-of-matches
          left,       \* pdf-occur-search-pages-left
          localServer, \* the local server: "none", "run" or "dead"
          batches,    \* the batch asked for and those to come, or <<>>
          answer,     \* to it, from the server: a number of matches
          search,     \* searches started so far
          lost,       \* the last search lost its server or a batch
          failed,     \* the last search failed before it asked anything
          crashes

occurVars == <<docs, rows, count, left, localServer, batches, answer, search, lost, failed, crashes>>
------------------------------------------------------------------------------
(* pdf-occur-create-batches: first page, last page of each, for search n.  *)
LastPage(d, i) == IF i * BatchSize < NPages[d] THEN i * BatchSize ELSE NPages[d]
BatchesOf(d, n) ==
  [i \in 1 .. (NPages[d] + BatchSize - 1) \div BatchSize |->
     [doc |-> d, first |-> (i - 1) * BatchSize + 1, last |-> LastPage(d, i), search |-> n]]
Batches(ds) == FlattenSeq([i \in DOMAIN ds |-> BatchesOf(ds[i], search + 1)])

(* The documents of S in the order of their names, which is that of their  *)
(* numbers.                                                                *)
Sorted(S) == Those([d \in Documents |-> d], S)

(* Mutant of Size: the last page is not counted.                           *)
SizeBefore(b) == b.last - b.first
Size(b) == 1 + b.last - b.first
Total(bs) ==
  LET sum[n \in 0 .. Len(bs)] == IF n = 0 THEN 0 ELSE sum[n - 1] + Size(bs[n])
  IN  sum[Len(bs)]

Row(b, i)  == [doc |-> b.doc, page |-> b.first, nth |-> i, search |-> b.search]
NoMatch(d) == [doc |-> d, page |-> 1, nth |-> 0, search |-> search]
IsMatch(r) == r.nth > 0
RowsOf(rs, d) == {r \in rs : r.doc = d}

InProgress == left > 0

(* pdf-occur-search-finished: documents without a row get one that says    *)
(* so, unless there is only one document.                                  *)
Finished(rs) ==
  /\ left' = 0
  /\ rows' = rs \cup IF Len(docs) > 1
                     THEN {NoMatch(d) : d \in {e \in ToSet(docs) : RowsOf(rs, e) = {}}}
                     ELSE {}
------------------------------------------------------------------------------
(* Mutant of Start: the old server stays, with what it was asked for.      *)
StartBeside(ds, shown, before) ==
  /\ ds # <<>> /\ search < NSearches
  /\ docs' = ds /\ rows' = {}
  /\ search' = search + 1
  /\ localServer' = "run"
  /\ batches' = batches \o Batches(ds) /\ left' = Total(Batches(ds)) /\ count' = 0
  /\ lost' = FALSE /\ failed' = FALSE
  /\ UNCHANGED <<answer, crashes>>

(* pdf-occur-revert-buffer and pdf-occur-start-search: the rows are        *)
(* cleared, the local server is started anew and what was asked of an old  *)
(* one forgotten; then the number of pages is asked for, which may fail.   *)
(* Only in the end are the counts set.                                     *)
Start(ds, shown, before) ==
  /\ ds # <<>> /\ search < NSearches
  /\ docs' = ds /\ rows' = {}
  /\ search' = search + 1
  /\ localServer' = "run" /\ answer' = NoAnswer
  /\ \/ /\ batches' = Batches(ds) /\ left' = Total(Batches(ds)) /\ count' = 0
        /\ lost' = FALSE /\ failed' = FALSE
     \/ /\ batches' = <<>> /\ left' = before /\ count' = shown
        /\ lost' = FALSE /\ failed' = TRUE
  /\ UNCHANGED crashes

(* pdf-occur-search, which sorts the documents and sets the counts to 0    *)
(* first, and the command that searches again.                             *)
Search(S) == Start(Sorted(S), 0, 0)
Revert == Start(docs, count, left)

(* The server answers, with the matches or with an error, or dies; what it *)
(* has answered can still be read.                                         *)
Answer ==
  /\ localServer = "run" /\ batches # <<>> /\ answer = NoAnswer
  /\ answer' \in 0 .. MaxMatches \cup {ErrorAnswer}
  /\ UNCHANGED <<docs, rows, count, left, localServer, batches, search, lost, failed, crashes>>

LocalCrash ==
  /\ localServer = "run" /\ crashes < NCrashes
  /\ localServer' = "dead" /\ crashes' = crashes + 1
  /\ UNCHANGED <<docs, rows, count, left, batches, answer, search, lost, failed>>

(* The consumer of pdf-occur-start-search: an error answer is signalled,   *)
(* so that nothing more is asked; else the matches are added if the        *)
(* document is still searched.                                             *)
ConsumeError ==
  /\ answer = ErrorAnswer
  /\ batches' = <<>> /\ answer' = NoAnswer /\ lost' = TRUE
  /\ UNCHANGED <<docs, rows, count, left, localServer, search, failed, crashes>>

NewRows(b) ==
  IF b.doc \in ToSet(docs) THEN rows \cup {Row(b, i) : i \in 1 .. answer} ELSE rows
NewCount(b) == IF b.doc \in ToSet(docs) THEN count + answer ELSE count

(* Mutant of AskNext: a server that is started again is not asked.         *)
AskNextOfServer ==
  /\ localServer' = "run"
  /\ batches' = IF localServer = "run" THEN Tail(batches) ELSE <<>>
  /\ UNCHANGED lost

(* The producer of pdf-info-local-batch-query asks for the next batch; a   *)
(* server that has died meanwhile is started again, or the user declines.  *)
AskNext ==
  \/ localServer' = "run" /\ batches' = Tail(batches) /\ UNCHANGED lost
  \/ localServer = "dead" /\ localServer' = "none" /\ batches' = <<>> /\ lost' = TRUE

Consume ==
  /\ answer >= 0
  /\ LET b == Head(batches)
     IN /\ count' = NewCount(b)
        /\ \/ /\ Len(batches) > 1
              /\ left' = left - Size(b) /\ rows' = NewRows(b)
              /\ AskNext
           \/ /\ Len(batches) = 1
              /\ batches' = <<>> /\ Finished(NewRows(b))
              /\ UNCHANGED <<localServer, lost>>
  /\ answer' = NoAnswer
  /\ UNCHANGED <<docs, search, failed, crashes>>

(* pdf-occur-abort-search: the server is killed.                           *)
Abort ==
  /\ InProgress
  /\ localServer' = "none" /\ batches' = <<>> /\ answer' = NoAnswer
  /\ Finished(rows)
  /\ UNCHANGED <<docs, count, search, lost, failed, crashes>>

(* Mutant of Delete: the matches deleted are still counted.                *)
DeleteRows(S) ==
  /\ ~ InProgress /\ S # {}
  /\ docs' = Those(docs, Documents \ S)
  /\ rows' = {r \in rows : r.doc \notin S}
  /\ UNCHANGED <<count, left, localServer, batches, answer, search, lost, failed, crashes>>

(* pdf-occur-tablist-do-delete, for the documents of marked rows, ...      *)
Delete(S) ==
  /\ ~ InProgress /\ S # {}
  /\ docs'  = Those(docs, Documents \ S)
  /\ rows'  = {r \in rows : r.doc \notin S}
  /\ count' = count - Cardinality({r \in rows : r.doc \in S /\ IsMatch(r)})
  /\ UNCHANGED <<left, localServer, batches, answer, search, lost, failed, crashes>>

(* ... and pdf-occur-tablist-gather-documents, which only adds documents.  *)
Gather(S) ==
  /\ search > 0 /\ S # {} /\ S \cap ToSet(docs) = {}
  /\ docs' = docs \o Sorted(S)
  /\ UNCHANGED <<rows, count, left, localServer, batches, answer, search, lost, failed, crashes>>

(* The buffer is killed, with its server and its variables.                *)
KillBuffer ==
  /\ docs' = <<>> /\ rows' = {} /\ count' = 0 /\ left' = 0
  /\ localServer' = "none" /\ batches' = <<>> /\ answer' = NoAnswer
  /\ lost' = FALSE /\ failed' = FALSE
  /\ UNCHANGED <<search, crashes>>

OccurInit ==
  /\ docs = <<>> /\ rows = {} /\ count = 0 /\ left = 0
  /\ localServer = "none" /\ batches = <<>> /\ answer = NoAnswer
  /\ search = 0 /\ lost = FALSE /\ failed = FALSE /\ crashes = 0

OccurNext ==
  \/ \E S \in SUBSET Documents : Search(S) \/ Gather(S)
  \/ \E S \in SUBSET {r.doc : r \in rows} : Delete(S)
  \/ Revert \/ Abort \/ KillBuffer
  \/ Answer \/ LocalCrash \/ ConsumeError \/ Consume

OccurSpec == OccurInit /\ [][OccurNext]_occurVars

(* The server answers what it is asked, Emacs reads what it is sent.       *)
OccurFairSpec == OccurSpec /\ WF_occurVars(Answer) /\ WF_occurVars(ConsumeError \/ Consume)
------------------------------------------------------------------------------
(* All rows are of the search that is shown: what an earlier search, which *)
(* was still under way when this one began, had asked for is never added.  *)
OwnMatches == \A r \in rows : IsMatch(r) => r.search = search

(* The header counts the rows that are matches, whatever was searched      *)
(* again, added and deleted, unless the last search could not be started.  *)
MatchesCounted == ~ failed => count = Cardinality({r \in rows : IsMatch(r)})

(* The header's pages left are those of the batches not answered yet, and  *)
(* none when the search has ended, unless it was lost.                     *)
PagesOf(b) == {<<b.doc, p>> : p \in b.first .. b.last}
PagesLeft ==
  ~ failed /\ ~ lost =>
    left = Cardinality(UNION {PagesOf(batches[i]) : i \in DOMAIN batches})

(* A search ends, unless it could not be started, an answer was an error   *)
(* or its server was lost.                                                 *)
SearchEnds == InProgress ~> (~ InProgress \/ lost \/ failed \/ localServer = "dead")
==============================================================================
