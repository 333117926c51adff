----------------------------- MODULE GoGenerate -----------------------------
(***************************************************************************)
(* The generators of init.el: go-generate-test-buffer and                  *)
(* go-generate-benchmark-internal read the functions of a Go file and      *)
(* append tests and benchmarks for them to the buffers x_test.go and       *)
(* x_benchmark_test.go, created with get-buffer-create.                    *)
(*                                                                         *)
(* A name is a pair <<stem, last letter>>.  Texts are reduced to the       *)
(* functions they declare: a declaration of the source has a name and may  *)
(* have a receiver, a test or benchmark is the name of what it is for.     *)
(***************************************************************************)
EXTENDS Integers, Sequences, FiniteSets, SequencesExt, Subsequence

CONSTANTS Stems, Letters,     \* the parts of names
          Receivers,          \* the types that may have methods
          MaxDecls,           \* bound: declarations in the source
          MaxDefs             \* bound: definitions in a generated buffer

Plain == "no receiver"
Name  == Stems \X Letters
Decl  == [recv : Receivers \cup {Plain}, name : Name]
Kinds == {"test", "bench"}

VARIABLES source,     \* the declarations of the Go buffer, in order
          package,    \* it has a package clause
          buf,        \* the two generated buffers
          disk,       \* their files: a set of at most one text
          last        \* the last command

vars == <<source, package, buf, disk, last>>

Buffer == [live : BOOLEAN, visits : BOOLEAN, header : BOOLEAN,
           defs : Seq(Seq(STRING)), modified : BOOLEAN]
NoBuffer == [live |-> FALSE, visits |-> FALSE, header |-> FALSE,
             defs |-> <<>>, modified |-> FALSE]

(* get-buffer-create: an existing buffer, or an empty one.                 *)
Get(k)   == [buf[k] EXCEPT !.live = TRUE]
Empty(b) == ~ b.header /\ b.defs = <<>>

Outcome(cmd, ok, added, reported) ==
  [cmd |-> cmd, ok |-> ok, added |-> added, reported |-> reported]
-----------------------------------------------------------------------------
(* What the search for "exported functions" finds of a declaration.  The   *)
(* group for the receiver takes letters too and is greedy, and searches    *)
(* ignore case: of a method it finds the name, of a function the last      *)
(* letter.                                                                 *)
Found(d) == IF d.recv = Plain THEN <<"", d.name[2]>> ELSE d.name

Testable(n) == n[1] # "Test" /\ n # <<"mai", "n">>
Tested == LET found == [i \in 1 .. Len(source) |-> Found(source[i])]
          IN Those(found, {n \in ToSet(found) : Testable(n)})

(* The functions to benchmark: all, with their names, but no benchmarks.   *)
Benchable(n) == n[1] # "Benchmark" /\ n # <<"mai", "n">>
Benched == LET names == [i \in 1 .. Len(source) |-> source[i].name]
           IN Those(names, {n \in ToSet(names) : Benchable(n)})

(* What follows "Benchmark_" in the name of a benchmark: every name that   *)
(* begins with a letter counts as internal, since [[:lower:]] ignores case *)
(* too; of "_x" comes "Benchmark_x".                                       *)
BenchName(n) == IF n[1] = "_" THEN <<"", n[2]>> ELSE n

(* Mutant of Missing: a benchmark counts for the names without a stem.     *)
MissingShort(b, names) ==
  Those(names, {n \in ToSet(names) : n[1] # "" \/ n \notin ToSet(b.defs)})

(* The names that have no definition in the buffer yet; what is generated  *)
(* on the way is not looked at again.                                      *)
Missing(b, names) == Those(names, ToSet(names) \ ToSet(b.defs))

(* save-buffer and gofmt: a buffer without a file asks for one, which the  *)
(* user may decline; gofmt may change the text after it was saved.         *)
Save(k, b, o) ==
  \/ /\ disk' = [disk EXCEPT ![k] = {b.defs}]
     /\ \E formatted \in BOOLEAN :
          buf' = [buf EXCEPT ![k] =
                    [b EXCEPT !.visits = TRUE, !.modified = formatted]]
     /\ last' = o
  \/ /\ ~ b.visits
     /\ buf'  = [buf EXCEPT ![k] = b]
     /\ last' = [o EXCEPT !.ok = FALSE]
     /\ UNCHANGED disk
-----------------------------------------------------------------------------
(* go-generate-test-buffer: into an empty buffer it inserts the package    *)
(* clause first, with the value of a variable that is never bound.         *)
GenerateTests ==
  LET b     == Get("test")
      add   == Missing(b, Tested)
      new   == [b EXCEPT !.defs = @ \o add, !.modified = @ \/ add # <<>>]
      o     == Outcome("test", TRUE, add, Len(Tested) - Len(b.defs))
  IN /\ UNCHANGED <<source, package>>
     /\ \/ /\ Empty(b)
           /\ buf'  = [buf EXCEPT !["test"] = b]
           /\ last' = Outcome("test", FALSE, <<>>, 0)
           /\ UNCHANGED disk
        \/ /\ ~ Empty(b) /\ Len(new.defs) <= MaxDefs
           /\ \/ new.modified /\ Save("test", new, o)
              \/ /\ ~ new.modified
                 /\ buf'  = [buf EXCEPT !["test"] = new]
                 /\ last' = o
                 /\ UNCHANGED disk

(* Mutant of GenerateBenchmarks: of the functions, only the first without  *)
(* a benchmark gets one.                                                   *)
GenerateFirstBenchmark ==
  LET b     == [Get("bench") EXCEPT !.header = TRUE]
      names == Missing(b, [i \in DOMAIN Benched |-> BenchName(Benched[i])])
      add   == SubSeq(names, 1, IF names = <<>> THEN 0 ELSE 1)
      new   == [b EXCEPT !.defs = @ \o add, !.modified = TRUE]
      o     == Outcome("bench", TRUE, add, Len(add))
  IN /\ package /\ Len(new.defs) <= MaxDefs
     /\ Save("bench", new, o)
     /\ UNCHANGED <<source, package>>

(* go-generate-benchmark-internal, as it is defined the second time.       *)
GenerateBenchmarks ==
  LET b     == Get("bench")
      add   == Missing(b, [i \in DOMAIN Benched |-> BenchName(Benched[i])])
      new   == [b EXCEPT !.header = @ \/ Empty(b), !.defs = @ \o add,
                         !.modified = @ \/ Empty(b) \/ add # <<>>]
      o     == Outcome("bench", TRUE, add, Len(add))
  IN /\ UNCHANGED <<source, package>>
     /\ \/ /\ ~ package
           /\ last' = Outcome("bench", FALSE, <<>>, 0)
           /\ UNCHANGED <<buf, disk>>
        \/ /\ package /\ Len(new.defs) <= MaxDefs
           /\ \/ add # <<>> /\ Save("bench", new, o)
              \/ /\ add = <<>>
                 /\ buf'  = [buf EXCEPT !["bench"] = new]
                 /\ last' = o
                 /\ UNCHANGED disk
-----------------------------------------------------------------------------
(* The user edits the source, in which nothing is declared twice, ...      *)
Declare(d) ==
  /\ Len(source) < MaxDecls /\ d \notin ToSet(source)
  /\ source' = Append(source, d)
  /\ last'   = Outcome("edit", TRUE, <<>>, 0)
  /\ UNCHANGED <<package, buf, disk>>

Undeclare(i) ==
  /\ source' = RemoveAt(source, i)
  /\ last'   = Outcome("edit", TRUE, <<>>, 0)
  /\ UNCHANGED <<package, buf, disk>>

(* ... visits a generated file, writes a definition or the package clause, *)
(* saves, or kills the buffer.                                             *)
Visit(k) ==
  /\ ~ buf[k].live
  /\ \E text \in disk[k] :
       buf' = [buf EXCEPT ![k] = [live |-> TRUE, visits |-> TRUE, header |-> TRUE,
                                  defs |-> text, modified |-> FALSE]]
  /\ last' = Outcome("edit", TRUE, <<>>, 0)
  /\ UNCHANGED <<source, package, disk>>

Write(k, n) ==
  /\ buf[k].live /\ Len(buf[k].defs) < MaxDefs
  /\ buf'  = [buf EXCEPT ![k].header = TRUE, ![k].defs = Append(@, n),
                         ![k].modified = TRUE]
  /\ last' = Outcome("edit", TRUE, <<>>, 0)
  /\ UNCHANGED <<source, package, disk>>

Kill(k) ==
  /\ buf[k].live
  /\ buf'  = [buf EXCEPT ![k] = NoBuffer]
  /\ last' = Outcome("edit", TRUE, <<>>, 0)
  /\ UNCHANGED <<source, package, disk>>

Init ==
  /\ source = <<>>
  /\ package \in BOOLEAN
  /\ buf  = [k \in Kinds |-> NoBuffer]
  /\ \E text \in {{}, {<<>>}} : disk = [k \in Kinds |-> text]
  /\ last = Outcome("edit", TRUE, <<>>, 0)

Next ==
  \/ GenerateTests \/ GenerateBenchmarks
  \/ \E d \in Decl : Declare(d)
  \/ \E i \in 1 .. Len(source) : Undeclare(i)
  \/ \E k \in Kinds : Visit(k) \/ Kill(k) \/ \E n \in Name : Write(k, n)

Spec == Init /\ [][Next]_vars
-----------------------------------------------------------------------------
(* When the benchmark generator has run, every function of the source has  *)
(* its benchmark, however the buffer came to be.                           *)
EveryBenchmark ==
  last.cmd = "bench" /\ last.ok =>
    \A i \in 1 .. Len(Benched) : BenchName(Benched[i]) \in ToSet(buf["bench"].defs)

(* A generator that runs again finds what it generated and adds nothing.   *)
AddsNothingAgain ==
  \A k \in Kinds : last.cmd = k /\ last.ok /\ last'.cmd = k => last'.added = <<>>
AgainNothing == [][AddsNothingAgain]_vars
=============================================================================
