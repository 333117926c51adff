------------------------------- MODULE MCParts -------------------------------
(***************************************************************************)
(* Small instances of the parts that share no state with the others: the   *)
(* configuration's own Lisp (window layout, generators, word expansion),   *)
(* the text of queries and answers between pdf-info.el and epdfinfo, the   *)
(* server's pictures of pages, opening, reading and naming in the synctex  *)
(* parser, and emacsql.  A behaviour runs one part; the variables of the   *)
(* parts stand for different things in each, "" where a part has none.     *)
(***************************************************************************)
EXTENDS WindowLayout, FiniteSets

CONSTANTS Stems, Letters, Receivers, MaxDecls, MaxDefs,      \* of GoGenerate
          WordChars, Modes, MaxText, MaxCount,               \* of ExpandFunction
          Characters, MaxLength,                             \* of PdfInfoWire
          PageWidth, PageHeight, NPages,                     \* of PdfInfoAnswers
          RenderHeight, Colours, Widths, MaxSets, MaxCommands,  \* of EpdfinfoRender
          Sizes, MinSize,                                    \* of SynctexReader
          Readers, MaxRuns,                                  \* of SynctexOpen
          NSql, NGiveUps, Timers,                            \* of Emacsql
          Emacsen, Nested, NTries                            \* of EmacsqlTransaction

ASSUME GoAssumption == /\ MaxDecls \in Nat /\ MaxDefs \in Nat
                       /\ Stems # {} /\ Letters # {}
ASSUME ExpandAssumption  == MaxText \in Nat /\ MaxCount \in Nat \ {0}
ASSUME WireAssumption    == MaxLength \in Nat
ASSUME PagesAssumption   == /\ PageWidth \in Nat \ {0, 1} /\ PageHeight \in Nat \ {0, 1}
                            /\ NPages \in Nat \ {0} /\ RenderHeight \in Nat \ {0}
ASSUME RenderAssumption  == /\ Colours \subseteq 0 .. 255 /\ Widths \subseteq Nat \ {0}
                            /\ MaxSets \in Nat /\ MaxCommands \in Nat
ASSUME ReaderAssumption  == MinSize \in Nat /\ Sizes \subseteq {n \in Nat : n >= MinSize}
ASSUME OpenAssumption    == MaxRuns \in Nat
ASSUME EmacsqlAssumption == /\ NSql \in Nat /\ NGiveUps \in Nat /\ NTries \in Nat
                            /\ Timers \in BOOLEAN /\ Nested \in BOOLEAN

VARIABLES part,                                 \* the part that runs
          v1, v2, v3, v4, v5, v6, v7, v8, v9    \* its variables

vs    == <<v1, v2, v3, v4, v5, v6, v7, v8, v9>>
parts == <<part, vs, vars>>

(* Names of sources: in the project's directory, in the directory of the   *)
(* output, with the same base name.                                        *)
Sources == {<<"a">>, <<"b">>, <<"a", "b">>, <<"b", "/", "a">>}

Go == INSTANCE GoGenerate
        WITH source <- v1, package <- v2, buf <- v3, disk <- v4, last <- v5
Expand == INSTANCE ExpandFunction
        WITH text <- v1, point <- v2, mode <- v3, old <- v4, count <- v5, outcome <- v6
Wire == INSTANCE PdfInfoWire
        WITH query <- v1, lines <- v2, args <- v3, answer <- v4, out <- v5,
             result <- v6, Letters <- Characters, MaxText <- MaxLength
Answers == INSTANCE PdfInfoAnswers
        WITH asked <- v1, records <- v2, value <- v3
(* Options that change between commands, and commands that override them.  *)
Options == INSTANCE EpdfinfoRender
        WITH page <- v1, options <- v2, sets <- v3, job <- v4, image <- v5,
             PageHeight <- RenderHeight, Greys <- {0, 255}, MaxCommands <- 0
Commands == INSTANCE EpdfinfoRender
        WITH page <- v1, options <- v2, sets <- v3, job <- v4, image <- v5,
             PageHeight <- RenderHeight, Greys <- {0}, MaxSets <- 0
Reader == INSTANCE SynctexReader
        WITH file <- v1, damaged <- v2, reader <- v3, at <- v4, scanner <- v5, cut <- v6
Open == INSTANCE SynctexOpen
        WITH tex <- v1, spaces <- v2, renames <- v3, disk <- v4, runs <- v5,
             at <- v6, names <- v7, since <- v8, read <- v9
Names == INSTANCE SynctexNames
        WITH home <- v1, output <- v2, inputs <- v3, asked <- v4, tag <- v5
Sql == INSTANCE Emacsql
        WITH made <- v1, stdin <- v2, process <- v3, stdout <- v4, buffer <- v5,
             waits <- v6, result <- v7, quiet <- v8, disturbed <- v9
Transaction == INSTANCE EmacsqlTransaction
        WITH pc <- v1, lock <- v2, pending <- v3, stored <- v4, tries <- v5,
             sent <- v6

From6 == v6 = "" /\ v7 = "" /\ v8 = "" /\ v9 = ""
From7 == v7 = "" /\ v8 = "" /\ v9 = ""

PartsInit ==
  /\ Init
  /\ \/ part = "layout" /\ v1 = "" /\ v2 = "" /\ v3 = "" /\ v4 = "" /\ v5 = "" /\ From6
     \/ part = "go" /\ Go!Init /\ From6
     \/ part = "expand" /\ Expand!Init /\ From7
     \/ part = "wire" /\ Wire!Init /\ From7
     \/ part = "answers" /\ Answers!Init /\ v4 = "" /\ v5 = "" /\ From6
     \/ part = "options" /\ Options!RenderInit /\ From6
     \/ part = "commands" /\ Commands!RenderInit /\ From6
     \/ part = "reader" /\ Reader!Init /\ From7
     \/ part = "open" /\ Open!Init
     \/ part = "names" /\ Names!Init /\ From6
     \/ part = "sql" /\ Sql!SqlInit
     \/ part = "transaction" /\ Transaction!TransactionInit /\ From7

Rest6 == UNCHANGED <<v6, v7, v8, v9>>
Rest7 == UNCHANGED <<v7, v8, v9>>

PartsNext ==
  /\ UNCHANGED part
  /\ \/ part = "layout" /\ Next /\ UNCHANGED vs
     \/ /\ UNCHANGED vars
        /\ \/ part = "go" /\ Go!Next /\ Rest6
           \/ part = "expand" /\ Expand!Next /\ Rest7
           \/ part = "wire" /\ Wire!Next /\ Rest7
           \/ part = "answers" /\ Answers!Next /\ UNCHANGED <<v4, v5>> /\ Rest6
           \/ part = "options" /\ Options!RenderNext /\ Rest6
           \/ part = "commands" /\ Commands!RenderNext /\ Rest6
           \/ part = "reader" /\ Reader!Next /\ Rest7
           \/ part = "open" /\ Open!Next
           \/ part = "names" /\ Names!Next /\ Rest6
           \/ part = "sql" /\ Sql!SqlNext
           \/ part = "transaction" /\ Transaction!TransactionNext /\ Rest7
PartsSpec == PartsInit /\ [][PartsNext]_parts
------------------------------------------------------------------------------
(* The properties of the parts, as their modules state them.               *)
EveryBenchmark == part = "go" => Go!EveryBenchmark
KeepsRest      == part = "expand" => Expand!KeepsRest
Arrives        == part = "wire" => Wire!Arrives
Understood     == part = "answers" => Answers!Understood
RendersRight   == /\ part = "options" => Options!RendersRight
                  /\ part = "commands" => Commands!RendersRight
SettingsAsWritten == part = "reader" => Reader!SettingsAsWritten
LatestRead     == part = "open" => Open!LatestRead
OwnSource      == part = "names" => Names!OwnSource
InStep         == part = "sql" => Sql!InStep
AllOrNothing   == part = "transaction" => Transaction!AllOrNothing

(* A generator that runs again finds what it generated and adds nothing.   *)
AgainNothing == [][part = "go" => Go!AddsNothingAgain]_parts
==============================================================================
