---------------------------- MODULE PdfInfoWire ----------------------------
(***************************************************************************)
(* How a query of the PDF client becomes a command of the server and the   *)
(* server's answer a Lisp value again (pdf-info-query of pdf-info.el, the  *)
(* main loop and command_arg_parse of epdfinfo.c), in the formats of       *)
(* PdfInfoText.                                                            *)
(***************************************************************************)
EXTENDS PdfInfoText

CONSTANTS Letters,   \* characters of texts besides those the formats use
          MaxText    \* the length of the longest text

Value == [c \in {"0", "1", "2", "-1"} |->       \* the numbers
            CASE c = "0" -> 0 [] c = "1" -> 1 [] c = "2" -> 2 [] OTHER -> -1]
Colour == "#000000"
Chars == Letters \cup {NL, Colon, Back, Dot, "n"}
Texts == SeqOf(Chars, MaxText)

VARIABLES query,     \* what pdf-info-query is called with: command, arguments
          lines,     \* what the client has written to the server
          args,      \* what command_arg_split makes of it
          answer,    \* what the server answers: records or a message
          out,       \* what the server has written
          result     \* what the client reads

vars == <<query, lines, args, answer, out, result>>

None == [kind |-> "none"]       \* what has not happened yet
Done(x) == x # None
-----------------------------------------------------------------------------
(* The arguments a command expects (the tables cmd_*_spec), for one        *)
(* command of each kind.                                                   *)
Commands ==
  [ping     |-> <<"STRING">>,
   open     |-> <<"NONEMPTY_STRING", "STRING">>,
   features |-> <<>>,
   gettext  |-> <<"DOC", "NATNUM", "EDGES", "NATNUM">>,
   charlayout     |-> <<"DOC", "NATNUM", "EDGES_OR_POSITION">>,
   getattachments |-> <<"DOC", "BOOL">>,
   setoptions     |-> <<"DOC", "REST">>]
OpenFile == <<"file">>          \* the name of the one file there is

(* parse_double_list: exactly so many numbers, with white space between    *)
(* and none behind.                                                        *)
Numbers(text, n) ==
  LET words == SelectSeq(text, LAMBDA c : c # " ")
  IN IF Len(words) = n /\ Last(text) # " " /\ ToSet(words) \subseteq DOMAIN Value
     THEN [i \in 1 .. n |-> Value[words[i]]] ELSE <<>>
Rectangle(text) == Numbers(text, 4)

(* command_arg_parse_arg: whether a text is an argument of a type.  An     *)
(* empty text is the number 0 for strtol.                                  *)
Parses(text, type) ==
  CASE type = "STRING" -> TRUE
    [] type = "NONEMPTY_STRING" -> text # <<>>
    [] type = "DOC"    -> text = OpenFile
    [] type = "BOOL"   -> text \in {<<"0">>, <<"1">>}
    [] type = "NATNUM" -> text = <<>> \/ (\E c \in DOMAIN Value :
                                            text = <<c>> /\ Value[c] >= 0)
    [] type = "EDGE"   -> text = <<>> \/ (\E c \in DOMAIN Value :
                                            text = <<c>> /\ Value[c] \in 0 .. 1)
    [] type = "COLOR"  -> text = <<Colour>>
    [] type = "EDGES"  -> LET r == Rectangle(text)
                          IN r # <<>> /\ \A i \in 1 .. 4 : r[i] \in 0 .. 1
    [] type = "EDGES_OR_POSITION" ->
         LET r == Rectangle(text)
         IN r # <<>> /\ \A i \in 1 .. 4 : r[i] <= 1 /\ (i <= 2 => r[i] >= 0)

(* command_arg_parse: the number of arguments, then each in turn.          *)
TakesRest(spec) == spec # <<>> /\ Last(spec) = "REST"
Fits(n, spec)   == IF TakesRest(spec) THEN n >= Len(spec) - 1 ELSE n = Len(spec)
Accepted(given, spec) ==
  spec # <<>> =>
    /\ Fits(Len(given), spec)
    /\ \A i \in 1 .. Len(spec) : spec[i] # "REST" => Parses(given[i], spec[i])

(* The messages of errors name the command or the argument, raw.           *)
Culprit(given, cmd) ==
  LET spec == Commands[cmd]
      bad == {i \in DOMAIN spec : spec[i] # "REST" /\ ~ Parses(given[i], spec[i])}
  IN IF ~ Fits(Len(given), spec) THEN <<cmd>>
     ELSE given[CHOOSE i \in bad : \A j \in bad : i <= j]
-----------------------------------------------------------------------------
(* The queries: any text to a command that takes texts, and arguments      *)
(* right and wrong to the others.                                          *)
OddTexts == {<<>>, <<"0">>, <<"2">>, <<"-1">>, <<"1", "a">>,
             <<"0", " ", "0", " ", "1", " ", "1">>,
             <<"0", " ", "1", " ", "-1", " ", "-1">>,
             <<"0", " ", "1", " ", "1", " ">>,
             <<"0", " ", "2", " ", "1", " ", "1">>}
Queries ==
  {<<<<"ping">>, t>> : t \in Texts} \cup {<<<<"ping">>>>, <<<<"features">>>>}
    \cup {<<<<"ping">>, <<>>, t>> : t \in Texts} \cup {<<t>> : t \in Texts \ {<<>>}}
    \cup {<<<<"open">>, t, <<>>>> : t \in OddTexts}
    \cup {<<<<"gettext">>, OpenFile, m, t, n>> :
            m \in OddTexts, t \in OddTexts, n \in {<<>>, <<"-1">>}}
    \cup {<<<<"charlayout">>, OpenFile, <<"1">>, t>> : t \in OddTexts}
    \cup {<<<<"getattachments">>, t, b>> : t \in Texts \cup {OpenFile}, b \in OddTexts}
    \cup {<<<<"setoptions">>, OpenFile>>, <<<<"setoptions">>>>}
    \cup {<<<<"setoptions">>, OpenFile, s, t>> : s \in OddTexts, t \in OddTexts}

(* What the commands answer is no matter of the format: any few records.   *)
Answers(cmd, given) ==
  CASE cmd = "ping" -> {<< <<given[1]>> >>}
    [] cmd = "features" -> {<<>>} \cup {<<r>> : r \in {<<s, t>> : s \in Texts, t \in Texts}}
                           \cup {<<<<s>>, <<t>>>> : s \in Texts, t \in Texts}
    [] OTHER        -> {<< <<(<<>>)>> >>}

Init == /\ query \in Queries
        /\ lines = None /\ args = None /\ answer = None /\ out = None /\ result = None

(* pdf-info-query writes one line.                                         *)
Send == /\ ~ Done(lines)
        /\ lines' = [kind |-> "text", text |-> QueryLine(query)]
        /\ UNCHANGED <<query, args, answer, out, result>>

(* The main loop reads a line, splits it, looks the command up, parses the *)
(* arguments and executes it.  An empty line is skipped.                   *)
Read == /\ Done(lines) /\ ~ Done(args)
        /\ FirstLine(lines.text) # <<>>
        /\ args' = [kind |-> "list", list |-> Split(FirstLine(lines.text))]
        /\ UNCHANGED <<query, lines, answer, out, result>>
Known(list) == \E c \in DOMAIN Commands : list[1] = <<c>>
Execute ==
  /\ Done(args) /\ ~ Done(answer) /\ Known(args.list)
  /\ LET cmd   == args.list[1][1]
         given == Tail(args.list)
     IN \/ /\ Accepted(given, Commands[cmd])
           /\ \E rs \in Answers(cmd, given) : answer' = Records(rs)
        \/ /\ ~ Accepted(given, Commands[cmd])
           /\ answer' = Message(Culprit(given, cmd))
  /\ UNCHANGED <<query, lines, args, out, result>>
UnknownCommand ==
  /\ Done(args) /\ ~ Done(answer) /\ ~ Known(args.list)
  /\ answer' = Message(args.list[1])
  /\ UNCHANGED <<query, lines, args, out, result>>
Answer ==
  /\ Done(answer) /\ ~ Done(out)
  /\ out' = [kind |-> "text", text |-> Printed(answer)]
  /\ UNCHANGED <<query, lines, args, answer, result>>

(* The queue hands over what is before the cut; it is parsed.              *)
Receive ==
  /\ Done(out) /\ ~ Done(result)
  /\ AnswerEnd(out.text) > 0
  /\ result' = ParseResponse(SubSeq(out.text, 1, AnswerEnd(out.text)))
  /\ UNCHANGED <<query, lines, args, answer, out>>

Next == Send \/ Read \/ Execute \/ UnknownCommand \/ Answer \/ Receive
Spec == Init /\ [][Next]_vars
-----------------------------------------------------------------------------
(* Whatever the texts contain, the server has the arguments the client     *)
(* sent and the client reads the records or the message the server meant,  *)
(* with nothing left behind that the next query would take for its answer. *)
Arrives ==
  /\ Done(args) => args.list = query
  /\ Done(result) /\ ~ LooksEnded(answer) =>
       result = answer /\ AnswerEnd(out.text) = Len(out.text)
==============================================================================
