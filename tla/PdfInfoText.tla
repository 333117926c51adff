---------------------------- MODULE PdfInfoText ----------------------------
(***************************************************************************)
(* The two text formats between the PDF client and its server, each with   *)
(* escapes: the line of a query (pdf-info-query and its helpers of         *)
(* pdf-info.el, command_arg_split of epdfinfo.c) and the lines of an       *)
(* answer, which end at a single dot (print_response_string and the        *)
(* printing macros of epdfinfo, pdf-info-query--parse-response).           *)
(*                                                                         *)
(* A text is a sequence of characters.  Those that the formats treat alike *)
(* are one: the name of a command is one character, and so is a number or  *)
(* a colour.                                                               *)
(***************************************************************************)
EXTENDS Integers, SequencesExt

NL    == "newline"
Colon == ":"
Back  == "\\"
Dot   == "."
-----------------------------------------------------------------------------
(* The client's side of a query: nil is sent as the empty text.            *)

(* Mutant of EscapeChar: a backslash is sent as it is.                     *)
EscapeColonOnly(c) == CASE c = Colon -> <<Back, Colon>>
                        [] c = NL    -> <<Back, "n">>
                        [] OTHER     -> <<c>>

EscapeChar(c) == CASE c \in {Back, Colon} -> <<Back, c>>
                   [] c = NL              -> <<Back, "n">>
                   [] OTHER               -> <<c>>
Escape(text)  == FlattenSeq([i \in DOMAIN text |-> EscapeChar(text[i])])
Joined(texts) ==         \* texts that are escaped already
  FlattenSeq([i \in DOMAIN texts |-> IF i = 1 THEN texts[i] ELSE <<Colon>> \o texts[i]])
QueryLine(q) == Append(Joined([i \in DOMAIN q |-> Escape(q[i])]), NL)

(* command_arg_split: a backslash takes the meaning from the character     *)
(* that follows, except that an n becomes a newline.                       *)
Unescaped(c) == IF c = "n" THEN NL ELSE c
SplitChar(s, c) ==
  CASE s.esc     -> [s EXCEPT !.esc = FALSE, !.text = Append(@, Unescaped(c))]
    [] ~ s.esc /\ c = Back  -> [s EXCEPT !.esc = TRUE]
    [] ~ s.esc /\ c = Colon -> [s EXCEPT !.list = Append(@, s.text), !.text = <<>>]
    [] OTHER     -> [s EXCEPT !.text = Append(@, c)]

NoArgs == [list |-> <<>>, text |-> <<>>, esc |-> FALSE]
Scanned(line) ==
  LET after[n \in 0 .. Len(line)] ==
        IF n = 0 THEN NoArgs ELSE SplitChar(after[n - 1], line[n])
  IN after[Len(line)]

Split(line) ==
  LET s == Scanned(line)
  IN IF line = <<>> THEN <<>> ELSE Append(s.list, s.text)

FirstLine(text) ==
  LET ends == {i \in DOMAIN text : text[i] = NL}
  IN SubSeq(text, 1, (CHOOSE i \in ends : \A j \in ends : i <= j) - 1)
-----------------------------------------------------------------------------
(* The server's side of an answer: records, or the message of an error.    *)
Message(text) == [kind |-> "error", text |-> <<"message">> \o text]
Records(rs)   == [kind |-> "ok", records |-> rs]

PrintString(text) ==
  FlattenSeq([i \in DOMAIN text |-> CASE text[i] = NL   -> <<Back, "n">>
                                      [] text[i] \in {Back, Colon} -> <<Back, text[i]>>
                                      [] OTHER          -> <<text[i]>>])
PrintRecord(r) == Append(Joined([i \in DOMAIN r |-> PrintString(r[i])]), NL)
OkLine == <<"OK", NL>>
End    == <<Dot, NL>>
Printed(a) ==
  CASE a.kind = "ok" ->
         OkLine \o FlattenSeq([i \in DOMAIN a.records |-> PrintRecord(a.records[i])])
                \o End
    [] a.kind = "error" -> <<"ERR", NL>> \o a.text \o <<NL>> \o End

(* The client's reading: the transmission queue cuts the output behind the *)
(* first line with a single dot (0 if there is none).                      *)
EndsAt(text, i) ==
  text[i] = NL /\ i > 1 /\ text[i - 1] = Dot /\ (i = 2 \/ text[i - 2] = NL)
AnswerEnd(text) ==
  LET ends == {i \in DOMAIN text : EndsAt(text, i)}
  IN IF ends = {} THEN 0 ELSE CHOOSE i \in ends : \A j \in ends : i <= j

ReadChar(s, c) ==
  CASE s.end     -> s
    [] ~ s.end /\ s.esc ->
         [s EXCEPT !.esc = FALSE, !.text = Append(@, Unescaped(c))]
    [] ~ s.end /\ ~ s.esc /\ c = Back  -> [s EXCEPT !.esc = TRUE]
    [] ~ s.end /\ ~ s.esc /\ c = Colon ->
         [s EXCEPT !.fields = Append(@, s.text), !.text = <<>>]
    [] ~ s.end /\ ~ s.esc /\ c = NL    ->
         IF s.fields = <<>> /\ s.text = <<Dot>> THEN [s EXCEPT !.end = TRUE]
         ELSE [s EXCEPT !.records = Append(@, Append(s.fields, s.text)),
                        !.fields = <<>>, !.text = <<>>]
    [] OTHER     -> [s EXCEPT !.text = Append(@, c)]

NoRecords == [records |-> <<>>, fields |-> <<>>, text |-> <<>>,
              esc |-> FALSE, end |-> FALSE]
ReadRecords(text) ==
  LET after[n \in 0 .. Len(text)] ==
        IF n = 0 THEN NoRecords ELSE ReadChar(after[n - 1], text[n])
  IN after[Len(text)].records

ParseResponse(text) ==
  LET rest == SubSeq(text, 3, Len(text))
  IN CASE text[1] = "OK"  -> Records(ReadRecords(rest))
       [] text[1] = "ERR" -> [kind |-> "error",
                              text |-> SubSeq(rest, 1, AnswerEnd(rest) - 3)]
-----------------------------------------------------------------------------
(* The only answers that may be misread: those in which a record, or a     *)
(* line of a message, is a single dot.                                     *)
LooksEnded(a) ==
  CASE a.kind = "ok"    -> \E i \in DOMAIN a.records : a.records[i] = << <<Dot>> >>
    [] a.kind = "error" -> AnswerEnd(a.text \o <<NL>>) > 0
============================================================================
