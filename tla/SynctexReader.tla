---------------------------- MODULE SynctexReader ----------------------------
(***************************************************************************)
(* How the synctex parser reads its file: a window of a few characters     *)
(* slides over it, and the scanner asks it for strings, numbers and lines  *)
(* wherever it happens to end.  The preamble, the settings and the post    *)
(* scriptum are read here; what sheets and forms hold is the matter of     *)
(* SynctexParser: of the content anchors, inputs and sheets with boundary  *)
(* records are left, as all records have fields of the same kinds.         *)
(*                                                                         *)
(* A file is a sequence of characters.  The name of a setting is two: a    *)
(* letter and a colon, so that the window can end within it.  Places are   *)
(* numbers of characters from the beginning of the file.                   *)
(***************************************************************************)
EXTENDS Integers, SequencesExt

CONSTANTS Sizes,      \* sizes of the window, SYNCTEX_BUFFER_SIZE
          MinSize     \* SYNCTEX_BUFFER_MIN_SIZE

NL      == "newline"
Number  == [d \in {"1", "2"} |-> IF d = "1" THEN 1 ELSE 2]
Version == <<"V", ":">>
InputMark == <<"I", ":">>
OutputName == <<"O", ":">>
Magnification == <<"M", ":">>
XOffset == <<"X", ":">>
YOffset == <<"Y", ":">>
ContentName == <<"C", ":">>
PostambleName == <<"P", ":">>
CountName == <<"N", ":">>
PostScriptum == <<"S", ":">>
ComEquals == <<",", "=">>
DefaultColumn == -1
Units   == <<<<"i", "n">>, <<"c", "m">>, <<"p", "t">>, <<"c", "c">>>>
Settings == <<OutputName, Magnification, <<"U", ":">>, XOffset, YOffset>>

VARIABLES file,       \* its characters
          damaged,    \* whether reading beyond them is an error, not the end
          reader,     \* the window and the place in it
          at,         \* what is read next
          scanner,    \* what has been read
          cut         \* whether the window ended before a number it should hold

vars == <<file, damaged, reader, at, scanner, cut>>

ERROR  == -1
EOF    == 0
NOT_OK == 1
OK     == 2
Done  == {"read", "null"}
-----------------------------------------------------------------------------
(* The characters from cur to end are in the window; open tells whether    *)
(* the file is.  _synctex_buffer_get_available_size moves what remains to  *)
(* the beginning of the window and fills it up; gzread returns fewer       *)
(* characters than asked for only at the end.                              *)
Left(r)   == r.end - r.cur
Fill(r, expected) ==
  LET got == IF r.size - Left(r) < Len(file) - r.end
             THEN r.size - Left(r) ELSE Len(file) - r.end
  IN CASE expected <= Left(r) \/ r.size <= Left(r) -> [st |-> OK, r |-> r]
       [] Left(r) < expected /\ Left(r) < r.size /\ ~r.open -> [st |-> EOF, r |-> r]
       [] Left(r) < expected /\ Left(r) < r.size /\ r.open /\ got > 0 ->
            [st |-> OK, r |-> [r EXCEPT !.end = @ + got]]
       [] OTHER -> IF damaged THEN [st |-> ERROR, r |-> r]
                   ELSE [st |-> EOF, r |-> [r EXCEPT !.open = FALSE]]

InWindow(r) == SubSeq(file, r.cur + 1, r.end)
Window == [size : Nat, cur : Nat, end : Nat, open : BOOLEAN, lastv : Int]
Status == [st : ERROR .. OK, r : Window]      \* what was read, and from where on

(* A character whose window is exhausted is looked for in the next.        *)
NextLine(r) ==
  LET line[f \in Status] ==
        LET ends == {i \in f.r.cur + 1 .. f.r.end : file[i] = NL}
        IN CASE f.st <= EOF -> f
             [] f.st > EOF /\ ends # {} ->
                  Fill([f.r EXCEPT !.cur = CHOOSE i \in ends : \A j \in ends : i <= j], 1)
             [] OTHER -> line[Fill([f.r EXCEPT !.cur = f.r.end], 1)]
  IN line[[st |-> OK, r |-> r]]

(* Mutant of Match: the string is looked for in the window as it is.       *)
MatchInWindow(r, s) ==
  IF IsPrefix(s, InWindow(r)) THEN [st |-> OK, r |-> [r EXCEPT !.cur = @ + Len(s)]]
  ELSE [st |-> NOT_OK, r |-> r]

(* A string that fits into the window but not into the rest of the file:   *)
(* when the window was filled just now the rest is read, in vain, and      *)
(* closes the file, which cannot go back then.                             *)
Matched(f, s) ==
  LET in == InWindow(f.r)
  IN CASE f.st < EOF -> f
       [] f.st >= EOF /\ IsPrefix(s, in) ->
            [st |-> OK, r |-> [f.r EXCEPT !.cur = @ + Len(s)]]
       [] f.st >= EOF /\ ~IsPrefix(s, in) /\ ~IsStrictPrefix(in, s) ->
            [st |-> NOT_OK, r |-> f.r]
       [] OTHER -> IF f.r.open
                   THEN [st |-> ERROR, r |-> Fill([f.r EXCEPT !.cur = f.r.end], 1).r]
                   ELSE [st |-> EOF, r |-> f.r]
Match(r, s) == Matched(Fill(r, Len(s)), s)

(* strtol and strtod on the characters t: the digits at its beginning.     *)
Digits(t) == LET others == {i \in 1 .. Len(t) : t[i] \notin DOMAIN Number}
             IN SubSeq(t, 1, IF others = {} THEN Len(t)
                             ELSE (CHOOSE i \in others : \A j \in others : i <= j) - 1)
ValueOf(t) == FoldLeft(LAMBDA n, d : 10 * n + Number[d], 0, Digits(t))
Blanks(t)  == IF t # <<>> /\ t[1] = NL THEN 1 ELSE 0

(* A number begins after a separator, if there is one, and blanks.         *)
IntAt(r) ==
  LET in   == InWindow(r)
      skip == IF in # <<>> /\ in[1] \in {":", ","} THEN 1 ELSE 0
      text == SubSeq(in, skip + 1, Len(in))
      from == skip + Blanks(text)
      nums == Digits(SubSeq(in, from + 1, Len(in)))
  IN IF nums = <<>> THEN [st |-> NOT_OK, r |-> r, val |-> 0]
     ELSE [st |-> OK, r |-> [r EXCEPT !.cur = @ + from + Len(nums)], val |-> ValueOf(nums)]

(* Mutant of DecodeInt: the window is taken as it is.                      *)
DecodeIntInWindow(r) == IntAt(r)

DecodeInt(r) ==
  LET f == Fill(r, MinSize)
  IN IF f.st < EOF THEN [st |-> f.st, r |-> f.r, val |-> 0] ELSE IntAt(f.r)

(* A number that may be left out: only a comma tells that it is there.     *)
OptAt(r, default) ==
  LET in   == InWindow(r)
      text == IF in = <<>> THEN <<>> ELSE Tail(in)
      nums == Digits(SubSeq(text, Blanks(text) + 1, Len(text)))
  IN CASE in = <<>> \/ (in # <<>> /\ in[1] # ",") -> [st |-> OK, r |-> r, val |-> default]
       [] in # <<>> /\ in[1] = "," /\ nums = <<>> -> [st |-> NOT_OK, r |-> r, val |-> default]
       [] OTHER -> [st |-> OK, r |-> [r EXCEPT !.cur = @ + 1 + Blanks(text) + Len(nums)],
                    val |-> ValueOf(nums)]
DecodeIntOpt(r, default) ==
  LET f == Fill(r, MinSize)
  IN IF f.st < EOF THEN [st |-> f.st, r |-> f.r, val |-> default] ELSE OptAt(f.r, default)

(* A vertical place, for which an equals sign stands when it is that of    *)
(* the number read last.                                                   *)
LastV(d) ==
  LET m == Match(d.r, ComEquals)
  IN IF d.st = OK THEN [d EXCEPT !.r.lastv = d.val]
     ELSE [st |-> m.st, r |-> m.r, val |-> m.r.lastv]
DecodeIntV(r) == LastV(DecodeInt(r))

(* The fields of a boundary record: tag, line, column, h and v.            *)
Fields == <<"tag", "line", "column", "h", "v">>
Field(r, name) ==
  CASE name = "column" -> DecodeIntOpt(r, DefaultColumn)
    [] name = "v" -> DecodeIntV(r)
    [] OTHER -> DecodeInt(r)
NextField(d, e) == [st |-> e.st, r |-> e.r, val |-> Append(d.val, e.val)]
DecodeFields(r) ==
  FoldLeft(LAMBDA d, name : IF d.st < OK THEN d ELSE NextField(d, Field(d.r, name)),
           [st |-> OK, r |-> r, val |-> <<>>], Fields)

(* A string ends at the end of its line; blanks at its end are dropped,    *)
(* but never its first character.  One that the file ends is lost.         *)
Trim(s) ==
  LET kept == {i \in 1 .. Len(s) : i = 1 \/ \E j \in i .. Len(s) : s[j] # " "}
  IN SubSeq(s, 1, IF kept = {} THEN 0 ELSE CHOOSE i \in kept : \A j \in kept : i >= j)
DecodeString(r) ==
  LET decoded[f \in Status, s \in Seq(STRING)] ==
        LET in   == InWindow(f.r)
            ends == {i \in 1 .. Len(in) : in[i] = NL}
            len  == IF ends = {} THEN Len(in)
                    ELSE (CHOOSE i \in ends : \A j \in ends : i <= j) - 1
            sofar == s \o SubSeq(in, 1, len)
            next  == [f.r EXCEPT !.cur = @ + len]
        IN CASE f.st < EOF \/ in = <<>> -> [st |-> f.st, r |-> f.r, val |-> ""]
             [] f.st >= EOF /\ in # <<>> /\ ends = {} -> decoded[Fill(next, 1), sofar]
             [] OTHER -> [st |-> OK, r |-> next, val |-> Trim(sofar)]
  IN decoded[IF Left(r) > 0 THEN [st |-> OK, r |-> r] ELSE Fill(r, 1), <<>>]

(* Then f, when what was read before succeeded.                            *)
ThenLine(d) == IF d.st < OK THEN d
               ELSE LET n == NextLine(d.r) IN [d EXCEPT !.st = n.st, !.r = n.r]

(* An input is a mark, a tag, a separator, a name and the end of the line. *)
(* An error at the separator is returned as the success before it.         *)
NoInput(d) == [st |-> d.st, r |-> d.r, made |-> <<>>]
NamedInput(tag, name) ==
  LET line == NextLine(name.r)
  IN IF name.st < OK THEN NoInput([name EXCEPT !.r = line.r])
     ELSE [st |-> line.st, r |-> line.r, made |-> <<<<tag.val, name.val>>>>]
SeparatedInput(tag, sep) ==
  CASE sep.st < EOF -> NoInput([tag EXCEPT !.r = sep.r])
    [] sep.st >= EOF /\ Left(sep.r) = 0 -> NoInput([tag EXCEPT !.st = EOF, !.r = sep.r])
    [] OTHER -> NamedInput(tag, DecodeString([sep.r EXCEPT !.cur = @ + 1]))
TaggedInput(tag) ==
  IF tag.st < OK THEN NoInput(tag) ELSE SeparatedInput(tag, Fill(tag.r, 1))
MarkedInput(mark) ==
  IF mark.st < OK THEN NoInput(mark) ELSE TaggedInput(DecodeInt(mark.r))
ParseNewInput(r) == MarkedInput(Match(r, InputMark))

ScanNamed(r, name) ==
  LET scan[line \in Status] ==
        LET m == Match(line.r, name)
        IN CASE line.st < OK -> line
             [] line.st = OK /\ m.st # NOT_OK -> m
             [] OTHER -> scan[NextLine(m.r)]
  IN scan[[st |-> OK, r |-> r]]

(* A number and its unit; the units are tried one after another.           *)
TryUnits(r) ==
  LET try[w \in Window, i \in DOMAIN Units] ==
        LET m == Match(w, Units[i])
        IN IF m.st = OK \/ m.st < EOF \/ i = Len(Units)
           THEN [st |-> m.st, r |-> m.r, val |-> <<Units[i]>>] ELSE try[m.r, i + 1]
  IN try[r, 1]
ScanFloatAndDimension(r) ==
  LET f    == Fill(r, MinSize)
      nums == Digits(InWindow(f.r))
      unit == TryUnits([f.r EXCEPT !.cur = @ + Len(nums)])
  IN CASE f.st < EOF -> [st |-> f.st, r |-> f.r, val |-> <<>>]
       [] f.st >= EOF /\ nums = <<>> -> [st |-> ERROR, r |-> f.r, val |-> <<>>]
       [] OTHER -> [unit EXCEPT !.val = <<ValueOf(nums)>> \o unit.val]
-----------------------------------------------------------------------------
(* The files: what TeX and its tools write, cut off anywhere.              *)
InputLine(tag)  == InputMark \o <<tag, ":", "f">>
Preamble(ins, mag) ==
  <<Version \o <<"1">>>> \o ins \o
  <<OutputName \o <<"p", " ">>, Magnification \o mag, <<"U", ":", "1">>,
    XOffset \o <<"1">>, YOffset \o <<"2">>>>
SheetLines ==
  <<<<"{", "1">>, <<"x", "1", ",", "1", ":", "1", ",", "2">>, <<"c">>,
    <<"x", "2", ",", "1", ",", "2", ":", "2", "1", ",", "=">>, <<"}", "1">>>>
Contents == {<<<<"!", "1">>>>, SheetLines, <<InputLine("2"), <<"!", "1">>, InputLine("1")>>}
PostMagnifications == {<<>>, <<Magnification \o <<"2">>>>, <<Magnification \o <<"1", "2">>>>}
PostOffsets == {<<>>, <<XOffset \o <<"2", "c", "c">>>>,
                <<XOffset \o <<"1", "i", "n">>, YOffset \o <<"2", "p", "t">>>>}
FileLines ==
  {Preamble(ins, mag) \o <<ContentName>> \o content \o
     <<PostambleName, CountName \o <<"2">>, PostScriptum>> \o pm \o <<<<"r">>>> \o po :
   ins \in {<<>>, <<InputLine("1")>>}, mag \in {<<"1">>, <<"2", "1">>},
   content \in Contents, pm \in PostMagnifications, po \in PostOffsets}
Text(ls)  == FlattenSeq([i \in 1 .. Len(ls) |-> Append(ls[i], NL)])
Fake == <<"fake">>       \* the offset before one is read: 6.027e23

EmptyScanner == [input |-> <<>>, output |-> <<>>, pre |-> <<1000, 8192, 578, 578>>,
                 count |-> 0, points |-> <<>>, unit |-> 0, x |-> Fake, y |-> Fake]

Init ==
  /\ \E ls \in FileLines : \E n \in 1 .. Len(Text(ls)) : file = SubSeq(Text(ls), 1, n)
  /\ damaged \in BOOLEAN
  /\ \E n \in Sizes : reader = [size |-> n, cur |-> 0, end |-> 0, open |-> TRUE, lastv |-> -1]
  /\ at = "version" /\ scanner = EmptyScanner /\ cut = FALSE

(* A step that reads d and goes on at the given place, or fails.           *)
Advance(d, place, failed) ==
  /\ reader' = d.r
  /\ at' = IF d.st >= OK THEN place ELSE failed
Kept == UNCHANGED <<file, damaged>>
-----------------------------------------------------------------------------
ScanVersion ==
  /\ at = "version"
  /\ LET name == ScanNamed(reader, Version)
         d == IF name.st < OK THEN name ELSE ThenLine(DecodeInt(name.r))
     IN Advance(d, "inputs", "null")
  /\ Kept /\ UNCHANGED <<scanner, cut>>

(* Inputs are read until a line that is none.                              *)
ScanInputs ==
  /\ at = "inputs"
  /\ LET d == ParseNewInput(reader)
     IN /\ reader' = d.r
        /\ at' = IF d.st < NOT_OK THEN "null" ELSE IF d.st = OK THEN "inputs" ELSE "1"
        /\ scanner' = [scanner EXCEPT !.input = d.made \o @]
  /\ Kept /\ UNCHANGED cut

(* The five settings of the preamble.  The first is a string; when it      *)
(* cannot be read the status of the version number is returned, which was  *)
(* OK, so that the rest of the preamble is left to be skipped.             *)
Place == <<"1", "2", "3", "4", "5", "content">>
ScanSetting(i) ==
  /\ at = Place[i]
  /\ LET name == ScanNamed(reader, Settings[i])
         text == DecodeString(name.r)
         val  == IF i = 1 THEN text ELSE DecodeInt(name.r)
         d    == IF name.st < OK THEN name ELSE ThenLine(val)
     IN /\ IF i = 1 /\ name.st = OK /\ text.st < OK
           THEN reader' = text.r /\ at' = "content"
           ELSE Advance(d, Place[i + 1], "null")
        /\ scanner' = IF d.st < OK THEN scanner
                      ELSE IF i = 1 THEN [scanner EXCEPT !.output = d.val]
                      ELSE [scanner EXCEPT !.pre[i - 1] = d.val]
  /\ Kept /\ UNCHANGED cut

(* One line on the way to the content.                                     *)
FindContent ==
  /\ at = "content"
  /\ LET m == Match(reader, ContentName)
         n == NextLine(m.r)
     IN IF m.st < EOF THEN reader' = m.r /\ at' = "null"
        ELSE Advance(n, IF m.st = NOT_OK THEN "content" ELSE "try input", "null")
  /\ Kept /\ UNCHANGED <<scanner, cut>>

(* The loop of __synctex_parse_sfi outside of sheets and forms.  Inputs    *)
(* are tried once until another record is met.                             *)
Anchor ==
  /\ at \in {"try input", "records"}
  /\ Left(reader) > 0 /\ file[reader.cur + 1] = "!"
  /\ Advance(NextLine([reader EXCEPT !.cur = @ + 1]), "try input", "null")
  /\ Kept /\ UNCHANGED <<scanner, cut>>

MoreInputs ==
  /\ at = "try input"
  /\ Left(reader) > 0 /\ file[reader.cur + 1] \notin {"!", "{"}
  /\ LET d == ParseNewInput(reader)
     IN /\ reader' = d.r
        /\ at' = IF d.st = OK THEN "try input" ELSE "records"
        /\ scanner' = [scanner EXCEPT !.input = d.made \o @]
  /\ Kept /\ UNCHANGED cut

(* A sheet.  Of a sheet that has no number the line is not passed over.    *)
After(r) == [r EXCEPT !.cur = @ + 1]
SheetBegin ==
  /\ at \in {"try input", "records"}
  /\ Left(reader) > 0 /\ file[reader.cur + 1] = "{"
  /\ Advance(ThenLine(DecodeInt(After(reader))), "sheet", "try input")
  /\ Kept /\ UNCHANGED <<scanner, cut>>

(* A record that cannot be read takes the next line with it.               *)
BoundaryRecord ==
  /\ at = "sheet"
  /\ Left(reader) > 0 /\ file[reader.cur + 1] = "x"
  /\ LET d == DecodeFields(After(reader))
         n == NextLine(d.r)
     IN IF d.st = OK /\ n.st >= OK
        THEN /\ Advance(n, "sheet", "sheet")
             /\ scanner' = [scanner EXCEPT !.points = Append(@, d.val)]
        ELSE Advance(NextLine(n.r), "sheet", "null") /\ scanner' = scanner
  /\ Kept /\ UNCHANGED cut
OtherInSheet ==
  /\ at = "sheet"
  /\ Left(reader) > 0 /\ file[reader.cur + 1] \notin {"x", "}"}
  /\ Advance(NextLine(reader), "sheet", "null")
  /\ Kept /\ UNCHANGED <<scanner, cut>>
SheetEnd ==
  /\ at = "sheet"
  /\ Left(reader) > 0 /\ file[reader.cur + 1] = "}"
  /\ Advance(NextLine(After(reader)), "try input", "try input")
  /\ Kept /\ UNCHANGED <<scanner, cut>>

(* A line that ends the content, or is passed over.                        *)
OtherRecord ==
  /\ at = "records"
  /\ Left(reader) > 0 /\ file[reader.cur + 1] \notin {"!", "{"}
  /\ LET m == Match(reader, PostambleName)
     IN IF m.st = OK THEN reader' = m.r /\ at' = "count"
        ELSE Advance(NextLine(m.r), "records", "null")
  /\ Kept /\ UNCHANGED <<scanner, cut>>

NeedMore ==
  /\ at \in {"try input", "records", "sheet"}
  /\ Left(reader) = 0
  /\ LET f == Fill(reader, 1)
     IN reader' = f.r /\ at' = IF Left(f.r) = 0 THEN "null" ELSE at
  /\ Kept /\ UNCHANGED <<scanner, cut>>

(* From here on what cannot be read is ignored.  A count that nothing      *)
(* follows is not kept.                                                    *)
ScanCount ==
  /\ at = "count"
  /\ LET line == NextLine(reader)
         name == IF line.st < OK THEN line ELSE ScanNamed(line.r, CountName)
         d    == IF name.st < OK THEN name ELSE ThenLine(DecodeInt(name.r))
     IN /\ Advance(d, "post scriptum", "tune")
        /\ scanner' = IF d.st < OK THEN scanner ELSE [scanner EXCEPT !.count = d.val]
  /\ Kept /\ UNCHANGED cut

FindPostScriptum ==
  /\ at = "post scriptum"
  /\ LET m == Match(reader, PostScriptum)
     IN IF m.st < NOT_OK THEN reader' = m.r /\ at' = "tune"
        ELSE Advance(NextLine(m.r), IF m.st = OK THEN "record" ELSE "post scriptum", "tune")
  /\ Kept /\ UNCHANGED <<scanner, cut>>

(* A line of the post scriptum.  The number of a magnification is taken    *)
(* from the window as it is; the others are taken care of.                 *)
PostMagnification ==
  /\ at = "record"
  /\ LET m    == Match(reader, Magnification)
         nums == Digits(InWindow(m.r))
         rest == Digits(SubSeq(file, m.r.cur + 1, Len(file)))
     IN /\ m.st = OK
        /\ cut' = (cut \/ nums # rest)
        /\ IF nums = <<>> THEN reader' = m.r /\ at' = "tune" /\ scanner' = scanner
           ELSE /\ Advance(NextLine([m.r EXCEPT !.cur = @ + Len(nums)]), "record", "tune")
                /\ scanner' = [scanner EXCEPT !.unit = ValueOf(nums)]
  /\ Kept

(* Both offsets are stored in x_offset.                                    *)
PostOffset ==
  /\ at = "record"
  /\ LET m  == Match(reader, Magnification)
         mx == Match(m.r, XOffset)
         my == IF mx.st = OK \/ mx.st < EOF THEN mx ELSE Match(mx.r, YOffset)
         d  == ScanFloatAndDimension(my.r)
     IN /\ m.st # OK
        /\ IF m.st < EOF \/ my.st < EOF THEN reader' = my.r /\ at' = "tune" /\ scanner' = scanner
           ELSE IF my.st < OK THEN Advance(NextLine(my.r), "record", "tune") /\ scanner' = scanner
           ELSE IF d.st < OK THEN reader' = d.r /\ at' = "tune" /\ scanner' = scanner
           ELSE /\ Advance(NextLine(d.r), "record", "tune")
                /\ scanner' = [scanner EXCEPT !.x = d.val]
  /\ Kept /\ UNCHANGED cut

(* The end of synctex_scanner_parse: only x_offset tells whether there are *)
(* offsets in the post scriptum.                                           *)
Tune ==
  /\ at = "tune"
  /\ at' = "read"
  /\ reader' = [reader EXCEPT !.open = FALSE]
  /\ scanner' = IF scanner.x # Fake THEN scanner
                ELSE [scanner EXCEPT !.x = <<scanner.pre[3]>>, !.y = <<scanner.pre[4]>>]
  /\ Kept /\ UNCHANGED cut

ScanPreamble  == ScanVersion \/ ScanInputs \/ \E i \in 1 .. 5 : ScanSetting(i)
ScanContent   == FindContent \/ Anchor \/ MoreInputs \/ OtherRecord \/ NeedMore
                 \/ SheetBegin \/ BoundaryRecord \/ OtherInSheet \/ SheetEnd
ScanPostamble == ScanCount \/ FindPostScriptum \/ PostMagnification \/ PostOffset
Next == ScanPreamble \/ ScanContent \/ ScanPostamble \/ Tune

Spec == Init /\ [][Next]_vars
-----------------------------------------------------------------------------
(* What the file says, by its lines; the last may not be complete.         *)
LinesOf(text) ==
  FoldLeft(LAMBDA ls, c : IF c = NL THEN Append(ls, <<>>)
                          ELSE [ls EXCEPT ![Len(ls)] = Append(@, c)], <<<<>>>>, text)
(* The lines with a name before and after the place of another, from what  *)
(* follows the name.                                                       *)
Named(ls, name)  == {i \in 1 .. Len(ls) : IsPrefix(name, ls[i])}
TheNamed(ls, name) == CHOOSE i \in 1 .. Len(ls) + 1 :
                        Named(ls, name) = {i} \cap 1 .. Len(ls)
Said(ls, name, from, to) ==
  {SubSeq(ls[i], Len(name) + 1, Len(ls[i])) : i \in Named(ls, name) \cap from .. to}

(* Wherever the window ends, the settings are those the file states: the   *)
(* inputs, the output's name without trailing blanks, the settings of the  *)
(* preamble, and those of the post scriptum that are complete, and the     *)
(* places are those of the boundary records in their order; a file is      *)
(* refused exactly when its content has no end.  It assumes that no window *)
(* ends within the number of a magnification, and leaves the offsets of a  *)
(* post scriptum with a Y Offset aside.                                    *)
SettingsAsWritten ==
  at \in Done /\ ~cut =>
    LET ls      == LinesOf(file)
        content == TheNamed(ls, ContentName)
        post    == TheNamed(ls, PostScriptum)
        pres    == Said(ls, Magnification, 1, content)
        units   == Said(ls, Magnification, post + 1, Len(ls)) \ {<<>>}
        xs      == {t \in Said(ls, XOffset, post + 1, Len(ls)) : Len(t) = 3}
        inputs  == Said(ls, InputMark, 1, Len(ls))
    IN IF Named(ls, PostambleName) = {} THEN at = "null"
       ELSE /\ at = "read"
            /\ ToSet(scanner.input) = {<<ValueOf(t), <<"f">>>> : t \in inputs}
            /\ Len(scanner.input) = Cardinality(Named(ls, InputMark))
            /\ scanner.output = <<"p">>
            /\ scanner.points =
                 IF SheetLines[1] \notin ToSet(ls) THEN <<>>
                 ELSE <<<<1, 1, DefaultColumn, 1, 2>>, <<2, 1, 2, 21, 2>>>>
            /\ \E t \in pres : scanner.pre = <<ValueOf(t), 1, 1, 2>>
            /\ IF units = {} THEN scanner.unit = 0
               ELSE \E t \in units : scanner.unit = ValueOf(t)
            /\ Said(ls, YOffset, post + 1, Len(ls)) = {} =>
                 IF xs = {} THEN scanner.x = <<1>> /\ scanner.y = <<2>>
                 ELSE \E t \in xs : scanner.x = <<ValueOf(t), SubSeq(t, 2, 3)>>
==============================================================================
