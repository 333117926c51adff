--------------------------- MODULE PdfInfoAnswers ---------------------------
(***************************************************************************)
(* What the server answers to the commands that read a document, and what  *)
(* the client makes of it: annotation_print, action_print and the commands *)
(* of epdfinfo.c lay the fields of a record out one after another, and     *)
(* pdf-info-query--transform-response of pdf-info.el takes them up again   *)
(* by their position.  Many fields are optional and some records have more *)
(* of them than others.                                                    *)
(*                                                                         *)
(* A field is <<>>, the empty text, or <<v>>, the text of v; how texts get *)
(* across is the matter of PdfInfoWire.  Coordinates on a page are whole   *)
(* points; the relative ones that are sent are multiples of                *)
(* 1 / (PageWidth * PageHeight).                                           *)
(***************************************************************************)
EXTENDS Integers, SequencesExt

CONSTANTS PageWidth, PageHeight,    \* of every page
          NPages                    \* pages of the document

VARIABLES asked,     \* the command and what the document holds of it
          records,   \* the records of the answer
          value      \* what the client's caller gets

vars == <<asked, records, value>>

Empty == <<>>
Optional(S)   == {Empty} \cup {<<v>> : v \in S}
ToNumber(f)   == IF f = Empty THEN 0 ELSE f[1]       \* string-to-number
IsOne(f)      == f # Empty /\ f[1] = 1               \* (equal f "1")
Bit(b)        == <<IF b THEN 1 ELSE 0>>

(* A rectangle is <<x1, y1, x2, y2>>; poppler's have their origin at the   *)
(* bottom for some calls, at the top for others.                           *)
Flip(r)     == <<r[1], PageHeight - r[4], r[3], PageHeight - r[2]>>
Relative(r) == <<r[1] * PageHeight, r[2] * PageWidth,
                 r[3] * PageHeight, r[4] * PageWidth>>
Page0   == <<0, 0, PageWidth, PageHeight>>
Corner  == <<0, 0, 1, 1>>
Middle  == <<1, 1, 2, 2>>
Right   == <<1, 0, 2, 1>>
Pages   == 1 .. NPages
Minimum(S) == CHOOSE x \in S : \A y \in S : x <= y
Maximum(S) == CHOOSE x \in S : \A y \in S : x >= y
InOrder(S, Lt(_, _)) ==
  [i \in 1 .. Cardinality(S) |->
     CHOOSE x \in S : Cardinality({y \in S : Lt(y, x)}) = i - 1]

(* A union of rectangles as cairo keeps it: bands as high as possible, in  *)
(* each band spans as wide as possible, from the top and from the left.    *)
Cells(rects) ==
  UNION {(r[1] .. r[3] - 1) \X (r[2] .. r[4] - 1) : r \in ToSet(rects)}
Spans(cells, y) ==
  {s \in (0 .. PageWidth) \X (1 .. PageWidth) :
     /\ s[1] < s[2] /\ \A x \in s[1] .. s[2] - 1 : <<x, y>> \in cells
     /\ <<s[1] - 1, y>> \notin cells /\ <<s[2], y>> \notin cells}
Bands(cells) ==
  {b \in (0 .. PageHeight) \X (1 .. PageHeight) :
     LET spans == Spans(cells, b[1])
     IN /\ b[1] < b[2] /\ \A y \in b[1] .. b[2] - 1 : Spans(cells, y) = spans
        /\ Spans(cells, b[1] - 1) # spans /\ Spans(cells, b[2]) # spans}
Union(rects) ==
  LET cells == Cells(rects)
  IN InOrder(UNION {{<<s[1], b[1], s[2], b[2]>> : s \in Spans(cells, b[1])} :
                      b \in Bands(cells)},
             LAMBDA r, t : r[2] < t[2] \/ (r[2] = t[2] /\ r[1] < t[1]))

(* region_print                                                            *)
RegionFields(rects) ==
  LET union == Union(rects)
  IN IF union = <<>> THEN << << <<0, 0, 0, 0>> >> >>
     ELSE [i \in DOMAIN union |-> <<Relative(union[i])>>]
-----------------------------------------------------------------------------
(* Dates.  The text of a date is, in a PDF file, "D:", up to six numbers   *)
(* from the year to the seconds, and perhaps a zone: a sign or Z, hours    *)
(* and minutes; other programs write other texts into the same place.      *)
PdfDate(numbers, zone) == [form |-> "D:", numbers |-> numbers, zone |-> zone]
NotADate  == [form |-> "text", numbers |-> <<>>, zone |-> <<>>]

(* g_date_strftime with %x: the day as the locale writes it.               *)
Locale(day) == [form |-> "%x", numbers |-> day, zone |-> <<>>]

(* pdf-info-parse-pdf-date: the time and how far it is ahead of UT.        *)
ParsePdfDate(f) ==
  IF f = Empty \/ f[1].form # "D:" \/ f[1].numbers = <<>> THEN Empty
  ELSE LET n == f[1].numbers
           z == f[1].zone
           Ahead == (IF Len(z) > 1 THEN 3600 * z[2] ELSE 0)
                    + (IF Len(z) > 2 THEN 60 * z[3] ELSE 0)
       IN << [at    |-> n \o SubSeq(<<0, 1, 1, 0, 0, 0>>, Len(n) + 1, 6),
              ahead |-> CASE z # <<>> /\ z[1] = "+" -> Ahead
                          [] z # <<>> /\ z[1] = "-" -> - Ahead
                          [] OTHER -> 0] >>
-----------------------------------------------------------------------------
(* Annotations.  The regions of a highlight are kept by poppler as         *)
(* quadrilaterals, with the origin at the bottom.                          *)
Quad(r) == <<<<r[1], PageHeight - r[2]>>, <<r[3], PageHeight - r[2]>>,
             <<r[1], PageHeight - r[4]>>, <<r[3], PageHeight - r[4]>>>>
(* Mutant of TextRegion: the points are taken for opposite corners.        *)
TextRegionOfCorners(q) == <<q[1][1], PageHeight - q[4][2], q[4][1], PageHeight - q[1][2]>>

TextRegion(q) ==
  LET xs == {q[i][1] : i \in 1 .. 4}
      ys == {PageHeight - q[i][2] : i \in 1 .. 4}
  IN <<Minimum(xs), Minimum(ys), Maximum(xs), Maximum(ys)>>

TextMarkup == {"highlight", "underline", "squiggly", "strike-out"}
Markup     == TextMarkup \cup {"text", "file"}

(* annotation_new: a text annotation takes no regions, the others at least *)
(* one; only text markup can be made besides.                              *)
Creatable(type, regions) == IF type = "text" THEN regions = <<>>
                            ELSE type \in TextMarkup /\ regions # <<>>

QuadsOf(a)     == [i \in DOMAIN a.regions |-> Quad(a.regions[i])]
TextRegions(a) == LET quads == QuadsOf(a)
                  IN [i \in DOMAIN quads |-> TextRegion(quads[i])]

AnyFields(a) ==
  << <<a.page>>, <<Relative(Flip(a.area))>>, <<a.kind>>, <<a.key>>, <<a.flags>>,
     a.color, a.contents, a.modified >>
PopupFields(a) ==
  IF a.popup = Empty THEN <<Empty, Empty>>
  ELSE << <<Relative(Flip(a.popup[1]))>>, Bit(a.popupOpen) >>
CreatedField(a) == IF a.created = Empty THEN Empty ELSE <<Locale(a.created[1])>>
MarkupFields(a) ==
  <<a.label, a.subject, <<a.opacity>> >> \o PopupFields(a) \o <<CreatedField(a)>>
OwnFields(a) ==
  CASE a.kind = "text"       -> <<a.icon, a.state, Bit(a.open)>>
    [] a.kind \in TextMarkup -> RegionFields(TextRegions(a))
    [] OTHER                 -> <<>>
AnnotFields(a) ==
  AnyFields(a) \o (IF a.kind \in Markup THEN MarkupFields(a) \o OwnFields(a) ELSE <<>>)

(* pdf-info-query--transform-annotation                                    *)
NoMarkup == [is |-> "no markup"]
ToMarkup(f, kind) ==
  [is |-> "markup", label |-> f[1], subject |-> f[2], opacity |-> f[3],
   popup_edges |-> f[4], popup_is_open |-> IsOne(f[5]), created |-> ParsePdfDate(f[6]),
   own |-> CASE kind = "text" -> <<f[7], f[8], IsOne(f[9])>>
             [] kind \in TextMarkup ->
                  [i \in 1 .. Len(f) - 6 |-> f[i + 6][1]]
             [] OTHER -> <<>>]
ToAnnotation(f) ==
  [page |-> ToNumber(f[1]), edges |-> f[2][1], type |-> f[3][1], id |-> f[4][1],
   flags |-> ToNumber(f[5]), color |-> f[6], contents |-> f[7],
   modified |-> ParsePdfDate(f[8]),
   markup |-> IF Len(f) = 8 THEN NoMarkup
              ELSE ToMarkup(SubSeq(f, 9, Len(f)), f[3][1])]
-----------------------------------------------------------------------------
(* Actions of links and of the outline.                                    *)
Handled(a) == a.type \in {"goto-dest", "named", "goto-remote", "uri"}

(* Where a destination's view begins, or nothing.                          *)
TopOf(d) ==
  CASE d.view = "xyz"  -> IF d.changeTop THEN <<(PageHeight - d.top) * PageWidth>>
                          ELSE Empty
    [] d.view = "fit"  -> <<0>>
    [] d.view = "fitv" -> <<(PageHeight - d.top) * PageWidth>>
    [] d.view = "named" -> Empty

NoDest == [view |-> "unknown", page |-> 0, top |-> 0, changeTop |-> FALSE]
HasPage(d) == d.view # "unknown" /\ d.page \in 1 .. NPages
DestFields(a) ==
  IF ~ HasPage(a.dest) THEN <<Empty, Empty>>
  ELSE << <<a.dest.page>>, IF a.type = "goto-remote" THEN Empty ELSE TopOf(a.dest) >>
ActionFields(a) ==
  <<IF a.type = "named" THEN <<"goto-dest">> ELSE <<a.type>>, a.title>>
    \o CASE a.type = "uri"         -> <<a.target>>
         [] a.type = "goto-remote" -> <<a.target>> \o DestFields(a)
         [] OTHER                  -> DestFields(a)

(* pdf-info-query--transform-action                                        *)
(* Mutant of ToAction: the page of a remote link is taken for its file.    *)
ToActionShifted(f) ==
  CASE f[1][1] = "uri" -> [type |-> "uri", title |-> f[2], target |-> f[3]]
    [] OTHER ->
         [type |-> f[1][1], title |-> f[2], target |-> Empty,
          page |-> ToNumber(f[3]), top |-> f[4]]

ToAction(f) ==
  CASE f[1][1] = "goto-dest" ->
         [type |-> "goto-dest", title |-> f[2], target |-> Empty,
          page |-> ToNumber(f[3]), top |-> f[4]]
    [] f[1][1] = "goto-remote" ->
         [type |-> "goto-remote", title |-> f[2], target |-> f[3],
          page |-> ToNumber(f[4]), top |-> f[5]]
    [] OTHER -> [type |-> f[1][1], title |-> f[2], target |-> f[3]]

(* cmd_pagelinks goes through poppler's list from its end.                 *)
PageLinks(links) ==
  LET handled == SelectSeq(Reverse(links), LAMBDA l : Handled(l.action))
  IN [i \in DOMAIN handled |-> << <<Relative(Flip(handled[i].area))>> >>
                               \o ActionFields(handled[i].action)]
ToLink(f) == [edges |-> f[1][1], action |-> ToAction(Tail(f))]

(* cmd_outline_walk: an entry without an action is passed over together    *)
(* with what is below it, one with an action that is not handled without.  *)
NoAction == [type |-> "no action"]
WalkEntry(e, depth, below) ==
  IF e.action = NoAction THEN <<>>
  ELSE (IF Handled(e.action) THEN << << <<depth>> >> \o ActionFields(e.action) >>
        ELSE <<>>) \o below
ToEntry(f) == [depth |-> f[1][1], action |-> ToAction(Tail(f))]
-----------------------------------------------------------------------------
(* Text: searches, selections and the layout of characters.                *)

(* NORMALIZE_PAGE_ARG; pages are the client's: all of them, one, or some.  *)
PageRange(pages) == CASE pages = <<>>     -> <<1, 0>>
                      [] Len(pages) = 1   -> <<pages[1], pages[1]>>
                      [] OTHER            -> pages
FirstPage(range) == Maximum({1, range[1]})
LastPage(range)  == IF range[2] <= 0 THEN NPages ELSE Minimum({range[2], NPages})

(* cmd_search_string and cmd_search_regexp: a match is one rectangle of    *)
(* poppler's, or the rectangles of its characters.                         *)
MatchFields(pn, m) == << <<pn>>, m.text, m.line>> \o RegionFields(m.rects)
Search(pages, found) ==
  LET range == PageRange(pages)
      first == FirstPage(range)
      n     == LastPage(range) - first + 1
  IN FlattenSeq([i \in 1 .. n |->
        [k \in DOMAIN found[first + i - 1] |->
           MatchFields(first + i - 1, found[first + i - 1][k])]])
ToMatch(f) == [page |-> ToNumber(f[1]), text |-> f[2], line |-> f[3],
               edges |-> [i \in 1 .. Len(f) - 3 |-> f[i + 3][1]]]

(* cmd_charlayout, for a region, or a position with negative ends.         *)
Within(r, region) ==
  IF region[4] < 0
  THEN region[1] \in r[1] .. r[3] /\ region[2] \in r[2] .. r[4]
  ELSE r[1] >= region[1] /\ r[2] >= region[2] /\ r[3] <= region[3] /\ r[4] <= region[4]
CharLayout(glyphs, region) ==
  LET inside == SelectSeq(glyphs, LAMBDA g : Within(g.rect, region))
  IN [i \in DOMAIN inside |-> << <<Relative(inside[i].rect)>>, <<inside[i].char>> >>]
ToEdges(f) == f[1]
ToChar(f) == [char |-> f[2][1], edges |-> f[1][1]]

(* cmd_gettext and cmd_getselection: what poppler selects with the edges   *)
(* in points, its text or the union of its rectangles.  A whole line is    *)
(* what stands in the same rows.                                           *)
InPoints(r) == <<r[1] \div PageHeight, r[2] \div PageWidth,
                 r[3] \div PageHeight, r[4] \div PageWidth>>
Style(n)    == IF n \in 0 .. 2 THEN n ELSE 0
Overlap(r, t) == Cells(<<r>>) \cap Cells(<<t>>) # {}
Rows(t)       == <<0, t[2], PageWidth, t[4]>>
Selected(glyphs, r, style) ==
  LET hit == {t \in {g.rect : g \in ToSet(glyphs)} : Overlap(t, r)}
  IN SelectSeq(glyphs, LAMBDA g : \/ g.rect \in hit
                                  \/ style = 2 /\ \E t \in hit : Overlap(g.rect, Rows(t)))
GetText(a) ==
  LET sel == Selected(a.glyphs, InPoints(a.edges), Style(a.style))
  IN << <<IF sel = <<>> THEN Empty ELSE <<[i \in DOMAIN sel |-> sel[i].char]>> >> >>
GetSelection(a) ==
  LET sel    == Selected(a.glyphs, InPoints(a.edges), Style(a.style))
      region == Union([i \in DOMAIN sel |-> sel[i].rect])
  IN [i \in DOMAIN region |-> <<Relative(region[i])>>]

PageSize == << << <<PageWidth>>, <<PageHeight>> >> >>

(* cmd_features: each stands for itself or its absence.                    *)
Features(built) ==
  << <<IF "find" \in built THEN <<"case-sensitive-search">> ELSE <<"no-case-sensitive-search">>,
       IF "write" \in built THEN <<"writable-annotations">> ELSE <<"no-writable-annotations">>,
       IF "markup" \in built THEN <<"markup-annotations">> ELSE <<"no-markup-annotations">> >> >>

(* cmd_synctex_backward_search: the place a node comes from, if there is a *)
(* node and its file has a name.                                           *)
BackwardSearch(n) == << <<n.name, <<n.line>>, <<n.column>> >> >>

(* cmd_synctex_forward_search: the visible box of the node found.          *)
ForwardSearch(n) ==
  LET x1 == n.h  y1 == n.v - n.height
  IN << <<n.page>>, <<x1 * PageHeight>>, <<y1 * PageWidth>>,
        <<(n.width + x1) * PageHeight>>, <<(n.depth + n.height + y1) * PageWidth>> >>
-----------------------------------------------------------------------------
(* attachment_print: an unknown size is -1, an unknown time nothing, and   *)
(* so is the file if it was not to be saved or could not be.               *)
AttachmentFields(a, file) ==
  << <<a.id>>, a.name, a.description, IF a.size = Empty THEN <<-1>> ELSE a.size,
     a.modified, a.created, a.checksum, file >>
ToAttachment(f) ==
  [id |-> f[1][1], filename |-> f[2], description |-> f[3],
   size |-> IF ToNumber(f[4]) >= 0 THEN f[4] ELSE Empty,
   modified |-> f[5], created |-> f[6], checksum |-> f[7], file |-> f[8]]

(* cmd_getattachment_from_annot: an attachment of a file annotation has an *)
(* id made of the annotation's.                                            *)
FromAnnot(a) == AttachmentFields([a.attachment[1] EXCEPT !.id = <<"attachment", a.key>>],
                                 IF a.save THEN a.attachment[1].file ELSE Empty)

MetadataKeys == <<"title", "author", "subject", "keywords", "creator", "producer",
                  "format", "created", "modified">>
-----------------------------------------------------------------------------
(* What documents may hold.                                                *)
Dates ==
  {PdfDate(<<2024>>, <<>>), PdfDate(<<2024, 5, 6, 7, 8, 9>>, <<"Z">>),
   PdfDate(<<2024, 5, 6, 7, 8, 9>>, <<"+", 1, 0>>),
   PdfDate(<<2024, 5, 6, 7>>, <<"-", 5, 30>>), NotADate}
Annotations ==
  {[kind |-> k, page |-> 1, area |-> Corner, key |-> "annot-1-0", flags |-> 4,
    color |-> c, contents |-> t, modified |-> m, label |-> t, subject |-> Empty,
    opacity |-> 1, popup |-> p, popupOpen |-> b,
    created |-> IF c = Empty THEN Empty ELSE << <<2024, 5, 6>> >>,
    icon |-> t, state |-> <<"unknown">>, open |-> b, regions |-> rs] :
     k \in {"text", "highlight", "file", "link"}, c \in Optional({"c"}),
     t \in Optional({"t"}), m \in Optional(Dates), p \in Optional({Middle}),
     b \in BOOLEAN, rs \in SeqOf({Corner, Middle, Right}, 2)}
Dests == {[view |-> v, page |-> p, top |-> 1, changeTop |-> b] :
            v \in {"xyz", "fit", "fitv", "named"}, p \in 0 .. NPages + 1, b \in BOOLEAN}
Actions == {[type |-> ty, title |-> t, target |-> <<"x">>, dest |-> d] :
              ty \in {"goto-dest", "named", "goto-remote", "uri", "launch"},
              t \in Optional({"t"}), d \in Dests \cup {NoDest}}
Some(ty) == [type |-> ty, title |-> <<ty>>, target |-> <<"x">>, dest |-> NoDest]
Entries(below) == {[action |-> a, below |-> b] :
                     a \in {NoAction, Some("uri"), Some("launch")}, b \in below}
Forests(S) == SeqOf(S, 2)
Outlines == Forests(Entries({<<>>} \cup {<<e>> : e \in Entries(Forests(Entries({<<>>})))}))
Matches == {[text |-> t, line |-> <<"l">>, rects |-> r] :
              t \in Optional({"t"}), r \in {<<>>, <<Corner>>, <<Corner, Middle>>, <<Corner, Right>>}}
PageSpecs == {<<>>} \cup {<<p>> : p \in 1 .. NPages + 1}
                   \cup {<<p, q>> : p \in Pages, q \in 0 .. NPages + 1}
Glyphs == {[char |-> c, rect |-> r] : c \in {"a"}, r \in {Corner, Middle, Right}}
Selections == [page : 1 .. NPages + 1, glyphs : SeqOf(Glyphs, 2),
               edges : {Relative(Page0), Relative(Corner), Relative(Middle)}, style : {0, 2, 7}]
NoNode == [name |-> Empty, line |-> 0, column |-> -1]
Nodes  == {NoNode} \cup [name : Optional({"n"}), line : {1, 2}, column : {-1, 3}]
Regions == {Page0, Corner, Middle, <<1, 1, -1, -1>>, <<0, 0, -1, -1>>}
Attachments ==
  {[id |-> "i", name |-> t, description |-> Empty, size |-> s, modified |-> t,
    created |-> c, checksum |-> c, file |-> f] :
     t \in Optional({"t"}), s \in Optional({0, 5}), c \in Optional({"c"}),
     f \in Optional({"f"})}
Attached == [key : {"annot-1-0"}, kind : {"file", "text"},
             attachment : {<<>>} \cup {<<a>> : a \in Attachments}, save : BOOLEAN]

Questions ==
  {[cmd |-> c, of |-> a] : c \in {"getannot", "addannot"}, a \in Annotations}
   \cup {[cmd |-> "pagelinks", of |-> <<[area |-> Corner, action |-> a]>>] : a \in Actions}
   \cup {[cmd |-> "pagelinks", of |-> <<[area |-> Corner, action |-> Some(s)],
                                        [area |-> Middle, action |-> Some(t)]>>] :
           s, t \in {"uri", "launch", "goto-dest"}}
   \cup {[cmd |-> "outline", of |-> o] : o \in Outlines}
   \cup {[cmd |-> "search", of |-> [pages |-> p, found |-> f]] : p \in PageSpecs,
           f \in [Pages -> {<<>>} \cup {<<m>> : m \in Matches}]}
   \cup {[cmd |-> "charlayout", of |-> [glyphs |-> g, region |-> r]] :
           g \in SeqOf(Glyphs, 2), r \in Regions}
   \cup {[cmd |-> "forward", of |-> [page |-> 1, h |-> 0, v |-> v, width |-> w,
                                     height |-> 1, depth |-> d]] :
           v \in 1 .. 2, w \in 1 .. 2, d \in 0 .. 1}
   \cup {[cmd |-> c, of |-> a] : c \in {"gettext", "getselection"}, a \in Selections}
   \cup {[cmd |-> "pagesize", of |-> [page |-> p]] : p \in 1 .. NPages + 1}
   \cup {[cmd |-> "features", of |-> b] : b \in SUBSET {"find", "write", "markup"}}
   \cup {[cmd |-> "backward", of |-> [page |-> p, node |-> n]] :
           p \in 1 .. NPages + 1, n \in Nodes}
   \cup {[cmd |-> "attachment", of |-> a] : a \in Attachments}
   \cup {[cmd |-> "attachment of", of |-> a] : a \in Attached}
   \cup {[cmd |-> "metadata", of |-> m] :
           m \in [1 .. Len(MetadataKeys) -> Optional({"m"})]}

(* The walk over a whole outline: the entries at a path, which is the      *)
(* sequence of their parents' places.                                      *)
EntriesAt(outline, path) == FoldLeft(LAMBDA entries, i : entries[i].below, outline, path)
Walk(outline) ==
  LET walk[path \in Seq(Nat)] ==
        LET entries == EntriesAt(outline, path)
        IN FlattenSeq([i \in DOMAIN entries |->
             WalkEntry(entries[i], Len(path) + 1, walk[Append(path, i)])])
  IN walk[<<>>]

Init == asked \in Questions /\ records = <<>> /\ value = [is |-> "nothing yet"]

(* The server's answer; one that is added is answered as one that is read. *)
RecordsOf(cmd, of) ==
  CASE cmd \in {"getannot", "addannot"} -> <<AnnotFields(of)>>
    [] cmd = "pagelinks"  -> PageLinks(of)
    [] cmd = "outline"    -> Walk(of)
    [] cmd = "search"     -> Search(of.pages, of.found)
    [] cmd = "charlayout" -> CharLayout(of.glyphs, of.region)
    [] cmd = "forward"    -> <<ForwardSearch(of)>>
    [] cmd = "gettext"    -> GetText(of)
    [] cmd = "getselection" -> GetSelection(of)
    [] cmd = "pagesize"   -> PageSize
    [] cmd = "features"   -> Features(of)
    [] cmd = "backward"   -> BackwardSearch(of.node)
    [] cmd = "attachment" -> <<AttachmentFields(of, of.file)>>
    [] cmd = "attachment of" -> <<FromAnnot(of)>>
    [] cmd = "metadata"   -> <<of>>
OnePage == {"gettext", "getselection", "pagesize", "backward"}
Fails ==
  \/ asked.cmd = "addannot" /\ ~ Creatable(asked.of.kind, asked.of.regions)
  \/ asked.cmd \in OnePage /\ asked.of.page \notin Pages
  \/ asked.cmd = "backward" /\ asked.of.node.name = Empty
  \/ asked.cmd = "attachment of" /\ (asked.of.kind # "file" \/ asked.of.attachment = <<>>)
Answer ==
  /\ value = [is |-> "nothing yet"] /\ ~ Fails
  /\ records' = RecordsOf(asked.cmd, asked.of)
  /\ value' = [is |-> "answered"]
  /\ UNCHANGED asked
AnswerError ==
  /\ value = [is |-> "nothing yet"] /\ Fails
  /\ value' = [is |-> "error"]
  /\ UNCHANGED <<asked, records>>

(* pdf-info-query--transform-response                                      *)
Each(To(_)) == [i \in DOMAIN records |-> To(records[i])]
Transformed(cmd) ==
  CASE cmd \in {"getannot", "addannot"} -> ToAnnotation(records[1])
    [] cmd = "pagelinks"  -> Each(ToLink)
    [] cmd = "outline"    -> Each(ToEntry)
    [] cmd = "search"     -> Each(ToMatch)
    [] cmd = "charlayout" -> Each(ToChar)
    [] cmd = "forward"    -> [page |-> ToNumber(records[1][1]),
                              edges |-> [i \in 1 .. 4 |-> records[1][i + 1][1]]]
    [] cmd = "gettext"    -> IF records[1][1] = Empty THEN <<>> ELSE records[1][1][1]
    [] cmd = "getselection" -> Each(ToEdges)
    [] cmd = "pagesize"   -> <<ToNumber(records[1][1]), ToNumber(records[1][2])>>
    [] cmd = "features"   -> [i \in DOMAIN records[1] |-> records[1][i][1]]
    [] cmd = "backward"   -> [filename |-> records[1][1], line |-> ToNumber(records[1][2]),
                              column |-> ToNumber(records[1][3])]
    [] cmd \in {"attachment", "attachment of"} -> ToAttachment(records[1])
    [] cmd = "metadata"   -> [k \in ToSet(MetadataKeys) |->
                                records[1][CHOOSE i \in DOMAIN MetadataKeys :
                                             MetadataKeys[i] = k]]
Transform == /\ value = [is |-> "answered"]
             /\ value' = [is |-> "value", value |-> Transformed(asked.cmd)]
             /\ UNCHANGED <<asked, records>>

Next == Answer \/ AnswerError \/ Transform
Spec == Init /\ [][Next]_vars
-----------------------------------------------------------------------------
(* What a caller of the client is to get, from what the document holds.    *)
MeantRegion(rects) ==
  IF rects = <<>> THEN << <<0, 0, 0, 0>> >>
  ELSE LET union == Union(rects) IN [i \in DOMAIN union |-> Relative(union[i])]
(* The time a PDF date names, by the standard's defaults: what is not said *)
(* is the beginning, and a zone left out is UT.                            *)
MeantDate(d) ==
  CASE d.form # "D:"       -> Empty
    [] d.zone = <<>>       -> << [at |-> <<2024, 1, 1, 0, 0, 0>>, ahead |-> 0] >>
    [] d.zone[1] = "Z"     -> << [at |-> <<2024, 5, 6, 7, 8, 9>>, ahead |-> 0] >>
    [] d.zone[1] = "+"     -> << [at |-> <<2024, 5, 6, 7, 8, 9>>, ahead |-> 3600] >>
    [] d.zone[1] = "-"     -> << [at |-> <<2024, 5, 6, 7, 0, 0>>, ahead |-> -19800] >>

(* The day a markup annotation was created on does not get through: the    *)
(* client cannot read what the server prints of it, and takes it for none. *)
MeantMarkup(a) ==
  [is |-> "markup", label |-> a.label, subject |-> a.subject,
   opacity |-> <<a.opacity>>,
   popup_edges |-> IF a.popup = Empty THEN Empty ELSE <<Relative(Flip(Middle))>>,
   popup_is_open |-> a.popup # Empty /\ a.popupOpen, created |-> Empty,
   own |-> CASE a.kind = "text" -> <<a.icon, a.state, a.open>>
             [] a.kind = "highlight" -> MeantRegion(a.regions)
             [] OTHER -> <<>>]
MeantAnnotation(a) ==
  [page |-> a.page, edges |-> Relative(Flip(a.area)), type |-> a.kind, id |-> a.key,
   flags |-> a.flags, color |-> a.color, contents |-> a.contents,
   modified |-> IF a.modified = Empty THEN Empty ELSE MeantDate(a.modified[1]),
   markup |-> IF a.kind = "link" THEN NoMarkup ELSE MeantMarkup(a)]
MeantAction(a) ==
  CASE a.type = "uri" -> [type |-> "uri", title |-> a.title, target |-> a.target]
    [] a.type = "goto-remote" ->
         [type |-> "goto-remote", title |-> a.title, target |-> a.target,
          page |-> IF HasPage(a.dest) THEN a.dest.page ELSE 0, top |-> Empty]
    [] OTHER ->
         [type |-> "goto-dest", title |-> a.title, target |-> Empty,
          page |-> IF HasPage(a.dest) THEN a.dest.page ELSE 0,
          top |-> IF HasPage(a.dest) THEN TopOf(a.dest) ELSE Empty]

(* The entries of an outline that are to be listed: those with an action   *)
(* the client knows and actions on the way to them, in the document's      *)
(* order, each as deep as it lies.                                         *)
Below(entries, i) == IF i \in DOMAIN entries THEN entries[i].below ELSE <<>>
SiblingsOn(outline, path) == FoldLeft(Below, outline, Front(path))
On(outline, path) == SiblingsOn(outline, path)[Last(path)]
Exists(outline, path) == Last(path) \in DOMAIN SiblingsOn(outline, path)
Prefix(path, n) == SubSeq(path, 1, n)
Before(p, q) ==
  \/ Len(p) < Len(q) /\ p = Prefix(q, Len(p))
  \/ \E n \in DOMAIN p \cap DOMAIN q :
       Prefix(p, n - 1) = Prefix(q, n - 1) /\ p[n] < q[n]
MeantOutline(outline) ==
  LET listed == {p \in SeqOf(1 .. 2, 3) \ {<<>>} :
                   /\ \A n \in DOMAIN p :
                        /\ Exists(outline, Prefix(p, n))
                        /\ On(outline, Prefix(p, n)).action # NoAction
                   /\ Handled(On(outline, p).action)}
      paths  == InOrder(listed, Before)
  IN [i \in DOMAIN paths |-> [depth |-> Len(paths[i]),
                              action |-> MeantAction(On(outline, paths[i]).action)]]
MeantLinks(links) ==
  LET n == Len(links)
      known == {i \in 1 .. n : Handled(links[i].action)}
      order == InOrder(known, LAMBDA i, j : i > j)
  IN [i \in DOMAIN order |-> [edges |-> Relative(Flip(links[order[i]].area)),
                              action |-> MeantAction(links[order[i]].action)]]

MeantPages(pages) ==
  {p \in Pages : \/ pages = <<>>
                 \/ Len(pages) = 1 /\ p = pages[1]
                 \/ Len(pages) = 2 /\ p >= pages[1] /\ (pages[2] = 0 \/ p <= pages[2])}
MeantMatches(pages, found) ==
  LET some  == {p \in MeantPages(pages) : found[p] # <<>>}
      order == InOrder(some, <)
  IN [i \in DOMAIN order |->
        [page |-> order[i], text |-> found[order[i]][1].text, line |-> <<"l">>,
         edges |-> MeantRegion(found[order[i]][1].rects)]]
MeantChars(glyphs, region) ==
  LET inside == {i \in DOMAIN glyphs : Within(glyphs[i].rect, region)}
      order  == InOrder(inside, <)
  IN [i \in DOMAIN order |-> [char |-> "a", edges |-> Relative(glyphs[order[i]].rect)]]
MeantSelection(a) ==      \* the glyphs, from the relative edges
  LET on  == [i \in DOMAIN a.glyphs |-> Relative(a.glyphs[i].rect)]
      Meet(i, r) == /\ on[i][1] < r[3] /\ r[1] < on[i][3]
                    /\ on[i][2] < r[4] /\ r[2] < on[i][4]
      hit == {i \in DOMAIN on : Meet(i, a.edges)}
      all == {i \in DOMAIN on : i \in hit \/ (a.style = 2 /\ \E j \in hit : on[i][2] = on[j][2])}
      order == InOrder(all, <)
  IN [i \in DOMAIN order |-> a.glyphs[order[i]]]
MeantFeature(built, f, with, without) == IF f \in built THEN with ELSE without
MeantAttachment(a) ==
  [id |-> a.id, filename |-> a.name, description |-> a.description, size |-> a.size,
   modified |-> a.modified, created |-> a.created, checksum |-> a.checksum,
   file |-> a.file]

Meant(cmd, of) ==
  CASE cmd \in {"getannot", "addannot"} -> MeantAnnotation(of)
    [] cmd = "pagelinks"  -> MeantLinks(of)
    [] cmd = "outline"    -> MeantOutline(of)
    [] cmd = "search"     -> MeantMatches(of.pages, of.found)
    [] cmd = "charlayout" -> MeantChars(of.glyphs, of.region)
    [] cmd = "forward"    -> [page |-> of.page,
                              edges |-> Relative(<<of.h, of.v - of.height,
                                                   of.h + of.width, of.v + of.depth>>)]
    [] cmd = "gettext"    -> LET sel == MeantSelection(of)
                             IN [i \in DOMAIN sel |-> sel[i].char]
    [] cmd = "getselection" ->
         LET sel == MeantSelection(of)
             union == Union([i \in DOMAIN sel |-> sel[i].rect])
         IN [i \in DOMAIN union |-> Relative(union[i])]
    [] cmd = "pagesize"   -> <<PageWidth, PageHeight>>
    [] cmd = "features"   ->
         <<MeantFeature(of, "find", "case-sensitive-search", "no-case-sensitive-search"),
           MeantFeature(of, "write", "writable-annotations", "no-writable-annotations"),
           MeantFeature(of, "markup", "markup-annotations", "no-markup-annotations")>>
    [] cmd = "backward"   -> [filename |-> <<"n">>, line |-> of.node.line,
                              column |-> of.node.column]
    [] cmd = "attachment" -> MeantAttachment(of)
    [] cmd = "attachment of" ->
         [MeantAttachment(of.attachment[1]) EXCEPT
            !.id = <<"attachment", "annot-1-0">>,
            !.file = IF of.save THEN @ ELSE Empty]
    [] cmd = "metadata"   -> [k \in ToSet(MetadataKeys) |->
                                of[CHOOSE i \in 1 .. 9 : MetadataKeys[i] = k]]

(* Whatever is there and whatever is missing, the client's caller gets     *)
(* what the document holds: no field is taken for another, none that is    *)
(* missing for one that is there, no record is lost or added, and the time *)
(* of the last modification is the one the file says; only the day of      *)
(* creation of a markup annotation is never there.                         *)
Understood == value.is = "value" => value.value = Meant(asked.cmd, asked.of)
==============================================================================
