--------------------------- MODULE EpdfinfoRender ---------------------------
(***************************************************************************)
(* Rendering by the PDF server: the options of a document in memory, the   *)
(* recolouring of a page's image pixel by pixel with a cache of one entry, *)
(* the commands given to renderpage that crop the image and paint on it,   *)
(* and the bounding box of a page, found from its four sides inwards       *)
(* (image_recolor, image_render_page, cmd_renderpage, cmd_boundingbox and  *)
(* cmd_setoptions of epdfinfo.c).                                          *)
(*                                                                         *)
(* A pixel of poppler's is a grey from 0 to 255.  Edges are multiples of   *)
(* 1 / Unit of a page's width or height, which a crop to a quarter after   *)
(* another leaves exact.                                                   *)
(***************************************************************************)
EXTENDS Integers, SequencesExt

CONSTANTS PageWidth, PageHeight,   \* of the page, in points
          Greys,                   \* greys on pages
          Colours,                 \* one byte of a colour that an option may have
          Widths,                  \* widths asked for, in pixels
          MaxSets, MaxCommands     \* bounds: options set, arguments of a command

Scale[n \in 0 .. MaxCommands] == IF n = 0 THEN 2 ELSE 4 * Scale[n - 1]
Unit  == Scale[MaxCommands]
Whole == <<0, 0, Unit, Unit>>
Round(n, d) == (2 * n + d) \div (2 * d)      \* (int) (n / d + 0.5)

VARIABLES page,      \* poppler's pictures of the page, on screen and in print
          options,   \* the document's options, a word of memory each
          sets,      \* how many times options were set
          job,       \* the command being executed, with what remains of it
          image      \* the answer to the last command

renderVars == <<page, options, sets, job, image>>

Column  == 1 .. PageWidth
Row     == 1 .. PageHeight
NoJob   == [is |-> "none"]
NoImage == [is |-> "none"]
-----------------------------------------------------------------------------
(* cmd_setoptions copies as many bytes as the type of the option's         *)
(* argument has.  That of usecolors is a long, twice as wide as the field, *)
(* and printed is the field behind it.                                     *)
SetUsecolors(o, n) == [o EXCEPT !.usecolors = n, !.printed = 0]
SetPrinted(o, b)   == [o EXCEPT !.printed = b]

(* Recolouring.  In the first way a grey g becomes the colour at g / 256   *)
(* between foreground and background, which have eight bits of sixteen.    *)
Mixed(g, o) == Round(g * (o.bg - o.fg) + 256 * o.fg, 257)

(* In the second way a colour is converted to another space and back; what *)
(* comes of it depends on the colour and on the options.  The last colour  *)
(* converted is kept; the first entry is for a white that no pixel has,    *)
(* since they are divided by 256.                                          *)
White   == 256
Convert(g, o) == <<g, o.fg, o.bg>>

(* Mutant of Converted: the cache is made for the whole page once.         *)
ConvertedOnce(s, g, o) ==
  IF s.from # White THEN [s EXCEPT !.done = Append(@, s.to)]
  ELSE [from |-> g, to |-> Convert(g, o), done |-> Append(s.done, Convert(g, o))]

Converted(s, g, o) ==
  IF g = s.from THEN [s EXCEPT !.done = Append(@, s.to)]
  ELSE [from |-> g, to |-> Convert(g, o), done |-> Append(s.done, Convert(g, o))]

Inverted(pixels, o) ==
  LET seen[n \in 0 .. Len(pixels)] ==
        IF n = 0 THEN [from |-> White, to |-> Convert(White, o), done |-> <<>>]
        ELSE Converted(seen[n - 1], pixels[n], o)
  IN  seen[Len(pixels)].done

Pixels(pic)  == [i \in 1 .. PageWidth * PageHeight |->
                   pic[<<1 + ((i - 1) % PageWidth), 1 + ((i - 1) \div PageWidth)>>]]
Picture(s)   == [p \in Column \X Row |-> s[(p[2] - 1) * PageWidth + p[1]]]
Recoloured(pic, o) ==
  CASE o.usecolors = 0 -> [p \in Column \X Row |-> <<pic[p]>>]
    [] o.usecolors = 1 -> [p \in Column \X Row |-> <<Mixed(pic[p], o)>>]
    [] o.usecolors = 2 -> Picture(Inverted(Pixels(pic), o))

(* image_render_page at a point a pixel: pages for printing have their     *)
(* annotations left out by poppler.                                        *)
RenderedPage(o) ==
  Recoloured(IF o.printed = 1 THEN page.print ELSE page.screen, o)
HeightFor(width) == Round(width * PageHeight, PageWidth)
-----------------------------------------------------------------------------
(* cmd_boundingbox: from each side the first column or row with a pixel    *)
(* unlike the one in the corner.                                           *)
SameColumn(im, i) == \A j \in Row : im[<<i, j>>] = im[<<1, 1>>]
SameRow(im, j)    == \A i \in Column : im[<<i, j>>] = im[<<1, 1>>]
OddColumns(im)    == {i \in Column : ~ SameColumn(im, i)}
OddRows(im)       == {j \in Row : ~ SameRow(im, j)}
FirstFrom(n, odd) ==      \* n if there is none
  IF odd = {} THEN n ELSE (CHOOSE i \in odd : \A j \in odd : i <= j) - 1

(* Mutant of LastFrom: the last column is left out.                        *)
LastBefore(n, odd) ==
  LET seen == odd \ {n}
  IN IF seen = {} THEN 0 ELSE CHOOSE i \in seen : \A j \in seen : i >= j

LastFrom(n, odd) ==       \* 0 if there is none
  IF odd = {} THEN 0 ELSE CHOOSE i \in odd : \A j \in odd : i >= j
WholePage == <<0, 0, PageWidth, PageHeight>>
Box(im) ==
  LET x1 == FirstFrom(PageWidth, OddColumns(im))
      x2 == LastFrom(PageWidth, OddColumns(im))
      y1 == FirstFrom(PageHeight, OddRows(im))
      y2 == LastFrom(PageHeight, OddRows(im))
  IN IF x1 >= x2 \/ y1 >= y2 THEN WholePage ELSE <<x1, y1, x2, y2>>
-----------------------------------------------------------------------------
(* cmd_renderpage: pairs of a keyword and its argument, one after another. *)
(* The keywords set the pen, crop the image further or paint a region,     *)
(* given relative to what the crops have left.                             *)
NoPen == [foreground |-> 0, background |-> 255, alpha |-> Unit, style |-> 0]
Colouring == {":foreground", ":background"}
Painting  == {":highlight-region", ":highlight-text", ":highlight-line"}
Keywords  == Colouring \cup Painting
               \cup {":alpha", ":selection-style", ":crop-to"}
Fitting(key) ==          \* the arguments that parse
  CASE key \in Colouring -> {<<"color", c>> : c \in Colours}
    [] key = ":alpha"    -> {<<"edge", Unit \div 2>>}
    [] key = ":selection-style" -> {<<"natnum", 1>>, <<"natnum", 7>>}
    [] OTHER -> {<<"edges", r>> : r \in {<<0, 0, Unit \div 2, Unit>>,
                                         <<Unit \div 4, Unit \div 2, Unit, Unit>>}}
Args == UNION {{<<k, a>> : a \in Fitting(k)} : k \in Keywords}
          \cup {<<":crop-to", <<"bad">>>>, <<":unknown", <<"bad">>>>, <<":alpha">>}

Style(n) == IF n \in 0 .. 2 THEN n ELSE 0   \* xpoppler_validate_selection_style

(* Where an edge of what is left of the page lies on the whole page.       *)
Along(e, from, to) == ((e * (to - from)) \div Unit) + from
RegionAt(r, crop) ==
  <<Along(r[1], crop[1], crop[3]), Along(r[2], crop[2], crop[4]),
    Along(r[3], crop[1], crop[3]), Along(r[4], crop[2], crop[4])>>
Flat(r) == LET m == (r[2] + r[4]) \div 2 IN <<r[1], m, r[3], m>>

SetPen(j, key, v) ==
  CASE key = ":foreground" -> [j EXCEPT !.pen.foreground = v]
    [] key = ":background" -> [j EXCEPT !.pen.background = v]
    [] key = ":alpha"      -> [j EXCEPT !.pen.alpha = v]
    [] key = ":selection-style" -> [j EXCEPT !.pen.style = Style(v)]

(* Mutant of Paint: what was cropped before is forgotten.                  *)
PaintOnPage(j, key, r) ==
  [j EXCEPT !.painted = Append(@, [key |-> key, asked |-> r, crop |-> j.crop,
                                   pen |-> j.pen, at |-> r])]

Paint(j, key, r) ==
  LET at == RegionAt(r, j.crop)
  IN [j EXCEPT !.painted = Append(@, [key |-> key, asked |-> r, crop |-> j.crop,
        pen |-> j.pen, at |-> IF key = ":highlight-line" THEN Flat(at) ELSE at])]

(* The image that is left, in pixels: <<x, y, width, height>>.             *)
Cut(width, crop) ==
  LET height == HeightFor(width)
  IN IF crop = Whole THEN <<0, 0, width, height>>
     ELSE <<Round(width * crop[1], Unit), Round(height * crop[2], Unit),
            Round(width * (crop[3] - crop[1]), Unit),
            Round(height * (crop[4] - crop[2]), Unit)>>
-----------------------------------------------------------------------------
RenderInit ==
  /\ \E screen \in [Column \X Row -> Greys], g \in Greys :
       page = [screen |-> screen, print |-> [p \in Column \X Row |-> g]]
  /\ options = [usecolors |-> 0, printed |-> 0, fg |-> 0, bg |-> 0]
  /\ sets = 0 /\ job = NoJob /\ image = NoImage

SetOption ==
  /\ job = NoJob /\ sets < MaxSets
  /\ sets' = sets + 1
  /\ \/ \E n \in 0 .. 2 : options' = SetUsecolors(options, n)
     \/ \E b \in 0 .. 1 : options' = SetPrinted(options, b)
     \/ \E c \in Colours : options' = [options EXCEPT !.fg = c]
     \/ \E c \in Colours : options' = [options EXCEPT !.bg = c]
  /\ UNCHANGED <<page, job, image>>

BoundingBox ==
  /\ job = NoJob
  /\ image' = [is |-> "box", of |-> RenderedPage(options), box |-> Box(RenderedPage(options))]
  /\ UNCHANGED <<page, options, sets, job>>

RenderPage ==
  /\ job = NoJob
  /\ \E w \in Widths :
       job' = [is |-> "render", width |-> w, pen |-> NoPen, crop |-> Whole,
               painted |-> <<>>, args |-> 0]
  /\ image' = NoImage
  /\ UNCHANGED <<page, options, sets>>

(* One pair of arguments; the caller gives as many as there are.           *)
Argument ==
  /\ job # NoJob /\ job.args < MaxCommands
  /\ \E a \in Args :
       LET key == a[1]
           j   == [job EXCEPT !.args = @ + 1]
       IN \/ /\ key \in Keywords /\ Len(a) = 2 /\ a[2] \in Fitting(key)
             /\ job' = CASE key = ":crop-to" -> [j EXCEPT !.crop = RegionAt(a[2][2], @)]
                         [] key \in Painting -> Paint(j, key, a[2][2])
                         [] OTHER            -> SetPen(j, key, a[2][2])
             /\ UNCHANGED image       \* none yet
          \/ /\ ~ (key \in Keywords /\ Len(a) = 2 /\ a[2] \in Fitting(key))
             /\ job' = NoJob /\ image' = [is |-> "error"]
  /\ UNCHANGED <<page, options, sets>>

(* The image is written to a tempfile, for which there are three tries, or *)
(* an error is answered.                                                   *)
Finish ==
  /\ job # NoJob
  /\ \/ image' = [is |-> "image", of |-> RenderedPage(options), painted |-> job.painted,
                  crop |-> job.crop, width |-> job.width, cut |-> Cut(job.width, job.crop)]
     \/ image' = [is |-> "error"]
  /\ job' = NoJob
  /\ UNCHANGED <<page, options, sets>>

RenderNext == SetOption \/ BoundingBox \/ RenderPage \/ Argument \/ Finish
RenderSpec == RenderInit /\ [][RenderNext]_renderVars
-----------------------------------------------------------------------------
(* Equal pixels of the page are equal in the image, whatever stands        *)
(* between them: the cache of the last colour is not seen.                 *)
Recolours ==
  image.is \in {"box", "image"} =>
    \E pic \in {page.screen, page.print} : \A p, q \in Column \X Row :
      pic[p] = pic[q] => image.of[p] = image.of[q]

(* The bounding box is the smallest that leaves nothing out but the colour *)
(* of the corner, or the page if there is nothing else.                    *)
Odd(im)        == {p \in Column \X Row : im[p] # im[<<1, 1>>]}
Holds(b, p) == b[1] < p[1] /\ p[1] <= b[3] /\ b[2] < p[2] /\ p[2] <= b[4]
BoxTight ==
  image.is = "box" =>
    LET odd == Odd(image.of)
    IN IF odd = {} THEN image.box = WholePage
       ELSE /\ \A p \in odd : Holds(image.box, p)
            /\ \E p \in odd : p[1] = image.box[1] + 1
            /\ \E p \in odd : p[1] = image.box[3]
            /\ \E p \in odd : p[2] = image.box[2] + 1
            /\ \E p \in odd : p[2] = image.box[4]

(* What is painted when all is cropped appears in the image where it was   *)
(* asked for, but for a pixel of rounding, two below; and the image leaves *)
(* the page by a pixel at most.                                            *)
Abs(n) == IF n < 0 THEN - n ELSE n
Near(at, pixels, first, size, asked, error) ==
  Abs(at * pixels - first * Unit - asked * size) <= error * Unit
ShownWhereAsked ==
  image.is = "image" =>
    LET height == HeightFor(image.width)
    IN /\ image.cut[1] + image.cut[3] <= image.width + 1
       /\ image.cut[2] + image.cut[4] <= height + 1
       /\ \A k \in DOMAIN image.painted :
            LET p == image.painted[k]
            IN p.crop = image.crop =>
                 /\ Near(p.at[1], image.width, image.cut[1], image.cut[3], p.asked[1], 1)
                 /\ Near(p.at[3], image.width, image.cut[1], image.cut[3], p.asked[3], 1)
                 /\ p.key # ":highlight-line" =>
                      /\ Near(p.at[2], height, image.cut[2], image.cut[4], p.asked[2], 1)
                      /\ Near(p.at[4], height, image.cut[2], image.cut[4], p.asked[4], 1)

RendersRight == Recolours /\ BoxTight /\ ShownWhereAsked
==============================================================================
