# Models of an Emacs configuration and the programs it brings

The repository is an Emacs configuration: `.emacs.d/init.el`, two Lisp files of
its own (`.emacs.d/lisp/`), a theme, and the packages installed with it
(`.emacs.d/elpa/`).  Three parts of it carry behaviour that is worth specifying:

* the configuration's **own Lisp**: generators of Go tests and benchmarks, a
  layout of windows with a switch that forbids splitting, and a command that
  expands words into function definitions;
* **pdf-tools 1.1.0**: a server in C (`server/epdfinfo.c`) that holds PDF
  documents and their annotations, with the synctex parser it is built with
  (`server/synctex_parser.c`), and a Lisp client that talks to it over a pipe,
  caches what it answers, saves what it edits and searches many documents;
* **emacsql 4.0.3**: the connection of Emacs to a SQLite process
  (`sqlite/emacsql.c`) and the macro for transactions.

Nearly all the C of the repository is in the last two, and they have the
interleavings, crashes, formats and stale values.

Paths below are relative to `.emacs.d/`; pdf-tools files are in
`elpa/pdf-tools-1.1.0/`, emacsql files in `elpa/emacsql-4.0.3/`.

## 1. Inventory

### The parts and how they interact

```
 user --> pdf-view / pdf-annot / pdf-occur ...      init.el, lisp/*.el
              | calls            ^ hooks
              v                  |
          pdf-cache ---------> pdf-info == pipe ==> epdfinfo --> poppler
          (values, images)    (queue of closures)   | documents, annotations
              ^ timers             |                | rendering
              +---- answers -------+                +--> synctex parser --> .synctex.gz
                                                    |
                                                 tempfile --copy--> PDF file

 packages --> emacsql == pipe ==> emacsql-sqlite --> database file (shared by Emacsen)
```

**epdfinfo server** (`server/epdfinfo.c`).  State: a hash table of open
documents; per document poppler's document with the unsaved edits, a list of
annotations per page, filled when the page is first asked for, a table from
keys (`annot-PAGE-INDEX`) to the same annotations, rendering options and the
password.  Operations: open, close, list, get, add, delete and edit annotations,
save to a tempfile, get and set options, quit, and commands that only read
(text, search, links, outline, rendering, synctex).  It is single-threaded: one
command is read, executed and answered before the next is read.  Hard: three
registries of the same annotations, loaded lazily, renumbered when a document is
closed and opened again; commands that open a document merely by naming it;
requests that must apply all or nothing; keywords of a rendering whose order
matters.  Correct if the registries agree, listings are complete, a key in use
keeps its meaning, an error leaves documents as they were, and an image shows what
was painted where it was asked for.

**Synctex parser** (`server/synctex_parser.c`, `synctex_parser_utils.c`).
State: a file seen through a sliding window; trees of nodes for sheets and
forms, lists of friends (nodes by tag and line), chains of hboxes per sheet,
handles of boundary nodes that wait for their place, proxies through which a
form appears on a page; an iterator with the results of a query.  Operations:
find and open the file (renaming one with a quoted name), read preamble,
content and post scriptum, put proxies in the place of refs, answer a query from
a line to places (display) or from a place to a line (edit), find an input by
its name.  Hard: the file may end anywhere and the window too; nodes are linked
several ways; weights are left in the nodes by one query for the next.  Correct
if trees, lists and chains agree, if everything a query may answer with can be
found, if results are the nearest and in the best order, if what is read does
not depend on where the window ends, and if the file opened is not an old one.

**pdf-info, queries and process** (`pdf-info.el` 188-395, 1339-1373).  State: the
transmission queue (tq.el) of closures, the process, whether to restart it.
Operations: query (synchronous or with a callback), restart with or without
asking, quit, kill.  Answers carry no name: the first answer belongs to the
first closure.  Emacs has one thread, but a synchronous query waits in a loop
around `accept-process-output`, which runs filters, callbacks and timers, and
these may query again: waits nest, and only the innermost looks at its
condition.  The server may die at any time, and reading an answer may fail before
its closure is called.  Correct if every closure gets the answer to its own query
and every wait ends.

**pdf-info, wire format and responses** (`pdf-info.el` 396-790, and the
printing half of `epdfinfo.c`).  No state between queries.  Two text formats with
escapes, an end of answers in band, and records whose fields are recognised by
their position, many of them optional.  Correct if arguments and values arrive
as they were meant.

**PDF buffers and caches** (`pdf-view.el`, `pdf-cache.el`, `pdf-annot-put` of
`pdf-annot.el`).  State: the file, a local copy when the file is remote or
compressed, the document in the server, the buffer's modified flag, a cache of
values per page, a cache of images with a limit, prefetching from a timer.
Operations: display, edit, save, revert, look up, prefetch.  Every one is a
sequence of queries with waits between them in which others run.  Correct if the
caches never outlive what they were taken from, and no edit is lost between
buffer, server and file.

**PDF occur** (`pdf-occur.el`, with the local servers and batch queries of
`pdf-info.el` 905-1000).  State: the documents to search, the rows found, the
counts in the header, the batches to come, a server of its own.  A chain of
asynchronous queries in which the callback of one asks for the next.  Correct if
no match of an earlier search is shown in a later one, the counts are those of
the rows, and every search ends.

**emacsql** (`emacsql.el`, `emacsql-sqlite.el`, `sqlite/emacsql.c`).  State: the
statements on their way, the output on its way, the connection's buffer; and for
transactions the levels in each Emacs, what is written and not committed, the
lock on the database.  A wait may time out or be quit with its answer still to
come, and the statement still to be executed; timers query while another query
waits; a second process may hold the lock.  Correct if a query gets its own answer,
and a transaction writes all or nothing.

**Go generators** (`init.el` 228-395).  State: the source, two generated buffers
and their files.  Each scans the source for functions and the generated buffer
for what is there, appends what is missing, saves and formats.  Correct if
running again adds nothing and nothing is missed, whatever the user edits,
declines or kills in between.

**Window layout** (`lisp/imperial-layout.el`).  State: the windows with their
purposes, the switch `split-window-enabled`, advices and a hook that are in
place once the file is loaded to its end.  (`init.el` has its `require` commented
out at line 10, so that it is loaded by hand or by another file.)  Correct if
purposes are unique and no command splits while splitting is forbidden.

**Word expansion** (`lisp/expand-function.el`).  A sequential command on a text
and a point: collects words, deletes, inserts definitions.  Correct if it
takes off what stands between the point and the end of the first word it found,
and no other character, wherever the searches for words and braces lead.

**Other parts of pdf-tools** (annotations and their delayed hooks, isearch,
history, virtual documents, composed queries, outline, links, utilities), and
**settings, theme, other packages, archives**: see section 6.

### Hazards

`PROJECT.json` lists forty, each at its line, with the properties about it.  By
kind:

* *answers and what they belong to*: nested waits (`pdf-info.el:382`), answers
  matched by position (`pdf-info.el:377`), a process replaced while somebody
  waits (`pdf-info.el:380`), an end of answers in band (`epdfinfo.c:264`), late
  answers of queries given up (`emacsql.el:155`), batches of an earlier search
  (`pdf-occur.el:604`);
* *stale values*: documents reopened while they are being saved
  (`pdf-view.el:498`), values that arrive after the cache was cleared
  (`pdf-cache.el:153`), weights left in the nodes (`synctex_parser.c:7074`),
  counts set at the end of a start that may fail (`pdf-occur.el:629`);
* *registries that must agree*: keys after deletions (`epdfinfo.c:2893`), pages
  loaded lazily (`epdfinfo.c:2706`), boundary nodes that wait for their place
  (`synctex_parser.c:5004`), refs replaced by proxies (`synctex_parser.c:5700`);
* *partial failure and crashes*: several properties of which one does not parse
  (`epdfinfo.c:2994`), a tempfile that cannot be copied (`pdf-view.el:494`), a
  database locked in the middle of a transaction (`emacsql.el:267`), a server
  that dies with edits in memory (`pdf-view.el:502`) or between two batches
  (`pdf-info.el:977`);
* *edges*: the window of the reader that ends within a name or a number
  (`synctex_parser.c:3924`), special characters at the ends of arguments
  (`pdf-info.el:404`), negative widths (`synctex_parser.c:4600`).

## 2. Modules

| Module | Models | State |
|---|---|---|
| `Epdfinfo` | the server's documents and annotations | `disk`, `docs` (the hash table), `saved` (tempfiles), `running`, `reply` |
| `EpdfinfoRender` | its images of pages | `page`, `options` (a word of memory each), `job`, `image` |
| `QueryService` | what a query promises, abstractly | `st`, one state per query |
| `PdfInfoQueue` | queries and the server process | `queue`, `proc`, `policy`, `tq`, the two directions of the pipe, `stack` of waits, the queries' fates |
| `PdfInfoText` | the two text formats of queries and answers | (operators) |
| `PdfInfoWire` | a query and its answer as texts | `query`, `lines`, `args`, `answer`, `out`, `result` |
| `PdfInfoAnswers` | the records of answers and how they are read | `asked`, `records`, `value` |
| `PdfView` | saving, reverting, displaying, caching, prefetching, on an abstraction of the queue and of the server | `file`, `copy`, `doc`, `pipe`/`out`, `stack`, `data`, `images`, `modified`, ghosts |
| `PdfOccur` | the search of many documents | `docs`, `rows`, `count`, `left`, `localServer`, `batches`, `answer`, ghosts |
| `Subsequence` | `cl-remove-if` and its like, for `PdfView`, `PdfOccur`, `GoGenerate`; the characters of a text, for `ExpandFunction` | (an operator) |
| `SynctexGeometry` | rectangles, visible sizes, distances | (operators) |
| `SynctexNode` | nodes, links, lists of friends | (operators on a heap) |
| `SynctexContent` | reading the content section | `heap`, `scanner`, `cur` (the function's locals), `status` |
| `SynctexParser` | proxies and post processing, after the above | the same |
| `SynctexQuery` | display and edit queries, the iterator, the box shown | the above, `iterator`, `asked` |
| `SynctexReader` | the window over the file; preamble, settings, post scriptum | `file`, `reader`, `at`, `scanner` |
| `SynctexOpen` | finding and renaming the file while TeX and others do | `disk`, `at`, `names` of each reader, ghosts |
| `SynctexNames` | finding an input by name | `home`, `output`, `inputs`, `asked`, `tag` |
| `Emacsql` | a connection | `stdin`, `process`, `stdout`, `buffer`, `waits`, `result`, ghosts |
| `EmacsqlTransaction` | `emacsql-with-transaction` in several Emacsen | `pc`, `lock`, `pending`, `stored`, `tries`, `sent` |
| `GoGenerate` | the generators | `source`, `package`, `buf`, `disk`, `last` |
| `WindowLayout` | the layout and its switch | `wins`, `sel`, `enabled`, `loaded`, `inited`, `last` |
| `ExpandFunction` | word expansion | `text`, `point`, `mode`, `outcome` |

Instances for the model checker are in `MCEpdfinfo`, `MCSynctexParser`,
`MCSynctexQuery`, `MCPdfOccur` and `MCParts`; theorems in `EpdfinfoProofs`,
`PdfInfoProofs` (of `PdfInfoQueue` and `PdfOccur`), `PdfViewProofs`, `SubsequenceProofs`,
`SynctexNodeProofs` (of `SynctexNode` and `SynctexGeometry`), `SynctexProofs` (of
`SynctexContent`), `ServerProofs` (of
`SynctexOpen`, `PdfInfoText`, `EpdfinfoRender`, `Emacsql` and `EmacsqlTransaction`) and
`PartsProofs` (of `WindowLayout` and `MCParts`).

`MCParts` puts together the parts that share no state with any other: a
behaviour chooses one and runs it, on the variables `v1` to `v9`, which stand
for that part's own.  Its properties are those of the parts.

How the modules build on one another: `SynctexQuery` extends `SynctexParser`,
which extends `SynctexContent`, `SynctexNode` and `SynctexGeometry`, so that queries are asked of
what the parser built.  `PdfInfoQueue` implements `QueryService`.  `PdfView` and
`PdfOccur` take from `PdfInfoQueue` that requests are answered in order, and from
`PdfInfoWire` and `PdfInfoAnswers` that an answer is understood.  `Epdfinfo`
leaves what the reading commands compute to `EpdfinfoRender`, `PdfInfoAnswers` and
`SynctexQuery`.

Definitions named *Mutant of ...* stand beside the definition they distort; no
specification uses them.  They show that each property can fail.

### Epdfinfo and EpdfinfoRender

A step of `Epdfinfo` is one command, executed whole, as in the main loop
(`epdfinfo.c:3868-3914`).  Annotations have an identity (`Uids`) that survives
saving and reopening, and poppler lists a page's annotations oldest first; keys
`<<page, index>>` are the server's names for them.  `Load` is
`annoation_get_for_page` with its quirk that a page with an empty list is read
again each time; `FreeIndex` is the search for an unused index in
`cmd_addannot`.  A command that names a document opens it (`ArgDoc`, `D`, `Keep`)
before later arguments are looked at, also when it then fails.  `Replace` is the
client's copying of the tempfile over the PDF.  Properties of annotations stand
for classes: `flags` for those every annotation has, `label` for those of markup
annotations, `icon` for those of text annotations.  Which password opens a file
(`CanOpen`) is poppler's rule; the server's own part is that a command that only
names the document passes none.

In `EpdfinfoRender` a pixel is a grey; the keywords of renderpage are taken one by
one, each a step on the surface the earlier ones have left; options lie in memory
as the struct does, so that setting one may touch its neighbour as it does in
the code.  The cache of the last colour in `image_recolor` is in the loop, the
property looks at its result.

### PdfInfoQueue, QueryService, PdfInfoWire, PdfInfoAnswers

Queries are numbered; `got[q]` records whose answer the closure of `q` was
given, which the code cannot know and the properties are about.  `stack` is the
nesting of waits.  `Close` is `tq-close`: the process is deleted, its closures
forgotten.  `Reentrant` says whether Lisp runs during waits, `Split` whether an
answer may contain a line with a single dot, which the server does not escape,
`Garbled` whether reading an answer may fail: parsing and transforming it come
before the closure is called (`pdf-info.el:367-374`), the filter catches their
errors (346-350), and the query is `unread` for good.  An image file that has gone
is enough (`pdf-util-munch-file`), or with `Split` an answer that is another's.
`QueryService` says what remains when queue, pipe and process are forgotten:
answers in order, at most once, losses final: one by one in their turn, or all at
once.

`PdfInfoText` has texts as sequences of characters, because it is about the
conversion: escaping by the client, splitting and unescaping by the server,
escaping by the server, and the end of the answer and unescaping by the client.
The loops over characters are recursive functions of the number of characters
read.  `PdfInfoWire` sends a query and its answer through it.
`PdfInfoAnswers` has a field as a value or the empty text; the server's half
builds records field by field, the client's takes them up by position, and the
property compares with what the document holds.  A date is its numbers and its
zone, as a PDF file writes them or as the locale does (`Locale`); what
`pdf-info-parse-pdf-date` makes of one is `ParsePdfDate`, which can read the
modification of an annotation and not its creation (section 4).

### PdfView

A wait is a frame of `stack` that knows what it waits for and gets its `answer`;
the continuation of each function after its wait is an action of its own
(`Save`, `Saved`, `SaveEnds`; `Revert`, `Reverted`; `Edit`, `Edited`;
`Redisplay`, `SizeArrives`, `ImageArrives`).  `Busy` is the set of kinds of
buffers, local and remote, in which lookups and prefetching happen inside the
waits.  A document is reduced to the revision another program wrote and the
edits made since; `Sight` is what can be seen of it on one page.  `made` and
`lost` are ghosts: the edits the user still wants, and those a crash took.  Left
out: reverts by auto-revert (`init.el:66` has it commented out), killing the
buffer and visiting it again, widths of images.

### PdfOccur

One action per command and callback: starting a search (whose steps may fail
after some have taken effect), the server's answer or error, the callback that
adds rows and asks for the next batch, the sentinel, aborting, adding, removing
and revisiting documents, the server's death.  `search` numbers the searches so
that rows know theirs; the code has no such number.

### Synctex parser

An action of `SynctexContent` reads one record of `__synctex_parse_sfi`, which the
environment chooses; the function's labels and gotos are the fields of `cur`.
`SynctexNode` keeps each class's own fields, as the code's tree and data models
do, so that a link a class lacks is not there.  Weights, lines and visible sizes
are numbers; names, columns and logging are left out.  `ContentNext` reads
records and ends, at the postamble, a file without refs, of which nothing is left to be
done; `SynctexParser` adds the end of a file with refs, `EndWithRefs`.  Post
processing is one step of it (no record is read between).  `SynctexQuery` asks of the finished heap; a query is a step, taking a
result another.  `SynctexReader` is the only module with texts: a file is a
sequence of characters, a window is a place and a length, and every reader of
strings, numbers and lines is modelled with its refilling of the window.
`SynctexOpen` splits opening at every system call, since other processes act in
between.

### emacsql

In `Emacsql` output is a sequence of pieces, cut by the pipe between any two;
`quiet` and `disturbed` are ghosts that say about which queries the property
speaks.  `EmacsqlTransaction` has a program counter per Emacs; `Nested` says
whether bodies have an inner transaction.  Bodies write twice.  A statement that
is waited for is one step (`Statement`, `Locked`).  A wait that times out or is quit
(`WaitEnds`, possible at each statement, `[:commit]` too) and a killed Emacs leave
the statement in `sent`, and its process executes it later (`Late`), before the
`[:rollback]` of the unwind form or the end of its input.  Left aside: a second
quit before the unwind form has sent its rollback.

### GoGenerate, WindowLayout, ExpandFunction

A name in `GoGenerate` is a pair of a stem and the last letter, since the regular
expression for tests finds of a function without a receiver its last letter
only.  The package clause of tests takes its value from an unbound variable, so
the generator of tests fails on an empty buffer, as the model says.  The
benchmark generator is defined twice in `init.el`; the second definition is the
one that is in force and modelled.  `WindowLayout` has the windows as a sequence
of their purposes in the order of `other-window`; a split may fail for lack of
room.  `ExpandFunction` has texts as sequences of characters (letters of words, an
underscore for characters of symbols, gaps, braces) and the point at any of them,
also inside a word; what an inserted definition holds is one element.  It runs one
command from every initial text.  The regular expression wants a whole symbol that
is a word (`WholeWord`), so that the rest of a word and parts of `foo_bar` are
passed over, and deleted.

## 3. Runs

Nine runs pass with no error; three are to find a violation, and each documents
a disagreement between the code and what it says of itself.

| Run | Bounds | Shows |
|---|---|---|
| `epdfinfo_registry` | one file, two pages, three annotations, nothing saved | `RegistryCoherent`, `ListingComplete`, `KeysStable` |
| `epdfinfo_save` | one locked file, one page, two annotations, two properties and values, an option with two values; tempfiles hold annotations with default values only | `IInv`, `ErrorsChangeNothing` |
| `queue` | four queries, two crashes, kills or quits, the user asked before a restart, answers may be unreadable | `IInv`, `OwnAnswer`, `ServiceSpec` (refinement) |
| `queue_returns` | three queries, two stops, restarts allowed, answers may look like two or be unreadable | `ReturnsUnlessOrphaned` (liveness) |
| `queue_hang` | two queries, one stop | violates `SyncReturns` |
| `view` | two pages, two images cached, two edits, one write by another program, one crash, two nested waits, one image under way; Lisp runs in the waits of local files | `CacheCurrent`, `EditsKept` |
| `view_remote` | one page, two edits, Lisp runs in the waits of remote files too | violates `ReopenedIsNew` |
| `occur` | documents of three pages and of one, batches of two pages, up to two matches in a batch, three searches, one crash | `OwnMatches`, `MatchesCounted`, `PagesLeft`, `SearchEnds` (liveness) |
| `synctex_parse` | files of one or two sheets, up to two forms and three hboxes, every kind of record, eight mixes of them; two lists of friends | `TreeCoherent`, `FriendLists`, `SheetNodesFound`, `NextHboxes`, `ProxiesFound`, `VisiblePoints` |
| `synctex_query` | files of six mixes of up to four nodes, three points, two pages, two lines, queries in any order | `NearestLine`, `BestFirst`, `LinesShown`, `AnswersRepeat`, `EditInside` |
| `parts` | see below | `PurposesDistinct`, `NoWindowWhileForbidden`, `EveryBenchmark`, `AgainNothing`, `KeepsRest`, `Arrives`, `Understood`, `RendersRight`, `SettingsAsWritten`, `LatestRead`, `OwnSource`, `InStep`, `AllOrNothing` |
| `emacsql_nested` | two Emacsen, nested transactions | violates `AllOrNothing` |

Bounds of `parts`.  *Layout*: five windows, three panes and two more.
*Generators*: two declarations, functions and methods of the same name, two
definitions per generated buffer, edits, declined saves, kills and revisits
between runs.  *Expansion*: every text of up to six characters, every point, counts
up to three; the loop moves over two words a round, so that six characters have
points inside words, symbols passed over, words skipped, found and behind the
last.  *Wire*: every query of two arguments
of up to two characters, of the special ones and one other, and every answer;
two characters are enough for an escape before, between and at the end.
*Answers*: every kind of record on two pages of three by four points; dates of one,
four and six numbers with every kind of zone, and a text that is no date.  *Rendering*:
two greys, an image five pixels wide of a page two high, up to two
settings of options and commands of up to three keywords.  *Reader*: every prefix of
108 files, with windows of three to five characters where the code has 32768
and at least 32; the names of settings are two characters, so that a window ends within
and between all of them.  *Opening*: two readers, three runs of TeX: a file
may be replaced between any two steps of one reader, and twice between those of
the other.  *Names*: pairs of inputs and sources with the same names, two homes.
*emacsql*: three queries, two given up, timers that nest once.
*Transactions*: two Emacsen, two writes, two tries; waits may end and processes die at
every statement.

Why the other bounds are enough.  *Registry*: an index that is in use above the
length of the list needs two annotations and a deletion, a third to be added and
a second page to tell the pages apart.  Documents do not interact, so that one
file is enough; the theorems hold for any number.  *Saving*: the hazards are
between document, tempfile and file, which each can differ from the other two
with two annotations; the constraint `EditsUnsaved` only keeps the contents of
tempfiles few.  *Queue*: two queries can be mixed up, a third is nested in a
wait, a fourth is made after a restart; two stops let a restarted server die
again.  *View*: one page edited and one not; with two images and two pages the
cache is at its limit when the same page is put twice by a prefetch and a
display; two nested waits are enough to run anything inside anything else.
*Occur*: a search of three batches of which one is under way when a second search starts,
and a third after the server died.  *Parsing*: three hboxes are enough to be nested,
to follow one another and to be in a form; two lists make nodes of different
lines share one; two refs to one form make two proxies; mixes are chosen so that
every pair of kinds of records that touches the same link is in one of them.  A
ref comes in an hbox only (`RefPlaces`): what refs elsewhere do is a finding.  An
input record precedes the nodes that have its tag, and forms are complete before they are used,
as TeX writes them; `inner_form` allows a form in a form (1) and in a sheet too (2);
`NextHboxes` is about files without the latter, `SheetNodesFound` about those without either.  *Queries*: one hbox
closer and one further, one inside another, on one page and on two, in a form
and on the sheet; lines below, between and beyond the recorded ones.  Results
are looked at when a query has just been answered or reset: taking them changes
neither nodes nor results.  The guard `NoLoneBox` keeps edit queries from files in
which they would read the child of a node of a class that has none.

`CHECK_DEADLOCK FALSE` is set where the system or its bound ends: the server
quits, the queries, edits, searches or records of a behaviour are used up, a
file is read, the one command of `ExpandFunction` has run.  The parts of
`MCParts` share one run; all but the layout end.

**Fairness.**  `PdfInfoQueue!Fairness`: weak fairness of the server answering a
line it was sent (it does nothing else), of Emacs reading an answer (the wait
loop calls `accept-process-output`) and of a wait that can end ending (the loop
looks at its condition every 0.01 seconds).  `PdfOccur!OccurFairSpec`: weak fairness of
the server answering a batch and of Emacs running the callback when an answer is
there (it does so whenever it is idle).  No fairness is assumed of the user, of
crashes or of restarts.  The other runs check safety only.

## 4. Findings

Three have a run of their own.

* `queue_hang`: the wait loop of `pdf-info-query` (`pdf-info.el:380`) looks at
  the status of whichever process is current.  If the server dies and a nested
  query restarts it, the outer query has lost its closure, sees a running process
  and waits for ever; the error at `pdf-info.el:387` is never raised.
  `ReturnsUnlessOrphaned` shows that a wait ends unless it has lost its closure
  and the server runs: by such a restart, or by an answer that could not be read
  (`pdf-info.el:349`), which this run leaves aside (`Garbled = FALSE`).
* `view_remote`: for remote and compressed files the local copy that the server
  reads is updated after the document was closed (`pdf-view.el:501`); what runs
  in that wait reopens the old copy, although the comment at 488 says that the
  order is chosen to prevent this.
* `emacsql_nested`: when the database is locked inside a nested transaction, the
  inner handler rolls back everything and evaluates its own body alone, outside
  any transaction (`emacsql.el:267`), where the docstring promises a single
  transaction.

The models follow the code in the others too, and the properties say where they
leave such a case aside; `PROJECT.json` quotes for each the comment, docstring or
message it disagrees with.

| Where | What |
|---|---|
| `epdfinfo.c:3706` | setting the option `usecolors` overwrites `printed` beside it |
| `epdfinfo.c:586`, `3435` | white is not mapped to the background exactly; a cropped surface's status is not looked at |
| `epdfinfo.c:264` | a line with a single dot is not escaped |
| `pdf-info.el:349` | the error of reading an answer is caught where `done` is not set: the query waits on |
| `epdfinfo.c:1378`, `1331` | the page of a goto-remote action is checked against the wrong document; launch links are never printed |
| `synctex_parser.c:5706`, `5784`, `5758` | refs in a vbox or without a form: a freed ref stays linked, a link of NULL is read, proxies are forgotten |
| `synctex_parser.c:5088`, `5137`, `5671`, `5318` | forms in themselves and comments are not recognised, two records are lost for one, a box comes before those inside it |
| `synctex_parser.c:4526`, `6133`, `4488`, `4319`, `3993`, `4010` | settings: Y Offset stored as x, a number cut by the window, a preamble given up, strings at the end of the file or beyond two windows |
| `synctex_parser.c:7114`, `6280` | handles not ordered by weight beyond the first; a source found by the wrong name |
| `synctex_parser.c:623`, `692`, `8495` | an older file hides a newer; a separator missed; the updater's branches exchanged |
| `pdf-occur.el:613`, `547` | an error answer leaves a search in progress; documents that were not searched count as without matches |
| `emacsql.el:269` | a wait for `[:commit]` that ends with an error does not roll back: the commit is executed first |
| `emacsql.el:171`, `193`, `sqlite/emacsql.c:120` | a late answer is returned as that of the next query; the prompt is another than documented; a statement is taken for a length |
| `init.el:264` | `pkg-name` is bound nowhere, so that tests cannot be generated into an empty buffer |
| `imperial-layout.el:55` | `ensure-layout` runs when splitting is forbidden already and leaves one window, called `main` |
| `expand-function.el:103` | every second word is skipped and definitions are nested in the first |
| `epdfinfo.c:1870` | the day a markup annotation was created on is printed in a form the client cannot read: it is always nil |
| `expand-function.el:108` | from inside a word, or before a symbol that is no word, more than the original word is deleted |

## 5. Proofs

TLAPS checks these for every value of the constants that satisfies the
assumptions of the modules, and those named in the table.

| Theorem | States |
|---|---|
| `EpdfinfoProofs!Invariant`, `Registry` | `Spec` implies `[]IInv`, `[]RegistryCoherent` |
| `EpdfinfoProofs!Listings` | `Spec` implies `[]ListingComplete` |
| `EpdfinfoProofs!Errors`, `Keys` | `Spec` implies `ErrorsChangeNothing`, `KeysStable` (action properties) |
| `PdfInfoProofs!Invariant`, `OwnAnswers` | `~ Split` and `Spec` imply `[]IInv`, `[]OwnAnswer` |
| `PdfInfoProofs!Refinement` | `~ Split` and `Spec` imply `ServiceSpec` |
| `PdfViewProofs!CachesAreCurrent`, `EditsAreKept` | `"remote" \notin Busy` and `Spec` imply `[]CacheCurrent`, `[]EditsKept` |
| `PdfInfoProofs!MatchesOwn`, `CountedMatches`, `LeftPages` | `OccurSpec` implies `[]OwnMatches`, `[]MatchesCounted`, `[]PagesLeft` |
| `SynctexProofs!Attaching`, `LinksAgree` | `ContentSpec` implies `[]TreeInv`, `[]TreeCoherent` |
| `SynctexProofs!Befriending`, `FriendsAgree` | `ContentSpec` implies `[]FriendInv`, `[]FriendLists` |
| `SynctexProofs!PointsShown` | `Upstanding` and `ContentSpec` imply `[]VisiblePoints` |
| `SynctexProofs!ChainHolds` | `ContentSpec` implies `[]NextHboxes` |
| `SynctexNodeProofs!ContainsThePoint`, `ContainsTheBox` | a box whose visible size is widened for a point or a box contains it and what it contained before |
| `ServerProofs!ArgumentsArrive`, `AnswerReturned` | `Split` undoes `QueryLine` for every query; what the client makes of every printed answer that does not look ended before its end is that answer |
| `ServerProofs!Latest` | `Spec` of `SynctexOpen` implies `[]LatestRead` |
| `ServerProofs!OwnRows` | `NSql \in Nat` and `SqlSpec` imply `[]InStep` |
| `ServerProofs!Transactions` | `~ Nested` and `TransactionSpec` imply `[]AllOrNothing` |
| `PartsProofs!OnePurposeEach`, `Forbidden` | `Spec` of `WindowLayout` implies `[]PurposesDistinct`, `NoWindowWhileForbidden` |
| `PartsProofs!OpensLatest`, `AnswersInStep` | `PartsSpec` implies `[]LatestRead`, `[]InStep` |
| `PartsProofs!BenchmarksComplete`, `AddsNothingMore` | `PartsSpec` implies `[]EveryBenchmark`, `AgainNothing` |
| `ServerProofs!Renders` | `RenderSizes` and `RenderSpec` of `EpdfinfoRender` imply `[]RendersRight` |
| `PartsProofs!RenderedRight` | `PartsSpec` implies `[]RendersRight` |
| `PartsProofs!TextsArrive`, `RestKept` | `PartsSpec` implies `[]Arrives`, `[]KeepsRest` |
| `PartsProofs!WritesAllOrNothing` | `~ Nested` and `PartsSpec` imply `[]AllOrNothing` |

**Epdfinfo.**  `RegistryCoherent` is not inductive: adding an annotation keeps
keys and identities unique only if the new identity is nowhere in use, neither in
memory nor in a file or tempfile from which a document may be opened next, and
numbering a page needs its annotations to be finite in number and on one page
each.  `IInv` adds just that (`GoodPDF` of every PDF there is) and the types.
The lemmas are about the operators: the numbering of a page is injective
(`Index`, from cardinalities of nested finite sets), `Load` makes a coherent
document of a coherent one, `FreeIndex` exists and is free (a table with fewer
keys than the interval searched cannot fill it), and registering, deleting and
editing keep documents coherent.  Then there is one step per command.

**Its commands.**  `Answers(f, pw)` says what every command that names a document
has in common: it puts one document back that was open or has just been opened, with
the same password, unchanged if the answer is an error, and without giving a key another meaning.
`CommandAnswers` shows it of each command, from `IInv`; the other steps change no document or
close some.  `Errors` and `Keys` follow without looking at commands again.  Keys
keep their meaning because a page is loaded only when it has no entries
(`LoadKeepsKeys`) and a free index is in no entry.  `Listings` is about the one
command that lists: an annotation is listed if its page is loaded, and the
registry of a loaded page is what poppler has there (`RegistryCoherent`, on the
document that the listing leaves).

**PdfInfoQueue.**  That answers find their closures needs that what is on its way
(answers, then unread requests) is what the queue waits for, in the same order,
and a beginning of it when the server has died (`Aligned`).  This in turn needs
that the queue holds exactly the pending queries, oldest first, and that no queue
means no closures (`Ordered`).  `Aligned` is false when an answer may look like
two, hence the assumption `~ Split`; the run `queue_returns` allows for such
answers and shows what still holds.  The refinement maps a dropped or unread query
to a lost one; a query that restarts the server is a `Submit` that loses what was
pending, closing is `Stop`, delivering is `Answer` of the oldest pending query,
readable or not, and all other steps stutter.

**PdfView.**  Both properties speak of the top level, where no wait is left; what
they need is what holds in the waits, `ViewInv`:

* `WaitsOK`: there are only lookups above the first wait, each request and each
  answer is for a wait that has no answer yet, no two are for the same, and an
  answer is of the kind that the wait can use.
* `CachesInv`: what was seen of the document (in the caches, in the waits and in
  answers) is what it shows now, but for what is `Old`: the page of an edit
  under way, everything during a revert and at the end of a local save.  That is
  forgotten when the first wait ends.  An answer under way may be of such a page
  only if it arrives before the first wait ends (`Due`: the answer of the
  first wait, or the request for it, is behind it), since what arrives after the
  forgetting stays in the cache.  At the end of the save of a remote file the
  document is closed in between, and what was seen is compared with what was
  saved (`Shown`).
* `SavedInv`, `ClosedInv`: what is copied over the file is still what the document
  holds; a remote document that is closed is not open again when the wait ends.
* `EditsInv`: where the edits are in each phase, and that they are numbered by
  `nedits`, so that the edit under way is in no file.

A step that leaves the first wait alone, or happens while it only reads, keeps
`EditsInv` and needs an argument about the caches only (`CalmStep`); edits, saves,
reverts, the server's steps, other programs' writes and crashes have a step each.
The hypothesis `"remote" \notin Busy` is the code's own limit: when Lisp runs in the waits of a
remote buffer, `ClosedInv` fails, and with it the property of `view_remote`.
No bound of the model is used, and the caches' part excepts crashes as
`CacheCurrent` does.  `ViewInv` was checked by TLC on the `view` instance before
it was proved.

**PdfOccur.**  `OccurInv` adds to the three properties that the batches to come are
of the search shown (`Asked`), that they have no page in common (`Disjoint`, from
documents being listed once and batches covering each without overlap), and that no row shown is
of a page still to be searched (`Unseen`).  An answer then adds exactly as many
rows as it has matches, and takes as many pages off the number left as its
batch has; removing documents takes off both what is in the rows and what is in
the batches.

**Subsequence.**  What a recursive definition computes for every input is an
induction over data, and the induction theorems of the library take an operator
as parameter, which the provers cannot instantiate.  `SubsequenceProofs` states
them with sets and functions instead: a set of naturals with 0 and the successor
of each of its members up to N has all of them (`Induction`, from the
well-foundedness of finite sets under inclusion), and a function with a given
start and step exists and is the one that the recursive definition chooses
(`Recursion`).  `ThoseOf` follows: what is left of a sequence are the elements in
question, in their order, each as often as before, `ThoseAll`: all of them, and
`ThoseJoin`: of two texts, one behind the other, what is left of each.

**SynctexGeometry.**  Widening is done to the left, to the right and upwards in
turn, with cases for a negative width; each lemma says of one of them that no
edge moves inwards.

**SynctexContent.**  `Records`, `RefPlaces` and `Mixes` are any sets; all that is assumed
of a record is that what it gives are numbers (`RecordsAssumption`), so the theorems
are about files of any length, with boxes nested as deep as one likes, forms
anywhere, bad records, and a file that ends too early.  They speak of `ContentSpec`:
of everything that happens until the postamble is read, and of what is there
afterwards if there are no refs.  What putting proxies in the place of refs makes
of trees and lists is checked by TLC alone, on the run `synctex_parse`.

The code knows where to put a node from two locals, `parent` and `child`, and from
the sibling or the child being null there; nothing says that this is the end of
the list.  `TreeInv` has what it takes.  `Tree`: a node with a parent is that
one's first child or comes after another of its children; a sibling was made
after the node before it, and has its parent; so a list of children ends, and
has all the nodes with that parent (`ChildrenOf`, by `Induction` on the nodes
in the order in which they were made).  `PlaceRight`: where there is a `child`, it is the
last child of `parent`, or of a form that has ended within the sheet, behind
whose nodes those of the sheet are put then.  `HandlesRight`: the other locals
and the handles of the scanner are nodes of the classes they are taken for.
`HeadsRight`: an hbox begins with its boundary node, which the mean line is computed
around.  `BoxesRight`: the boxes that are open are deeper than what they are in and less
deep than there are lists in `cur.x`, so that leaving a box always finds its list of
waiting boundary nodes.  A form that begins within a sheet leaves boxes open of which
the code keeps nothing but those lists; of `Depths`, a function from nodes to
numbers, it is enough to know that there is one.  Each record then is one way of
putting one new node (`Attached`) or two (an hbox and its boundary node) in the
place the invariant describes.

`FriendInv` says the same of the other structure on those nodes: some function gives
each node the number of the list it is in, or -1.  The next friend of a node is in
the same list and no other node leads to it; for rules, math and boundary nodes and vboxes
the number is that of tag plus line (`FriendRight`).  That a node comes into a list once
only rests on who may still come into one: the boundary nodes that wait in `cur.x` are there
once each and in no list (`Waits`), a vbox is a friend only if it has no child
and has been left (`Childless`), and the lists of refs, which the code keeps in the
same field, begin at nodes nobody leads to (`Unled`).  `SetTlc` changes the tag and the line
of waiting nodes only, or of classes that may be in another list
than their own.

`VisiblePoints` rests on `SeenInv`: the visible size of every hbox is upright, and
every glue, math and boundary node whose parent is an hbox lies in it.  An attachment
comes before the hbox grows around what is attached, so `Seen(H, X)` leaves out the nodes
`X` that have just been attached, and one lemma per kind of record shows that the call
that follows takes them in (`LeafSizeSeen`, `LeavesSeen`, `BeginHboxSeen`,
`EndHboxSeen`).  A box that grows still contains what it did (`GrowsOnly`,
`WithinInside`), and nothing moves a point once it is attached but `Framed`, which
places the boundary nodes of the box it closes.  The assumption `Upstanding` is that no record of an hbox has a negative
sum of height and depth: the edges of such a box are upside down, and the two tests
of `make_hbox_contain_point`, joined by `else`, widen it towards one of them only.

That the chain of a sheet comes to an end, and at which hboxes it passes, is nowhere
to be seen in the chain: an hbox is put in front of it when it is closed, and what
was in front is whatever the sheet says.  `NestInv` adds what the nodes do not record, as three functions
of which it is enough that there are some (`Nests`): `R` gives each node the root it is
below, `E` the time at which it was finished, 0 while it is open, and all times are at most `T`.
A node is finished before the one it is in, an open one is in open ones only
(`NestRight`), and along the chain the root stays the same and the time goes down
(`NextRight`); so the chain ends and has no hbox twice (`ChainFalls`), an
outer hbox comes before those in it (`AncestorsLater`), and no closed hbox of the sheet
is missing: the one of those missing that was closed last would follow one that is
there (`SheetChain`, with `Largest`).  Closing a box needs that everything in it is
finished, which is so because the place of the next node is the end of the list of the box and
all but the last of them have a sibling (`ChildrenFinished`).  A form that begins inside
a sheet breaks this: when it ends, what follows is put behind the
nodes of the form, with the boxes around it still open, so `NestInv`, like
`NextHboxes`, is about files without one (`mix.inner_form # 2`).

**PdfInfoText.**  Both readers, `command_arg_split` and the client's reader of
records, are taken as functions from states and characters to states (`Splitter`,
`RecordReader`); `Leads` says that some characters lead from one state to another, and
what is read in two pieces leads over the state between them (`LeadsOn`).  A reader for which
the escape of each character leads from having read `t` of a field to having read
`t` and that character takes every escaped text for the text (`EscapeLeads`), and
every line of fields for the fields (`BodyLeads`): both by `Induction`, on the
length of the text and on the number of fields.  What remains is one case per kind of
character for each reader (`SplitterTakes`, `ReaderTakes`).  For the end of an
answer, output is `Clean` if it ends with a line and no line of it is a single dot;
records other than a single dot are printed clean, since a field that begins a line
with a dot is followed by something else, and the queue cuts clean output exactly behind
the dot the server adds (`CutAtEnd`).

**PdfInfoWire.**  `WireInv`: what is on the way is what the formats make of what was
sent, queries have at least one text, answers are records with at least one field
each or a message.  That an error names a text that was given needs that "REST" is
only ever the last of a command's types (`CommandSpecs`, `Blamed`).

**EpdfinfoRender.**  The cache of the last colour always holds what that colour is
converted to, so each pixel becomes what its own colour is converted to
(`InvertedEach`, by `Induction` on the pixels) and the image is a function of
the picture's colours (`Recoloured1`).  The box is that of the first and the last column and row
that are not all of the corner's colour, which exist as soon as one pixel is not
(`Ends`, `BoxOfImage`).  For the crops, `RenderInv` has that edges after n arguments can be
quartered as often as arguments may still come (`Edge`, with `Unit` twice a power of four, so
that the model rounds nowhere the code does not): an edge asked for then lies
exactly where it should on the page (`AlongExact`).  The two roundings of the image to
pixels err by half a pixel each, of which the second counts for as much as was asked
for, so what is painted misses its place by one at most (`NearBy`).  The theorem is used
twice, for the part `options` and for the part `commands` (`OptionsSame`, `CommandsSame`).

**SynctexOpen.**  `LatestFile`: what TeX wrote last is under the quoted name, if
there is a file of that name, and else under the other one; renaming moves it
from the first to the second.  `CanFind`: the names a reader has still to try,
which are the last of the four and are counted by `Rank`, include the quoted
name, or the other one when what is there now is new enough (`Recent`).  A
reader that passes the quoted name finds it absent, and then the latest file is
under the other, still to come.  It needs that the names with quotes are tried first: the
mutant `PlainFirst` breaks it.

**Emacsql.**  `OnItsWay`: for the innermost wait, if its query was made while all
was quiet, what has arrived and what is on its way are together nothing, the
whole of its answer, or what a process without memory says last; the pipe moves
the border only (`Moving`).  What is read at a prompt is then the beginning of the
answer (`ReadsOwn`).  Waits that are not innermost have been interrupted
(`Interrupted`), queries to come have no results (`Unasked`).

**EmacsqlTransaction.**  What is pending and stored belongs to the place where the
process is, not its Emacs: at the first of the statements sent and not executed, or
where the macro is if there are none (`Process`, `Before`).  `TransactionInv` says so,
and that what is sent is at most one statement given up and what ends the transaction
(`SentWell`).  Executing a statement leads to the next place, and whichever it was the
rest can be rolled back (`ExecuteKeeps`); a step of one Emacs or its process leaves
what is said of another (`OneIsEnough`).  With nested transactions it is false, which
is the run `emacsql_nested`.

**WindowLayout.**  `LayoutInv` is `PurposesDistinct` with types and what loading
establishes; `SplitFrame` and `DeleteFrame` say how the sequence of purposes changes.

**GoGenerate.**  `GoInv`: as long as the last thing that happened is a generator
that succeeded, every name it looks for in the source is defined in its buffer.  A
generator appends what is missing, all of it (`AllAdded`), so the invariant holds
whatever the buffer was, and then nothing is missing (`NoneMissing`).  Saving, or
declining to, keeps the definitions (`SaveKeeps`).

**ExpandFunction.**  The loop that collects knows the end of the first word
behind the point as soon as it has collected one, and has come that far at least
(`Collecting`, by `Induction` on its rounds; `forward-word` may stop before it, but
then nothing has been collected), so what is deleted reaches from the point to
there.  Definitions hold none of the characters of the text, and inserting what
holds none changes nothing of them, wherever it is inserted (`ThoseInserted`);
that searches for braces move the point does not matter then.  So it holds for
texts, arguments and definitions of any length.

**MCParts.**  Which part runs never changes, so a behaviour of `PartsSpec` that
runs a part is a behaviour of the part's own specification, on the variables it
stands for, and the part's theorem applies.  `OpensLatest`, `RenderedRight`, `AnswersInStep` and
`WritesAllOrNothing` carry the theorems of `ServerProofs`
over to the run in this way; what the run's instance and the instance of the
proof module define is shown to be the same (`OpenSame`, `SqlSame`,
`TransactionSame`).  `TextsArrive` rests on the lemmas about `PdfInfoText` in the same
way (`TextSame`).

**Model-checked only.**  Liveness (`ReturnsUnlessOrphaned`, `SearchEnds`): fairness
and ENABLED are out of the prover's reach.  Post
processing and queries of the synctex parser (`ProxiesFound`, and what a run says of
`TreeCoherent`, `FriendLists`, `NextHboxes` and `VisiblePoints` afterwards; the properties of `SynctexQuery`): they
make nodes while they walk over them, with operators declared `RECURSIVE`, for which
there is no SMT backend.  `SheetNodesFound` of `SynctexContent` has no proof yet;
`NestInv` and `FriendInv` are what one would begin with.  The
properties of the reader, names and answers are checked on the instances above
and not proved; their recursion is written with functions, so that they can be.

## 6. Not modelled

* **pdf-tools**: annotations with their hooks (`pdf-annot.el`; `PdfView` has the
  one edit that concerns files and caches), isearch, history, virtual documents
  and composed queries are sequential Lisp on top of what is modelled and are the next in
  line (section 7).  Outline, links, metadata and menus show what one query returned.
  Geometry and image conversion by external programs, building and loading the server
  have no state that evolves.
* **epdfinfo**: what poppler and cairo draw, memory, and starting up; answers of a
  single field that are read as they are.
* **synctex parser**: the updater, the build directory (which epdfinfo never
  gives), displaying and logging, the character index, columns (constant in the
  code that fills them), and accessors that only return a field.
* **emacsql**: the compiler of s-expressions, the other back-ends, and SQLite
  (`sqlite/sqlite3.h` and the amalgamation are vendored).
* **Own Lisp**: the display rules by buffer name and the mode line of the layout,
  the minor mode and hooks of the expansion, and the rest of `init.el`, which is
  settings in order of evaluation.
* **Theme, other packages, archives, bootstrap data**: tables, about 95 packages
  vendored as they were installed with their own projects and tests, and
  downloaded indexes.

## 7. Plan

What is left, in this order.

1. **Proofs for the rest of `MCParts`**: the window of the reader.
2. **History** (`pdf-history.el`): the stack of pages with its index, and the hook
   that pushes while the history is being walked through: walking changes no
   entry; forward undoes backward; the index stays in the stack.
3. **Annotations** (`pdf-annot.el`): atomic modifications, hooks that modify, the
   lists of changes, several buffers.
4. **isearch**: states pushed and popped, late highlighting dropped by a tick, on
   top of `PdfView`; killing a buffer and visiting it again.
5. **Composed queries** as an abstract service on top of `QueryService`.
6. **Virtual documents**: page maps as operators against a reference.
