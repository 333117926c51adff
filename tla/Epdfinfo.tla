------------------------------ MODULE Epdfinfo ------------------------------
(***************************************************************************)
(* The PDF server of pdf-tools (server/epdfinfo.c): one process that reads *)
(* one command per line and answers each with one reply.  Its state is a   *)
(* table of open documents.  Each document holds the PDF as poppler has it *)
(* in memory (with the unsaved edits), the annotations registered so far,  *)
(* per page and by key, and its options.                                   *)
(*                                                                         *)
(* A step is one command, executed whole: the main loop is single-threaded *)
(* and replies before it reads on.  Annotations are identified by a Uid    *)
(* that lives as long as the annotation does, in memory and on disk; keys  *)
(* <<page, index>> are the server's names for them ("annot-P-I").          *)
(***************************************************************************)
EXTENDS Integers, FiniteSets, Functions

CONSTANTS Files,      \* file names
          Locked,     \* the files that poppler opens with a password only
          NPages,     \* pages of every document
          Uids,       \* identities of annotations
          Props, Vals,        \* properties of annotations and their values
          Options, OptVals,   \* the document's options and their values
          OnDisk              \* the PDFs the files may hold at first

ASSUME FilesAssumption == Locked \subseteq Files
ASSUME PagesAssumption == NPages \in Nat \ {0}
ASSUME UidsAssumption  == Uids \subseteq Nat
ASSUME PropsAssumption == Props \subseteq {"flags", "label", "icon"}
ASSUME ValsAssumption  == Vals # {} /\ OptVals # {}

Pages == 1 .. NPages
Kinds == {"text", "highlight", "link"}

Default  == CHOOSE v \in Vals : TRUE
Bad      == "bad argument"      \* a value that does not parse
Unknown  == "unknown option"    \* an option name the server does not have
NoPass   == "no password"
RightPass == "right password"
WrongPass == "wrong password"
Passwords == {NoPass, RightPass, WrongPass}

(* What poppler knows of a PDF: the annotations of each page and their     *)
(* attributes.  Poppler lists a page's annotations oldest first.           *)
Attr == [kind : Kinds, props : [Props -> Vals]]
PDF  == [annots : [Pages -> SUBSET Uids], attr : [Uids -> Attr]]

Key   == Pages \X Nat
Entry == [key : Key, uid : Uids]            \* an annotation_t
Doc   == [pdf : PDF, pages : [Pages -> SUBSET Entry],
          keys : SUBSET Entry,
          opts : [Options -> OptVals], passwd : Passwords]

(* A PDF has finitely many annotations, each on one page.                  *)
AllAnnots(pdf) == UNION {pdf.annots[p] : p \in Pages}
PDFOk(pdf) ==
  /\ IsFiniteSet(AllAnnots(pdf))
  /\ \A p, q \in Pages : p # q => pdf.annots[p] \cap pdf.annots[q] = {}

ASSUME OnDiskAssumption == \A pdf \in OnDisk : pdf \in PDF /\ PDFOk(pdf)

VARIABLES disk,      \* the files, as other programs see them
          docs,      \* ctx->documents: a function on the open files
          saved,     \* the tempfile the last save of a file has written
          used,      \* the identities given to annotations so far
          running,   \* the process has not exited
          reply      \* the last reply

vars == <<disk, docs, saved, used, running, reply>>
-----------------------------------------------------------------------------
Put(f, x, v) == [y \in DOMAIN f \cup {x} |-> IF y = x THEN v ELSE f[y]]
Drop(f, x)   == Restrict(f, DOMAIN f \ {x})

(* A reply: to which command, whether it is OK and, for a listing, of what *)
(* it lists which annotations.                                             *)
Listing(cmd, f, R, us) ==
  [cmd |-> cmd, ok |-> TRUE, file |-> {f}, pages |-> R, uids |-> us]
Reply(cmd) ==
  [cmd |-> cmd, ok |-> TRUE, file |-> {}, pages |-> {}, uids |-> {}]
Error(cmd) ==
  [cmd |-> cmd, ok |-> FALSE, file |-> {}, pages |-> {}, uids |-> {}]

(* document_open on a file that is not open: nothing is registered yet.    *)
Fresh(f, pw) ==
  [pdf   |-> disk[f],
   pages |-> [p \in Pages |-> {}],
   keys  |-> {},
   opts  |-> [o \in Options |-> CHOOSE v \in OptVals : TRUE],
   passwd |-> pw]

IsOpen(f)      == f \in DOMAIN docs
CanOpen(f, pw) == IsOpen(f) \/ f \notin Locked \/ pw = RightPass
Opened(f, pw)  == IF IsOpen(f) THEN docs[f] ELSE Fresh(f, pw)

(* An argument of type ARG_DOC opens its document if need be, without a    *)
(* password, and before any later argument is looked at.                   *)
ArgDoc(f) == CanOpen(f, NoPass)
D(f)      == Opened(f, NoPass)
Keep(f)   == docs' = Put(docs, f, D(f))
-----------------------------------------------------------------------------
(* annoation_get_for_page: a page's annotations get their keys when the    *)
(* page is first asked for, numbered in poppler's order.  A page whose     *)
(* list is empty is read again each time.                                  *)
Index(S, u)   == Cardinality({v \in S : v < u})
Entries(p, S) == {[key |-> <<p, Index(S, u)>>, uid |-> u] : u \in S}

(* Mutant of ToLoad: a document that has keys is taken as loaded.          *)
ToLoadOnce(d, R) == IF d.keys = {} THEN R ELSE {}

ToLoad(d, R)    == {p \in R : d.pages[p] = {}}
NewEntries(d, R) == UNION {Entries(p, d.pdf.annots[p]) : p \in ToLoad(d, R)}

(* The table of keys is a hash table: what is inserted replaces what had   *)
(* the same key.                                                           *)
KeysOf(es)      == {e.key : e \in es}
Insert(es, new) == {e \in es : e.key \notin KeysOf(new)} \cup new
Lookup(d, k)    == CHOOSE e \in d.keys : e.key = k

Load(d, R) ==
  [d EXCEPT !.pages = [p \in Pages |-> IF p \in ToLoad(d, R)
                                       THEN Entries(p, d.pdf.annots[p])
                                       ELSE d.pages[p]],
            !.keys  = Insert(@, NewEntries(d, R))]

(* Mutant of FreeIndex: the length of the list is taken as free.           *)
LengthIndex(d, p) == Cardinality(d.pages[p])

(* cmd_addannot takes the first free index from the length of the list on; *)
(* the table has too few keys to fill the interval searched.               *)
FreeIndex(d, p) ==
  LET n == Cardinality(d.pages[p])
      free == {i \in n .. n + Cardinality(d.keys) :
                 <<p, i>> \notin KeysOf(d.keys)}
  IN CHOOSE i \in free : \A j \in free : i <= j

(* Mutant of Register: the table of keys is forgotten.                     *)
RegisterInList(d, p, e) == [d EXCEPT !.pages[p] = @ \cup {e}]

Register(d, p, e) ==
  [d EXCEPT !.pages[p] = @ \cup {e}, !.keys = Insert(@, {e})]

(* poppler_page_add_annot                                                  *)
NewAttr(kind) == [kind |-> kind, props |-> [q \in Props |-> Default]]
WithAnnot(pdf, p, u, a) == [pdf EXCEPT !.annots[p] = @ \cup {u}, !.attr[u] = a]

PageIndex(pdf, u) == CHOOSE p \in Pages : u \in pdf.annots[p]
IsMarkup(kind)    == kind \in {"text", "highlight"}

(* annotation_edit_validate: the property fits the kind of annotation, and *)
(* its value parses.  "flags" stands for the properties every annotation   *)
(* has, "label" for those of markup annotations, "icon" for those of text  *)
(* annotations.                                                            *)
ValidEdit(kind, prop, val) ==
  /\ prop = "label" => IsMarkup(kind)
  /\ prop = "icon"  => kind = "text"
  /\ val # Bad
-----------------------------------------------------------------------------
Open(f, pw) ==                                            \* cmd_open
  /\ UNCHANGED <<disk, saved, used, running>>
  /\ \/ /\ CanOpen(f, pw)
        /\ docs'  = Put(docs, f, Opened(f, pw))
        /\ reply' = Reply("open")
     \/ /\ ~ CanOpen(f, pw)
        /\ reply' = Error("open")
        /\ UNCHANGED docs

Close(f) ==                                               \* cmd_close
  /\ docs'  = Drop(docs, f)
  /\ reply' = Reply(IF IsOpen(f) THEN "close: 1" ELSE "close: 0")
  /\ UNCHANGED <<disk, saved, used, running>>

Quit ==                                                   \* cmd_quit, cmd_closeall
  /\ docs'    = [f \in {} |-> Fresh(f, NoPass)]
  /\ running' = FALSE
  /\ reply'   = Reply("quit")
  /\ UNCHANGED <<disk, saved, used>>

GetAnnots(f, first, last) ==                              \* cmd_getannots
  /\ ArgDoc(f)
  /\ docs'  = Put(docs, f, Load(D(f), first .. last))
  /\ reply' = Listing("getannots", f, first .. last,
                      {e.uid : e \in UNION {Load(D(f), first .. last).pages[p] :
                                            p \in first .. last}})
  /\ UNCHANGED <<disk, saved, used, running>>

GetAnnot(f, k) ==                                         \* cmd_getannot
  /\ ArgDoc(f) /\ Keep(f)
  /\ reply' = IF k \in KeysOf(D(f).keys)
              THEN Reply("getannot") ELSE Error("getannot")
  /\ UNCHANGED <<disk, saved, used, running>>

(* cmd_addannot registers the page's annotations before it adds the new    *)
(* one to the poppler page.  A link cannot be created; markup annotations  *)
(* are refused when their regions are empty or malformed.                  *)
AddAnnot(f, p, kind, accepted) ==
  LET d == Load(D(f), {p})
      k == <<p, FreeIndex(d, p)>>
  IN /\ ArgDoc(f)
     /\ UNCHANGED <<disk, saved, running>>
     /\ \/ /\ accepted /\ kind # "link"
           /\ \E u \in Uids \ used :
                /\ \A w \in used : w < u
                /\ \A w \in Uids : w < u => w \in used
                /\ used'  = used \cup {u}
                /\ docs'  = Put(docs, f,
                     [Register(d, p, [key |-> k, uid |-> u]) EXCEPT
                        !.pdf = WithAnnot(@, p, u, NewAttr(kind))])
                /\ reply' = Reply("addannot")
        \/ /\ ~ accepted \/ kind = "link"
           /\ Keep(f)
           /\ reply' = Error("addannot")
           /\ UNCHANGED used

DelAnnot(f, k) ==                                         \* cmd_delannot
  LET d == D(f)
      e == Lookup(d, k)
      p == PageIndex(d.pdf, e.uid)
  IN /\ ArgDoc(f)
     /\ UNCHANGED <<disk, saved, used, running>>
     /\ \/ /\ k \in KeysOf(d.keys)
           /\ docs'  = Put(docs, f,
                [d EXCEPT !.pdf.annots[p] = @ \ {e.uid},
                          !.pages[p] = @ \ {e},
                          !.keys     = @ \ {e}])
           /\ reply' = Reply("delannot")
        \/ /\ k \notin KeysOf(d.keys)
           /\ Keep(f)
           /\ reply' = Error("delannot")

(* Mutant of EditAnnot: each property is applied as soon as it is valid.   *)
EditAnnotOneByOne(f, k, edits) ==
  LET d == D(f)
      u == Lookup(d, k).uid
      good == {q \in DOMAIN edits : ValidEdit(d.pdf.attr[u].kind, q, edits[q])}
  IN /\ ArgDoc(f) /\ k \in KeysOf(d.keys)
     /\ UNCHANGED <<disk, saved, used, running>>
     /\ docs'  = Put(docs, f, [d EXCEPT !.pdf.attr[u].props =
                   [q \in Props |-> IF q \in good THEN edits[q] ELSE @[q]]])
     /\ reply' = IF good = DOMAIN edits THEN Reply("editannot")
                                        ELSE Error("editannot")

(* cmd_editannot validates every property and value first and applies them *)
(* only then.  edits maps the properties of the request to values.         *)
EditAnnot(f, k, edits) ==
  LET d == D(f)
      u == Lookup(d, k).uid
      valid == /\ k \in KeysOf(d.keys)
               /\ \A q \in DOMAIN edits :
                     ValidEdit(d.pdf.attr[u].kind, q, edits[q])
  IN /\ ArgDoc(f)
     /\ UNCHANGED <<disk, saved, used, running>>
     /\ \/ /\ valid
           /\ docs'  = Put(docs, f,
                [d EXCEPT !.pdf.attr[u].props =
                   [q \in Props |-> IF q \in DOMAIN edits
                                    THEN edits[q] ELSE @[q]]])
           /\ reply' = Reply("editannot")
        \/ /\ ~ valid
           /\ Keep(f)
           /\ reply' = Error("editannot")

(* cmd_save writes the document to a new tempfile; poppler may fail.       *)
Save(f) ==
  /\ ArgDoc(f) /\ Keep(f)
  /\ \/ saved' = [saved EXCEPT ![f] = {D(f).pdf}] /\ reply' = Reply("save")
     \/ reply' = Error("save") /\ UNCHANGED saved
  /\ UNCHANGED <<disk, used, running>>

GetOptions(f) ==                                          \* cmd_getoptions
  /\ ArgDoc(f) /\ Keep(f)
  /\ reply' = Reply("getoptions")
  /\ UNCHANGED <<disk, saved, used, running>>

(* cmd_setoptions collects the new values in a copy and stores the copy    *)
(* when every name and value has been accepted.                            *)
SetOptions(f, new, even) ==
  LET d == D(f)
      valid == even /\ \A o \in DOMAIN new : o \in Options /\ new[o] # Bad
      opts  == [o \in Options |-> IF o \in DOMAIN new THEN new[o] ELSE d.opts[o]]
  IN /\ ArgDoc(f)
     /\ UNCHANGED <<disk, saved, used, running>>
     /\ \/ /\ valid
           /\ docs'  = Put(docs, f, [d EXCEPT !.opts = opts])
           /\ reply' = Reply("setoptions")
        \/ /\ ~ valid
           /\ Keep(f)
           /\ reply' = Error("setoptions")

(* The commands that only read a document (number-of-pages, pagesize,      *)
(* gettext, renderpage, ...): they succeed or report an error.             *)
ReadDoc(f, ok) ==
  /\ ArgDoc(f) /\ Keep(f)
  /\ reply' = IF ok THEN Reply("read") ELSE Error("read")
  /\ UNCHANGED <<disk, saved, used, running>>

(* A document that cannot be opened ends any command that names it.        *)
ArgDocFails(f) ==
  /\ ~ ArgDoc(f)
  /\ reply' = Error("open")
  /\ UNCHANGED <<disk, docs, saved, used, running>>

(* Commands without a document (ping, features, regexp-flags), unknown     *)
(* commands and commands with the wrong number of arguments.               *)
NoDoc(ok) ==
  /\ reply' = IF ok THEN Reply("ping") ELSE Error("unknown")
  /\ UNCHANGED <<disk, docs, saved, used, running>>

(* Another program (the Emacs client) copies the tempfile over the file.   *)
Replace(f) ==
  /\ \E pdf \in saved[f] : disk' = [disk EXCEPT ![f] = pdf]
  /\ UNCHANGED <<docs, saved, used, running, reply>>
-----------------------------------------------------------------------------
PartialFns(S, T) == UNION {[X -> T] : X \in SUBSET S}

(* Requests to edit: labels and icons are strings and always parse.        *)
Edits == {e \in PartialFns(Props, Vals \cup {Bad}) :
            \A q \in DOMAIN e : e[q] = Bad => q = "flags"}

(* The keys a request may name: those in use and one that is not.          *)
Requestable(f) == (IF IsOpen(f) THEN KeysOf(docs[f].keys) ELSE {}) \cup {<<1, 0>>}


Init ==
  /\ disk \in [Files -> OnDisk]
  /\ used = {u \in Uids : \E f \in Files, p \in Pages : u \in disk[f].annots[p]}
  /\ docs    = [f \in {} |-> Fresh(f, NoPass)]
  /\ saved   = [f \in Files |-> {}]
  /\ running = TRUE
  /\ reply   = Reply("none")

Command ==
  \/ \E f \in Files :
       \/ \E pw \in Passwords : Open(f, pw)
       \/ Close(f) \/ Save(f) \/ GetOptions(f) \/ ArgDocFails(f)
       \/ \E first, last \in Pages : GetAnnots(f, first, last)
       \/ \E k \in Requestable(f) :
            \/ GetAnnot(f, k) \/ DelAnnot(f, k)
            \/ \E edits \in Edits : EditAnnot(f, k, edits)
       \/ \E p \in Pages, kind \in Kinds, accepted \in BOOLEAN :
            AddAnnot(f, p, kind, accepted)
       \/ \E new \in PartialFns(Options \cup {Unknown}, OptVals \cup {Bad}),
             even \in BOOLEAN : SetOptions(f, new, even)
       \/ \E ok \in BOOLEAN : ReadDoc(f, ok)
  \/ \E ok \in BOOLEAN : NoDoc(ok)
  \/ Quit

Next == running /\ (Command \/ \E f \in Files : Replace(f))

Spec == Init /\ [][Next]_vars
-----------------------------------------------------------------------------
(* The variables have their types; a PDF, in memory or on disk, has every  *)
(* annotation on one page.                                                 *)
TypeOK ==
  /\ disk \in [Files -> PDF]
  /\ DOMAIN docs \subseteq Files
  /\ docs = [f \in DOMAIN docs |-> docs[f]]
  /\ \A f \in DOMAIN docs : docs[f] \in Doc
  /\ saved \in [Files -> SUBSET PDF]
  /\ used \in SUBSET Uids
  /\ running \in BOOLEAN
  /\ reply.ok \in BOOLEAN

(* The two registries of a document, the lists per page and the table of   *)
(* keys, hold the same annotation_t's (annoation_get_for_page,             *)
(* cmd_addannot and cmd_delannot update both), each under a key of its     *)
(* page, and no key or annotation is registered twice.                     *)
TablesAgree(d) ==
  /\ d.keys = UNION {d.pages[p] : p \in Pages}
  /\ \A p \in Pages : \A e \in d.pages[p] : e.key[1] = p
  /\ \A e1, e2 \in d.keys : e1.key = e2.key \/ e1.uid = e2.uid => e1 = e2

(* A page with a list is registered completely: no annotation poppler has  *)
(* is missing, none that was deleted is left.                              *)
PagesComplete(d) ==
  \A p \in Pages :
    d.pages[p] # {} => {e.uid : e \in d.pages[p]} = d.pdf.annots[p]

(* Whatever commands came before, the lists, the table of keys and poppler *)
(* agree on the annotations of every open document.                        *)
RegistryCoherent ==
  \A f \in DOMAIN docs : TablesAgree(docs[f]) /\ PagesComplete(docs[f])

(* The inductive invariant: besides, every PDF, in memory, on disk or in a *)
(* tempfile, has each of its annotations on one page, and annotations have *)
(* identities that are taken, so that a new one is on no page yet.         *)
GoodPDF(pdf) == PDFOk(pdf) /\ AllAnnots(pdf) \subseteq used
IInv ==
  /\ TypeOK
  /\ \A f \in Files : GoodPDF(disk[f]) /\ \A pdf \in saved[f] : GoodPDF(pdf)
  /\ \A f \in DOMAIN docs : GoodPDF(docs[f].pdf)
  /\ RegistryCoherent

(* A listing names exactly the annotations poppler has on the pages asked  *)
(* for, however they came to be there and however much was deleted or      *)
(* listed before (cmd_getannots with its lazily filled, sometimes refilled *)
(* lists).                                                                 *)
ListingComplete ==
  \A f \in reply.file :
    reply.uids = UNION {docs[f].pdf.annots[p] : p \in reply.pages}

(* A command answered with an error has changed no open document: edits    *)
(* and options are all or nothing (cmd_editannot, cmd_setoptions).         *)
ErrorsChangeNothing ==
  [][~ reply'.ok => \A f \in DOMAIN docs :
        f \in DOMAIN docs' /\ docs'[f] = docs[f]]_vars

(* While a document is open, a key in use never comes to name another      *)
(* annotation from one command to the next (cmd_addannot looks for a free  *)
(* index; loading a page never renumbers it).                              *)
KeysStable ==
  [][\A f \in DOMAIN docs \cap DOMAIN docs' :
       \A e \in docs[f].keys, e2 \in docs'[f].keys :
          e.key = e2.key => e = e2]_vars
=============================================================================
