------------------------------- MODULE PdfView -------------------------------
(***************************************************************************)
(* A PDF buffer of pdf-view-mode: how edits of annotations, saving,        *)
(* reverting and displaying keep the file, the server's document, a local  *)
(* copy (for remote and compressed files) and the two caches of            *)
(* pdf-cache.el in step.                                                   *)
(*                                                                         *)
(* Emacs has one thread; a synchronous query waits, and while it waits     *)
(* callbacks of asynchronous queries, timers and the mode line run Lisp    *)
(* that may query again.  The waits are a stack, the last one innermost.   *)
(* The server handles requests in order; answers find their queries (see   *)
(* PdfInfoQueue).  Reverts come from the user only.                        *)
(***************************************************************************)
EXTENDS Integers, Sequences, FiniteSets, SequencesExt, Subsequence

CONSTANTS NPages,        \* pages of the document
          ImageLimit,    \* pdf-cache-image-limit
          Busy,          \* the kinds of buffer in which Lisp runs in waits
          NEdits,        \* bound: edits in a behaviour
          NWrites,       \* bound: times another program writes the file
          NCrashes,      \* bound: crashes of the server
          MaxStack,      \* bound: nested waits
          MaxImages      \* bound: prefetched images under way

ASSUME PagesAssumption  == NPages \in Nat \ {0} /\ ImageLimit \in Nat
ASSUME BusyAssumption   == Busy \subseteq {"local", "remote"}
ASSUME BoundsAssumption == /\ NEdits \in Nat /\ NWrites \in Nat /\ NCrashes \in Nat
                           /\ MaxStack \in Nat /\ MaxImages \in Nat

Pages == 1 .. NPages
Edits == 1 .. NEdits
PageOf(e) == 1 + (e % NPages)

(* What a file holds: what another program wrote last and the edits since. *)
Content == [rev : 0 .. NWrites, edits : SUBSET Edits]

(* What can be seen of page p; nothing of page 0 but the number of pages.  *)
Sight(c, p) == [page |-> p, rev |-> c.rev,
                edits |-> {e \in c.edits : PageOf(e) = p}]

VARIABLES kind,      \* "local" or "remote"
          file,      \* the visited file
          copy,      \* the local copy of a remote file
          doc,       \* the document in the server: a set of at most one
          pipe, out, \* requests to the server, answers from it
          stack,     \* the queries that are waited for
          data,      \* pdf-cache--data, per page
          images,    \* pdf-cache--image-cache, latest first
          modified,  \* buffer-modified-p
          made,      \* ghost: the edits made and not discarded since
          nedits, crashes,
          lost       \* ghost: the edits a crash took

emacs  == <<stack, data, images, modified, made>>
files  == <<kind, file, copy>>
ghosts == <<nedits, crashes, lost>>
vars   == <<files, doc, pipe, out, emacs, ghosts>>
-----------------------------------------------------------------------------
(* pdf-view-buffer-file-name: the file that the server opens.              *)
ServerFile == IF kind = "remote" THEN copy ELSE file

(* The document as the next request finds it: opened on demand.            *)
Current == IF doc = {} THEN ServerFile ELSE CHOOSE c \in doc : TRUE

(* Lisp runs at top level or inside a wait.                                *)
TopLevel == stack = <<>>
LispRuns == TopLevel \/ kind \in Busy

(* A wait: for what, on which page or edit, with which tempfile, and the   *)
(* answer when it is there.                                                *)
Frame(op, n, temp) == [op |-> op, n |-> n, temp |-> temp, answer |-> {}]
Request(op, n, to) == [op |-> op, n |-> n, to |-> to]
Async == 0

(* pdf-info-query: the request is sent and waited for on top of below.     *)
QueryFrom(below, op, n, temp, req) ==
  /\ stack' = Append(below, Frame(op, n, temp))
  /\ pipe'  = Append(pipe, Request(req, n, Len(below) + 1))

(* pdf-cache-put-image, pdf-cache-get-image and the clearing functions.    *)
PutImage(s) ==
  LET new == <<s>> \o images
  IN IF Len(new) <= ImageLimit THEN new
     ELSE IF ImageLimit > 1 THEN SubSeq(new, 1, ImageLimit)
     ELSE <<>>

Has(im, p) == \E i \in DOMAIN im : im[i].page = p
Touch(im, p) ==
  LET i == CHOOSE k \in DOMAIN im : im[k].page = p /\ \A j \in 1 .. k - 1 : im[j].page # p
  IN <<im[i]>> \o SubSeq(im, 1, i - 1) \o SubSeq(im, i + 1, Len(im))

NoData        == [p \in 0 .. NPages |-> {}]
NoImagesOf(p) == Those(images, {s \in ToSet(images) : s.page # p})

(* pdf-view-create-page on top of the waits below: the size of the page    *)
(* and its image come from the caches or the server.                       *)
Display(below, p, d, im) ==
  \/ d[p] = {} /\ data' = d /\ images' = im
     /\ QueryFrom(below, "display", p, {}, "read")
  \/ d[p] # {} /\ data' = d
     /\ \/ ~ Has(im, p) /\ images' = im
           /\ QueryFrom(below, "image", p, {}, "read")
        \/ Has(im, p) /\ images' = Touch(im, p)
           /\ stack' = below /\ UNCHANGED pipe
-----------------------------------------------------------------------------
(* The user turns to a page.                                               *)
Redisplay(p) ==
  /\ TopLevel
  /\ Display(<<>>, p, data, images)
  /\ UNCHANGED <<files, doc, out, modified, made, ghosts>>

(* A cached value is asked for and missing, by a command, by the mode line *)
(* (page 0) or by other Lisp.                                              *)
Lookup(p) ==
  /\ LispRuns /\ Len(stack) < MaxStack
  /\ data[p] = {}
  /\ QueryFrom(stack, "data", p, {}, "read")
  /\ UNCHANGED <<files, doc, out, data, images, modified, made, ghosts>>

(* pdf-cache--prefetch-pages, from a timer.                                *)
UnderWay == Len(SelectSeq(pipe, LAMBDA r : r.to = Async))
              + Len(SelectSeq(out, LAMBDA a : a.to = Async))
Prefetch(p) ==
  /\ kind \in Busy /\ UnderWay < MaxImages
  /\ ~ Has(images, p)
  /\ pipe' = Append(pipe, Request("read", p, Async))
  /\ UNCHANGED <<files, doc, out, emacs, ghosts>>

(* pdf-annot-put and its like, up to the wait.                             *)
Edit ==
  /\ TopLevel /\ nedits < NEdits
  /\ QueryFrom(<<>>, "edit", nedits + 1, {}, "edit")
  /\ nedits' = nedits + 1
  /\ UNCHANGED <<files, doc, out, data, images, modified, made, crashes, lost>>

(* save-buffer, up to the first wait.                                      *)
Save ==
  /\ TopLevel /\ modified
  /\ QueryFrom(<<>>, "save", 0, {}, "save")
  /\ UNCHANGED <<files, doc, out, data, images, modified, made, ghosts>>

(* pdf-view-revert-buffer, up to the wait of pdf-view--after-revert: the   *)
(* file is read and, if it is remote, the copy written.                    *)
Revert(p) ==
  /\ TopLevel
  /\ copy'     = IF kind = "remote" THEN file ELSE copy
  /\ modified' = FALSE
  /\ made'     = made \cap file.edits
  /\ QueryFrom(<<>>, "revert", p, {}, "close")
  /\ UNCHANGED <<kind, file, doc, out, data, images, ghosts>>
-----------------------------------------------------------------------------
(* The innermost wait ends.                                                *)
Top   == stack[Len(stack)]
Below == Front(stack)
Answered(op) == stack # <<>> /\ Top.op = op /\ Top.answer # {}
Sights == [page : 0 .. NPages, rev : 0 .. NWrites, edits : SUBSET Edits]

DataArrives ==
  /\ Answered("data")
  /\ data'  = [data EXCEPT ![Top.n] = Top.answer]
  /\ stack' = Below
  /\ UNCHANGED <<files, doc, pipe, out, images, modified, made, ghosts>>

(* Displaying goes on with the image.                                      *)
SizeArrives ==
  /\ Answered("display")
  /\ Display(Below, Top.n, [data EXCEPT ![Top.n] = Top.answer], images)
  /\ UNCHANGED <<files, doc, out, modified, made, ghosts>>

ImageArrives ==
  /\ Answered("image")
  /\ \E s \in Top.answer : images' = PutImage(s)
  /\ stack' = Below
  /\ UNCHANGED <<files, doc, pipe, out, data, modified, made, ghosts>>

(* Mutant of Edited: the image of the page stays in the cache.             *)
EditedButCached ==
  /\ Answered("edit")
  /\ modified' = TRUE
  /\ made'     = made \cup {Top.n}
  /\ data'     = [data EXCEPT ![PageOf(Top.n)] = {}]
  /\ stack'    = Below
  /\ UNCHANGED <<files, doc, pipe, out, images, ghosts>>

(* pdf-annot-put, after the wait: the buffer is modified, the page is      *)
(* forgotten by the caches and displayed again if a window shows it.       *)
Edited ==
  /\ Answered("edit")
  /\ modified' = TRUE
  /\ made'     = made \cup {Top.n}
  /\ LET p == PageOf(Top.n)
         d == [data EXCEPT ![p] = {}]
     IN \/ Display(Below, p, d, NoImagesOf(p))
        \/ /\ data' = d /\ images' = NoImagesOf(p) /\ stack' = Below
           /\ UNCHANGED pipe
  /\ UNCHANGED <<files, doc, out, ghosts>>

(* Mutant of Saved: when the tempfile could not be copied, the buffer      *)
(* still counts as saved.                                                  *)
SavedAnyway ==
  /\ Answered("save")
  /\ \/ \E c \in Top.answer :
          /\ file' = c
          /\ QueryFrom(Below, "close", 0, {c}, "close")
          /\ UNCHANGED modified
     \/ stack' = Below /\ modified' = FALSE /\ UNCHANGED <<file, pipe>>
  /\ UNCHANGED <<kind, copy, doc, out, data, images, made, ghosts>>

(* pdf-view--write-contents-function: the tempfile is there and copied     *)
(* over the file, which may fail, then the document is closed.             *)
Saved ==
  /\ Answered("save")
  /\ \/ \E c \in Top.answer :
          /\ file' = c
          /\ QueryFrom(Below, "close", 0, {c}, "close")
     \/ stack' = Below /\ UNCHANGED <<file, pipe>>
  /\ UNCHANGED <<kind, copy, doc, out, data, images, modified, made, ghosts>>

(* The document is closed: pdf-info-close runs the hooks of the buffer     *)
(* that visits the file it was given, for a local copy none; the copy is   *)
(* updated.                                                                *)
SaveEnds ==
  /\ Answered("close")
  /\ data'   = IF kind = "remote" THEN data ELSE NoData
  /\ images' = IF kind = "remote" THEN images ELSE <<>>
  /\ \E c \in Top.temp : copy' = IF kind = "remote" THEN c ELSE copy
  /\ modified' = FALSE
  /\ stack'    = Below
  /\ UNCHANGED <<kind, file, doc, pipe, out, made, ghosts>>

(* pdf-view-revert-buffer, after the close: the hooks, then all windows    *)
(* are displayed again.                                                    *)
Reverted ==
  /\ Answered("revert")
  /\ Display(Below, Top.n, NoData, <<>>)
  /\ UNCHANGED <<files, doc, out, modified, made, ghosts>>
-----------------------------------------------------------------------------
(* The server opens the document if need be and does what is asked.        *)
Serve ==
  /\ pipe # <<>>
  /\ LET r == Head(pipe)
         c == Current
         Answer(a) == out' = Append(out, [to |-> r.to, answer |-> {a}])
     IN \/ r.op = "read"  /\ doc' = {c} /\ Answer(Sight(c, r.n))
        \/ r.op = "edit"  /\ doc' = {[c EXCEPT !.edits = @ \cup {r.n}]}
                          /\ Answer("ok")
        \/ r.op = "save"  /\ doc' = {c} /\ Answer(c)
        \/ r.op = "close" /\ doc' = {}  /\ Answer("ok")
  /\ pipe' = Tail(pipe)
  /\ UNCHANGED <<files, emacs, ghosts>>

(* An answer arrives: for a wait, or it is an image that was prefetched,   *)
(* which is cached if the window still shows the buffer; making an image   *)
(* object of it needs the page's data.                                     *)
Deliver ==
  /\ out # <<>>
  /\ LET a == Head(out)
     IN \/ /\ a.to # Async
           /\ stack' = [stack EXCEPT ![a.to].answer = a.answer]
           /\ UNCHANGED <<pipe, images>>
        \/ /\ a.to = Async
           /\ UNCHANGED <<stack, pipe, images>>
        \/ /\ a.to = Async /\ Len(stack) < MaxStack
           /\ \E s \in a.answer :
                /\ images' = PutImage(s)
                /\ IF data[s.page] = {}
                   THEN QueryFrom(stack, "data", s.page, {}, "read")
                   ELSE UNCHANGED <<stack, pipe>>
  /\ out' = Tail(out)
  /\ UNCHANGED <<files, doc, data, modified, made, ghosts>>

(* The server dies: the queries waited for end with an error, unless they  *)
(* have their answers; it will be restarted.                               *)
Crash ==
  /\ crashes < NCrashes
  /\ crashes' = crashes + 1
  /\ doc' = {} /\ pipe' = <<>> /\ out' = <<>>
  /\ stack' = Those(stack, {f \in ToSet(stack) : f.answer # {}})
  /\ lost'  = lost \cup ((Current.edits \cup made) \ ServerFile.edits)
  /\ UNCHANGED <<files, data, images, modified, made, nedits>>

(* Another program (LaTeX) writes the file anew.                           *)
WriteFile ==
  /\ file.rev < NWrites
  /\ file' = [rev |-> file.rev + 1, edits |-> {}]
  /\ made' = made \ file.edits
  /\ UNCHANGED <<kind, copy, doc, pipe, out, stack, data, images, modified, ghosts>>

Init ==
  /\ kind \in {"local", "remote"}
  /\ file = [rev |-> 0, edits |-> {}] /\ copy = file
  /\ doc = {} /\ pipe = <<>> /\ out = <<>> /\ stack = <<>>
  /\ data = NoData /\ images = <<>>
  /\ modified = FALSE /\ made = {}
  /\ nedits = 0 /\ crashes = 0 /\ lost = {}

Next ==
  \/ \E p \in Pages : Redisplay(p) \/ Prefetch(p) \/ Revert(p)
  \/ \E p \in 0 .. NPages : Lookup(p)
  \/ Edit \/ Save
  \/ DataArrives \/ SizeArrives \/ ImageArrives \/ Edited \/ Saved \/ SaveEnds
  \/ Reverted
  \/ Serve \/ Deliver \/ Crash \/ WriteFile

Spec == Init /\ [][Next]_vars
-----------------------------------------------------------------------------
(* Whatever was looked up, prefetched, edited, saved and reverted while    *)
(* other queries waited: when no command is under way the caches hold      *)
(* what the server would answer now (until the server dies, which clears   *)
(* no cache), and there are never more images than the limit allows.       *)
CacheCurrent ==
  /\ Len(images) <= ImageLimit
  /\ TopLevel /\ crashes = 0 =>
    /\ \A p \in 0 .. NPages : data[p] \subseteq {Sight(Current, p)}
    /\ \A i \in DOMAIN images : images[i] = Sight(Current, images[i].page)

(* An edit that the user made and neither discarded nor lost in a crash is *)
(* in the server's document, and in the file too once the buffer counts as *)
(* saved: pdf-view--write-contents-function loses none, whatever reopens   *)
(* the document while it waits.                                            *)
EditsKept ==
  TopLevel =>
    /\ made \ lost \subseteq Current.edits \cup lost
    /\ ~ modified => made \ lost \subseteq file.edits

(* "We need to first copy the new content to the PDF, and then close the   *)
(* PDF" since "it may be immediately reopened" (pdf-view.el:488): what is  *)
(* reopened has the new content.                                           *)
ReopenedIsNew ==
  TopLevel /\ ~ modified /\ crashes = 0 => made \subseteq Current.edits
=============================================================================
