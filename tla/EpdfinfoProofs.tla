--------------------------- MODULE EpdfinfoProofs ---------------------------
(***************************************************************************)
(* The registry of the server is coherent for any number of files, pages,  *)
(* annotations, properties and options, after any sequence of commands.    *)
(*                                                                         *)
(* The invariant is proved inductive document by document: one lemma per   *)
(* operation on a document (opening, loading pages, registering, removing, *)
(* editing) shows that it keeps a document good; each command then puts a  *)
(* good document into the table.                                           *)
(***************************************************************************)
EXTENDS Epdfinfo, FiniteSetTheorems, WellFoundedInduction, TLAPS

(* A coherent document whose annotations have identities in S.             *)
GoodDoc(d, S) ==
  /\ d \in Doc
  /\ PDFOk(d.pdf) /\ AllAnnots(d.pdf) \subseteq S
  /\ TablesAgree(d) /\ PagesComplete(d)

-----------------------------------------------------------------------------
(* The numbering of a page's annotations by Index is a number for each     *)
(* annotation, and another one for another annotation.                     *)
LEMMA IndexInjective ==
  ASSUME NEW S \in SUBSET Nat, IsFiniteSet(S), NEW u \in S, NEW w \in S
  PROVE  /\ Index(S, u) \in Nat
         /\ Index(S, u) = Index(S, w) => u = w
<1> DEFINE Below(x) == {v \in S : v < x}
<1>1. \A x \in S : IsFiniteSet(Below(x)) /\ Cardinality(Below(x)) \in Nat
  <2> TAKE x \in S
  <2>1. Below(x) \in SUBSET S
    OBVIOUS
  <2>2. IsFiniteSet(Below(x))
    BY <2>1, FS_Subset
  <2> QED  BY <2>2, FS_CardinalityType
<1>2. ASSUME NEW x \in S, NEW y \in S, x < y
      PROVE  Cardinality(Below(x)) < Cardinality(Below(y))
  <2>2. x \in Nat /\ y \in Nat /\ S \subseteq Nat
    OBVIOUS
  <2>1. Below(x) \in SUBSET Below(y)
    <3>1. \A v \in S : v < x => v < y
      BY <1>2, <2>2
    <3> QED  BY <3>1
  <2>3. x \in Below(y) /\ x \notin Below(x)
    BY <1>2, <2>2
  <2>4. Cardinality(Below(x)) <= Cardinality(Below(y))
    BY <1>1, <2>1, FS_Subset
  <2>5. Cardinality(Below(x)) # Cardinality(Below(y))
    BY <1>1, <2>1, <2>3, FS_Subset
  <2> QED  BY <1>1, <2>4, <2>5
<1>3. Index(S, u) = Cardinality(Below(u)) /\ Index(S, w) = Cardinality(Below(w))
  BY DEF Index
<1>4. u < w \/ w < u \/ u = w
  BY DEF Index
<1> HIDE DEF Below
<1> QED  BY <1>1, <1>2, <1>3, <1>4

(* A nonempty set of natural numbers has a least element.                  *)
LEMMA LeastNat ==
  ASSUME NEW T \in SUBSET Nat, T # {}
  PROVE  \E i \in T : \A j \in T : i <= j
<1> DEFINE R == {ss \in Nat \X Nat : ss[1] < ss[2]}
<1>1. IsWellFoundedOn(R, Nat)
  BY NatLessThanWellFounded DEF OpToRel
<1>2. PICK i \in T : \A j \in T : <<j, i>> \notin R
  <2> HIDE DEF R
  <2> QED  BY <1>1, WFMin
<1>3. \A j \in T : i <= j
  <2> TAKE j \in T
  <2>1. <<j, i>> \notin R /\ i \in Nat /\ j \in Nat
    BY <1>2
  <2> QED  BY <2>1
<1> QED  BY <1>3

(* The size of an interval of c + 1 numbers.                               *)
LEMMA IntervalSize ==
  ASSUME NEW a \in Nat, NEW c \in Nat
  PROVE  IsFiniteSet(a .. a + c) /\ Cardinality(a .. a + c) = c + 1
<1>1. a \in Int /\ a + c \in Int /\ ~ (a > a + c) /\ (a + c) - a + 1 = c + 1
  OBVIOUS
<1>2. /\ IsFiniteSet(a .. a + c)
      /\ Cardinality(a .. a + c) = IF a > a + c THEN 0 ELSE (a + c) - a + 1
  <2>1. \A b \in Int : /\ IsFiniteSet(a .. b)
                       /\ Cardinality(a .. b) = IF a > b THEN 0 ELSE b - a + 1
    BY <1>1, FS_Interval
  <2>2. QED
    BY <1>1, <2>1
<1>3. QED
  BY <1>1, <1>2

(* The loop of cmd_addannot ends: among as many indices as there are keys, *)
(* and one more, one is free.                                              *)
LEMMA FreeIndexFree ==
  ASSUME NEW d, NEW p, d.keys \in SUBSET Entry, IsFiniteSet(d.keys),
         IsFiniteSet(d.pages[p])
  PROVE  FreeIndex(d, p) \in Nat /\ <<p, FreeIndex(d, p)>> \notin KeysOf(d.keys)
<1> DEFINE n == Cardinality(d.pages[p])
           c == Cardinality(d.keys)
           I == n .. n + c
           free == {i \in I : <<p, i>> \notin KeysOf(d.keys)}
<1>1. n \in Nat /\ c \in Nat
  BY FS_CardinalityType
<1>2. IsFiniteSet(I) /\ Cardinality(I) = c + 1
  BY <1>1, IntervalSize
<1>3. free # {}
  <2> SUFFICES ASSUME free = {} PROVE FALSE
    OBVIOUS
  <2> DEFINE g == [i \in I |-> CHOOSE e \in d.keys : e.key = <<p, i>>]
  <2>1. \A i \in I : \E e \in d.keys : e.key = <<p, i>>
    BY DEF KeysOf
  <2>2. \A i \in I : g[i] \in d.keys /\ g[i].key = <<p, i>>
    BY <2>1
  <2>3. g \in [I -> d.keys]
    BY <2>2
  <2> HIDE DEF g, I
  <2>4. PICK x \in I, y \in I : x # y /\ g[x] = g[y]
    BY <1>1, <1>2, <2>3, FS_PigeonHole
  <2> QED  BY <2>2, <2>4
<1>4. free \in SUBSET Nat
  BY <1>1
<1>5. FreeIndex(d, p) = CHOOSE i \in free : \A j \in free : i <= j
  BY DEF FreeIndex
<1>6. FreeIndex(d, p) \in free
  <2> HIDE DEF free
  <2> QED  BY <1>3, <1>4, <1>5, LeastNat
<1> QED  BY <1>4, <1>6
-----------------------------------------------------------------------------
(* The parts of a document have their types.                               *)
LEMMA DocFields ==
  ASSUME NEW d \in Doc
  PROVE  /\ d.pdf \in PDF
         /\ d.pdf.annots \in [Pages -> SUBSET Uids]
         /\ d.pdf.attr \in [Uids -> Attr]
         /\ d.pages \in [Pages -> SUBSET Entry]
         /\ d.keys \in SUBSET Entry
         /\ d.opts \in [Options -> OptVals]
         /\ d.passwd \in Passwords
BY DEF Doc, PDF

(* A coherent document has finitely many keys: each names an annotation,   *)
(* and no annotation has two.                                              *)
LEMMA KeysFinite ==
  ASSUME NEW S, NEW d, GoodDoc(d, S)
  PROVE  /\ IsFiniteSet(d.keys)
         /\ \A p \in Pages : IsFiniteSet(d.pages[p])
         /\ \A e \in d.keys : e.uid \in AllAnnots(d.pdf)
<1>1. \A e \in d.keys : e.uid \in AllAnnots(d.pdf)
  <2> TAKE e \in d.keys
  <2>1. PICK p \in Pages : e \in d.pages[p]
    BY DEF GoodDoc, TablesAgree
  <2>2. {x.uid : x \in d.pages[p]} = d.pdf.annots[p]
    BY <2>1 DEF GoodDoc, PagesComplete
  <2> QED  BY <2>1, <2>2 DEF AllAnnots
<1>2. IsFiniteSet(d.keys)
  <2> DEFINE g == [e \in d.keys |-> e.uid]
  <2>1. g \in [d.keys -> AllAnnots(d.pdf)]
    BY <1>1
  <2>2. \A e1, e2 \in d.keys : g[e1] = g[e2] => e1 = e2
    BY DEF GoodDoc, TablesAgree
  <2>3. g \in Injection(d.keys, AllAnnots(d.pdf))
    BY <2>1, <2>2 DEF Injection, IsInjective
  <2>4. IsFiniteSet(AllAnnots(d.pdf))
    BY DEF GoodDoc, PDFOk
  <2> QED  BY <2>3, <2>4, FS_Injection
<1>3. \A p \in Pages : IsFiniteSet(d.pages[p])
  <2> TAKE p \in Pages
  <2>1. d.pages[p] \in SUBSET d.keys
    BY DEF GoodDoc, TablesAgree
  <2> QED  BY <1>2, <2>1, FS_Subset
<1> QED  BY <1>1, <1>2, <1>3

(* A document just opened is good when its file is.                        *)
LEMMA FreshGood ==
  ASSUME NEW f, NEW pw \in Passwords, NEW S, disk[f] \in PDF,
         PDFOk(disk[f]), AllAnnots(disk[f]) \subseteq S
  PROVE  GoodDoc(Fresh(f, pw), S)
<1>1. Fresh(f, pw) \in Doc
  BY ValsAssumption DEF Fresh, Doc
<1>2. TablesAgree(Fresh(f, pw)) /\ PagesComplete(Fresh(f, pw))
  BY DEF TablesAgree, PagesComplete, Fresh
<1> QED  BY <1>1, <1>2 DEF GoodDoc, Fresh

(* Registering the annotations of a page.                                  *)
LEMMA EntriesOk ==
  ASSUME NEW d \in Doc, PDFOk(d.pdf), NEW p \in Pages
  PROVE  LET es == Entries(p, d.pdf.annots[p])
         IN  /\ es \in SUBSET Entry
             /\ {e.uid : e \in es} = d.pdf.annots[p]
             /\ \A e \in es : e.key[1] = p /\ e.uid \in d.pdf.annots[p]
             /\ \A e1, e2 \in es : e1.key = e2.key => e1 = e2
             /\ \A e1, e2 \in es : e1.uid = e2.uid => e1 = e2
<1> DEFINE S == d.pdf.annots[p]
           es == Entries(p, S)
<1>1. S \in SUBSET Uids /\ S \in SUBSET Nat
  BY DocFields, UidsAssumption
<1>2. IsFiniteSet(S)
  <2>1. S \in SUBSET AllAnnots(d.pdf)
    BY DEF AllAnnots
  <2> QED  BY <2>1, FS_Subset DEF PDFOk
<1>3. \A u, w \in S : Index(S, u) \in Nat /\ (Index(S, u) = Index(S, w) => u = w)
  BY <1>1, <1>2, IndexInjective
<1>4. \A e \in es : \E u \in S : e = [key |-> <<p, Index(S, u)>>, uid |-> u]
  BY DEF Entries
<1>5. \A u \in S : [key |-> <<p, Index(S, u)>>, uid |-> u] \in es
  BY DEF Entries
<1> HIDE DEF S, es
<1>6. es \in SUBSET Entry
  BY <1>1, <1>3, <1>4 DEF Entry, Key
<1>7. {e.uid : e \in es} = S
  <2>1. \A e \in es : e.uid \in S
    BY <1>4
  <2>2. \A u \in S : \E e \in es : e.uid = u
    <3> TAKE u \in S
    <3>1. [key |-> <<p, Index(S, u)>>, uid |-> u].uid = u
      OBVIOUS
    <3> QED  BY <1>5, <3>1
  <2> QED  BY <2>1, <2>2
<1>8. \A e \in es : e.key[1] = p /\ e.uid \in S
  BY <1>4
<1>9. \A e1, e2 \in es : e1.key = e2.key => e1 = e2
  BY <1>3, <1>4
<1>10. \A e1, e2 \in es : e1.uid = e2.uid => e1 = e2
  BY <1>4
<1> QED  BY <1>6, <1>7, <1>8, <1>9, <1>10 DEF S, es

(* Loading pages keeps a document good: the pages that are read have no    *)
(* keys in the table (the assert at their insertion), and get a complete   *)
(* list.                                                                   *)
LEMMA LoadGood ==
  ASSUME NEW S, NEW d, GoodDoc(d, S), NEW R \in SUBSET Pages
  PROVE  GoodDoc(Load(d, R), S) /\ Load(d, R).pdf = d.pdf
<1> DEFINE l   == Load(d, R)
           L   == ToLoad(d, R)
           E(p) == Entries(p, d.pdf.annots[p])
           new == NewEntries(d, R)
<1>0. d \in Doc /\ PDFOk(d.pdf) /\ TablesAgree(d) /\ PagesComplete(d)
  BY DEF GoodDoc
<1>1. L \in SUBSET Pages /\ \A p \in L : d.pages[p] = {}
  BY DEF ToLoad
<1>2. \A p \in Pages :
        /\ E(p) \in SUBSET Entry
        /\ {e.uid : e \in E(p)} = d.pdf.annots[p]
        /\ \A e \in E(p) : e.key[1] = p /\ e.uid \in d.pdf.annots[p]
        /\ \A e1, e2 \in E(p) : e1.key = e2.key => e1 = e2
        /\ \A e1, e2 \in E(p) : e1.uid = e2.uid => e1 = e2
  BY <1>0, EntriesOk
<1>3. \A e : e \in new <=> \E p \in L : e \in E(p)
  BY DEF NewEntries
<1>4. /\ l.pdf = d.pdf
      /\ l.pages = [p \in Pages |-> IF p \in L THEN E(p) ELSE d.pages[p]]
      /\ l.keys = Insert(d.keys, new)
  BY <1>0 DEF Load, Doc
<1>5. l.pages \in [Pages -> SUBSET Entry]
  BY <1>0, <1>2, <1>4, DocFields
<1> HIDE DEF E, new, L
<1>6. \A e \in d.keys, x \in new : e.key # x.key /\ e.uid # x.uid
  <2> TAKE e \in d.keys, x \in new
  <2>1. PICK p \in L : x \in E(p)
    BY <1>3
  <2>2. PICK q \in Pages : e \in d.pages[q] /\ e.key[1] = q
    BY <1>0 DEF TablesAgree
  <2>3. p \in Pages /\ p # q
    BY <1>1, <2>1, <2>2
  <2>4. x.key[1] = p /\ x.uid \in d.pdf.annots[p]
    BY <1>2, <2>1, <2>3
  <2>5. e.uid \in d.pdf.annots[q]
    BY <1>0, <2>2 DEF PagesComplete
  <2>6. d.pdf.annots[p] \cap d.pdf.annots[q] = {}
    BY <1>0, <2>2, <2>3 DEF PDFOk
  <2> QED  BY <2>2, <2>3, <2>4, <2>5, <2>6
<1>7. l.keys = d.keys \cup new
  BY <1>4, <1>6 DEF Insert, KeysOf
<1>8. new \in SUBSET Entry
  BY <1>1, <1>2, <1>3
<1>9. l \in Doc
  <2>1. l.keys \in SUBSET Entry
    BY <1>0, <1>7, <1>8, DocFields
  <2>2. \A a \in [Pages -> SUBSET Entry], k \in SUBSET Entry :
          [d EXCEPT !.pages = a, !.keys = k] \in Doc
    BY <1>0 DEF Doc
  <2>3. l = [d EXCEPT !.pages = l.pages, !.keys = l.keys]
    BY <1>4 DEF Load, L, E, new
  <2> HIDE DEF l
  <2> QED  BY <1>5, <2>1, <2>2, <2>3
<1> HIDE DEF l
<1>10. TablesAgree(l)
  <2>1. \A e : e \in l.keys <=> \E p \in Pages : e \in l.pages[p]
    <3>1. \A e : e \in d.keys <=> \E p \in Pages : e \in d.pages[p]
      BY <1>0 DEF TablesAgree
    <3>2. \A p \in Pages : l.pages[p] = IF p \in L THEN E(p) ELSE d.pages[p]
      BY <1>4
    <3> QED  BY <1>1, <1>3, <1>7, <3>1, <3>2
  <2>2. l.keys = UNION {l.pages[p] : p \in Pages}
    BY <2>1
  <2>3. \A p \in Pages : \A e \in l.pages[p] : e.key[1] = p
    BY <1>0, <1>2, <1>4 DEF TablesAgree
  <2>4. \A e1, e2 \in new : e1.key = e2.key \/ e1.uid = e2.uid => e1 = e2
    <3> TAKE e1 \in new, e2 \in new
    <3>1. PICK p \in L : e1 \in E(p)
      BY <1>3
    <3>2. PICK q \in L : e2 \in E(q)
      BY <1>3
    <3>3. CASE p = q
      BY <1>1, <1>2, <3>1, <3>2, <3>3
    <3>4. CASE p # q
      <4>1. p \in Pages /\ q \in Pages
        BY <1>1, <3>1, <3>2
      <4>2. d.pdf.annots[p] \cap d.pdf.annots[q] = {}
        BY <1>0, <3>4, <4>1 DEF PDFOk
      <4> QED  BY <1>2, <3>1, <3>2, <3>4, <4>1, <4>2
    <3> QED  BY <3>3, <3>4
  <2>5. \A e1, e2 \in l.keys : e1.key = e2.key \/ e1.uid = e2.uid => e1 = e2
    BY <1>0, <1>6, <1>7, <2>4 DEF TablesAgree
  <2> QED  BY <2>2, <2>3, <2>5 DEF TablesAgree
<1>11. PagesComplete(l)
  <2> SUFFICES ASSUME NEW p \in Pages, l.pages[p] # {}
               PROVE  {e.uid : e \in l.pages[p]} = l.pdf.annots[p]
    BY DEF PagesComplete
  <2>1. CASE p \in L
    BY <1>2, <1>4, <2>1
  <2>2. CASE p \notin L
    <3>1. l.pages[p] = d.pages[p]
      BY <1>4, <2>2
    <3> QED  BY <1>0, <1>4, <3>1 DEF PagesComplete
  <2> QED  BY <2>1, <2>2
<1> QED  BY <1>0, <1>4, <1>9, <1>10, <1>11 DEF GoodDoc, l

(* Registering a new annotation, after its page was loaded, under a free   *)
(* key keeps a document good.                                              *)
LEMMA AddGood ==
  ASSUME NEW S, NEW d, GoodDoc(d, S), NEW p \in Pages, NEW u \in Uids, u \notin S,
         NEW i \in Nat, <<p, i>> \notin KeysOf(d.keys), NEW a \in Attr,
         d.pages[p] = {} => d.pdf.annots[p] = {}
  PROVE  GoodDoc([Register(d, p, [key |-> <<p, i>>, uid |-> u]) EXCEPT
                    !.pdf = WithAnnot(@, p, u, a)], S \cup {u})
<1> DEFINE e == [key |-> <<p, i>>, uid |-> u]
           n == [Register(d, p, e) EXCEPT !.pdf = WithAnnot(@, p, u, a)]
<1>0. /\ d \in Doc /\ PDFOk(d.pdf) /\ AllAnnots(d.pdf) \subseteq S
      /\ TablesAgree(d) /\ PagesComplete(d)
  BY DEF GoodDoc
<1>1. e \in Entry /\ e.key = <<p, i>> /\ e.uid = u /\ e.key[1] = p
  BY DEF Entry, Key
<1> HIDE DEF e
<1>2. Insert(d.keys, {e}) = d.keys \cup {e}
  BY <1>1 DEF Insert, KeysOf
<1>3. n = [d EXCEPT !.pages[p] = @ \cup {e}, !.keys = d.keys \cup {e},
                    !.pdf = WithAnnot(d.pdf, p, u, a)]
  BY <1>0, <1>2 DEF Register, Doc, PDF
<1>4. /\ n.pdf.annots = [d.pdf.annots EXCEPT ![p] = @ \cup {u}]
      /\ n.pages = [d.pages EXCEPT ![p] = @ \cup {e}]
      /\ n.keys = d.keys \cup {e}
  <2> DEFINE pdf == WithAnnot(d.pdf, p, u, a)
  <2>1. pdf.annots = [d.pdf.annots EXCEPT ![p] = @ \cup {u}]
    BY <1>0 DEF Doc, PDF, WithAnnot
  <2> HIDE DEF pdf
  <2>2. n.pdf = pdf
    BY <1>0, <1>3 DEF Doc, pdf
  <2>3. /\ n.pages = [d.pages EXCEPT ![p] = @ \cup {e}]
        /\ n.keys = d.keys \cup {e}
    BY <1>0, <1>3 DEF Doc
  <2> QED  BY <2>1, <2>2, <2>3
<1>5. n \in Doc
  <2>1. WithAnnot(d.pdf, p, u, a) \in PDF
    BY <1>0 DEF Doc, PDF, WithAnnot
  <2>2. [d.pages EXCEPT ![p] = @ \cup {e}] \in [Pages -> SUBSET Entry]
    BY <1>0, <1>1, DocFields
  <2>3. d.keys \cup {e} \in SUBSET Entry
    BY <1>0, <1>1, DocFields
  <2>4. \A q \in PDF, b \in [Pages -> SUBSET Entry], k \in SUBSET Entry :
          [d EXCEPT !.pages = b, !.keys = k, !.pdf = q] \in Doc
    BY <1>0 DEF Doc
  <2>5. n = [d EXCEPT !.pages = [d.pages EXCEPT ![p] = @ \cup {e}],
                      !.keys = d.keys \cup {e},
                      !.pdf = WithAnnot(d.pdf, p, u, a)]
    BY <1>3
  <2> HIDE DEF n
  <2> QED  BY <2>1, <2>2, <2>3, <2>4, <2>5
<1> HIDE DEF n
<1>6. \A q \in Pages : n.pdf.annots[q] = IF q = p THEN d.pdf.annots[p] \cup {u}
                                                  ELSE d.pdf.annots[q]
  BY <1>0, <1>4, DocFields
<1>7. \A q \in Pages : n.pages[q] = IF q = p THEN d.pages[p] \cup {e}
                                             ELSE d.pages[q]
  BY <1>0, <1>4, DocFields
<1>8. \A q \in Pages : u \notin d.pdf.annots[q]
  BY <1>0 DEF AllAnnots
<1>9. AllAnnots(n.pdf) = AllAnnots(d.pdf) \cup {u}
  BY <1>6 DEF AllAnnots
<1>10. PDFOk(n.pdf) /\ AllAnnots(n.pdf) \subseteq S \cup {u}
  <2>1. IsFiniteSet(AllAnnots(n.pdf))
    BY <1>0, <1>9, FS_AddElement DEF PDFOk
  <2>2. \A q, r \in Pages : q # r => n.pdf.annots[q] \cap n.pdf.annots[r] = {}
    <3> TAKE q \in Pages, r \in Pages
    <3> HAVE q # r
    <3>1. d.pdf.annots[q] \cap d.pdf.annots[r] = {}
      BY <1>0 DEF PDFOk
    <3> QED  BY <1>6, <1>8, <3>1
  <2> QED  BY <1>0, <1>9, <2>1, <2>2 DEF PDFOk
<1>11. TablesAgree(n)
  <2>1. n.keys = UNION {n.pages[q] : q \in Pages}
    <3>1. \A x : x \in d.keys <=> \E q \in Pages : x \in d.pages[q]
      BY <1>0 DEF TablesAgree
    <3>2. \A x : x \in n.keys <=> \E q \in Pages : x \in n.pages[q]
      BY <1>4, <1>7, <3>1
    <3> QED  BY <3>2
  <2>2. \A q \in Pages : \A x \in n.pages[q] : x.key[1] = q
    BY <1>0, <1>1, <1>7 DEF TablesAgree
  <2>3. \A x \in d.keys : x.key # e.key /\ x.uid # e.uid
    <3> TAKE x \in d.keys
    <3>1. x.uid \in AllAnnots(d.pdf)
      BY KeysFinite
    <3> QED  BY <1>0, <1>1, <3>1 DEF KeysOf
  <2>4. \A x, y \in n.keys : x.key = y.key \/ x.uid = y.uid => x = y
    BY <1>0, <1>4, <2>3 DEF TablesAgree
  <2> QED  BY <2>1, <2>2, <2>4 DEF TablesAgree
<1>12. PagesComplete(n)
  <2> SUFFICES ASSUME NEW q \in Pages, n.pages[q] # {}
               PROVE  {x.uid : x \in n.pages[q]} = n.pdf.annots[q]
    BY DEF PagesComplete
  <2>1. {x.uid : x \in d.pages[q]} = d.pdf.annots[q] \/ d.pages[q] = {}
    BY <1>0 DEF PagesComplete
  <2>2. CASE q # p
    BY <1>6, <1>7, <2>1, <2>2
  <2>3. CASE q = p
    <3>1. n.pages[q] = d.pages[q] \cup {e} /\ n.pdf.annots[q] = d.pdf.annots[q] \cup {u}
      BY <1>6, <1>7, <2>3
    <3>2. {x.uid : x \in d.pages[q]} = d.pdf.annots[q]
      BY <2>1, <2>3
    <3>3. {x.uid : x \in n.pages[q]} = {x.uid : x \in d.pages[q]} \cup {e.uid}
      BY <3>1
    <3> QED  BY <1>1, <3>1, <3>2, <3>3
  <2> QED  BY <2>2, <2>3
<1> QED  BY <1>5, <1>10, <1>11, <1>12 DEF GoodDoc, n, e

(* Deleting a registered annotation from its page, the list and the table  *)
(* keeps a document good; poppler finds it on the page of its key.         *)
LEMMA DelGood ==
  ASSUME NEW S, NEW d, GoodDoc(d, S), NEW e \in d.keys
  PROVE  LET p == PageIndex(d.pdf, e.uid)
         IN  GoodDoc([d EXCEPT !.pdf.annots[p] = @ \ {e.uid},
                               !.pages[p] = @ \ {e},
                               !.keys     = @ \ {e}], S)
<1> DEFINE p == PageIndex(d.pdf, e.uid)
           n == [d EXCEPT !.pdf.annots[p] = @ \ {e.uid},
                          !.pages[p] = @ \ {e}, !.keys = @ \ {e}]
<1>0. /\ d \in Doc /\ PDFOk(d.pdf) /\ AllAnnots(d.pdf) \subseteq S
      /\ TablesAgree(d) /\ PagesComplete(d)
  BY DEF GoodDoc
<1>1. PICK q \in Pages : e \in d.pages[q] /\ e.key[1] = q
  BY <1>0 DEF TablesAgree
<1>2. e.uid \in d.pdf.annots[q]
  BY <1>0, <1>1 DEF PagesComplete
<1>3. \A r \in Pages : e.uid \in d.pdf.annots[r] => r = q
  <2> TAKE r \in Pages
  <2>1. r # q => d.pdf.annots[r] \cap d.pdf.annots[q] = {}
    BY <1>0, <1>1 DEF PDFOk
  <2> QED  BY <1>2, <2>1
<1>4. p = q
  BY <1>1, <1>2, <1>3 DEF PageIndex
<1> HIDE DEF p
<1>5. /\ n.pdf.annots = [d.pdf.annots EXCEPT ![q] = @ \ {e.uid}]
      /\ n.pages = [d.pages EXCEPT ![q] = @ \ {e}]
      /\ n.keys = d.keys \ {e}
  BY <1>0, <1>4 DEF Doc, PDF
<1>6. n \in Doc
  <2>1. [d.pdf EXCEPT !.annots[q] = @ \ {e.uid}] \in PDF
    BY <1>0, <1>1 DEF Doc, PDF
  <2>2. [d.pages EXCEPT ![q] = @ \ {e}] \in [Pages -> SUBSET Entry]
    BY <1>0, <1>1, DocFields
  <2>3. d.keys \ {e} \in SUBSET Entry
    BY <1>0, DocFields
  <2>4. \A x \in PDF, b \in [Pages -> SUBSET Entry], k \in SUBSET Entry :
          [d EXCEPT !.pdf = x, !.pages = b, !.keys = k] \in Doc
    BY <1>0 DEF Doc
  <2>5. n = [d EXCEPT !.pdf = [d.pdf EXCEPT !.annots[q] = @ \ {e.uid}],
                      !.pages = [d.pages EXCEPT ![q] = @ \ {e}],
                      !.keys = d.keys \ {e}]
    BY <1>0, <1>4 DEF Doc, PDF
  <2> HIDE DEF n
  <2> QED  BY <2>1, <2>2, <2>3, <2>4, <2>5
<1> HIDE DEF n
<1>7. \A r \in Pages : n.pdf.annots[r] = IF r = q THEN d.pdf.annots[q] \ {e.uid}
                                                  ELSE d.pdf.annots[r]
  BY <1>0, <1>5, DocFields
<1>8. \A r \in Pages : n.pages[r] = IF r = q THEN d.pages[q] \ {e} ELSE d.pages[r]
  BY <1>0, <1>5, DocFields
<1>9. PDFOk(n.pdf) /\ AllAnnots(n.pdf) \subseteq S
  <2>1. AllAnnots(n.pdf) \in SUBSET AllAnnots(d.pdf)
    BY <1>7 DEF AllAnnots
  <2>2. IsFiniteSet(AllAnnots(n.pdf))
    BY <1>0, <2>1, FS_Subset DEF PDFOk
  <2>3. \A r, t \in Pages : r # t => n.pdf.annots[r] \cap n.pdf.annots[t] = {}
    <3> TAKE r \in Pages, t \in Pages
    <3> HAVE r # t
    <3>1. d.pdf.annots[r] \cap d.pdf.annots[t] = {}
      BY <1>0 DEF PDFOk
    <3> QED  BY <1>7, <3>1
  <2> QED  BY <1>0, <2>1, <2>2, <2>3 DEF PDFOk
<1>10. TablesAgree(n)
  <2>1. \A x : x \in d.keys <=> \E r \in Pages : x \in d.pages[r]
    BY <1>0 DEF TablesAgree
  <2>2. \A r \in Pages : r # q => e \notin d.pages[r]
    BY <1>0, <1>1 DEF TablesAgree
  <2>3. \A x : x \in n.keys <=> \E r \in Pages : x \in n.pages[r]
    BY <1>5, <1>8, <2>1, <2>2
  <2>4. n.keys = UNION {n.pages[r] : r \in Pages}
    BY <2>3
  <2>5. \A r \in Pages : \A x \in n.pages[r] : x.key[1] = r
    BY <1>0, <1>8 DEF TablesAgree
  <2>6. \A x, y \in n.keys : x.key = y.key \/ x.uid = y.uid => x = y
    BY <1>0, <1>5 DEF TablesAgree
  <2> QED  BY <2>4, <2>5, <2>6 DEF TablesAgree
<1>11. PagesComplete(n)
  <2> SUFFICES ASSUME NEW r \in Pages, n.pages[r] # {}
               PROVE  {x.uid : x \in n.pages[r]} = n.pdf.annots[r]
    BY DEF PagesComplete
  <2>1. d.pages[r] # {} /\ {x.uid : x \in d.pages[r]} = d.pdf.annots[r]
    BY <1>0, <1>8 DEF PagesComplete
  <2>2. CASE r # q
    BY <1>7, <1>8, <2>1, <2>2
  <2>3. CASE r = q
    <3>1. n.pages[r] = d.pages[r] \ {e} /\ n.pdf.annots[r] = d.pdf.annots[r] \ {e.uid}
      BY <1>7, <1>8, <2>3
    <3>2. \A x \in d.pages[r] : x.uid = e.uid => x = e
      BY <1>0 DEF TablesAgree
    <3>3. \A x \in n.pages[r] : x.uid \in d.pdf.annots[r] \ {e.uid}
      BY <2>1, <3>1, <3>2
    <3>4. \A w \in d.pdf.annots[r] \ {e.uid} : \E x \in n.pages[r] : x.uid = w
      BY <2>1, <3>1
    <3> QED  BY <3>1, <3>3, <3>4
  <2> QED  BY <2>2, <2>3
<1> QED  BY <1>6, <1>9, <1>10, <1>11 DEF GoodDoc, n, p
-----------------------------------------------------------------------------
(* The invariant in two halves: the files and what is common to all, and   *)
(* the table of documents.                                                 *)
GoodDocs(t, S) ==
  /\ t = [f \in DOMAIN t |-> t[f]]
  /\ DOMAIN t \subseteq Files
  /\ \A f \in DOMAIN t : GoodDoc(t[f], S)

GoodFiles ==
  /\ disk \in [Files -> PDF] /\ saved \in [Files -> SUBSET PDF]
  /\ used \in SUBSET Uids /\ running \in BOOLEAN /\ reply.ok \in BOOLEAN
  /\ \A f \in Files : GoodPDF(disk[f]) /\ \A pdf \in saved[f] : GoodPDF(pdf)

LEMMA TwoHalves == IInv <=> GoodFiles /\ GoodDocs(docs, used)
BY DEF IInv, GoodFiles, GoodDocs, GoodDoc, GoodPDF, TypeOK, RegistryCoherent

(* Putting a good document into the table; the table may also lose some.   *)
LEMMA PutGood ==
  ASSUME NEW t, NEW S, NEW S2, NEW f \in Files, NEW d,
         GoodDocs(t, S), S \subseteq S2, GoodDoc(d, S2)
  PROVE  GoodDocs(Put(t, f, d), S2)
<1>1. \A g \in DOMAIN Put(t, f, d) : Put(t, f, d)[g] = IF g = f THEN d ELSE t[g]
  BY DEF Put
<1>2. \A g \in DOMAIN t : GoodDoc(t[g], S2)
  BY DEF GoodDocs, GoodDoc
<1>3. DOMAIN Put(t, f, d) = DOMAIN t \cup {f}
  BY DEF Put
<1>4. Put(t, f, d) = [g \in DOMAIN Put(t, f, d) |-> Put(t, f, d)[g]]
  BY DEF Put
<1> QED  BY <1>1, <1>2, <1>3, <1>4 DEF GoodDocs

LEMMA DropGood ==
  ASSUME NEW t, NEW S, NEW f, GoodDocs(t, S)
  PROVE  GoodDocs(Drop(t, f), S)
BY DEF GoodDocs, Drop, Restrict

(* The document an argument names is good, open before or opened by it.    *)
LEMMA OpenedGood ==
  ASSUME GoodFiles, GoodDocs(docs, used), NEW f \in Files, NEW pw \in Passwords
  PROVE  GoodDoc(Opened(f, pw), used)
<1>1. CASE IsOpen(f)
  BY <1>1 DEF Opened, IsOpen, GoodDocs
<1>2. CASE ~ IsOpen(f)
  <2>1. disk[f] \in PDF /\ PDFOk(disk[f]) /\ AllAnnots(disk[f]) \subseteq used
    BY DEF GoodFiles, GoodPDF
  <2>2. GoodDoc(Fresh(f, pw), used)
    BY <2>1, FreshGood
  <2> QED  BY <1>2, <2>2 DEF Opened
<1> QED  BY <1>1, <1>2

(* Edits that passed the validation keep a document good.                  *)
LEMMA EditGood ==
  ASSUME NEW S, NEW d, GoodDoc(d, S), NEW e \in d.keys, NEW edits,
         \A q \in DOMAIN edits : edits[q] \in Vals
  PROVE  GoodDoc([d EXCEPT !.pdf.attr[e.uid].props =
                    [q \in Props |-> IF q \in DOMAIN edits
                                     THEN edits[q] ELSE @[q]]], S)
<1> DEFINE props == [q \in Props |-> IF q \in DOMAIN edits THEN edits[q]
                                     ELSE d.pdf.attr[e.uid].props[q]]
           n == [d EXCEPT !.pdf.attr[e.uid].props = props]
<1>0. /\ d \in Doc /\ PDFOk(d.pdf) /\ AllAnnots(d.pdf) \subseteq S
      /\ TablesAgree(d) /\ PagesComplete(d) /\ e.uid \in Uids
  BY DocFields DEF GoodDoc, Entry
<1>1. d.pdf.attr[e.uid] \in Attr
  BY <1>0, DocFields
<1>2. props \in [Props -> Vals]
  BY <1>1 DEF Attr
<1> HIDE DEF props
<1>3. [d.pdf.attr[e.uid] EXCEPT !.props = props] \in Attr
  BY <1>1, <1>2 DEF Attr
<1>4. [d.pdf.attr EXCEPT ![e.uid].props = props] \in [Uids -> Attr]
  BY <1>0, <1>3, DocFields
<1>5. [d.pdf EXCEPT !.attr[e.uid].props = props] \in PDF
  BY <1>0, <1>4 DEF Doc, PDF
<1>6. n \in Doc
  BY <1>0, <1>5 DEF Doc
<1>7. n.pdf.annots = d.pdf.annots /\ n.pages = d.pages /\ n.keys = d.keys
  BY <1>0 DEF Doc, PDF
<1>8. PDFOk(n.pdf) /\ AllAnnots(n.pdf) \subseteq S
  BY <1>0, <1>7 DEF PDFOk, AllAnnots
<1>9. TablesAgree(n) /\ PagesComplete(n)
  BY <1>0, <1>7 DEF TablesAgree, PagesComplete
<1> QED  BY <1>6, <1>8, <1>9 DEF GoodDoc, n, props

LEMMA OptionsGood ==
  ASSUME NEW S, NEW d, GoodDoc(d, S), NEW opts \in [Options -> OptVals]
  PROVE  GoodDoc([d EXCEPT !.opts = opts], S)
<1> DEFINE n == [d EXCEPT !.opts = opts]
<1>1. n \in Doc /\ n.pdf = d.pdf /\ n.pages = d.pages /\ n.keys = d.keys
  BY DEF GoodDoc, Doc
<1> QED  BY <1>1 DEF GoodDoc, TablesAgree, PagesComplete

(* A key that is in the table leads to its entry.                          *)
LEMMA LookupOk ==
  ASSUME NEW d, NEW k \in KeysOf(d.keys)
  PROVE  Lookup(d, k) \in d.keys /\ Lookup(d, k).key = k
BY DEF Lookup, KeysOf
-----------------------------------------------------------------------------
LEMMA InitInv == Init => IInv
<1> SUFFICES ASSUME Init PROVE GoodFiles /\ GoodDocs(docs, used)
  BY TwoHalves
<1>1. \A f \in Files : disk[f] \in PDF /\ PDFOk(disk[f])
  BY OnDiskAssumption DEF Init
<1>2. disk \in [Files -> PDF]
  BY OnDiskAssumption DEF Init
<1>3. \A f \in Files : AllAnnots(disk[f]) \subseteq used
  <2> TAKE f \in Files
  <2>1. \A p \in Pages : disk[f].annots[p] \subseteq Uids
    BY <1>1 DEF PDF
  <2> QED  BY <2>1 DEF Init, AllAnnots
<1>4. GoodFiles
  BY <1>1, <1>2, <1>3 DEF Init, GoodFiles, GoodPDF, Reply
<1>5. GoodDocs(docs, used)
  BY DEF Init, GoodDocs
<1> QED  BY <1>4, <1>5

(* A command that leaves files and identities alone and puts one good      *)
(* document into the table keeps the invariant.                            *)
LEMMA PutStep ==
  ASSUME GoodFiles, GoodDocs(docs, used), NEW f \in Files, NEW d,
         GoodDoc(d, used), docs' = Put(docs, f, d), reply'.ok \in BOOLEAN,
         UNCHANGED <<disk, saved, used, running>>
  PROVE  GoodFiles' /\ GoodDocs(docs', used')
<1>1. GoodFiles'
  BY DEF GoodFiles, GoodPDF
<1>2. GoodDocs(docs', used')
  BY PutGood
<1> QED  BY <1>1, <1>2

(* Every command keeps the invariant.                                      *)
LEMMA NextInv == IInv /\ [Next]_vars => IInv'
<1> SUFFICES ASSUME GoodFiles, GoodDocs(docs, used), [Next]_vars
             PROVE  GoodFiles' /\ GoodDocs(docs', used')
  <2>1. IInv' <=> GoodFiles' /\ GoodDocs(docs', used')
    BY DEF IInv, GoodFiles, GoodDocs, GoodDoc, GoodPDF, TypeOK, RegistryCoherent
  <2> QED  BY <2>1, TwoHalves
<1>0. ASSUME NEW f \in Files PROVE GoodDoc(D(f), used)
  BY OpenedGood DEF D, Passwords
<1>r. ASSUME NEW cmd PROVE Reply(cmd).ok \in BOOLEAN /\ Error(cmd).ok \in BOOLEAN
  BY DEF Reply, Error
<1>1. ASSUME NEW f \in Files, NEW pw \in Passwords, Open(f, pw)
      PROVE  GoodFiles' /\ GoodDocs(docs', used')
  <2>1. CASE CanOpen(f, pw) /\ docs' = Put(docs, f, Opened(f, pw))
             /\ reply' = Reply("open")
    BY <1>1, <1>r, <2>1, OpenedGood, PutStep DEF Open
  <2>2. CASE reply' = Error("open") /\ UNCHANGED docs
    BY <1>1, <1>r, <2>2 DEF Open, GoodFiles, GoodPDF
  <2> QED  BY <1>1, <2>1, <2>2 DEF Open
<1>2. ASSUME NEW f \in Files, Close(f)
      PROVE  GoodFiles' /\ GoodDocs(docs', used')
  BY <1>2, <1>r, DropGood DEF Close, GoodFiles, GoodPDF
<1>3. ASSUME NEW f \in Files, Save(f)
      PROVE  GoodFiles' /\ GoodDocs(docs', used')
  <2>1. GoodDocs(docs', used')
    BY <1>0, <1>3, PutGood DEF Save, Keep
  <2>2. D(f).pdf \in PDF /\ GoodPDF(D(f).pdf)
    BY <1>0, DocFields DEF GoodDoc, GoodPDF
  <2>3. CASE saved' = [saved EXCEPT ![f] = {D(f).pdf}] /\ reply' = Reply("save")
    <3>1. saved' \in [Files -> SUBSET PDF]
      BY <2>2, <2>3 DEF GoodFiles
    <3>2. \A g \in Files : \A pdf \in saved'[g] : GoodPDF(pdf)
      BY <2>2, <2>3 DEF GoodFiles
    <3> QED  BY <1>3, <1>r, <2>1, <2>3, <3>1, <3>2 DEF Save, GoodFiles, GoodPDF
  <2>4. CASE reply' = Error("save") /\ UNCHANGED saved
    BY <1>3, <1>r, <2>1, <2>4 DEF Save, GoodFiles, GoodPDF
  <2> QED  BY <1>3, <2>3, <2>4 DEF Save
<1>4. ASSUME NEW f \in Files, GetOptions(f)
      PROVE  GoodFiles' /\ GoodDocs(docs', used')
  BY <1>0, <1>4, <1>r, PutStep DEF GetOptions, Keep
<1>5. ASSUME NEW f \in Files, ArgDocFails(f)
      PROVE  GoodFiles' /\ GoodDocs(docs', used')
  BY <1>5, <1>r DEF ArgDocFails, GoodFiles, GoodPDF
<1>6. ASSUME NEW f \in Files, NEW first \in Pages, NEW last \in Pages,
             GetAnnots(f, first, last)
      PROVE  GoodFiles' /\ GoodDocs(docs', used')
  <2>1. first .. last \in SUBSET Pages
    BY PagesAssumption DEF Pages
  <2>2. GoodDoc(Load(D(f), first .. last), used)
    BY <1>0, <2>1, LoadGood
  <2>3. reply'.ok \in BOOLEAN
    BY <1>6 DEF GetAnnots, Listing
  <2> QED  BY <1>6, <2>2, <2>3, PutStep DEF GetAnnots
<1>7. ASSUME NEW f \in Files, NEW k, GetAnnot(f, k)
      PROVE  GoodFiles' /\ GoodDocs(docs', used')
  BY <1>0, <1>7, <1>r, PutStep DEF GetAnnot, Keep
<1>8. ASSUME NEW f \in Files, NEW k, DelAnnot(f, k)
      PROVE  GoodFiles' /\ GoodDocs(docs', used')
  <2> DEFINE d == D(f)
             e == Lookup(d, k)
             p == PageIndex(d.pdf, e.uid)
             n == [d EXCEPT !.pdf.annots[p] = @ \ {e.uid},
                            !.pages[p] = @ \ {e}, !.keys = @ \ {e}]
  <2>1. CASE k \in KeysOf(d.keys) /\ docs' = Put(docs, f, n)
             /\ reply' = Reply("delannot")
    <3>1. e \in d.keys
      BY <2>1, LookupOk
    <3> HIDE DEF d, e
    <3>2. GoodDoc(n, used)
      BY <1>0, <3>1, DelGood DEF d
    <3> HIDE DEF n
    <3> QED  BY <1>8, <1>r, <2>1, <3>2, PutStep DEF DelAnnot
  <2>2. CASE Keep(f) /\ reply' = Error("delannot")
    BY <1>0, <1>8, <1>r, <2>2, PutStep DEF DelAnnot, Keep
  <2> QED  BY <1>8, <2>1, <2>2 DEF DelAnnot
<1>9. ASSUME NEW f \in Files, NEW k, NEW edits \in Edits, EditAnnot(f, k, edits)
      PROVE  GoodFiles' /\ GoodDocs(docs', used')
  <2> DEFINE d == D(f)
             e == Lookup(d, k)
             n == [d EXCEPT !.pdf.attr[e.uid].props =
                    [q \in Props |-> IF q \in DOMAIN edits
                                     THEN edits[q] ELSE @[q]]]
             ok == /\ k \in KeysOf(d.keys)
                   /\ \A q \in DOMAIN edits :
                        ValidEdit(d.pdf.attr[e.uid].kind, q, edits[q])
  <2>1. CASE ok /\ docs' = Put(docs, f, n) /\ reply' = Reply("editannot")
    <3>1. e \in d.keys
      BY <2>1, LookupOk
    <3>2. \A q \in DOMAIN edits : edits[q] \in Vals
      BY <2>1 DEF Edits, PartialFns, ValidEdit
    <3> HIDE DEF d, e
    <3>3. GoodDoc(n, used)
      BY <1>0, <3>1, <3>2, EditGood DEF d
    <3> HIDE DEF n
    <3> QED  BY <1>9, <1>r, <2>1, <3>3, PutStep DEF EditAnnot
  <2>2. CASE Keep(f) /\ reply' = Error("editannot")
    BY <1>0, <1>9, <1>r, <2>2, PutStep DEF EditAnnot, Keep
  <2> QED  BY <1>9, <2>1, <2>2 DEF EditAnnot
<1>10. ASSUME NEW f \in Files, NEW p \in Pages, NEW kind \in Kinds,
              NEW accepted \in BOOLEAN, AddAnnot(f, p, kind, accepted)
       PROVE  GoodFiles' /\ GoodDocs(docs', used')
  <2> DEFINE d == Load(D(f), {p})
             i == FreeIndex(d, p)
             n(u) == [Register(d, p, [key |-> <<p, i>>, uid |-> u]) EXCEPT
                        !.pdf = WithAnnot(@, p, u, NewAttr(kind))]
  <2>1. CASE Keep(f) /\ reply' = Error("addannot") /\ UNCHANGED used
    BY <1>0, <1>10, <1>r, <2>1, PutStep DEF AddAnnot, Keep
  <2>2. ASSUME NEW u \in Uids \ used, used' = used \cup {u},
               docs' = Put(docs, f, n(u)), reply' = Reply("addannot")
        PROVE  GoodFiles' /\ GoodDocs(docs', used')
    <3>1. GoodDoc(d, used)
      BY <1>0, LoadGood
    <3>2. d.pages[p] = {} => d.pdf.annots[p] = {}
      <4>1. d.pages[p] = IF D(f).pages[p] = {} THEN Entries(p, D(f).pdf.annots[p])
                                               ELSE D(f).pages[p]
        BY <1>0 DEF Load, ToLoad, GoodDoc, Doc
      <4>2. d.pdf = D(f).pdf
        BY <1>0, LoadGood
      <4> QED  BY <4>1, <4>2 DEF Entries
    <3> HIDE DEF d
    <3>3. i \in Nat /\ <<p, i>> \notin KeysOf(d.keys)
      <4>1. d.keys \in SUBSET Entry
        BY <3>1, DocFields DEF GoodDoc
      <4> QED  BY <3>1, <4>1, KeysFinite, FreeIndexFree
    <3>4. NewAttr(kind) \in Attr
      BY ValsAssumption DEF NewAttr, Attr, Default
    <3> HIDE DEF i
    <3>5. GoodDoc(n(u), used')
      BY <2>2, <3>1, <3>2, <3>3, <3>4, AddGood
    <3> HIDE DEF n
    <3>6. GoodDocs(docs', used')
      BY <2>2, <3>5, PutGood
    <3>7. GoodFiles'
      BY <1>10, <1>r, <2>2 DEF AddAnnot, GoodFiles, GoodPDF
    <3> QED  BY <3>6, <3>7
  <2> QED  BY <1>10, <2>1, <2>2 DEF AddAnnot
<1>11. ASSUME NEW f \in Files, NEW even \in BOOLEAN,
              NEW new \in PartialFns(Options \cup {Unknown}, OptVals \cup {Bad}),
              SetOptions(f, new, even)
       PROVE  GoodFiles' /\ GoodDocs(docs', used')
  <2> DEFINE d == D(f)
             opts == [o \in Options |-> IF o \in DOMAIN new THEN new[o] ELSE d.opts[o]]
             ok == even /\ \A o \in DOMAIN new : o \in Options /\ new[o] # Bad
  <2>1. CASE ok /\ docs' = Put(docs, f, [d EXCEPT !.opts = opts])
             /\ reply' = Reply("setoptions")
    <3>1. \A o \in DOMAIN new : new[o] \in OptVals
      BY <2>1 DEF PartialFns
    <3>2. opts \in [Options -> OptVals]
      BY <1>0, <3>1, DocFields DEF GoodDoc
    <3> HIDE DEF opts
    <3>3. GoodDoc([d EXCEPT !.opts = opts], used)
      BY <1>0, <3>2, OptionsGood
    <3> QED  BY <1>11, <1>r, <2>1, <3>3, PutStep DEF SetOptions
  <2>2. CASE Keep(f) /\ reply' = Error("setoptions")
    BY <1>0, <1>11, <1>r, <2>2, PutStep DEF SetOptions, Keep
  <2> QED  BY <1>11, <2>1, <2>2 DEF SetOptions
<1>12. ASSUME NEW f \in Files, NEW ok \in BOOLEAN, ReadDoc(f, ok)
       PROVE  GoodFiles' /\ GoodDocs(docs', used')
  BY <1>0, <1>12, <1>r, PutStep DEF ReadDoc, Keep
<1>13. ASSUME NEW ok \in BOOLEAN, NoDoc(ok)
       PROVE  GoodFiles' /\ GoodDocs(docs', used')
  BY <1>13, <1>r DEF NoDoc, GoodFiles, GoodPDF
<1>14. ASSUME Quit
       PROVE  GoodFiles' /\ GoodDocs(docs', used')
  <2>1. GoodDocs(docs', used')
    BY <1>14 DEF Quit, GoodDocs
  <2> QED  BY <1>14, <1>r, <2>1 DEF Quit, GoodFiles, GoodPDF
<1>15. ASSUME NEW f \in Files, Replace(f)
       PROVE  GoodFiles' /\ GoodDocs(docs', used')
  <2>1. PICK pdf \in saved[f] : disk' = [disk EXCEPT ![f] = pdf]
    BY <1>15 DEF Replace
  <2>2. pdf \in PDF /\ GoodPDF(pdf)
    BY DEF GoodFiles
  <2>3. disk' \in [Files -> PDF] /\ \A g \in Files : GoodPDF(disk'[g])
    BY <2>1, <2>2 DEF GoodFiles
  <2> QED  BY <1>15, <2>3 DEF Replace, GoodFiles, GoodPDF
<1>16. CASE UNCHANGED vars
  BY <1>16 DEF vars, GoodFiles, GoodPDF
<1> QED
  BY <1>1, <1>2, <1>3, <1>4, <1>5, <1>6, <1>7, <1>8, <1>9, <1>10, <1>11,
     <1>12, <1>13, <1>14, <1>15, <1>16 DEF Next, Command

-----------------------------------------------------------------------------
(* After any sequence of commands the lists, the table of keys and poppler *)
(* agree on the annotations of every open document.                        *)
THEOREM Registry == Spec => []RegistryCoherent
<1>1. IInv => RegistryCoherent
  BY DEF IInv
<1> QED  BY <1>1, InitInv, NextInv, PTL DEF Spec

(* The inductive invariant, and with it the typing of the server's state,  *)
(* holds for every instance.                                               *)
THEOREM Invariant == Spec => []IInv
BY InitInv, NextInv, PTL DEF Spec
------------------------------------------------------------------------------
(***************************************************************************)
(* What a single command of the server may do to the documents.  Every     *)
(* command that names a document puts one into the table; Answers says     *)
(* what is common to all of these, and the theorems follow.                *)
(***************************************************************************)
(* From d to n no key comes to name another annotation.                    *)
KeepsKeys(d, n) == \A e \in d.keys, e2 \in n.keys : e.key = e2.key => e = e2

(* The document of f was open or is opened with the password pw, stays as  *)
(* it is if the answer is an error, and keeps its password and keys.       *)
Answers(f, pw) ==
  /\ CanOpen(f, pw)
  /\ docs' = Put(docs, f, docs'[f])
  /\ docs'[f].passwd = Opened(f, pw).passwd
  /\ ~ reply'.ok => docs'[f] = Opened(f, pw)
  /\ KeepsKeys(Opened(f, pw), docs'[f])

LEMMA AnswersBy ==
  ASSUME NEW f, NEW pw, NEW n, CanOpen(f, pw), docs' = Put(docs, f, n),
         n.passwd = Opened(f, pw).passwd,
         ~ reply'.ok => n = Opened(f, pw),
         KeepsKeys(Opened(f, pw), n)
  PROVE  Answers(f, pw)
<1>1. docs'[f] = n
  BY DEF Put
<1>2. QED
  BY <1>1 DEF Answers

LEMMA Replies ==
  ASSUME NEW cmd PROVE Reply(cmd).ok = TRUE /\ Error(cmd).ok = FALSE
BY DEF Reply, Error
------------------------------------------------------------------------------
(* Keys under the operations on a document: no two of its annotations have *)
(* one key, so that taking some away changes no meaning.                   *)
LEMMA KeysUnique ==
  ASSUME NEW S, NEW d, GoodDoc(d, S), NEW n, n.keys \subseteq d.keys
  PROVE  KeepsKeys(d, n)
BY DEF GoodDoc, TablesAgree, KeepsKeys

(* Pages are loaded that have no list yet, so that none of their keys is   *)
(* in use.                                                                 *)
LEMMA LoadKeepsKeys ==
  ASSUME NEW S, NEW d, GoodDoc(d, S), NEW R
  PROVE  /\ KeepsKeys(d, Load(d, R))
         /\ KeysOf(d.keys) \subseteq KeysOf(Load(d, R).keys)
<1> DEFINE new == NewEntries(d, R)
<1>1. Load(d, R).keys = {e \in d.keys : e.key \notin KeysOf(new)} \cup new
  BY DEF GoodDoc, Doc, Load, Insert
<1>2. ASSUME NEW e \in d.keys, NEW e2 \in new PROVE e.key # e2.key
  <2>1. PICK p \in ToLoad(d, R) : e2 \in Entries(p, d.pdf.annots[p])
    BY DEF NewEntries
  <2>2. e2.key[1] = p /\ d.pages[p] = {}
    BY <2>1 DEF ToLoad, Entries
  <2>3. PICK q \in Pages : e \in d.pages[q]
    BY DEF GoodDoc, TablesAgree
  <2>4. e.key[1] = q
    BY <2>3 DEF GoodDoc, TablesAgree
  <2>5. QED
    BY <2>2, <2>3, <2>4
<1> HIDE DEF new
<1>3. KeepsKeys(d, Load(d, R))
  BY <1>1, <1>2 DEF KeepsKeys, GoodDoc, TablesAgree
<1>4. KeysOf(d.keys) \subseteq KeysOf(Load(d, R).keys)
  BY <1>1 DEF KeysOf
<1>5. QED
  BY <1>3, <1>4
------------------------------------------------------------------------------
(* Each command that names a document.                                     *)
LEMMA CommandAnswers ==
  ASSUME IInv, NEW f \in Files,
         \/ \E pw \in Passwords : Open(f, pw) /\ CanOpen(f, pw)
         \/ Save(f) \/ GetOptions(f)
         \/ \E first, last \in Pages : GetAnnots(f, first, last)
         \/ \E k \in Requestable(f) :
              \/ GetAnnot(f, k) \/ DelAnnot(f, k)
              \/ \E edits \in Edits : EditAnnot(f, k, edits)
         \/ \E p \in Pages, kind \in Kinds, accepted \in BOOLEAN :
              AddAnnot(f, p, kind, accepted)
         \/ \E new \in PartialFns(Options \cup {Unknown}, OptVals \cup {Bad}),
               even \in BOOLEAN : SetOptions(f, new, even)
         \/ \E ok \in BOOLEAN : ReadDoc(f, ok)
  PROVE  \E pw \in Passwords : Answers(f, pw)
<1>g. ASSUME NEW pw \in Passwords PROVE GoodDoc(Opened(f, pw), used)
  BY OpenedGood, TwoHalves
<1>d. NoPass \in Passwords /\ GoodDoc(D(f), used) /\ D(f) = Opened(f, NoPass)
  BY <1>g DEF Passwords, D
<1>k. ASSUME ArgDoc(f), Keep(f) PROVE Answers(f, NoPass)
  BY <1>d, <1>k, KeysUnique, AnswersBy DEF ArgDoc, Keep
<1>1. ASSUME NEW pw \in Passwords, Open(f, pw), CanOpen(f, pw)
      PROVE  Answers(f, pw)
  BY <1>1, <1>g, KeysUnique, AnswersBy DEF Open
<1>2. CASE Save(f) \/ GetOptions(f) \/ \E ok \in BOOLEAN : ReadDoc(f, ok)
  BY <1>2, <1>d, <1>k DEF Save, GetOptions, ReadDoc
<1>3. ASSUME NEW first \in Pages, NEW last \in Pages, GetAnnots(f, first, last)
      PROVE  Answers(f, NoPass)
  <2> DEFINE n == Load(D(f), first .. last)
  <2>1. n.passwd = D(f).passwd /\ reply'.ok = TRUE
    BY <1>3, <1>d DEF GetAnnots, Listing, Load, GoodDoc, Doc
  <2>2. KeepsKeys(D(f), n)
    BY <1>d, LoadKeepsKeys
  <2>3. QED
    BY <1>3, <1>d, <2>1, <2>2, AnswersBy DEF GetAnnots, ArgDoc
<1>4. ASSUME NEW k, GetAnnot(f, k) PROVE Answers(f, NoPass)
  BY <1>4, <1>k DEF GetAnnot
<1>5. ASSUME NEW k, DelAnnot(f, k) PROVE Answers(f, NoPass)
  <2> DEFINE d == D(f)
             e == Lookup(d, k)
             p == PageIndex(d.pdf, e.uid)
             n == [d EXCEPT !.pdf.annots[p] = @ \ {e.uid},
                            !.pages[p] = @ \ {e}, !.keys = @ \ {e}]
  <2>1. CASE docs' = Put(docs, f, n) /\ reply' = Reply("delannot")
    <3>1. n.passwd = d.passwd /\ n.keys = d.keys \ {e}
      BY <1>d DEF GoodDoc, Doc
    <3>2. ArgDoc(f)
      BY <1>5 DEF DelAnnot
    <3> HIDE DEF n
    <3>3. QED
      BY <1>d, <2>1, <3>1, <3>2, KeysUnique, AnswersBy, Replies DEF ArgDoc
  <2>2. CASE Keep(f)
    BY <1>5, <1>k, <2>2 DEF DelAnnot
  <2>3. QED
    BY <1>5, <2>1, <2>2 DEF DelAnnot
<1>6. ASSUME NEW k, NEW edits \in Edits, EditAnnot(f, k, edits)
      PROVE  Answers(f, NoPass)
  <2> DEFINE d == D(f)
             n == [d EXCEPT !.pdf.attr[Lookup(d, k).uid].props =
                     [q \in Props |-> IF q \in DOMAIN edits THEN edits[q] ELSE @[q]]]
  <2>1. CASE docs' = Put(docs, f, n) /\ reply' = Reply("editannot")
    <3>1. n.passwd = d.passwd /\ n.keys = d.keys
      BY <1>d DEF GoodDoc, Doc
    <3>2. ArgDoc(f)
      BY <1>6 DEF EditAnnot
    <3> HIDE DEF n
    <3>3. QED
      BY <1>d, <2>1, <3>1, <3>2, KeysUnique, AnswersBy, Replies DEF ArgDoc
  <2>2. CASE Keep(f)
    BY <1>6, <1>k, <2>2 DEF EditAnnot
  <2>3. QED
    BY <1>6, <2>1, <2>2 DEF EditAnnot
<1>7. ASSUME NEW p \in Pages, NEW kind \in Kinds, NEW accepted \in BOOLEAN,
             AddAnnot(f, p, kind, accepted)
      PROVE  Answers(f, NoPass)
  <2> DEFINE l == Load(D(f), {p})
             e(u) == [key |-> <<p, FreeIndex(l, p)>>, uid |-> u]
             n(u) == [Register(l, p, e(u)) EXCEPT
                        !.pdf = WithAnnot(@, p, u, NewAttr(kind))]
  <2>1. ASSUME NEW u \in Uids, docs' = Put(docs, f, n(u)), reply' = Reply("addannot")
        PROVE  Answers(f, NoPass)
    <3>1. GoodDoc(l, used) /\ l.passwd = D(f).passwd
      <4>1. GoodDoc(l, used)
        BY <1>d, LoadGood
      <4>2. l.passwd = D(f).passwd
        BY <1>d DEF Load, GoodDoc, Doc
      <4>3. QED
        BY <4>1, <4>2
    <3>2. KeepsKeys(D(f), l) /\ KeysOf(D(f).keys) \subseteq KeysOf(l.keys)
      BY <1>d, LoadKeepsKeys
    <3>3. e(u).key \notin KeysOf(l.keys)
      BY <3>1, DocFields, KeysFinite, FreeIndexFree DEF GoodDoc
    <3> HIDE DEF l
    <3>4. n(u).passwd = l.passwd /\ n(u).keys \subseteq l.keys \cup {e(u)}
      BY <3>1 DEF Register, Insert, GoodDoc, Doc
    <3>5. KeepsKeys(D(f), n(u))
      BY <3>2, <3>3, <3>4 DEF KeepsKeys, KeysOf
    <3>6. ArgDoc(f)
      BY <1>7 DEF AddAnnot
    <3> HIDE DEF n
    <3>7. QED
      BY <1>d, <2>1, <3>1, <3>4, <3>5, <3>6, AnswersBy, Replies DEF ArgDoc
  <2>2. CASE Keep(f)
    BY <1>7, <1>k, <2>2 DEF AddAnnot
  <2>3. QED
    BY <1>7, <2>1, <2>2 DEF AddAnnot
<1>8. ASSUME NEW new, NEW even, SetOptions(f, new, even)
      PROVE  Answers(f, NoPass)
  <2> DEFINE d == D(f)
             n == [d EXCEPT !.opts = [o \in Options |->
                     IF o \in DOMAIN new THEN new[o] ELSE d.opts[o]]]
  <2>1. CASE docs' = Put(docs, f, n) /\ reply' = Reply("setoptions")
    <3>1. n.passwd = d.passwd /\ n.keys = d.keys
      BY <1>d DEF GoodDoc, Doc
    <3>2. ArgDoc(f)
      BY <1>8 DEF SetOptions
    <3> HIDE DEF n
    <3>3. QED
      BY <1>d, <2>1, <3>1, <3>2, KeysUnique, AnswersBy, Replies DEF ArgDoc
  <2>2. CASE Keep(f)
    BY <1>8, <1>k, <2>2 DEF SetOptions
  <2>3. QED
    BY <1>8, <2>1, <2>2 DEF SetOptions
<1>9. QED
  BY <1>d, <1>1, <1>2, <1>3, <1>4, <1>5, <1>6, <1>7, <1>8

(* All other steps change no document; Close and Quit take some away.      *)
LEMMA AnyStep ==
  ASSUME IInv, [Next]_vars
  PROVE  \/ UNCHANGED docs
         \/ \E f \in Files : docs' = Drop(docs, f) /\ reply'.ok
         \/ DOMAIN docs' = {} /\ reply'.ok
         \/ \E f \in Files, pw \in Passwords : Answers(f, pw)
<1>1. ASSUME NEW f \in Files, NEW pw \in Passwords, Open(f, pw), ~ CanOpen(f, pw)
      PROVE  UNCHANGED docs
  BY <1>1 DEF Open
<1>2. ASSUME NEW f \in Files, Close(f)
      PROVE  docs' = Drop(docs, f) /\ reply'.ok
  BY <1>2, Replies DEF Close
<1>3. CASE Quit
  BY <1>3, Replies DEF Quit
<1>4. CASE \/ \E f \in Files : ArgDocFails(f) \/ Replace(f)
           \/ \E ok \in BOOLEAN : NoDoc(ok)
           \/ UNCHANGED vars
  BY <1>4 DEF ArgDocFails, Replace, NoDoc, vars
<1>5. QED
  BY <1>1, <1>2, <1>3, <1>4, CommandAnswers DEF Next, Command
------------------------------------------------------------------------------
(* cmd_editannot, cmd_setoptions and all others: an answer that is an      *)
(* error leaves every open document as it was.                             *)
THEOREM Errors == Spec => ErrorsChangeNothing
<1> DEFINE Step == ~ reply'.ok => \A f \in DOMAIN docs :
                     f \in DOMAIN docs' /\ docs'[f] = docs[f]
<1>1. ASSUME IInv, [Next]_vars PROVE [Step]_vars
  <2>1. ASSUME NEW f \in Files, NEW pw \in Passwords, Answers(f, pw), ~ reply'.ok
        PROVE  \A g \in DOMAIN docs : g \in DOMAIN docs' /\ docs'[g] = docs[g]
    BY <2>1 DEF Answers, Put, Opened, IsOpen
  <2>2. QED
    BY <1>1, <2>1, AnyStep
<1>2. QED
  BY <1>1, Invariant, PTL DEF Spec, ErrorsChangeNothing

(* cmd_addannot and annoation_get_for_page: however pages are loaded and   *)
(* annotations come and go, a key in use names the same annotation as long *)
(* as its document is open.                                                *)
THEOREM Keys == Spec => KeysStable
<1> DEFINE Step == \A f \in DOMAIN docs \cap DOMAIN docs' :
                     KeepsKeys(docs[f], docs'[f])
<1>0. ASSUME IInv, NEW f \in DOMAIN docs PROVE KeepsKeys(docs[f], docs[f])
  BY <1>0 DEF IInv, RegistryCoherent, TablesAgree, KeepsKeys
<1>1. ASSUME IInv, [Next]_vars PROVE [Step]_vars
  <2>1. ASSUME NEW f \in Files, NEW pw \in Passwords, Answers(f, pw)
        PROVE  Step
    <3>1. \A g \in DOMAIN docs' : g = f \/ docs'[g] = docs[g]
      BY <2>1 DEF Answers, Put
    <3>2. f \in DOMAIN docs => KeepsKeys(docs[f], docs'[f])
      BY <2>1 DEF Answers, Opened, IsOpen
    <3>3. QED
      BY <1>0, <1>1, <3>1, <3>2
  <2>2. ASSUME NEW f \in Files, docs' = Drop(docs, f) PROVE Step
    BY <1>0, <1>1, <2>2 DEF Drop, Restrict
  <2>3. CASE UNCHANGED docs \/ DOMAIN docs' = {}
    BY <1>0, <1>1, <2>3
  <2>4. QED
    BY <1>1, <2>1, <2>2, <2>3, AnyStep
<1>2. [Step]_vars =>
        [\A f \in DOMAIN docs \cap DOMAIN docs' :
           \A e \in docs[f].keys, e2 \in docs'[f].keys :
             e.key = e2.key => e = e2]_vars
  BY DEF KeepsKeys
<1>3. QED
  BY <1>1, <1>2, Invariant, PTL DEF Spec, KeysStable

(* What the lists of the pages R name, and what poppler has there.         *)
Listed(d, R) == {e.uid : e \in UNION {d.pages[p] : p \in R}}
Present(d, R) == UNION {d.pdf.annots[p] : p \in R}

(* Loading pages lists on each of them what poppler has there: a page with *)
(* a list is complete, the others are read.                                *)
LEMMA LoadedPages ==
  ASSUME NEW S, NEW d, GoodDoc(d, S), NEW R \in SUBSET Pages
  PROVE  Listed(Load(d, R), R) = Present(d, R)
<1>1. ASSUME NEW p \in R
      PROVE  {e.uid : e \in Load(d, R).pages[p]} = d.pdf.annots[p]
  <2>1. CASE d.pages[p] = {}
    <3>1. Load(d, R).pages[p] = Entries(p, d.pdf.annots[p])
      BY <1>1, <2>1 DEF GoodDoc, Doc, Load, ToLoad
    <3> DEFINE here == d.pdf.annots[p]
    <3>2. \A e \in Entries(p, here) : e.uid \in here
      BY DEF Entries
    <3>3. \A u \in here : \E e \in Entries(p, here) : e.uid = u
      <4> TAKE u \in here
      <4> DEFINE e == [key |-> <<p, Index(here, u)>>, uid |-> u]
      <4>1. e \in Entries(p, here) /\ e.uid = u
        BY DEF Entries
      <4>2. QED
        BY <4>1
    <3> HIDE DEF here
    <3>4. {e.uid : e \in Entries(p, here)} = here
      BY <3>2, <3>3
    <3>5. QED
      BY <3>1, <3>4 DEF here
  <2>2. CASE d.pages[p] # {}
    <3>1. Load(d, R).pages[p] = d.pages[p]
      BY <1>1, <2>2 DEF GoodDoc, Doc, Load, ToLoad
    <3>2. QED
      BY <1>1, <2>2, <3>1 DEF GoodDoc, PagesComplete
  <2>3. QED
    BY <2>1, <2>2
<1>2. QED
  BY <1>1 DEF Listed, Present

(* cmd_getannots and annoation_get_for_page: whatever was listed, added    *)
(* and deleted before, a listing names the annotations of the pages asked  *)
(* for, no more and no less.                                               *)
THEOREM Listings == Spec => []ListingComplete
<1>1. Init => ListingComplete
  BY DEF Init, ListingComplete, Reply
<1>2. ASSUME IInv, ListingComplete, [Next]_vars PROVE ListingComplete'
  <2>1. CASE UNCHANGED <<docs, reply>>
    BY <1>2, <2>1 DEF ListingComplete
  <2>2. CASE reply'.file = {}
    BY <2>2 DEF ListingComplete
  <2>3. ASSUME NEW f \in Files, NEW first \in Pages, NEW last \in Pages,
               GetAnnots(f, first, last)
        PROVE  ListingComplete'
    <3> DEFINE d == D(f)
               R == first .. last
    <3>1. GoodDoc(d, used) /\ R \in SUBSET Pages
      BY <1>2, OpenedGood, TwoHalves, PagesAssumption DEF D, Passwords, Pages
    <3>2. docs'[f] = Load(d, R) /\ reply'.file = {f} /\ reply'.pages = R
          /\ reply'.uids = Listed(Load(d, R), R)
      BY <2>3 DEF GetAnnots, Listing, Put, Listed
    <3>3. Load(d, R).pdf = d.pdf
      BY <3>1 DEF GoodDoc, Doc, Load
    <3> HIDE DEF d, R
    <3>4. reply'.uids = Present(d, R)
      BY <3>1, <3>2, LoadedPages
    <3>5. QED
      BY <3>2, <3>3, <3>4 DEF ListingComplete, Present
  <2>4. \/ UNCHANGED <<docs, reply>> \/ reply'.file = {}
        \/ \E f \in Files, first, last \in Pages : GetAnnots(f, first, last)
    <3>1. \A cmd : Reply(cmd).file = {} /\ Error(cmd).file = {}
      BY DEF Reply, Error
    <3>2. ASSUME NEW f \in Files,
                 \/ \E pw \in Passwords : Open(f, pw)
                 \/ Close(f) \/ Save(f) \/ GetOptions(f) \/ ArgDocFails(f)
                 \/ \E ok \in BOOLEAN : ReadDoc(f, ok)
          PROVE  reply'.file = {}
      BY <3>1, <3>2 DEF Open, Close, Save, GetOptions, ArgDocFails, ReadDoc
    <3>3. ASSUME NEW f \in Files, NEW k,
                 \/ GetAnnot(f, k) \/ DelAnnot(f, k)
                 \/ \E edits \in Edits : EditAnnot(f, k, edits)
          PROVE  reply'.file = {}
      BY <3>1, <3>3 DEF GetAnnot, DelAnnot, EditAnnot
    <3>4. ASSUME NEW f \in Files, NEW p, NEW kind, NEW accepted \in BOOLEAN,
                 AddAnnot(f, p, kind, accepted)
          PROVE  reply'.file = {}
      BY <3>1, <3>4 DEF AddAnnot
    <3>5. ASSUME NEW f \in Files, NEW new, NEW even \in BOOLEAN, SetOptions(f, new, even)
          PROVE  reply'.file = {}
      BY <3>1, <3>5 DEF SetOptions
    <3>6. CASE Quit \/ \E ok \in BOOLEAN : NoDoc(ok)
      BY <3>1, <3>6 DEF Quit, NoDoc
    <3>7. CASE (\E f \in Files : Replace(f)) \/ UNCHANGED vars
      BY <3>7 DEF Replace, vars
    <3>8. QED
      BY <1>2, <3>2, <3>3, <3>4, <3>5, <3>6, <3>7 DEF Next, Command
  <2>5. QED
    BY <2>1, <2>2, <2>3, <2>4
<1>3. QED
  BY <1>1, <1>2, Invariant, PTL DEF Spec
==============================================================================
