---------------------------- MODULE ServerProofs ----------------------------
(***************************************************************************)
(* What the processes beside Emacs rest on: the file that the synctex      *)
(* reader opens; the texts of queries and answers, which the client and    *)
(* the server read as they were meant; the picture that is rendered; and   *)
(* the answers and the transactions of the SQL process.                    *)
(***************************************************************************)
EXTENDS SynctexOpen, PdfInfoText, EpdfinfoRender, Emacsql, EmacsqlTransaction,
        SubsequenceProofs, TLAPS

CONSTANT Characters        \* any characters that texts may have besides
------------------------------------------------------------------------------
(***************************************************************************)
(* Any number of readers that rename the file of a TeX that writes it any  *)
(* number of times: each opens a file that is not older than the one that  *)
(* was there when it began.                                                *)
(*                                                                         *)
(* TeX writes one name, quoted or not; the only other name under which its *)
(* file can be is the one without quotes.  The latest run is under the     *)
(* quoted name as long as there is such a file, else under the other.      *)
(***************************************************************************)
Quoted(n) == [n EXCEPT !.quoted = TRUE]
LatestFile ==
  /\ \A n \in Name : n.gz # tex.gz => disk[n] = 0
  /\ disk[Quoted(tex)] \in {0, runs}
  /\ disk[Quoted(tex)] = 0 => disk[Unquoted(tex)] = runs
  /\ ~ tex.quoted => disk[Quoted(tex)] = 0

OpenTypeOK ==
  /\ tex \in Name /\ spaces \in BOOLEAN /\ (tex.quoted => spaces)
  /\ runs \in Nat
  /\ disk \in [Name -> Nat]
  /\ at \in [Readers -> {"idle", "try", "rename", "reopen", "failed"}]
  /\ names \in [Readers -> Seq(Name)]
  /\ since \in [Readers -> Nat] /\ \A r \in Readers : since[r] <= runs
  /\ read \in [Readers -> Nat]

(* The names that a reader still tries are the last of the four: those up  *)
(* to a rank.  It comes to the quoted name of the file, or to the other    *)
(* one when what is there now is new enough.                               *)
Called(q, gz) == [quoted |-> q, gz |-> gz]
Rank(n) == IF n.quoted THEN (IF n.gz THEN 3 ELSE 4) ELSE (IF n.gz THEN 1 ELSE 2)
Rest == {<<Called(TRUE, FALSE), Called(TRUE, TRUE), Called(FALSE, FALSE),
           Called(FALSE, TRUE)>>,
         <<Called(TRUE, TRUE), Called(FALSE, FALSE), Called(FALSE, TRUE)>>,
         <<Called(FALSE, FALSE), Called(FALSE, TRUE)>>, <<Called(FALSE, TRUE)>>, <<>>}
Recent(r) == disk[Unquoted(tex)] >= since[r]
CanFind(r) ==
  since[r] > 0 =>
    \/ Len(names[r]) >= Rank(Quoted(tex))
    \/ Len(names[r]) >= Rank(Unquoted(tex)) /\ Recent(r)

ReaderInv(r) ==
  /\ at[r] = "try" => names[r] \in Rest /\ CanFind(r)
  /\ at[r] = "rename" => names[r] # <<>> /\ Head(names[r]) = Quoted(tex)
  /\ at[r] = "reopen" =>
       /\ names[r] # <<>>
       /\ \/ Head(names[r]) = Quoted(tex)
          \/ Head(names[r]) = Unquoted(tex) /\ Recent(r)
  /\ at[r] = "failed" => since[r] = 0
  /\ read[r] # 0 => read[r] >= since[r]
OpenInv == OpenTypeOK /\ LatestFile /\ \A r \in Readers : ReaderInv(r)
------------------------------------------------------------------------------
LEMMA NameOf ==
  ASSUME NEW n \in Name
  PROVE  /\ n.quoted \in BOOLEAN /\ n.gz \in BOOLEAN
         /\ Quoted(n) = Called(TRUE, n.gz) /\ Unquoted(n) = Called(FALSE, n.gz)
         /\ Quoted(n) \in Name /\ Unquoted(n) \in Name
         /\ n = IF n.quoted THEN Quoted(n) ELSE Unquoted(n)
<1>1. \A m \in Name : m = Called(m.quoted, m.gz) /\ m.quoted \in BOOLEAN /\ m.gz \in BOOLEAN
  BY DEF Called, Name
<1>2. Quoted(n) = Called(TRUE, n.gz) /\ Unquoted(n) = Called(FALSE, n.gz)
  <2>1. Quoted(n) \in Name /\ Unquoted(n) \in Name
    BY DEF Name, Quoted, Unquoted
  <2>2. /\ Quoted(n).quoted = TRUE /\ Quoted(n).gz = n.gz
        /\ Unquoted(n).quoted = FALSE /\ Unquoted(n).gz = n.gz
    BY DEF Name, Quoted, Unquoted
  <2>3. QED
    BY <1>1, <2>1, <2>2
<1>3. Called(TRUE, n.gz) \in Name /\ Called(FALSE, n.gz) \in Name
  BY <1>1 DEF Called, Name
<1>4. QED
  BY <1>1, <1>2, <1>3

LEMMA RankOf ==
  /\ Rank(Called(TRUE, FALSE)) = 4 /\ Rank(Called(TRUE, TRUE)) = 3
  /\ Rank(Called(FALSE, FALSE)) = 2 /\ Rank(Called(FALSE, TRUE)) = 1
BY DEF Rank, Called

LEMMA RankInjective ==
  ASSUME NEW m \in Name, NEW n \in Name, Rank(m) = Rank(n) PROVE m = n
BY DEF Rank, Name

LEMMA FourNames == ASSUME NEW q \in BOOLEAN, NEW gz \in BOOLEAN PROVE Called(q, gz) \in Name
BY DEF Called, Name

LEMMA RestOf == Attempts \in Rest /\ Both(FALSE) \in Rest /\ Len(Both(FALSE)) = 2
                /\ Len(Attempts) = IF spaces THEN 4 ELSE 2
<1> DEFINE a == Called(TRUE, FALSE)   b == Called(TRUE, TRUE)
           c == Called(FALSE, FALSE)  d == Called(FALSE, TRUE)
<1>1. Both(TRUE) = <<a, b>> /\ Both(FALSE) = <<c, d>>
  BY DEF Both, Called
<1>2. Rest = {<<a, b, c, d>>, <<b, c, d>>, <<c, d>>, <<d>>, <<>>}
  BY DEF Rest
<1> HIDE DEF a, b, c, d
<1>3. <<a, b>> \o <<c, d>> = <<a, b, c, d>>
  <2> DEFINE S == {a, b, c, d}
  <2>1. <<a, b>> \in Seq(S) /\ <<c, d>> \in Seq(S) /\ <<a, b, c, d>> \in Seq(S)
    OBVIOUS
  <2>2. /\ Len(<<a, b>>) = 2 /\ Len(<<c, d>>) = 2 /\ Len(<<a, b, c, d>>) = 4
        /\ <<a, b>>[1] = a /\ <<a, b>>[2] = b /\ <<c, d>>[1] = c /\ <<c, d>>[2] = d
    OBVIOUS
  <2> DEFINE ab == <<a, b>>  cd == <<c, d>>  all == <<a, b, c, d>>
  <2>3. all[1] = a /\ all[2] = b /\ all[3] = c /\ all[4] = d
    OBVIOUS
  <2> HIDE DEF S, ab, cd, all
  <2>4. /\ ab \o cd \in Seq(S) /\ Len(ab \o cd) = 4
        /\ \A i \in 1 .. 4 : (ab \o cd)[i] = IF i <= 2 THEN ab[i] ELSE cd[i - 2]
    BY <2>1, <2>2, ConcatProperties DEF ab, cd
  <2>5. \A i \in 1 .. 4 : (ab \o cd)[i] = all[i]
    BY <2>2, <2>3, <2>4 DEF ab, cd
  <2>6. all \in Seq(S) /\ Len(all) = 4
    BY <2>1, <2>2 DEF all
  <2>7. ab \o cd = all
    BY <2>4, <2>5, <2>6, SeqEqual
  <2>8. QED
    BY <2>7 DEF ab, cd, all
<1>4. Len(<<c, d>>) = 2 /\ Len(<<a, b, c, d>>) = 4
  OBVIOUS
<1>5. QED
  BY <1>1, <1>2, <1>3, <1>4 DEF Attempts

(* The first name left has the rank of how many there are.                 *)
LEMMA RestHead ==
  ASSUME NEW s \in Rest
  PROVE  /\ s \in Seq(Name) /\ Len(s) \in 0 .. 4
         /\ s # <<>> => /\ Head(s) \in Name /\ Rank(Head(s)) = Len(s)
                        /\ Tail(s) \in Rest /\ Len(Tail(s)) = Len(s) - 1
<1> DEFINE a == Called(TRUE, FALSE)   b == Called(TRUE, TRUE)
           c == Called(FALSE, FALSE)  d == Called(FALSE, TRUE)
<1>1. /\ a \in Name /\ b \in Name /\ c \in Name /\ d \in Name
      /\ Rank(a) = 4 /\ Rank(b) = 3 /\ Rank(c) = 2 /\ Rank(d) = 1
  BY FourNames, RankOf
<1>2. Rest = {<<a, b, c, d>>, <<b, c, d>>, <<c, d>>, <<d>>, <<>>}
  BY DEF Rest
<1> HIDE DEF a, b, c, d
<1>3. CASE s = <<a, b, c, d>>
  <2>1. Tail(s) = <<b, c, d>> /\ Head(s) = a /\ Len(s) = 4 /\ Len(Tail(s)) = 3
    BY <1>3
  <2>2. QED
    BY <1>1, <1>2, <1>3, <2>1
<1>4. CASE s = <<b, c, d>>
  <2>1. Tail(s) = <<c, d>> /\ Head(s) = b /\ Len(s) = 3 /\ Len(Tail(s)) = 2
    BY <1>4
  <2>2. QED
    BY <1>1, <1>2, <1>4, <2>1
<1>5. CASE s = <<c, d>>
  <2>1. Tail(s) = <<d>> /\ Head(s) = c /\ Len(s) = 2 /\ Len(Tail(s)) = 1
    BY <1>5
  <2>2. QED
    BY <1>1, <1>2, <1>5, <2>1
<1>6. CASE s = <<d>>
  <2>1. Tail(s) = <<>> /\ Head(s) = d /\ Len(s) = 1 /\ Len(Tail(s)) = 0
    BY <1>6
  <2>2. QED
    BY <1>1, <1>2, <1>6, <2>1
<1>7. CASE s = <<>>
  BY <1>7
<1>8. QED
  BY <1>2, <1>3, <1>4, <1>5, <1>6, <1>7
------------------------------------------------------------------------------
(* The file is under one of its two names, which differ in rank.           *)
LEMMA TexNames ==
  ASSUME OpenTypeOK, LatestFile
  PROVE  /\ tex \in {Quoted(tex), Unquoted(tex)}
         /\ Quoted(tex) \in Name /\ Unquoted(tex) \in Name
         /\ Quoted(tex).quoted = TRUE /\ Unquoted(tex).quoted = FALSE
         /\ Quoted(tex) # Unquoted(tex)
         /\ Unquoted(Quoted(tex)) = Unquoted(tex)
         /\ Rank(Quoted(tex)) \in {3, 4} /\ Rank(Unquoted(tex)) \in {1, 2}
         /\ \A n \in Name : disk[n] # 0 => n \in {Quoted(tex), Unquoted(tex)}
<1>1. /\ tex \in Name /\ tex.gz \in BOOLEAN
      /\ Quoted(tex) = Called(TRUE, tex.gz) /\ Unquoted(tex) = Called(FALSE, tex.gz)
      /\ Quoted(tex) \in Name /\ Unquoted(tex) \in Name
      /\ tex = IF tex.quoted THEN Quoted(tex) ELSE Unquoted(tex)
  BY NameOf DEF OpenTypeOK
<1>2. /\ Quoted(tex).quoted = TRUE /\ Unquoted(tex).quoted = FALSE
      /\ Quoted(tex).gz = tex.gz /\ Unquoted(tex).gz = tex.gz
  BY <1>1 DEF Called
<1>3. Unquoted(Quoted(tex)) = Unquoted(tex)
  BY <1>1, <1>2, NameOf
<1>4. Rank(Quoted(tex)) \in {3, 4} /\ Rank(Unquoted(tex)) \in {1, 2}
  BY <1>2 DEF Rank
<1>5. ASSUME NEW n \in Name, disk[n] # 0 PROVE n \in {Quoted(tex), Unquoted(tex)}
  <2>1. n.gz = tex.gz
    BY <1>5 DEF LatestFile
  <2>2. QED
    BY <1>1, <2>1, NameOf
<1>6. QED
  BY <1>1, <1>2, <1>3, <1>4, <1>5

LEMMA OpenInitially == Init => OpenInv
<1> SUFFICES ASSUME Init PROVE OpenInv
  OBVIOUS
<1>1. OpenTypeOK
  BY DEF Init, OpenTypeOK, Name
<1>2. LatestFile
  <2>1. /\ tex = IF tex.quoted THEN Quoted(tex) ELSE Unquoted(tex)
        /\ Quoted(tex) \in Name /\ Unquoted(tex) \in Name
        /\ Quoted(tex) = Called(TRUE, tex.gz) /\ Unquoted(tex) = Called(FALSE, tex.gz)
    BY <1>1, NameOf DEF OpenTypeOK
  <2>2. Quoted(tex) # Unquoted(tex)
    BY <2>1 DEF Called
  <2>3. \A n \in Name : disk[n] = IF n = tex THEN runs ELSE 0
    BY DEF Init
  <2>4. QED
    BY <2>1, <2>2, <2>3 DEF LatestFile
<1>3. \A r \in Readers : ReaderInv(r)
  BY DEF Init, ReaderInv
<1>4. QED
  BY <1>1, <1>2, <1>3 DEF OpenInv
------------------------------------------------------------------------------
(* What is asked of a reader stays true while it does nothing and its file *)
(* gets no older.                                                          *)
LEMMA Undisturbed ==
  ASSUME NEW q \in Readers, ReaderInv(q), tex' = tex,
         at'[q] = at[q], names'[q] = names[q], since'[q] = since[q], read'[q] = read[q],
         Recent(q) => disk'[Unquoted(tex)] >= since[q]
  PROVE  ReaderInv(q)'
<1>1. CanFind(q) => CanFind(q)'
  BY DEF CanFind, Recent, Quoted, Unquoted
<1>2. Recent(q) => Recent(q)'
  BY DEF Recent, Unquoted
<1>3. Quoted(tex)' = Quoted(tex) /\ Unquoted(tex)' = Unquoted(tex)
  BY DEF Quoted, Unquoted
<1>4. QED
  BY <1>1, <1>2, <1>3 DEF ReaderInv

(* A step that touches no file and moves one reader keeps the invariant    *)
(* when it keeps what is asked of that reader.                             *)
LEMMA OneReader ==
  ASSUME OpenInv, NEW r \in Readers, UNCHANGED disk, Kept, OpenTypeOK',
         \A q \in Readers \ {r} : /\ at'[q] = at[q] /\ names'[q] = names[q]
                                  /\ since'[q] = since[q] /\ read'[q] = read[q],
         ReaderInv(r)'
  PROVE  OpenInv'
<1>1. LatestFile'
  BY DEF OpenInv, LatestFile, Kept, Quoted, Unquoted
<1>2. ASSUME NEW q \in Readers PROVE ReaderInv(q)'
  <2>1. CASE q = r
    BY <2>1
  <2>2. CASE q # r
    <3>1. ReaderInv(q) /\ tex' = tex /\ disk' = disk
      BY DEF OpenInv, Kept
    <3>2. Recent(q) => disk'[Unquoted(tex)] >= since[q]
      BY <3>1 DEF Recent
    <3>3. QED
      BY <2>2, <3>1, <3>2, Undisturbed
  <2>3. QED
    BY <2>1, <2>2
<1>3. QED
  BY <1>1, <1>2 DEF OpenInv

(* A file under the quoted name is the latest.                             *)
LEMMA Newest ==
  ASSUME OpenInv, NEW r \in Readers
  PROVE  /\ disk[Quoted(tex)] # 0 => disk[Quoted(tex)] >= since[r]
         /\ disk[Quoted(tex)] = 0 => Recent(r)
BY DEF OpenInv, OpenTypeOK, LatestFile, Recent

LEMMA RunTeXKeeps == OpenInv /\ RunTeX => OpenInv'
<1> SUFFICES ASSUME OpenInv, RunTeX PROVE OpenInv'
  OBVIOUS
<1>1. /\ OpenTypeOK /\ LatestFile /\ tex' = tex /\ runs' = runs + 1 /\ runs \in Nat
      /\ disk \in [Name -> Nat] /\ disk' = [disk EXCEPT ![tex] = runs + 1]
      /\ tex \in Name
  BY DEF OpenInv, OpenTypeOK, RunTeX
<1>2. OpenTypeOK'
  BY <1>1 DEF OpenTypeOK, RunTeX
<1>3. /\ Quoted(tex) \in Name /\ Unquoted(tex) \in Name /\ Quoted(tex) # Unquoted(tex)
      /\ tex = IF tex.quoted THEN Quoted(tex) ELSE Unquoted(tex)
  BY <1>1, TexNames, NameOf
<1>4. \A n \in Name : disk'[n] = IF n = tex THEN runs + 1 ELSE disk[n]
  BY <1>1
<1>5. LatestFile'
  <2>1. \A n \in Name : n.gz # tex.gz => disk'[n] = 0
    BY <1>1, <1>4 DEF LatestFile
  <2>2. CASE tex.quoted
    <3>1. tex = Quoted(tex)
      BY <1>3, <2>2
    <3>2. disk'[Quoted(tex)] = runs + 1
      BY <1>3, <1>4, <3>1
    <3>3. QED
      BY <1>1, <2>1, <2>2, <3>2 DEF LatestFile, Quoted, Unquoted
  <2>3. CASE ~ tex.quoted
    <3>1. tex = Unquoted(tex)
      BY <1>3, <2>3
    <3>2. disk'[Quoted(tex)] = 0 /\ disk'[Unquoted(tex)] = runs + 1
      BY <1>1, <1>3, <1>4, <2>3, <3>1 DEF LatestFile
    <3>3. QED
      BY <1>1, <2>1, <3>2 DEF LatestFile, Quoted, Unquoted
  <2>4. QED
    BY <2>2, <2>3
<1>6. ASSUME NEW q \in Readers PROVE ReaderInv(q)'
  <2>1. disk'[Unquoted(tex)] >= disk[Unquoted(tex)] \/ disk'[Unquoted(tex)] >= since[q]
    BY <1>1, <1>3, <1>4 DEF OpenTypeOK
  <2>2. Recent(q) => disk'[Unquoted(tex)] >= since[q]
    <3>1. /\ disk[Unquoted(tex)] \in Nat /\ disk'[Unquoted(tex)] \in Nat /\ since[q] \in Nat
      BY <1>1, <1>3, <1>4 DEF OpenTypeOK
    <3>2. QED
      BY <2>1, <3>1 DEF Recent
  <2>3. QED
    BY <1>1, <2>2, Undisturbed DEF OpenInv, RunTeX
<1>7. QED
  BY <1>2, <1>5, <1>6 DEF OpenInv

LEMMA BeginKeeps == ASSUME NEW r \in Readers PROVE OpenInv /\ Begin(r) => OpenInv'
<1> SUFFICES ASSUME OpenInv, Begin(r) PROVE OpenInv'
  OBVIOUS
<1>1. Attempts \in Rest /\ Attempts \in Seq(Name) /\ Len(Attempts) = IF spaces THEN 4 ELSE 2
  BY RestOf, RestHead
<1>2. OpenTypeOK'
  BY <1>1 DEF OpenInv, OpenTypeOK, Begin, Kept
<1>3. ReaderInv(r)'
  <2>1. /\ at'[r] = "try" /\ names'[r] = Attempts /\ since'[r] = runs /\ read'[r] = 0
        /\ disk' = disk /\ tex' = tex
    BY DEF Begin, Kept, OpenInv, OpenTypeOK
  <2>2. CASE spaces
    <3>1. Len(Attempts) >= Rank(Quoted(tex))
      BY <1>1, <2>2, TexNames DEF OpenInv
    <3>2. CanFind(r)'
      BY <2>1, <3>1 DEF CanFind, Quoted
    <3>3. QED
      BY <1>1, <2>1, <3>2 DEF ReaderInv
  <2>3. CASE ~ spaces
    <3>1. disk[Unquoted(tex)] = runs /\ runs \in Nat
      BY <2>3 DEF OpenInv, OpenTypeOK, LatestFile
    <3>2. Len(Attempts) >= Rank(Unquoted(tex))
      BY <1>1, <2>3, TexNames DEF OpenInv
    <3>3. Recent(r)'
      BY <2>1, <3>1 DEF Recent, Unquoted
    <3>4. Unquoted(tex)' = Unquoted(tex)
      BY <2>1 DEF Unquoted
    <3>5. CanFind(r)'
      BY <2>1, <3>2, <3>3, <3>4 DEF CanFind
    <3>6. QED
      BY <1>1, <2>1, <3>5 DEF ReaderInv
  <2>4. QED
    BY <2>2, <2>3
<1>4. UNCHANGED disk /\ Kept
  BY DEF Begin
<1>5. \A q \in Readers \ {r} : /\ at'[q] = at[q] /\ names'[q] = names[q]
                               /\ since'[q] = since[q] /\ read'[q] = read[q]
  BY DEF Begin, OpenInv, OpenTypeOK
<1>6. QED
  BY <1>2, <1>3, <1>4, <1>5, OneReader

(* A name that is absent was not the one, or its file was renamed, and     *)
(* then it is under the name without quotes, still to come.                *)
LEMMA AbsentKeeps == ASSUME NEW r \in Readers PROVE OpenInv /\ Absent(r) => OpenInv'
<1> SUFFICES ASSUME OpenInv, Absent(r) PROVE OpenInv'
  OBVIOUS
<1> DEFINE h == Head(names[r])  t == Tail(names[r])
<1>1. /\ OpenTypeOK /\ LatestFile /\ ReaderInv(r)
      /\ at[r] = "try" /\ names[r] # <<>> /\ disk[h] = 0
      /\ names[r] \in Rest /\ CanFind(r)
  BY DEF OpenInv, Absent, ReaderInv
<1>2. /\ h \in Name /\ Rank(h) = Len(names[r]) /\ t \in Rest
      /\ Len(t) = Len(names[r]) - 1 /\ t \in Seq(Name) /\ Len(names[r]) \in 0 .. 4
  <2>1. /\ h \in Name /\ Rank(h) = Len(names[r]) /\ t \in Rest
        /\ Len(t) = Len(names[r]) - 1 /\ Len(names[r]) \in 0 .. 4
    BY <1>1, RestHead
  <2>2. QED
    BY <2>1, RestHead
<1>3. OpenTypeOK'
  BY <1>1, <1>2 DEF OpenTypeOK, Absent, Kept
<1>4. /\ at'[r] = "try" /\ names'[r] = t /\ since'[r] = since[r] /\ read'[r] = read[r]
      /\ disk' = disk /\ tex' = tex
  BY <1>1 DEF Absent, Kept, OpenTypeOK
<1>5. since[r] > 0 => \/ Len(t) >= Rank(Quoted(tex))
                      \/ Len(t) >= Rank(Unquoted(tex)) /\ Recent(r)
  <2> SUFFICES ASSUME since[r] > 0
               PROVE  \/ Len(t) >= Rank(Quoted(tex))
                      \/ Len(t) >= Rank(Unquoted(tex)) /\ Recent(r)
    OBVIOUS
  <2>1. /\ Rank(Quoted(tex)) \in {3, 4} /\ Rank(Unquoted(tex)) \in {1, 2}
        /\ Quoted(tex) \in Name /\ Unquoted(tex) \in Name
    BY <1>1, TexNames
  <2>2. CASE Len(names[r]) >= Rank(Quoted(tex))
    <3>1. CASE Len(names[r]) = Rank(Quoted(tex))
      <4>1. h = Quoted(tex)
        BY <1>2, <2>1, <3>1, RankInjective
      <4>2. Recent(r)
        BY <1>1, <4>1, Newest
      <4>3. Len(t) >= Rank(Unquoted(tex))
        BY <1>2, <2>1, <3>1
      <4>4. QED
        BY <4>2, <4>3
    <3>2. CASE Len(names[r]) # Rank(Quoted(tex))
      BY <1>2, <2>1, <2>2, <3>2
    <3>3. QED
      BY <3>1, <3>2
  <2>3. CASE Len(names[r]) >= Rank(Unquoted(tex)) /\ Recent(r)
    <3>1. Len(names[r]) # Rank(Unquoted(tex))
      <4>1. SUFFICES ASSUME Len(names[r]) = Rank(Unquoted(tex)) PROVE FALSE
        OBVIOUS
      <4>2. h = Unquoted(tex)
        BY <1>2, <2>1, <4>1, RankInjective
      <4>3. disk[h] >= since[r] /\ since[r] \in Nat
        BY <1>1, <2>3, <4>2 DEF Recent, OpenTypeOK
      <4>4. QED
        BY <1>1, <4>3
    <3>2. QED
      BY <1>2, <2>1, <2>3, <3>1
  <2>4. QED
    BY <1>1, <2>2, <2>3 DEF CanFind
<1>6. CanFind(r)'
  <2>1. Quoted(tex)' = Quoted(tex) /\ Unquoted(tex)' = Unquoted(tex)
    BY <1>4 DEF Quoted, Unquoted
  <2>2. Recent(r) => Recent(r)'
    BY <1>4 DEF Recent, Unquoted
  <2>3. QED
    BY <1>4, <1>5, <2>1, <2>2 DEF CanFind
<1>7. ReaderInv(r)'
  BY <1>1, <1>2, <1>4, <1>6 DEF ReaderInv
<1>8. UNCHANGED disk /\ Kept
  BY DEF Absent
<1>9. \A q \in Readers \ {r} : /\ at'[q] = at[q] /\ names'[q] = names[q]
                               /\ since'[q] = since[q] /\ read'[q] = read[q]
  BY <1>1 DEF Absent, OpenTypeOK
<1>10. QED
  BY <1>3, <1>7, <1>8, <1>9, OneReader

LEMMA FoundKeeps == ASSUME NEW r \in Readers PROVE OpenInv /\ Found(r) => OpenInv'
<1> SUFFICES ASSUME OpenInv, Found(r) PROVE OpenInv'
  OBVIOUS
<1> DEFINE h == Head(names[r])
<1>1. /\ OpenTypeOK /\ LatestFile /\ ReaderInv(r)
      /\ at[r] = "try" /\ names[r] # <<>> /\ disk[h] # 0
      /\ names[r] \in Rest /\ CanFind(r)
  BY DEF OpenInv, Found, ReaderInv
<1>2. h \in Name /\ Rank(h) = Len(names[r]) /\ Len(names[r]) \in 0 .. 4
  BY <1>1, RestHead
<1>3. h \in {Quoted(tex), Unquoted(tex)}
  BY <1>1, <1>2, TexNames
<1>4. UNCHANGED disk /\ Kept /\ UNCHANGED <<names, since>>
  BY DEF Found
<1>5. CASE h.quoted
  <2>1. at' = [at EXCEPT ![r] = "rename"] /\ read' = read
    BY <1>5 DEF Found
  <2>2. OpenTypeOK'
    BY <1>1, <1>4, <2>1 DEF OpenTypeOK, Kept
  <2>3. h = Quoted(tex)
    BY <1>1, <1>3, <1>5, TexNames
  <2>4. ReaderInv(r)'
    <3>1. at'[r] = "rename" /\ names'[r] = names[r] /\ Quoted(tex)' = Quoted(tex)
      BY <1>1, <1>4, <2>1 DEF OpenTypeOK, Kept, Quoted
    <3>2. read'[r] = read[r] /\ since'[r] = since[r]
      BY <1>4, <2>1
    <3>3. QED
      BY <1>1, <2>3, <3>1, <3>2 DEF ReaderInv
  <2>5. \A q \in Readers \ {r} : /\ at'[q] = at[q] /\ names'[q] = names[q]
                                 /\ since'[q] = since[q] /\ read'[q] = read[q]
    BY <1>1, <1>4, <2>1 DEF OpenTypeOK
  <2>6. QED
    BY <1>4, <2>2, <2>4, <2>5, OneReader
<1>6. CASE ~ h.quoted
  <2>1. at' = [at EXCEPT ![r] = "idle"] /\ read' = [read EXCEPT ![r] = disk[h]]
    BY <1>6 DEF Found
  <2>2. OpenTypeOK'
    BY <1>1, <1>2, <1>4, <2>1 DEF OpenTypeOK, Kept
  <2>3. h = Unquoted(tex)
    BY <1>1, <1>3, <1>6, TexNames
  <2>4. disk[h] >= since[r]
    <3>1. CASE since[r] > 0
      <4>1. Len(names[r]) = Rank(Unquoted(tex))
        BY <1>2, <2>3
      <4>2. Rank(Quoted(tex)) \in {3, 4} /\ Rank(Unquoted(tex)) \in {1, 2}
        BY <1>1, TexNames
      <4>3. Recent(r)
        BY <1>1, <3>1, <4>1, <4>2 DEF CanFind
      <4>4. QED
        BY <2>3, <4>3 DEF Recent
    <3>2. CASE ~ since[r] > 0
      BY <1>1, <1>2, <3>2 DEF OpenTypeOK
    <3>3. QED
      BY <3>1, <3>2
  <2>5. ReaderInv(r)'
    <3>1. at'[r] = "idle" /\ read'[r] = disk[h] /\ since'[r] = since[r]
      BY <1>1, <1>4, <2>1 DEF OpenTypeOK
    <3>2. QED
      BY <2>4, <3>1 DEF ReaderInv
  <2>6. \A q \in Readers \ {r} : /\ at'[q] = at[q] /\ names'[q] = names[q]
                                 /\ since'[q] = since[q] /\ read'[q] = read[q]
    BY <1>1, <1>4, <2>1 DEF OpenTypeOK
  <2>7. QED
    BY <1>4, <2>2, <2>5, <2>6, OneReader
<1>7. QED
  BY <1>5, <1>6

(* With no name left the file was never there.                             *)
LEMMA NoFileKeeps == ASSUME NEW r \in Readers PROVE OpenInv /\ NoFile(r) => OpenInv'
<1> SUFFICES ASSUME OpenInv, NoFile(r) PROVE OpenInv'
  OBVIOUS
<1>1. /\ OpenTypeOK /\ LatestFile /\ ReaderInv(r) /\ CanFind(r) /\ names[r] = <<>>
      /\ at[r] = "try"
  BY DEF OpenInv, NoFile, ReaderInv
<1>2. UNCHANGED disk /\ Kept /\ UNCHANGED <<names, since, read>>
      /\ at' = [at EXCEPT ![r] = "failed"]
  BY DEF NoFile
<1>3. OpenTypeOK'
  BY <1>1, <1>2 DEF OpenTypeOK, Kept
<1>4. since[r] = 0
  <2>1. Rank(Quoted(tex)) \in {3, 4} /\ Rank(Unquoted(tex)) \in {1, 2} /\ Len(names[r]) = 0
    BY <1>1, TexNames
  <2>2. since[r] \in Nat
    BY <1>1 DEF OpenTypeOK
  <2>3. QED
    BY <1>1, <2>1, <2>2 DEF CanFind
<1>5. ReaderInv(r)'
  BY <1>1, <1>2, <1>4 DEF ReaderInv, OpenTypeOK
<1>6. \A q \in Readers \ {r} : /\ at'[q] = at[q] /\ names'[q] = names[q]
                               /\ since'[q] = since[q] /\ read'[q] = read[q]
  BY <1>1, <1>2 DEF OpenTypeOK
<1>7. QED
  BY <1>2, <1>3, <1>5, <1>6, OneReader

(* Renaming puts the latest file in the place of whatever was there.       *)
LEMMA RenameKeeps == ASSUME NEW r \in Readers PROVE OpenInv /\ Rename(r) => OpenInv'
<1> SUFFICES ASSUME OpenInv, Rename(r) PROVE OpenInv'
  OBVIOUS
<1> DEFINE Q == Quoted(tex)  P == Unquoted(tex)
<1>1. /\ OpenTypeOK /\ LatestFile /\ ReaderInv(r) /\ at[r] = "rename"
      /\ names[r] # <<>> /\ Head(names[r]) = Q /\ disk[Q] # 0
  BY DEF OpenInv, Rename, ReaderInv
<1>2. /\ Q \in Name /\ P \in Name /\ Q # P /\ Unquoted(Q) = P
      /\ Q.gz = tex.gz /\ P.gz = tex.gz
  BY <1>1, TexNames DEF Quoted, Unquoted, OpenTypeOK, Name
<1>3. /\ disk' = [disk EXCEPT ![Q] = 0, ![P] = disk[Q]]
      /\ names' = [names EXCEPT ![r][1] = P]
      /\ at' = [at EXCEPT ![r] = "reopen"]
      /\ UNCHANGED <<since, read>> /\ Kept
  BY <1>1, <1>2 DEF Rename
<1>4. disk \in [Name -> Nat] /\ disk[Q] = runs /\ runs \in Nat
  BY <1>1, <1>2 DEF OpenTypeOK, LatestFile
<1>5. disk'[Q] = 0 /\ disk'[P] = runs /\ \A n \in Name : n \notin {Q, P} => disk'[n] = disk[n]
  BY <1>2, <1>3, <1>4
<1>6. names[r] \in Seq(Name) /\ 1 \in 1 .. Len(names[r])
  BY <1>1 DEF OpenTypeOK
<1>7. names'[r] = [names[r] EXCEPT ![1] = P]
  BY <1>3, <1>1 DEF OpenTypeOK
<1>8. /\ names'[r] \in Seq(Name) /\ Len(names'[r]) = Len(names[r]) /\ names'[r][1] = P
  BY <1>2, <1>6, <1>7, ExceptSeq
<1>9. names'[r] # <<>> /\ Head(names'[r]) = P
  BY <1>6, <1>8
<1>10. OpenTypeOK'
  <2>1. names' \in [Readers -> Seq(Name)]
    BY <1>1, <1>3, <1>7, <1>8 DEF OpenTypeOK
  <2>2. disk' \in [Name -> Nat]
    BY <1>2, <1>3, <1>4
  <2>3. QED
    BY <1>1, <1>3, <2>1, <2>2 DEF OpenTypeOK, Kept
<1>11. LatestFile'
  <2>1. Quoted(tex)' = Q /\ Unquoted(tex)' = P /\ tex' = tex /\ runs' = runs
    BY <1>3 DEF Kept, Quoted, Unquoted
  <2>2. \A n \in Name : n.gz # tex.gz => disk'[n] = 0
    BY <1>1, <1>2, <1>5 DEF LatestFile
  <2>3. QED
    BY <1>5, <2>1, <2>2 DEF LatestFile
<1>12. \A q \in Readers : disk'[P] >= since[q]
  BY <1>1, <1>5 DEF OpenTypeOK
<1>13. ASSUME NEW q \in Readers PROVE ReaderInv(q)'
  <2>1. CASE q = r
    <3>1. /\ at'[r] = "reopen" /\ since'[r] = since[r] /\ read'[r] = read[r]
          /\ Unquoted(tex)' = P
      BY <1>1, <1>3 DEF OpenTypeOK, Kept, Unquoted
    <3>2. Recent(r)'
      BY <1>12, <3>1 DEF Recent
    <3>3. QED
      BY <1>1, <1>9, <2>1, <3>1, <3>2 DEF ReaderInv
  <2>2. CASE q # r
    <3>1. /\ at'[q] = at[q] /\ names'[q] = names[q] /\ since'[q] = since[q]
          /\ read'[q] = read[q] /\ tex' = tex
      BY <1>1, <1>3, <2>2 DEF OpenTypeOK, Kept
    <3>2. QED
      BY <1>12, <3>1, Undisturbed DEF OpenInv
  <2>3. QED
    BY <2>1, <2>2
<1>14. QED
  BY <1>10, <1>11, <1>13 DEF OpenInv

LEMMA CannotRenameKeeps ==
  ASSUME NEW r \in Readers PROVE OpenInv /\ CannotRename(r) => OpenInv'
<1> SUFFICES ASSUME OpenInv, CannotRename(r) PROVE OpenInv'
  OBVIOUS
<1>1. /\ OpenTypeOK /\ ReaderInv(r) /\ at[r] = "rename"
      /\ names[r] # <<>> /\ Head(names[r]) = Quoted(tex)
  BY DEF OpenInv, CannotRename, ReaderInv
<1>2. /\ UNCHANGED disk /\ Kept /\ UNCHANGED <<names, since, read>>
      /\ at' = [at EXCEPT ![r] = "reopen"]
  BY DEF CannotRename
<1>3. OpenTypeOK'
  BY <1>1, <1>2 DEF OpenTypeOK, Kept
<1>4. ReaderInv(r)'
  <2>1. Quoted(tex)' = Quoted(tex) /\ at'[r] = "reopen"
    BY <1>1, <1>2 DEF Kept, Quoted, OpenTypeOK
  <2>2. QED
    BY <1>1, <1>2, <2>1 DEF ReaderInv
<1>5. \A q \in Readers \ {r} : /\ at'[q] = at[q] /\ names'[q] = names[q]
                               /\ since'[q] = since[q] /\ read'[q] = read[q]
  BY <1>1, <1>2 DEF OpenTypeOK
<1>6. QED
  BY <1>2, <1>3, <1>4, <1>5, OneReader

(* A file that was renamed by another reader is looked for under the names *)
(* without quotes.                                                         *)
LEMMA ReopenKeeps == ASSUME NEW r \in Readers PROVE OpenInv /\ Reopen(r) => OpenInv'
<1> SUFFICES ASSUME OpenInv, Reopen(r) PROVE OpenInv'
  OBVIOUS
<1> DEFINE h == Head(names[r])
<1>1. /\ OpenTypeOK /\ LatestFile /\ ReaderInv(r) /\ at[r] = "reopen" /\ names[r] # <<>>
      /\ h = Quoted(tex) \/ (h = Unquoted(tex) /\ Recent(r))
      /\ Quoted(tex) \in Name /\ Unquoted(tex) \in Name
  BY TexNames DEF OpenInv, Reopen, ReaderInv
<1>2. UNCHANGED disk /\ Kept /\ UNCHANGED since
  BY DEF Reopen
<1>3. disk[h] \in Nat /\ since[r] \in Nat /\ disk[Unquoted(tex)] \in Nat
  BY <1>1 DEF OpenTypeOK
<1>4. CASE disk[h] = 0
  <2>1. /\ at' = [at EXCEPT ![r] = "try"] /\ names' = [names EXCEPT ![r] = Both(FALSE)]
        /\ read' = read
    BY <1>4 DEF Reopen
  <2>2. /\ Both(FALSE) \in Rest /\ Both(FALSE) \in Seq(Name) /\ Len(Both(FALSE)) = 2
        /\ Rank(Unquoted(tex)) \in {1, 2}
    BY <1>1, RestOf, RestHead, TexNames
  <2>3. OpenTypeOK'
    BY <1>1, <1>2, <2>1, <2>2 DEF OpenTypeOK, Kept
  <2>4. Recent(r)
    BY <1>1, <1>4, Newest
  <2>5. ReaderInv(r)'
    <3>1. /\ at'[r] = "try" /\ names'[r] = Both(FALSE) /\ since'[r] = since[r]
          /\ read'[r] = read[r] /\ Unquoted(tex)' = Unquoted(tex)
      BY <1>1, <1>2, <2>1 DEF OpenTypeOK, Kept, Unquoted
    <3>2. Recent(r)'
      BY <1>2, <2>4, <3>1 DEF Recent
    <3>3. Len(names'[r]) >= Rank(Unquoted(tex))
      <4>1. Len(names'[r]) = 2
        BY <2>2, <3>1
      <4>2. QED
        BY <2>2, <4>1
    <3>4. CanFind(r)'
      BY <3>1, <3>2, <3>3 DEF CanFind
    <3>5. QED
      BY <1>1, <2>2, <3>1, <3>4 DEF ReaderInv
  <2>6. \A q \in Readers \ {r} : /\ at'[q] = at[q] /\ names'[q] = names[q]
                                 /\ since'[q] = since[q] /\ read'[q] = read[q]
    BY <1>1, <1>2, <2>1 DEF OpenTypeOK
  <2>7. QED
    BY <1>2, <2>3, <2>5, <2>6, OneReader
<1>5. CASE disk[h] # 0
  <2>1. /\ at' = [at EXCEPT ![r] = "idle"] /\ names' = names
        /\ read' = [read EXCEPT ![r] = disk[h]]
    BY <1>5 DEF Reopen
  <2>2. OpenTypeOK'
    BY <1>1, <1>2, <1>3, <2>1 DEF OpenTypeOK, Kept
  <2>3. disk[h] >= since[r]
    BY <1>1, <1>5, Newest DEF Recent
  <2>4. ReaderInv(r)'
    <3>1. at'[r] = "idle" /\ read'[r] = disk[h] /\ since'[r] = since[r]
      BY <1>1, <1>2, <2>1 DEF OpenTypeOK
    <3>2. QED
      BY <2>3, <3>1 DEF ReaderInv
  <2>5. \A q \in Readers \ {r} : /\ at'[q] = at[q] /\ names'[q] = names[q]
                                 /\ since'[q] = since[q] /\ read'[q] = read[q]
    BY <1>1, <1>2, <2>1 DEF OpenTypeOK
  <2>6. QED
    BY <1>2, <2>2, <2>4, <2>5, OneReader
<1>6. QED
  BY <1>4, <1>5

LEMMA OpenStutter == OpenInv /\ UNCHANGED vars => OpenInv'
<1> SUFFICES ASSUME OpenInv, UNCHANGED vars PROVE OpenInv'
  OBVIOUS
<1>1. OpenTypeOK'
  BY DEF OpenInv, OpenTypeOK, vars
<1>2. LatestFile'
  BY DEF OpenInv, LatestFile, vars, Quoted, Unquoted
<1>3. ASSUME NEW q \in Readers PROVE ReaderInv(q)'
  BY Undisturbed DEF OpenInv, vars, Recent
<1>4. QED
  BY <1>1, <1>2, <1>3 DEF OpenInv

(* Whatever TeX and any number of readers do, a reader fails only when     *)
(* there was no file as it began, and what it opens is no older than what  *)
(* was there then (__synctex_open_v2, its attempts and its renaming).      *)
THEOREM Latest == Spec => []LatestRead
<1>1. OpenInv /\ [Next]_vars => OpenInv'
  <2> SUFFICES ASSUME OpenInv, [Next]_vars PROVE OpenInv'
    OBVIOUS
  <2>1. CASE RunTeX
    BY <2>1, RunTeXKeeps
  <2>2. ASSUME NEW r \in Readers,
               \/ Begin(r) \/ Absent(r) \/ Found(r) \/ NoFile(r)
               \/ Rename(r) \/ CannotRename(r) \/ Reopen(r)
        PROVE  OpenInv'
    BY <2>2, BeginKeeps, AbsentKeeps, FoundKeeps, NoFileKeeps, RenameKeeps,
       CannotRenameKeeps, ReopenKeeps
  <2>3. CASE UNCHANGED vars
    BY <2>3, OpenStutter
  <2>4. QED
    BY <2>1, <2>2, <2>3 DEF Next
<1>2. OpenInv => LatestRead
  BY DEF OpenInv, ReaderInv, LatestRead
<1>3. QED
  BY OpenInitially, <1>1, <1>2, PTL DEF Spec
------------------------------------------------------------------------------
(***************************************************************************)
(* The texts of queries and answers (PdfInfoText).                         *)
(***************************************************************************)
(* Characters, those of them that an escaped text has, and texts.          *)
WChar == Characters \cup {NL, Colon, Back, Dot, "n", "OK", "ERR",
                          "message", "0", "1", "2", "-1", " ", "a", "file", "ping",
                          "open", "features", "gettext", "charlayout",
                          "getattachments", "setoptions"}
Plain == WChar \ {NL}
WText == Seq(WChar)
Body(q) == Joined([i \in DOMAIN q |-> Escape(q[i])])

LEMMA FlattenSteps ==
  ASSUME NEW X, NEW ss \in Seq(Seq(X))
  PROVE  \E f \in [0 .. Len(ss) -> Seq(X)] :
           /\ f[0] = <<>> /\ \A n \in 1 .. Len(ss) : f[n] = f[n - 1] \o ss[n]
           /\ FlattenSeq(ss) = f[Len(ss)]
<1> DEFINE N == Len(ss)
           G == [y \in Seq(X) \X (1 .. N) |-> y[1] \o ss[y[2]]]
           P(f) == f = [i \in 1 .. N |-> IF i = 1 THEN ss[i] ELSE f[i - 1] \o ss[i]]
           flatten == CHOOSE f : P(f)
<1>1. N \in Nat /\ <<>> \in Seq(X) /\ \A n \in 1 .. N : ss[n] \in Seq(X)
  OBVIOUS
<1>2. G \in [Seq(X) \X (1 .. N) -> Seq(X)]
  <2> HIDE DEF N
  <2>1. QED
    BY <1>1
<1>3. PICK f \in [0 .. N -> Seq(X)] : Computes(f, N, <<>>, G)
  <2> HIDE DEF G, N
  <2>1. QED
    BY <1>1, <1>2, Recursion
<1>4. ASSUME NEW n \in 1 .. N PROVE f[n] = f[n - 1] \o ss[n]
  <2>1. n - 1 \in 0 .. N
    BY <1>1
  <2>2. f[n - 1] \in Seq(X) /\ f[n] = G[<<f[n - 1], n>>]
    BY <1>3, <2>1 DEF Computes
  <2> HIDE DEF N
  <2>3. QED
    BY <2>2
<1>5. f[0] = <<>>
  BY <1>3 DEF Computes
<1>6. CASE N = 0
  <2>1. FlattenSeq(ss) = ss /\ ss = <<>>
    BY <1>6 DEF FlattenSeq
  <2>2. QED
    BY <1>4, <1>5, <1>6, <2>1
<1>7. CASE N # 0
  <2> DEFINE g == [i \in 1 .. N |-> f[i]]
  <2>1. P(g)
    <3>1. ASSUME NEW i \in 1 .. N
          PROVE  g[i] = IF i = 1 THEN ss[i] ELSE g[i - 1] \o ss[i]
      <4>1. CASE i = 1
        <5>0. 1 \in 1 .. N /\ 1 - 1 = 0
          BY <4>1
        <5>1. f[1] = <<>> \o ss[1]
          <6> HIDE DEF N
          <6>1. QED
            BY <1>4, <1>5, <5>0
        <5>2. <<>> \o ss[1] = ss[1]
          BY <1>1, <4>1
        <5>3. QED
          BY <4>1, <5>1, <5>2
      <4>2. CASE i # 1
        <5>1. i - 1 \in 1 .. N
          BY <1>1, <4>2
        <5> HIDE DEF N
        <5>2. QED
          BY <1>4, <4>2, <5>1
      <4>3. QED
        BY <4>1, <4>2
    <3> HIDE DEF N
    <3>2. QED
      BY <3>1
  <2>2. P(flatten)
    <3> HIDE DEF P, g
    <3>1. QED
      BY <2>1
  <2>3. \A n \in 1 .. N : flatten[n] = IF n = 1 THEN ss[n] ELSE flatten[n - 1] \o ss[n]
    <3>1. ASSUME NEW h, P(h)
          PROVE  \A n \in 1 .. N : h[n] = IF n = 1 THEN ss[n] ELSE h[n - 1] \o ss[n]
      <4> HIDE DEF N
      <4>1. QED
        BY <3>1
    <3> HIDE DEF P, flatten
    <3>2. QED
      BY <2>2, <3>1
  <2>4. FlattenSeq(ss) = flatten[N]
    BY <1>7 DEF FlattenSeq
  <2> HIDE DEF flatten, P, G, g
  <2> DEFINE T == {n \in 0 .. N : n = 0 \/ flatten[n] = f[n]}
  <2>5. ASSUME NEW n \in 0 .. N, n < N, n \in T PROVE n + 1 \in T
    <3>1. n + 1 \in 1 .. N /\ n + 1 \in 0 .. N /\ (n + 1) - 1 = n /\ (n + 1 = 1 <=> n = 0)
      BY <1>1, <2>5
    <3>2. f[n + 1] = f[n] \o ss[n + 1]
      BY <1>4, <3>1
    <3>3. CASE n = 0
      <4>1. <<>> \o ss[1] = ss[1]
        BY <1>1, <3>1, <3>3
      <4>2. flatten[1] = ss[1]
        BY <2>3, <3>1, <3>3
      <4>3. QED
        BY <1>5, <3>1, <3>2, <3>3, <4>1, <4>2
    <3>4. CASE n # 0
      <4>1. flatten[n + 1] = flatten[n] \o ss[n + 1]
        BY <2>3, <3>1, <3>4
      <4>2. QED
        BY <2>5, <3>1, <3>2, <3>4, <4>1
    <3>5. QED
      BY <3>3, <3>4
  <2>6. N \in T
    <3>1. 0 \in T
      BY <1>1
    <3> HIDE DEF T, N
    <3>2. 0 .. N \subseteq T
      BY <1>1, <2>5, <3>1, Induction
    <3>3. QED
      BY <1>1, <3>2
  <2>7. QED
    BY <1>4, <1>5, <1>7, <2>4, <2>6
<1>8. QED
  BY <1>6, <1>7
------------------------------------------------------------------------------
LEMMA Flattened ==
  ASSUME NEW X, NEW ss \in Seq(Seq(X)) PROVE FlattenSeq(ss) \in Seq(X)
<1>1. PICK f \in [0 .. Len(ss) -> Seq(X)] : FlattenSeq(ss) = f[Len(ss)]
  BY FlattenSteps
<1>2. Len(ss) \in 0 .. Len(ss)
  OBVIOUS
<1>3. QED
  BY <1>1, <1>2

LEMMA EscapedChar ==
  ASSUME NEW c \in WChar PROVE EscapeChar(c) \in Seq(Plain)
<1>1. Back \in Plain /\ Colon \in Plain /\ "n" \in Plain
  BY DEF Plain, WChar, Back, Colon, NL
<1>2. CASE c = NL
  <2>1. EscapeChar(c) = <<Back, "n">>
    BY <1>2 DEF EscapeChar, NL, Back, Colon
  <2>2. QED
    BY <1>1, <2>1
<1>3. CASE c # NL
  <2>1. c \in Plain
    BY <1>3 DEF Plain
  <2>2. EscapeChar(c) = IF c \in {Back, Colon} THEN <<Back, c>> ELSE <<c>>
    BY <1>3 DEF EscapeChar
  <2>3. QED
    BY <1>1, <2>1, <2>2
<1>4. QED
  BY <1>2, <1>3

LEMMA EscapedText ==
  ASSUME NEW text \in WText PROVE Escape(text) \in Seq(Plain)
<1> DEFINE ss == [i \in DOMAIN text |-> EscapeChar(text[i])]
<1>1. ss \in Seq(Seq(Plain))
  <2>1. ASSUME NEW i \in 1 .. Len(text) PROVE EscapeChar(text[i]) \in Seq(Plain)
    BY EscapedChar DEF WText
  <2>2. DOMAIN text = 1 .. Len(text) /\ Len(text) \in Nat
    BY DEF WText
  <2>3. QED
    BY <2>1, <2>2
<1> HIDE DEF ss
<1>2. FlattenSeq(ss) \in Seq(Plain)
  BY <1>1, Flattened
<1>3. QED
  BY <1>2 DEF ss, Escape

LEMMA BodyPlain ==
  ASSUME NEW q \in Seq(WText) PROVE Body(q) \in Seq(Plain)
<1> DEFINE es == [i \in DOMAIN q |-> Escape(q[i])]
           ss == [i \in DOMAIN es |-> IF i = 1 THEN es[i] ELSE <<Colon>> \o es[i]]
<1>1. DOMAIN q = 1 .. Len(q) /\ Len(q) \in Nat /\ Colon \in Plain
  BY DEF Plain, WChar, Colon, NL
<1>2. ASSUME NEW i \in 1 .. Len(q)
      PROVE  es[i] \in Seq(Plain) /\ <<Colon>> \o es[i] \in Seq(Plain)
  <2>1. Escape(q[i]) \in Seq(Plain)
    BY EscapedText
  <2>2. QED
    BY <1>1, <2>1
<1>3. ss \in Seq(Seq(Plain))
  BY <1>1, <1>2
<1> HIDE DEF ss
<1>4. FlattenSeq(ss) \in Seq(Plain)
  BY <1>3, Flattened
<1>5. QED
  BY <1>4 DEF ss, Body, Joined
------------------------------------------------------------------------------
LEMMA WireChars == /\ {Colon, Back, NL, Dot, "n"} \subseteq WChar
               /\ <<>> \in WText
BY DEF WChar, WText

LEMMA PlainTexts == Seq(Plain) \subseteq WText
BY DEF Plain, WText

(* A reader for which P[t] is the state in which t has been read of a      *)
(* field takes an escaped text for the text.                               *)
Takes(D, S, P) ==
  \A t \in WText, c \in WChar : Leads(D, S, P[t], EscapeChar(c), P[Append(t, c)])

LEMMA EscapeLeads ==
  ASSUME NEW S, NEW D \in [S \X WChar -> S], NEW P \in [WText -> S], Takes(D, S, P),
         NEW text \in WText
  PROVE  Leads(D, S, P[<<>>], Escape(text), P[text])
<1> DEFINE N == Len(text)
           ss == [i \in DOMAIN text |-> EscapeChar(text[i])]
<1>1. N \in Nat /\ DOMAIN text = 1 .. N /\ \A i \in 1 .. N : text[i] \in WChar
  BY DEF WText
<1> HIDE DEF N
<1>2. ASSUME NEW i \in 1 .. N PROVE EscapeChar(text[i]) \in WText
  BY <1>1, PlainTexts, EscapedChar
<1>3. ss \in Seq(Seq(WChar)) /\ Len(ss) = N /\ \A i \in 1 .. N : ss[i] = EscapeChar(text[i])
  BY <1>1, <1>2 DEF WText
<1> HIDE DEF ss
<1>4. PICK f \in [0 .. N -> Seq(WChar)] :
        /\ f[0] = <<>> /\ \A n \in 1 .. N : f[n] = f[n - 1] \o ss[n]
        /\ FlattenSeq(ss) = f[N]
  BY <1>3, FlattenSteps
<1> DEFINE T == {n \in 0 .. N : Leads(D, S, P[<<>>], f[n], P[SubSeq(text, 1, n)])}
<1>5. 0 \in T
  <2>1. SubSeq(text, 1, 0) = <<>>
    BY DEF WText
  <2>2. P[<<>>] \in S
    BY WireChars
  <2>3. Leads(D, S, P[<<>>], <<>>, P[<<>>])
    BY <2>2, LeadsNone
  <2>4. Leads(D, S, P[<<>>], f[0], P[SubSeq(text, 1, 0)])
    BY <1>4, <2>1, <2>3
  <2>5. QED
    BY <1>1, <2>4
<1>6. ASSUME NEW n \in 0 .. N, n < N, n \in T PROVE n + 1 \in T
  <2> DEFINE t == SubSeq(text, 1, n)
             c == text[n + 1]
  <2>1. n + 1 \in 1 .. N /\ (n + 1) - 1 = n
    BY <1>1, <1>6
  <2>2. t \in WText /\ c \in WChar
    BY <1>1, <2>1 DEF WText
  <2>3. SubSeq(text, 1, n + 1) = Append(t, c)
    BY <1>1, <2>1 DEF WText, N
  <2>4. f[n + 1] = f[n] \o EscapeChar(c)
    BY <1>3, <1>4, <2>1
  <2>5. f[n] \in Seq(WChar) /\ EscapeChar(c) \in Seq(WChar)
    BY <1>2, <1>4, <2>1 DEF WText
  <2>6. Leads(D, S, P[t], EscapeChar(c), P[Append(t, c)])
    BY <2>2 DEF Takes
  <2>7. Leads(D, S, P[<<>>], f[n], P[t])
    BY <1>6
  <2> HIDE DEF t, c
  <2>8. Leads(D, S, P[<<>>], f[n] \o EscapeChar(c), P[Append(t, c)])
    BY <2>5, <2>6, <2>7, LeadsOn
  <2>9. Leads(D, S, P[<<>>], f[n + 1], P[SubSeq(text, 1, n + 1)])
    BY <2>3, <2>4, <2>8
  <2>10. n + 1 \in 0 .. N
    BY <1>1, <2>1
  <2>11. QED
    BY <2>9, <2>10
<1>7. N \in T
  <2> HIDE DEF T
  <2>1. 0 .. N \subseteq T
    BY <1>1, <1>5, <1>6, Induction
  <2>2. QED
    BY <1>1, <2>1
<1>8. SubSeq(text, 1, N) = text
  BY DEF WText, N
<1>9. QED
  BY <1>4, <1>7, <1>8 DEF ss, Escape

(* The same of a line: P[i] is for its i-th field.                         *)
LEMMA BodyLeads ==
  ASSUME NEW S, NEW D \in [S \X WChar -> S], NEW q \in Seq(WText), q # <<>>,
         NEW P \in [1 .. Len(q) -> [WText -> S]],
         \A i \in 1 .. Len(q) : Takes(D, S, P[i]),
         \A i \in 1 .. Len(q) : i # Len(q) => D[<<P[i][q[i]], Colon>>] = P[i + 1][<<>>]
  PROVE  Leads(D, S, P[1][<<>>], Body(q), P[Len(q)][q[Len(q)]])
<1> DEFINE N == Len(q)
           es == [i \in DOMAIN q |-> Escape(q[i])]
           ss == [i \in DOMAIN es |-> IF i = 1 THEN es[i] ELSE <<Colon>> \o es[i]]
<1>1. N \in Nat /\ N # 0 /\ DOMAIN q = 1 .. N /\ \A i \in 1 .. N : q[i] \in WText
  OBVIOUS
<1> HIDE DEF N
<1>2. ASSUME NEW i \in 1 .. N
      PROVE  Escape(q[i]) \in Seq(WChar) /\ <<Colon>> \o Escape(q[i]) \in Seq(WChar)
  <2>2. Escape(q[i]) \in Seq(WChar)
    BY <1>1, PlainTexts, EscapedText DEF WText
  <2>3. QED
    BY WireChars, <2>2
<1>3. ss \in Seq(Seq(WChar)) /\ Len(ss) = N
  BY <1>1, <1>2
<1>4. \A i \in 1 .. N : ss[i] = IF i = 1 THEN Escape(q[i])
                                ELSE <<Colon>> \o Escape(q[i])
  BY <1>1
<1>5. Body(q) = FlattenSeq(ss)
  BY DEF Body, Joined
<1> HIDE DEF ss
<1>6. PICK f \in [0 .. N -> Seq(WChar)] :
        /\ f[0] = <<>> /\ \A n \in 1 .. N : f[n] = f[n - 1] \o ss[n]
        /\ FlattenSeq(ss) = f[N]
  BY <1>3, FlattenSteps
<1>7. ASSUME NEW i \in 1 .. N PROVE Leads(D, S, P[i][<<>>], Escape(q[i]), P[i][q[i]])
  <2>1. P[i] \in [WText -> S] /\ Takes(D, S, P[i])
    BY DEF N
  <2>2. QED
    BY <1>1, <2>1, EscapeLeads
<1> DEFINE T == {n \in 0 .. N : n = 0 \/ Leads(D, S, P[1][<<>>], f[n], P[n][q[n]])}
<1>8. ASSUME NEW n \in 0 .. N, n < N, n \in T PROVE n + 1 \in T
  <2> DEFINE k == n + 1
             e == Escape(q[k])
  <2>1. k \in 1 .. N /\ k - 1 = n /\ (k = 1 <=> n = 0)
    BY <1>1, <1>8
  <2>2. f[k] = f[n] \o ss[k] /\ f[n] \in Seq(WChar) /\ e \in Seq(WChar)
    BY <1>2, <1>6, <2>1
  <2>3. CASE n = 0
    <3>1. f[k] = <<>> \o e
      BY <1>4, <1>6, <2>1, <2>2, <2>3
    <3>2. f[k] = e
      BY <2>2, <3>1
    <3> HIDE DEF e
    <3>3. Leads(D, S, P[1][<<>>], e, P[1][q[1]])
      BY <1>7, <2>1, <2>3 DEF e
    <3>4. QED
      BY <2>1, <2>3, <3>2, <3>3
  <2>4. CASE n # 0
    <3>1. n \in 1 .. N /\ n # N /\ n + 1 = k
      BY <1>1, <1>8, <2>4
    <3> DEFINE u == P[n][q[n]]
               v == P[k][<<>>]
    <3>2. u \in S /\ D[<<u, Colon>>] = v
      BY <1>1, <3>1 DEF N
    <3>3. f[k] = f[n] \o (<<Colon>> \o e)
      BY <1>4, <2>1, <2>2, <2>4
    <3>4. Leads(D, S, P[1][<<>>], f[n], u)
      BY <1>8, <3>1
    <3>5. Leads(D, S, v, e, P[k][q[k]])
      BY <1>7, <2>1
    <3> HIDE DEF u, v, e, k
    <3>6. Leads(D, S, u, <<Colon>>, v)
      BY WireChars, <3>2, LeadsOne
    <3>7. <<Colon>> \in Seq(WChar)
      BY WireChars
    <3>8. Leads(D, S, u, <<Colon>> \o e, P[k][q[k]])
      BY <2>2, <3>5, <3>6, <3>7, LeadsOn
    <3>9. <<Colon>> \o e \in Seq(WChar)
      BY <2>2, <3>7
    <3>10. Leads(D, S, P[1][<<>>], f[n] \o (<<Colon>> \o e), P[k][q[k]])
      BY <2>2, <3>4, <3>8, <3>9, LeadsOn
    <3>11. Leads(D, S, P[1][<<>>], f[k], P[k][q[k]])
      BY <3>3, <3>10
    <3>12. QED
      BY <2>1, <3>11 DEF k
  <2>5. QED
    BY <2>3, <2>4
<1>9. N \in T
  <2>1. 0 \in T /\ N \in Nat
    BY <1>1
  <2> HIDE DEF T
  <2>2. 0 .. N \subseteq T
    BY <1>8, <2>1, Induction
  <2>3. QED
    BY <2>1, <2>2
<1>10. QED
  BY <1>1, <1>5, <1>6, <1>9 DEF N
------------------------------------------------------------------------------
(* command_arg_split is such a reader.                                     *)
SplitState == [list : Seq(WText), text : WText, esc : BOOLEAN]
Splitter == [x \in SplitState \X WChar |-> SplitChar(x[1], x[2])]
ArgsWith(list, text, esc) == [list |-> list, text |-> text, esc |-> esc]

LEMMA UnescapedChar == ASSUME NEW c \in WChar PROVE Unescaped(c) \in WChar
BY WireChars DEF Unescaped

LEMMA SplitterSteps ==
  ASSUME NEW l \in Seq(WText), NEW t \in WText, NEW c \in WChar
  PROVE  /\ ArgsWith(l, t, TRUE) \in SplitState /\ ArgsWith(l, t, FALSE) \in SplitState
         /\ Splitter[<<ArgsWith(l, t, TRUE), c>>]
              = ArgsWith(l, Append(t, Unescaped(c)), FALSE)
         /\ Splitter[<<ArgsWith(l, t, FALSE), c>>]
              = IF c = Back THEN ArgsWith(l, t, TRUE)
                ELSE IF c = Colon THEN ArgsWith(Append(l, t), <<>>, FALSE)
                ELSE ArgsWith(l, Append(t, c), FALSE)
<1>1. ArgsWith(l, t, TRUE) \in SplitState /\ ArgsWith(l, t, FALSE) \in SplitState
  BY DEF ArgsWith, SplitState
<1>2. ASSUME NEW e \in BOOLEAN
      PROVE  Splitter[<<ArgsWith(l, t, e), c>>] = SplitChar(ArgsWith(l, t, e), c)
  BY <1>1 DEF Splitter
<1>3. SplitChar(ArgsWith(l, t, TRUE), c) = ArgsWith(l, Append(t, Unescaped(c)), FALSE)
  BY DEF ArgsWith, SplitChar
<1>4. Back # Colon
  BY DEF Back, Colon
<1>5. SplitChar(ArgsWith(l, t, FALSE), c)
        = IF c = Back THEN ArgsWith(l, t, TRUE)
          ELSE IF c = Colon THEN ArgsWith(Append(l, t), <<>>, FALSE)
          ELSE ArgsWith(l, Append(t, c), FALSE)
  <2>2. ASSUME c = Back
        PROVE  SplitChar(ArgsWith(l, t, FALSE), c) = ArgsWith(l, t, TRUE)
    BY <2>2 DEF ArgsWith, SplitChar, Back, Colon
  <2>3. ASSUME c = Colon
        PROVE  SplitChar(ArgsWith(l, t, FALSE), c) = ArgsWith(Append(l, t), <<>>, FALSE)
    BY <2>3 DEF ArgsWith, SplitChar, Back, Colon
  <2>4. ASSUME c # Back, c # Colon
        PROVE  SplitChar(ArgsWith(l, t, FALSE), c) = ArgsWith(l, Append(t, c), FALSE)
    BY <2>4 DEF ArgsWith, SplitChar
  <2>5. QED
    BY <1>4, <2>2, <2>3, <2>4
<1>6. QED
  BY <1>1, <1>2, <1>3, <1>5

LEMMA SplitterType == Splitter \in [SplitState \X WChar -> SplitState]
<1>1. ASSUME NEW s \in SplitState, NEW c \in WChar PROVE Splitter[<<s, c>>] \in SplitState
  <2>1. /\ s.list \in Seq(WText) /\ s.text \in WText /\ s.esc \in BOOLEAN
        /\ s = ArgsWith(s.list, s.text, s.esc)
    BY DEF SplitState, ArgsWith
  <2>2. PICK l \in Seq(WText), t \in WText, e \in BOOLEAN : s = ArgsWith(l, t, e)
    BY <2>1
  <2>3. Unescaped(c) \in WChar
    BY UnescapedChar
  <2>4. /\ Append(t, c) \in WText /\ Append(t, Unescaped(c)) \in WText
        /\ Append(l, t) \in Seq(WText)
    BY <2>3 DEF WText
  <2>5. <<>> \in WText
    BY WireChars
  <2>6. /\ ArgsWith(l, Append(t, c), FALSE) \in SplitState
        /\ ArgsWith(l, Append(t, Unescaped(c)), FALSE) \in SplitState
        /\ ArgsWith(Append(l, t), <<>>, FALSE) \in SplitState
    BY <2>4, <2>5, SplitterSteps
  <2>7. CASE e = TRUE
    BY <2>2, <2>6, <2>7, SplitterSteps
  <2>8. CASE e = FALSE
    BY <2>2, <2>6, <2>8, SplitterSteps
  <2>9. QED
    BY <2>7, <2>8
<1>2. ASSUME NEW x \in SplitState \X WChar PROVE SplitChar(x[1], x[2]) \in SplitState
  <2>1. x = <<x[1], x[2]>> /\ x[1] \in SplitState /\ x[2] \in WChar
    OBVIOUS
  <2>2. Splitter[x] = SplitChar(x[1], x[2])
    BY DEF Splitter
  <2>3. QED
    BY <1>1, <2>1, <2>2
<1>3. QED
  BY <1>2 DEF Splitter

(* What an escaped character becomes.                                      *)
LEMMA EscapeCases ==
  ASSUME NEW c \in WChar
  PROVE  \/ /\ c \notin {Back, Colon, NL} /\ EscapeChar(c) = <<c>>
         \/ \E d \in WChar : /\ EscapeChar(c) = <<Back>> \o <<d>>
                             /\ Unescaped(d) = c
<1>1. "n" \in WChar
  BY WireChars
<1>2. CASE c = NL
  <2>1. EscapeChar(c) = <<Back, "n">>
    BY <1>2 DEF EscapeChar, NL, Back, Colon
  <2>2. <<Back, "n">> = <<Back>> \o <<"n">> /\ Unescaped("n") = c
    BY <1>2 DEF Unescaped
  <2>3. QED
    BY <1>1, <2>1, <2>2
<1>3. CASE c \in {Back, Colon}
  <2>0. c # NL
    BY <1>3 DEF Back, Colon, NL
  <2>1. EscapeChar(c) = <<Back, c>>
    BY <1>3, <2>0 DEF EscapeChar
  <2>2. <<Back, c>> = <<Back>> \o <<c>> /\ Unescaped(c) = c
    BY <1>3 DEF Unescaped, Back, Colon
  <2>3. QED
    BY <2>1, <2>2
<1>4. CASE c \notin {Back, Colon, NL}
  BY <1>4 DEF EscapeChar
<1>5. QED
  BY <1>2, <1>3, <1>4

LEMMA SplitterTakes ==
  ASSUME NEW l \in Seq(WText)
  PROVE  Takes(Splitter, SplitState, [t \in WText |-> ArgsWith(l, t, FALSE)])
<1> DEFINE P == [t \in WText |-> ArgsWith(l, t, FALSE)]
<1> SUFFICES ASSUME NEW t \in WText, NEW c \in WChar
             PROVE  Leads(Splitter, SplitState, P[t], EscapeChar(c), P[Append(t, c)])
  BY DEF Takes
<1>1. Append(t, c) \in WText
  BY DEF WText
<1>2. P[t] = ArgsWith(l, t, FALSE) /\ P[Append(t, c)] = ArgsWith(l, Append(t, c), FALSE)
  BY <1>1
<1> HIDE DEF P
<1>3. ArgsWith(l, t, FALSE) \in SplitState /\ ArgsWith(l, t, TRUE) \in SplitState
  BY SplitterSteps
<1>4. CASE c \notin {Back, Colon, NL} /\ EscapeChar(c) = <<c>>
  <2>1. Splitter[<<ArgsWith(l, t, FALSE), c>>] = ArgsWith(l, Append(t, c), FALSE)
    BY <1>4, SplitterSteps
  <2>2. Leads(Splitter, SplitState, P[t], <<c>>, P[Append(t, c)])
    BY <1>2, <1>3, <2>1, SplitterType, LeadsOne
  <2>3. QED
    BY <1>4, <2>2
<1>5. ASSUME NEW d \in WChar, EscapeChar(c) = <<Back>> \o <<d>>, Unescaped(d) = c
      PROVE  Leads(Splitter, SplitState, P[t], EscapeChar(c), P[Append(t, c)])
  <2> DEFINE u == ArgsWith(l, t, TRUE)
  <2>1. Back \in WChar
    BY WireChars
  <2>2. Splitter[<<P[t], Back>>] = u
    BY <1>2, <2>1, SplitterSteps
  <2>3. Splitter[<<u, d>>] = P[Append(t, c)]
    BY <1>2, <1>5, SplitterSteps
  <2> HIDE DEF u
  <2>4. Leads(Splitter, SplitState, P[t], <<Back>>, u)
    BY <1>2, <1>3, <2>1, <2>2, SplitterType, LeadsOne
  <2>5. Leads(Splitter, SplitState, u, <<d>>, P[Append(t, c)])
    BY <1>3, <2>3, SplitterType, LeadsOne DEF u
  <2>6. <<Back>> \in Seq(WChar) /\ <<d>> \in Seq(WChar)
    BY <2>1
  <2>7. Leads(Splitter, SplitState, P[t], <<Back>> \o <<d>>, P[Append(t, c)])
    BY <2>4, <2>5, <2>6, LeadsOn
  <2>8. QED
    BY <1>5, <2>7
<1>6. QED
  BY <1>4, <1>5, EscapeCases

(* What the splitter's state is behind a line.                             *)
LEMMA ScannedIs ==
  ASSUME NEW line \in WText, NEW u, Leads(Splitter, SplitState, NoArgs, line, u)
  PROVE  Scanned(line) = u
<1> DEFINE N == Len(line)
           P(f) == f = [n \in 0 .. N |-> IF n = 0 THEN NoArgs
                                         ELSE SplitChar(f[n - 1], line[n])]
           after == CHOOSE f : P(f)
<1>1. N \in Nat /\ \A n \in 1 .. N : line[n] \in WChar
  BY DEF WText
<1> HIDE DEF N
<1>2. PICK f \in [0 .. N -> SplitState] : Scans(f, Splitter, NoArgs, line) /\ f[N] = u
  BY DEF Leads, N
<1>3. f[0] = NoArgs
  BY <1>2 DEF Scans
<1>4. ASSUME NEW n \in 1 .. N PROVE f[n] = SplitChar(f[n - 1], line[n])
  <2>1. n - 1 \in 0 .. N
    BY <1>1
  <2>2. f[n] = Splitter[<<f[n - 1], line[n]>>] /\ f[n - 1] \in SplitState /\ line[n] \in WChar
    BY <1>1, <1>2, <2>1 DEF Scans, N
  <2>3. QED
    BY <2>2 DEF Splitter
<1>5. P(f)
  <2>1. ASSUME NEW n \in 0 .. N
        PROVE  f[n] = IF n = 0 THEN NoArgs ELSE SplitChar(f[n - 1], line[n])
    <3>1. CASE n = 0
      BY <1>3, <3>1
    <3>2. CASE n # 0
      <4>1. n \in 1 .. N
        BY <1>1, <3>2
      <4>2. QED
        BY <1>4, <3>2, <4>1
    <3>3. QED
      BY <3>1, <3>2
  <2>2. QED
    BY <2>1
<1>6. P(after)
  <2> HIDE DEF P
  <2>1. QED
    BY <1>5
<1>7. \A n \in 0 .. N : after[n] = IF n = 0 THEN NoArgs
                                   ELSE SplitChar(after[n - 1], line[n])
  <2>1. ASSUME NEW h, P(h)
        PROVE  \A n \in 0 .. N : h[n] = IF n = 0 THEN NoArgs
                                        ELSE SplitChar(h[n - 1], line[n])
    BY <2>1
  <2> HIDE DEF P, after
  <2>2. QED
    BY <1>6, <2>1
<1>8. Scanned(line) = after[N]
  BY DEF Scanned, N
<1> HIDE DEF P, after
<1> DEFINE T == {n \in 0 .. N : after[n] = f[n]}
<1>9. 0 \in T
  BY <1>1, <1>3, <1>7
<1>10. ASSUME NEW n \in 0 .. N, n < N, n \in T PROVE n + 1 \in T
  <2>1. n + 1 \in 1 .. N /\ n + 1 \in 0 .. N /\ (n + 1) - 1 = n /\ n + 1 # 0
    BY <1>1, <1>10
  <2>2. after[n + 1] = SplitChar(after[n], line[n + 1])
    BY <1>7, <2>1
  <2>3. f[n + 1] = SplitChar(f[n], line[n + 1])
    BY <1>4, <2>1
  <2>4. QED
    BY <1>10, <2>1, <2>2, <2>3
<1>11. N \in T
  <2> HIDE DEF T
  <2>1. 0 .. N \subseteq T
    BY <1>1, <1>9, <1>10, Induction
  <2>2. QED
    BY <1>1, <2>1
<1>12. QED
  BY <1>2, <1>8, <1>11

(* command_arg_split undoes what pdf-info-query does to its arguments.     *)
LEMMA SplitBack ==
  ASSUME NEW q \in Seq(WText), q # <<>>, Body(q) # <<>>
  PROVE  Split(Body(q)) = q
<1> DEFINE N == Len(q)
           P == [i \in 1 .. N |-> [t \in WText |-> ArgsWith(SubSeq(q, 1, i - 1), t, FALSE)]]
<1>1. N \in Nat /\ N # 0 /\ \A i \in 1 .. N : q[i] \in WText
  OBVIOUS
<1>2. ASSUME NEW i \in 1 .. N
      PROVE  SubSeq(q, 1, i - 1) \in Seq(WText) /\ Append(SubSeq(q, 1, i - 1), q[i]) = SubSeq(q, 1, i)
  OBVIOUS
<1>3. ASSUME NEW i \in 1 .. N
      PROVE  /\ P[i] \in [WText -> SplitState] /\ Takes(Splitter, SplitState, P[i])
             /\ \A t \in WText : P[i][t] = ArgsWith(SubSeq(q, 1, i - 1), t, FALSE)
  <2> HIDE DEF N
  <2>1. P[i] = [t \in WText |-> ArgsWith(SubSeq(q, 1, i - 1), t, FALSE)]
    OBVIOUS
  <2>2. \A t \in WText : ArgsWith(SubSeq(q, 1, i - 1), t, FALSE) \in SplitState
    BY <1>2, WireChars, SplitterSteps
  <2>3. Takes(Splitter, SplitState, [t \in WText |-> ArgsWith(SubSeq(q, 1, i - 1), t, FALSE)])
    BY <1>2, SplitterTakes
  <2> HIDE DEF P
  <2>4. QED
    BY <2>1, <2>2, <2>3
<1>4. P \in [1 .. N -> [WText -> SplitState]]
  <2> HIDE DEF N
  <2>1. \A i \in 1 .. N : [t \in WText |-> ArgsWith(SubSeq(q, 1, i - 1), t, FALSE)]
                            \in [WText -> SplitState]
    BY <1>3
  <2>2. QED
    BY <2>1
<1> HIDE DEF P
<1>5. ASSUME NEW i \in 1 .. N, i # N
      PROVE  Splitter[<<P[i][q[i]], Colon>>] = P[i + 1][<<>>]
  <2>1. i + 1 \in 1 .. N /\ (i + 1) - 1 = i /\ q[i] \in WText
    BY <1>1, <1>5
  <2>2. P[i][q[i]] = ArgsWith(SubSeq(q, 1, i - 1), q[i], FALSE)
    BY <1>3, <2>1
  <2>3. Splitter[<<P[i][q[i]], Colon>>]
          = ArgsWith(Append(SubSeq(q, 1, i - 1), q[i]), <<>>, FALSE)
    <3>1. Colon \in WChar /\ Colon # Back
      BY WireChars DEF Colon, Back
    <3> HIDE DEF N
    <3>2. QED
      BY <1>2, <2>1, <2>2, <3>1, SplitterSteps
  <2>4. P[i + 1][<<>>] = ArgsWith(SubSeq(q, 1, i), <<>>, FALSE)
    <3> HIDE DEF N
    <3>1. QED
      BY <1>3, <2>1, WireChars
  <2>5. QED
    BY <1>2, <2>3, <2>4
<1>6. Leads(Splitter, SplitState, P[1][<<>>], Body(q), P[N][q[N]])
  BY <1>3, <1>4, <1>5, SplitterType, BodyLeads
<1>7. P[1][<<>>] = NoArgs
  <2>1. 1 \in 1 .. N /\ SubSeq(q, 1, 1 - 1) = <<>>
    BY <1>1
  <2> HIDE DEF N
  <2>2. P[1][<<>>] = ArgsWith(<<>>, <<>>, FALSE)
    BY <1>3, <2>1, WireChars
  <2>3. QED
    BY <2>2 DEF ArgsWith, NoArgs
<1>8. P[N][q[N]] = ArgsWith(SubSeq(q, 1, N - 1), q[N], FALSE)
  <2>1. N \in 1 .. N
    BY <1>1
  <2> HIDE DEF N
  <2>2. QED
    BY <1>1, <1>3, <2>1
<1>9. Body(q) \in WText
  BY BodyPlain, PlainTexts
<1>10. Scanned(Body(q)) = ArgsWith(SubSeq(q, 1, N - 1), q[N], FALSE)
  BY <1>6, <1>7, <1>8, <1>9, ScannedIs
<1>11. Split(Body(q)) = Append(SubSeq(q, 1, N - 1), q[N])
  BY <1>10 DEF Split, ArgsWith
<1>12. QED
  BY <1>1, <1>11

LEMMA FirstIsBody ==
  ASSUME NEW b \in Seq(Plain) PROVE FirstLine(Append(b, NL)) = b
<1> DEFINE N == Len(b)
           x == Append(b, NL)
           ends == {i \in DOMAIN x : x[i] = NL}
<1>1. N \in Nat /\ DOMAIN x = 1 .. N + 1 /\ x[N + 1] = NL
  OBVIOUS
<1>2. ASSUME NEW i \in 1 .. N PROVE x[i] # NL
  BY DEF Plain
<1>3. ends = {N + 1}
  <2> HIDE DEF x
  <2>1. N + 1 \in 1 .. N + 1 /\ \A i \in 1 .. N + 1 : i \in 1 .. N \/ i = N + 1
    BY <1>1
  <2> HIDE DEF N
  <2>2. QED
    BY <1>1, <1>2, <2>1
<1>4. (CHOOSE i \in ends : \A j \in ends : i <= j) = N + 1
  BY <1>1, <1>3
<1>5. SubSeq(x, 1, N) = b
  OBVIOUS
<1>6. FirstLine(x) = SubSeq(x, 1, (N + 1) - 1)
  BY <1>4 DEF FirstLine
<1>7. QED
  BY <1>1, <1>5, <1>6
------------------------------------------------------------------------------
(* The client's reader of records, at a state that has read the records    *)
(* rs, and the fields fs and the text t of the next one.                   *)
ReadState == [records : Seq(Seq(WText)), fields : Seq(WText), text : WText,
              esc : BOOLEAN, end : BOOLEAN]
RecordReader == [x \in ReadState \X WChar |-> ReadChar(x[1], x[2])]
Reading(rs, fs, t, esc, end) ==
  [records |-> rs, fields |-> fs, text |-> t, esc |-> esc, end |-> end]

LEMMA ReadStates ==
  ASSUME NEW rs \in Seq(Seq(WText)), NEW fs \in Seq(WText), NEW t \in WText,
         NEW c \in WChar
  PROVE  /\ Reading(rs, fs, t, TRUE, FALSE) \in ReadState
         /\ Reading(rs, fs, t, FALSE, FALSE) \in ReadState
         /\ Reading(rs, fs, t, TRUE, TRUE) \in ReadState
         /\ Reading(rs, fs, t, FALSE, TRUE) \in ReadState
         /\ Append(t, c) \in WText /\ Append(t, Unescaped(c)) \in WText
         /\ Append(fs, t) \in Seq(WText) /\ <<>> \in WText /\ <<>> \in Seq(WText)
         /\ Append(rs, Append(fs, t)) \in Seq(Seq(WText))
<1>1. \A b, e \in BOOLEAN : Reading(rs, fs, t, b, e) \in ReadState
  BY DEF Reading, ReadState
<1>2. Append(t, c) \in WText /\ Append(t, Unescaped(c)) \in WText /\ <<>> \in WText
  BY UnescapedChar DEF WText
<1>3. Append(fs, t) \in Seq(WText) /\ <<>> \in Seq(WText)
  OBVIOUS
<1>4. \A r \in Seq(WText) : Append(rs, r) \in Seq(Seq(WText))
  OBVIOUS
<1>5. Append(rs, Append(fs, t)) \in Seq(Seq(WText))
  BY <1>3, <1>4
<1>6. QED
  BY <1>1, <1>2, <1>3, <1>5

LEMMA ReaderIs ==
  ASSUME NEW s \in ReadState, NEW c \in WChar
  PROVE  RecordReader[<<s, c>>] = ReadChar(s, c)
BY DEF RecordReader

LEMMA ReadEscaped ==
  ASSUME NEW rs, NEW fs, NEW t, NEW c
  PROVE  ReadChar(Reading(rs, fs, t, TRUE, FALSE), c)
           = Reading(rs, fs, Append(t, Unescaped(c)), FALSE, FALSE)
BY DEF Reading, ReadChar

LEMMA ReadBack ==
  ASSUME NEW rs, NEW fs, NEW t
  PROVE  ReadChar(Reading(rs, fs, t, FALSE, FALSE), Back)
           = Reading(rs, fs, t, TRUE, FALSE)
BY DEF Reading, ReadChar, Back, Colon, NL

LEMMA ReadColon ==
  ASSUME NEW rs, NEW fs, NEW t
  PROVE  ReadChar(Reading(rs, fs, t, FALSE, FALSE), Colon)
           = Reading(rs, Append(fs, t), <<>>, FALSE, FALSE)
BY DEF Reading, ReadChar, Back, Colon, NL

LEMMA ReadRecord ==
  ASSUME NEW rs, NEW fs, NEW t, ~ (fs = <<>> /\ t = <<Dot>>)
  PROVE  ReadChar(Reading(rs, fs, t, FALSE, FALSE), NL)
           = Reading(Append(rs, Append(fs, t)), <<>>, <<>>, FALSE, FALSE)
BY DEF Reading, ReadChar, Back, Colon, NL

LEMMA ReadEnd ==
  ASSUME NEW rs
  PROVE  ReadChar(Reading(rs, <<>>, <<Dot>>, FALSE, FALSE), NL)
           = Reading(rs, <<>>, <<Dot>>, FALSE, TRUE)
BY DEF Reading, ReadChar, Back, Colon, NL

LEMMA ReadPlain ==
  ASSUME NEW rs, NEW fs, NEW t \in WText, NEW c \in WChar,
         c # Back, c # Colon, c # NL
  PROVE  ReadChar(Reading(rs, fs, t, FALSE, FALSE), c)
           = Reading(rs, fs, Append(t, c), FALSE, FALSE)
BY DEF Reading, ReadChar

LEMMA ReadEnded ==
  ASSUME NEW s, s.end = TRUE, NEW c PROVE ReadChar(s, c) = s
BY DEF ReadChar

LEMMA ReaderType == RecordReader \in [ReadState \X WChar -> ReadState]
<1>1. ASSUME NEW s \in ReadState, NEW c \in WChar PROVE ReadChar(s, c) \in ReadState
  <2>1. PICK rs \in Seq(Seq(WText)), fs \in Seq(WText), t \in WText,
             esc \in BOOLEAN, end \in BOOLEAN : s = Reading(rs, fs, t, esc, end)
    <3>1. /\ s.records \in Seq(Seq(WText)) /\ s.fields \in Seq(WText) /\ s.text \in WText
          /\ s.esc \in BOOLEAN /\ s.end \in BOOLEAN
          /\ s = Reading(s.records, s.fields, s.text, s.esc, s.end)
      BY DEF ReadState, Reading
    <3>2. QED
      BY <3>1
  <2>2. CASE end = TRUE
    <3>1. s.end = TRUE
      BY <2>1, <2>2 DEF Reading
    <3>2. ReadChar(s, c) = s
      BY <3>1, ReadEnded
    <3>3. QED
      BY <3>2
  <2>3. CASE end = FALSE /\ esc = TRUE
    <3>1. Append(t, Unescaped(c)) \in WText
      BY ReadStates
    <3>2. ReadChar(s, c) = Reading(rs, fs, Append(t, Unescaped(c)), FALSE, FALSE)
      BY <2>1, <2>3, ReadEscaped
    <3>3. QED
      BY <3>1, <3>2, ReadStates
  <2>4. CASE end = FALSE /\ esc = FALSE
    <3>1. s = Reading(rs, fs, t, FALSE, FALSE)
      BY <2>1, <2>4
    <3>2. CASE c = Back
      BY <3>1, <3>2, ReadBack, ReadStates
    <3>3. CASE c = Colon
      <4>1. Append(fs, t) \in Seq(WText) /\ <<>> \in WText
        BY ReadStates
      <4>2. Reading(rs, Append(fs, t), <<>>, FALSE, FALSE) \in ReadState
        BY <4>1, ReadStates
      <4>3. QED
        BY <3>1, <3>3, <4>2, ReadColon
    <3>4. CASE c = NL /\ ~ (fs = <<>> /\ t = <<Dot>>)
      <4>1. Append(rs, Append(fs, t)) \in Seq(Seq(WText)) /\ <<>> \in WText /\ <<>> \in Seq(WText)
        BY ReadStates
      <4>2. Reading(Append(rs, Append(fs, t)), <<>>, <<>>, FALSE, FALSE) \in ReadState
        BY <4>1, ReadStates
      <4>3. QED
        BY <3>1, <3>4, <4>2, ReadRecord
    <3>5. CASE c = NL /\ fs = <<>> /\ t = <<Dot>>
      <4>1. ReadChar(s, c) = Reading(rs, fs, t, FALSE, TRUE)
        BY <3>1, <3>5, ReadEnd
      <4>2. QED
        BY <4>1, ReadStates
    <3>6. CASE c # Back /\ c # Colon /\ c # NL
      <4>1. Append(t, c) \in WText
        BY ReadStates
      <4>2. Reading(rs, fs, Append(t, c), FALSE, FALSE) \in ReadState
        BY <4>1, ReadStates
      <4>3. ReadChar(Reading(rs, fs, t, FALSE, FALSE), c)
              = Reading(rs, fs, Append(t, c), FALSE, FALSE)
        BY <3>6, ReadPlain
      <4>4. QED
        BY <3>1, <4>2, <4>3
    <3>7. QED
      BY <3>2, <3>3, <3>4, <3>5, <3>6
  <2>5. QED
    BY <2>2, <2>3, <2>4
<1>2. ASSUME NEW x \in ReadState \X WChar PROVE ReadChar(x[1], x[2]) \in ReadState
  <2>1. x[1] \in ReadState /\ x[2] \in WChar
    OBVIOUS
  <2>2. QED
    BY <1>1, <2>1
<1>3. QED
  BY <1>2 DEF RecordReader

LEMMA ReaderTakes ==
  ASSUME NEW rs \in Seq(Seq(WText)), NEW fs \in Seq(WText)
  PROVE  Takes(RecordReader, ReadState, [t \in WText |-> Reading(rs, fs, t, FALSE, FALSE)])
<1> DEFINE P == [t \in WText |-> Reading(rs, fs, t, FALSE, FALSE)]
<1> SUFFICES ASSUME NEW t \in WText, NEW c \in WChar
             PROVE  Leads(RecordReader, ReadState, P[t], EscapeChar(c), P[Append(t, c)])
  BY DEF Takes
<1>1. Append(t, c) \in WText
  BY DEF WText
<1>2. /\ P[t] = Reading(rs, fs, t, FALSE, FALSE)
      /\ P[Append(t, c)] = Reading(rs, fs, Append(t, c), FALSE, FALSE)
  BY <1>1
<1> HIDE DEF P
<1>3. /\ Reading(rs, fs, t, FALSE, FALSE) \in ReadState
      /\ Reading(rs, fs, t, TRUE, FALSE) \in ReadState
  BY ReadStates
<1>4. CASE c \notin {Back, Colon, NL} /\ EscapeChar(c) = <<c>>
  <2>1. RecordReader[<<P[t], c>>] = P[Append(t, c)]
    <3>1. c # Back /\ c # Colon /\ c # NL
      BY <1>4
    <3>2. ReadChar(Reading(rs, fs, t, FALSE, FALSE), c)
            = Reading(rs, fs, Append(t, c), FALSE, FALSE)
      BY <3>1, ReadPlain
    <3>3. QED
      BY <1>2, <1>3, <3>2, ReaderIs
  <2>2. Leads(RecordReader, ReadState, P[t], <<c>>, P[Append(t, c)])
    BY <1>2, <1>3, <2>1, ReaderType, LeadsOne
  <2>3. QED
    BY <1>4, <2>2
<1>5. ASSUME NEW d \in WChar, EscapeChar(c) = <<Back>> \o <<d>>, Unescaped(d) = c
      PROVE  Leads(RecordReader, ReadState, P[t], EscapeChar(c), P[Append(t, c)])
  <2> DEFINE u == Reading(rs, fs, t, TRUE, FALSE)
  <2>1. Back \in WChar
    BY WireChars
  <2>2. RecordReader[<<P[t], Back>>] = u
    <3>1. ReadChar(P[t], Back) = u
      BY <1>2, ReadBack
    <3>2. QED
      BY <1>2, <1>3, <2>1, <3>1, ReaderIs
  <2>3. RecordReader[<<u, d>>] = P[Append(t, c)]
    <3>1. ReadChar(u, d) = P[Append(t, c)]
      BY <1>2, <1>5, ReadEscaped
    <3> HIDE DEF u
    <3>2. QED
      BY <1>3, <3>1, ReaderIs DEF u
  <2> HIDE DEF u
  <2>4. Leads(RecordReader, ReadState, P[t], <<Back>>, u)
    BY <1>2, <1>3, <2>1, <2>2, ReaderType, LeadsOne
  <2>5. Leads(RecordReader, ReadState, u, <<d>>, P[Append(t, c)])
    BY <1>3, <2>3, ReaderType, LeadsOne DEF u
  <2>6. <<Back>> \in Seq(WChar) /\ <<d>> \in Seq(WChar)
    BY <2>1
  <2>7. Leads(RecordReader, ReadState, P[t], <<Back>> \o <<d>>, P[Append(t, c)])
    BY <2>4, <2>5, <2>6, LeadsOn
  <2>8. QED
    BY <1>5, <2>7
<1>6. QED
  BY <1>4, <1>5, EscapeCases

(* A record that is no single dot is read as it was meant.                 *)
LEMMA RecordLeads ==
  ASSUME NEW rs \in Seq(Seq(WText)), NEW q \in Seq(WText), q # <<>>,
         q # << <<Dot>> >>
  PROVE  Leads(RecordReader, ReadState, Reading(rs, <<>>, <<>>, FALSE, FALSE),
               Append(Body(q), NL), Reading(Append(rs, q), <<>>, <<>>, FALSE, FALSE))
<1> DEFINE N == Len(q)
           P == [i \in 1 .. N |-> [t \in WText |->
                   Reading(rs, SubSeq(q, 1, i - 1), t, FALSE, FALSE)]]
<1>1. N \in Nat /\ N # 0 /\ \A i \in 1 .. N : q[i] \in WText
  OBVIOUS
<1>2. ASSUME NEW i \in 1 .. N
      PROVE  SubSeq(q, 1, i - 1) \in Seq(WText) /\ Append(SubSeq(q, 1, i - 1), q[i]) = SubSeq(q, 1, i)
  OBVIOUS
<1>3. ASSUME NEW i \in 1 .. N
      PROVE  /\ P[i] \in [WText -> ReadState] /\ Takes(RecordReader, ReadState, P[i])
             /\ \A t \in WText : P[i][t] = Reading(rs, SubSeq(q, 1, i - 1), t, FALSE, FALSE)
  <2> HIDE DEF N
  <2>1. P[i] = [t \in WText |-> Reading(rs, SubSeq(q, 1, i - 1), t, FALSE, FALSE)]
    OBVIOUS
  <2>2. \A t \in WText : Reading(rs, SubSeq(q, 1, i - 1), t, FALSE, FALSE) \in ReadState
    BY <1>2, WireChars, ReadStates
  <2>3. Takes(RecordReader, ReadState,
              [t \in WText |-> Reading(rs, SubSeq(q, 1, i - 1), t, FALSE, FALSE)])
    BY <1>2, ReaderTakes
  <2> HIDE DEF P
  <2>4. QED
    BY <2>1, <2>2, <2>3
<1>4. P \in [1 .. N -> [WText -> ReadState]]
  <2> HIDE DEF N
  <2>1. \A i \in 1 .. N : [t \in WText |-> Reading(rs, SubSeq(q, 1, i - 1), t, FALSE, FALSE)]
                            \in [WText -> ReadState]
    BY <1>3
  <2>2. QED
    BY <2>1
<1> HIDE DEF P
<1>5. ASSUME NEW i \in 1 .. N, i # N
      PROVE  RecordReader[<<P[i][q[i]], Colon>>] = P[i + 1][<<>>]
  <2> HIDE DEF N
  <2>1. i + 1 \in 1 .. N /\ (i + 1) - 1 = i /\ q[i] \in WText
    BY <1>1, <1>5
  <2>2. P[i][q[i]] = Reading(rs, SubSeq(q, 1, i - 1), q[i], FALSE, FALSE)
    BY <1>3, <2>1
  <2>3. RecordReader[<<P[i][q[i]], Colon>>] = ReadChar(P[i][q[i]], Colon)
    <3>1. P[i][q[i]] \in ReadState /\ Colon \in WChar
      BY <1>3, <2>1, WireChars
    <3>2. QED
      BY <3>1, ReaderIs
  <2>4. ReadChar(P[i][q[i]], Colon)
          = Reading(rs, Append(SubSeq(q, 1, i - 1), q[i]), <<>>, FALSE, FALSE)
    BY <2>2, ReadColon
  <2>5. P[i + 1][<<>>] = Reading(rs, SubSeq(q, 1, i), <<>>, FALSE, FALSE)
    BY <1>3, <2>1, WireChars
  <2>6. QED
    BY <1>2, <2>3, <2>4, <2>5
<1>6. Leads(RecordReader, ReadState, P[1][<<>>], Body(q), P[N][q[N]])
  BY <1>3, <1>4, <1>5, ReaderType, BodyLeads
<1>7. P[1][<<>>] = Reading(rs, <<>>, <<>>, FALSE, FALSE)
  <2>1. 1 \in 1 .. N /\ SubSeq(q, 1, 1 - 1) = <<>>
    BY <1>1
  <2> HIDE DEF N
  <2>2. QED
    BY <1>3, <2>1, WireChars
<1>8. P[N][q[N]] = Reading(rs, SubSeq(q, 1, N - 1), q[N], FALSE, FALSE)
  <2>1. N \in 1 .. N
    BY <1>1
  <2> HIDE DEF N
  <2>2. QED
    BY <1>1, <1>3, <2>1
<1>9. ReadChar(P[N][q[N]], NL) = Reading(Append(rs, q), <<>>, <<>>, FALSE, FALSE)
  <2>1. ~ (SubSeq(q, 1, N - 1) = <<>> /\ q[N] = <<Dot>>)
    <3>1. Append(SubSeq(q, 1, N - 1), q[N]) = q
      BY <1>1
    <3>2. Append(<<>>, <<Dot>>) = << <<Dot>> >>
      OBVIOUS
    <3> HIDE DEF N
    <3>3. QED
      BY <3>1, <3>2
  <2>2. Append(SubSeq(q, 1, N - 1), q[N]) = q
    BY <1>1
  <2> HIDE DEF N
  <2>3. ReadChar(Reading(rs, SubSeq(q, 1, N - 1), q[N], FALSE, FALSE), NL)
          = Reading(Append(rs, Append(SubSeq(q, 1, N - 1), q[N])), <<>>, <<>>, FALSE, FALSE)
    BY <2>1, ReadRecord
  <2>4. QED
    BY <1>8, <2>2, <2>3
<1>10. P[N][q[N]] \in ReadState /\ NL \in WChar
  <2>1. N \in 1 .. N
    BY <1>1
  <2> HIDE DEF N
  <2>2. QED
    BY <1>1, <1>3, <2>1, WireChars
<1>11. Leads(RecordReader, ReadState, P[N][q[N]], <<NL>>,
             Reading(Append(rs, q), <<>>, <<>>, FALSE, FALSE))
  <2> HIDE DEF N
  <2>1. RecordReader[<<P[N][q[N]], NL>>] = Reading(Append(rs, q), <<>>, <<>>, FALSE, FALSE)
    BY <1>9, <1>10, ReaderIs
  <2>2. QED
    BY <1>10, <2>1, ReaderType, LeadsOne
<1>12. Body(q) \in Seq(WChar) /\ <<NL>> \in Seq(WChar)
  BY <1>10, BodyPlain, PlainTexts DEF WText
<1>13. Append(Body(q), NL) = Body(q) \o <<NL>>
  BY <1>12
<1>14. QED
  <2> HIDE DEF N
  <2>1. Leads(RecordReader, ReadState, P[1][<<>>], Body(q) \o <<NL>>,
              Reading(Append(rs, q), <<>>, <<>>, FALSE, FALSE))
    BY <1>6, <1>11, <1>12, LeadsOn
  <2>2. QED
    BY <1>7, <1>13, <2>1

LEMMA Pair ==
  ASSUME NEW S, NEW c \in S, NEW d \in S PROVE <<c>> \o <<d>> = <<c, d>>
<1> DEFINE x == <<c>> \o <<d>>
<1>1. x \in Seq(S) /\ Len(x) = 2 /\ x[1] = c /\ x[2] = d
  OBVIOUS
<1>2. ASSUME NEW y \in Seq(S), Len(y) = 2 PROVE y = <<y[1], y[2]>>
  BY <1>2
<1> HIDE DEF x
<1>3. x = <<x[1], x[2]>>
  BY <1>1, <1>2
<1>4. QED
  BY <1>1, <1>3 DEF x

(* print_response_string escapes as pdf-info-query does.                   *)
LEMMA PrintsEscaped ==
  ASSUME NEW text \in WText PROVE PrintString(text) = Escape(text)
<1>1. ASSUME NEW c
      PROVE  (CASE c = NL -> <<Back, "n">>
                [] c \in {Back, Colon} -> <<Back, c>>
                [] OTHER -> <<c>>) = EscapeChar(c)
  <2>1. CASE c = NL
    BY <2>1 DEF EscapeChar, NL, Back, Colon
  <2>2. CASE c \in {Back, Colon}
    BY <2>2 DEF EscapeChar, NL, Back, Colon
  <2>3. CASE c # NL /\ c \notin {Back, Colon}
    BY <2>3 DEF EscapeChar
  <2>4. QED
    BY <2>1, <2>2, <2>3
<1>2. [i \in DOMAIN text |-> CASE text[i] = NL -> <<Back, "n">>
                               [] text[i] \in {Back, Colon} -> <<Back, text[i]>>
                               [] OTHER -> <<text[i]>>]
        = [i \in DOMAIN text |-> EscapeChar(text[i])]
  BY <1>1
<1>3. QED
  BY <1>2 DEF PrintString, Escape

LEMMA RecordPrinted ==
  ASSUME NEW r \in Seq(WText)
  PROVE  /\ PrintRecord(r) = Append(Body(r), NL)
         /\ PrintRecord(r) \in Seq(WChar)
<1>1. \A i \in DOMAIN r : PrintString(r[i]) = Escape(r[i])
  BY PrintsEscaped
<1>2. [i \in DOMAIN r |-> PrintString(r[i])] = [i \in DOMAIN r |-> Escape(r[i])]
  BY <1>1
<1>3. PrintRecord(r) = Append(Body(r), NL)
  BY <1>2 DEF PrintRecord, Body
<1>4. Body(r) \in Seq(WChar) /\ NL \in WChar
  BY BodyPlain, PlainTexts, WireChars DEF WText
<1>5. QED
  BY <1>3, <1>4

AllPrinted(rs) == FlattenSeq([i \in DOMAIN rs |-> PrintRecord(rs[i])])
Meant(rs) ==
  \A i \in 1 .. Len(rs) : rs[i] # <<>> /\ rs[i] # << <<Dot>> >>

LEMMA PrintedRecords ==
  ASSUME NEW rs \in Seq(Seq(WText))
  PROVE  [i \in DOMAIN rs |-> PrintRecord(rs[i])] \in Seq(Seq(WChar))
<1>1. DOMAIN rs = 1 .. Len(rs) /\ Len(rs) \in Nat
  OBVIOUS
<1>2. \A i \in 1 .. Len(rs) : PrintRecord(rs[i]) \in Seq(WChar)
  BY RecordPrinted
<1>3. QED
  BY <1>1, <1>2

(* The client reads the records that were printed.                         *)
LEMMA RecordsLead ==
  ASSUME NEW rs \in Seq(Seq(WText)), Meant(rs)
  PROVE  /\ AllPrinted(rs) \in Seq(WChar)
         /\ Leads(RecordReader, ReadState, Reading(<<>>, <<>>, <<>>, FALSE, FALSE),
                  AllPrinted(rs), Reading(rs, <<>>, <<>>, FALSE, FALSE))
<1> DEFINE N == Len(rs)
           ss == [i \in DOMAIN rs |-> PrintRecord(rs[i])]
           from == Reading(<<>>, <<>>, <<>>, FALSE, FALSE)
           upto(n) == Reading(SubSeq(rs, 1, n), <<>>, <<>>, FALSE, FALSE)
<1>1. N \in Nat /\ DOMAIN rs = 1 .. N /\ \A i \in 1 .. N : rs[i] \in Seq(WText)
  OBVIOUS
<1>2. ss \in Seq(Seq(WChar)) /\ Len(ss) = N /\ \A i \in 1 .. N : ss[i] = PrintRecord(rs[i])
  <2>1. ss \in Seq(Seq(WChar))
    BY PrintedRecords
  <2>2. DOMAIN ss = 1 .. N /\ \A i \in 1 .. N : ss[i] = PrintRecord(rs[i])
    BY <1>1
  <2> HIDE DEF ss, N
  <2>3. QED
    BY <1>1, <2>1, <2>2
<1> HIDE DEF ss, N
<1>3. PICK f \in [0 .. N -> Seq(WChar)] :
        /\ f[0] = <<>> /\ \A n \in 1 .. N : f[n] = f[n - 1] \o ss[n]
        /\ FlattenSeq(ss) = f[N]
  BY <1>2, FlattenSteps
<1> DEFINE T == {n \in 0 .. N : Leads(RecordReader, ReadState, from, f[n], upto(n))}
<1>4. 0 \in T
  <2>1. SubSeq(rs, 1, 0) = <<>>
    OBVIOUS
  <2>2. from \in ReadState
    <3>1. <<>> \in Seq(Seq(WText)) /\ <<>> \in Seq(WText) /\ NL \in WChar
      BY WireChars
    <3>2. QED
      BY <3>1, WireChars, ReadStates
  <2> HIDE DEF from
  <2>3. Leads(RecordReader, ReadState, from, <<>>, from)
    BY <2>2, LeadsNone
  <2>4. upto(0) = from
    BY <2>1 DEF from
  <2> HIDE DEF upto, N
  <2>5. QED
    BY <1>1, <1>3, <2>3, <2>4
<1>5. ASSUME NEW n \in 0 .. N, n < N, n \in T PROVE n + 1 \in T
  <2> DEFINE q == rs[n + 1]
             p == SubSeq(rs, 1, n)
  <2>1. n + 1 \in 1 .. N /\ (n + 1) - 1 = n /\ n + 1 \in 0 .. N
    BY <1>1, <1>5
  <2>2. p \in Seq(Seq(WText)) /\ q \in Seq(WText) /\ Append(p, q) = SubSeq(rs, 1, n + 1)
    BY <1>1, <2>1 DEF N
  <2>3. q # <<>> /\ q # << <<Dot>> >>
    BY <2>1 DEF Meant, N
  <2>4. f[n + 1] = f[n] \o Append(Body(q), NL)
    BY <1>2, <1>3, <2>1, <2>2, RecordPrinted
  <2>5. f[n] \in Seq(WChar) /\ Append(Body(q), NL) \in Seq(WChar)
    <3>1. Append(Body(q), NL) \in Seq(WChar)
      BY <2>2, RecordPrinted
    <3>2. QED
      BY <1>3, <3>1
  <2> HIDE DEF p, q, from, N
  <2>6. Leads(RecordReader, ReadState, Reading(p, <<>>, <<>>, FALSE, FALSE),
              Append(Body(q), NL), Reading(Append(p, q), <<>>, <<>>, FALSE, FALSE))
    BY <2>2, <2>3, RecordLeads
  <2>7. Leads(RecordReader, ReadState, from, f[n], Reading(p, <<>>, <<>>, FALSE, FALSE))
    BY <1>5 DEF p
  <2>8. Leads(RecordReader, ReadState, from, f[n] \o Append(Body(q), NL),
              Reading(Append(p, q), <<>>, <<>>, FALSE, FALSE))
    BY <2>5, <2>6, <2>7, LeadsOn
  <2>9. QED
    BY <2>1, <2>2, <2>4, <2>8
<1>6. N \in T
  <2> HIDE DEF T
  <2>1. 0 .. N \subseteq T
    BY <1>1, <1>4, <1>5, Induction
  <2>2. QED
    BY <1>1, <2>1
<1>7. SubSeq(rs, 1, N) = rs
  BY DEF N
<1>8. AllPrinted(rs) = f[N]
  BY <1>3 DEF AllPrinted, ss
<1> HIDE DEF N, from
<1>9. f[N] \in Seq(WChar)
  BY <1>1, <1>3
<1>10. QED
  BY <1>6, <1>7, <1>8, <1>9 DEF from

(* ... and is at the end behind the line with the dot.                     *)
LEMMA EndLeads ==
  ASSUME NEW rs \in Seq(Seq(WText))
  PROVE  Leads(RecordReader, ReadState, Reading(rs, <<>>, <<>>, FALSE, FALSE), End,
               Reading(rs, <<>>, <<Dot>>, FALSE, TRUE))
<1> DEFINE s == Reading(rs, <<>>, <<>>, FALSE, FALSE)
           u == Reading(rs, <<>>, <<Dot>>, FALSE, FALSE)
<1>1. /\ Dot \in WChar /\ NL \in WChar /\ <<Dot>> \in WText
      /\ Dot # Back /\ Dot # Colon /\ Dot # NL
  BY WireChars DEF WText, Dot, Back, Colon, NL
<1>2. s \in ReadState /\ u \in ReadState
  <2>1. <<>> \in Seq(WText)
    OBVIOUS
  <2>2. QED
    BY <1>1, <2>1, WireChars, ReadStates
<1>3. ReadChar(s, Dot) = u
  <2>1. ReadChar(Reading(rs, <<>>, <<>>, FALSE, FALSE), Dot)
          = Reading(rs, <<>>, Append(<<>>, Dot), FALSE, FALSE)
    BY <1>1, WireChars, ReadPlain
  <2>2. Append(<<>>, Dot) = <<Dot>>
    OBVIOUS
  <2>3. QED
    BY <2>1, <2>2
<1>4. ReadChar(u, NL) = Reading(rs, <<>>, <<Dot>>, FALSE, TRUE)
  BY ReadEnd
<1> HIDE DEF s, u
<1>5. Leads(RecordReader, ReadState, s, <<Dot>>, u)
  <2>1. RecordReader[<<s, Dot>>] = u
    BY <1>1, <1>2, <1>3, ReaderIs
  <2>2. QED
    BY <1>1, <1>2, <2>1, ReaderType, LeadsOne
<1>6. Leads(RecordReader, ReadState, u, <<NL>>, Reading(rs, <<>>, <<Dot>>, FALSE, TRUE))
  BY <1>1, <1>2, <1>4, ReaderIs, ReaderType, LeadsOne
<1>7. <<Dot>> \in Seq(WChar) /\ <<NL>> \in Seq(WChar)
  BY <1>1
<1>8. Leads(RecordReader, ReadState, s, <<Dot>> \o <<NL>>,
            Reading(rs, <<>>, <<Dot>>, FALSE, TRUE))
  BY <1>5, <1>6, <1>7, LeadsOn
<1>9. <<Dot>> \o <<NL>> = End
  <2>1. <<Dot>> \o <<NL>> = <<Dot, NL>>
    BY <1>1, Pair
  <2>2. QED
    BY <2>1 DEF End
<1>10. QED
  BY <1>8, <1>9 DEF s

(* What the reader's state is behind the output.                           *)
LEMMA ReadRecordsIs ==
  ASSUME NEW text \in WText, NEW u, Leads(RecordReader, ReadState, NoRecords, text, u)
  PROVE  ReadRecords(text) = u.records
<1> DEFINE N == Len(text)
           P(f) == f = [n \in 0 .. N |-> IF n = 0 THEN NoRecords
                                         ELSE ReadChar(f[n - 1], text[n])]
           after == CHOOSE f : P(f)
<1>1. N \in Nat /\ \A n \in 1 .. N : text[n] \in WChar
  BY DEF WText
<1> HIDE DEF N
<1>2. PICK f \in [0 .. N -> ReadState] : Scans(f, RecordReader, NoRecords, text) /\ f[N] = u
  BY DEF Leads, N
<1>3. f[0] = NoRecords
  BY <1>2 DEF Scans
<1>4. ASSUME NEW n \in 1 .. N PROVE f[n] = ReadChar(f[n - 1], text[n])
  <2>1. n - 1 \in 0 .. N
    BY <1>1
  <2>2. f[n] = RecordReader[<<f[n - 1], text[n]>>] /\ f[n - 1] \in ReadState /\ text[n] \in WChar
    BY <1>1, <1>2, <2>1 DEF Scans, N
  <2>3. QED
    BY <2>2 DEF RecordReader
<1>5. P(f)
  <2>1. ASSUME NEW n \in 0 .. N
        PROVE  f[n] = IF n = 0 THEN NoRecords ELSE ReadChar(f[n - 1], text[n])
    <3>1. CASE n = 0
      BY <1>3, <3>1
    <3>2. CASE n # 0
      <4>1. n \in 1 .. N
        BY <1>1, <3>2
      <4>2. QED
        BY <1>4, <3>2, <4>1
    <3>3. QED
      BY <3>1, <3>2
  <2>2. QED
    BY <2>1
<1>6. P(after)
  <2> HIDE DEF P
  <2>1. QED
    BY <1>5
<1>7. \A n \in 0 .. N : after[n] = IF n = 0 THEN NoRecords
                                   ELSE ReadChar(after[n - 1], text[n])
  <2>1. ASSUME NEW h, P(h)
        PROVE  \A n \in 0 .. N : h[n] = IF n = 0 THEN NoRecords
                                        ELSE ReadChar(h[n - 1], text[n])
    BY <2>1
  <2> HIDE DEF P, after
  <2>2. QED
    BY <1>6, <2>1
<1>8. ReadRecords(text) = after[N].records
  BY DEF ReadRecords, N
<1> HIDE DEF P, after
<1> DEFINE T == {n \in 0 .. N : after[n] = f[n]}
<1>9. 0 \in T
  BY <1>1, <1>3, <1>7
<1>10. ASSUME NEW n \in 0 .. N, n < N, n \in T PROVE n + 1 \in T
  <2>1. n + 1 \in 1 .. N /\ n + 1 \in 0 .. N /\ (n + 1) - 1 = n /\ n + 1 # 0
    BY <1>1, <1>10
  <2>2. after[n + 1] = ReadChar(after[n], text[n + 1])
    BY <1>7, <2>1
  <2>3. f[n + 1] = ReadChar(f[n], text[n + 1])
    BY <1>4, <2>1
  <2>4. QED
    BY <1>10, <2>1, <2>2, <2>3
<1>11. N \in T
  <2> HIDE DEF T
  <2>1. 0 .. N \subseteq T
    BY <1>1, <1>9, <1>10, Induction
  <2>2. QED
    BY <1>1, <2>1
<1>12. QED
  BY <1>2, <1>8, <1>11

LEMMA EndText ==
  /\ End \in Seq(WChar) /\ Len(End) = 2
  /\ End[1] = Dot /\ End[2] = NL
<1>1. ASSUME NEW c \in WChar, NEW d \in WChar
      PROVE  <<c, d>> \in Seq(WChar) /\ Len(<<c, d>>) = 2 /\ <<c, d>>[1] = c /\ <<c, d>>[2] = d
  OBVIOUS
<1>2. QED
  BY <1>1, WireChars DEF End

LEMMA RecordsReadBack ==
  ASSUME NEW rs \in Seq(Seq(WText)), Meant(rs)
  PROVE  ReadRecords(AllPrinted(rs) \o End) = rs
<1> DEFINE from == Reading(<<>>, <<>>, <<>>, FALSE, FALSE)
           text == AllPrinted(rs)
           to == Reading(rs, <<>>, <<Dot>>, FALSE, TRUE)
<1>1. text \in Seq(WChar) /\ End \in Seq(WChar)
  BY RecordsLead, EndText
<1>2. Leads(RecordReader, ReadState, from, text, Reading(rs, <<>>, <<>>, FALSE, FALSE))
  BY RecordsLead
<1>3. Leads(RecordReader, ReadState, Reading(rs, <<>>, <<>>, FALSE, FALSE), End, to)
  BY EndLeads
<1>4. from = NoRecords
  BY DEF Reading, NoRecords
<1>5. to.records = rs
  BY DEF Reading
<1> HIDE DEF from, text, to
<1>6. Leads(RecordReader, ReadState, from, text \o End, to)
  BY <1>1, <1>2, <1>3, LeadsOn
<1>7. text \o End \in WText
  BY <1>1 DEF WText
<1>8. ReadRecords(text \o End) = to.records
  BY <1>4, <1>6, <1>7, ReadRecordsIs
<1>9. QED
  BY <1>5, <1>8 DEF text

LEMMA DotOnly ==
  ASSUME NEW r \in Seq(WText), r # <<>>, Body(r) = <<Dot>>
  PROVE  r = << <<Dot>> >>
<1>1. /\ Dot \in WChar /\ <<Dot>> \in WText /\ <<>> \in Seq(WText)
      /\ Dot # Back /\ Dot # Colon
  BY WireChars DEF WText, Dot, Back, Colon
<1>2. Split(<<Dot>>) = r
  <2>1. <<Dot>> # <<>>
    OBVIOUS
  <2>2. QED
    BY <2>1, SplitBack
<1> DEFINE s == ArgsWith(<<>>, <<>>, FALSE)
           u == ArgsWith(<<>>, <<Dot>>, FALSE)
<1>3. s \in SplitState /\ Splitter[<<s, Dot>>] = u /\ s = NoArgs
  <2>1. Append(<<>>, Dot) = <<Dot>>
    OBVIOUS
  <2>2. Splitter[<<s, Dot>>] = ArgsWith(<<>>, Append(<<>>, Dot), FALSE)
    BY <1>1, WireChars, SplitterSteps
  <2>3. s \in SplitState
    BY <1>1, WireChars, SplitterSteps
  <2>4. s = NoArgs
    BY DEF ArgsWith, NoArgs
  <2>5. QED
    BY <2>1, <2>2, <2>3, <2>4
<1>4. u.list = <<>> /\ u.text = <<Dot>>
  BY DEF ArgsWith
<1> HIDE DEF s, u
<1>5. Leads(Splitter, SplitState, s, <<Dot>>, u)
  BY <1>1, <1>3, SplitterType, LeadsOne
<1>6. Scanned(<<Dot>>) = u
  BY <1>1, <1>3, <1>5, ScannedIs
<1>7. Split(<<Dot>>) = Append(<<>>, <<Dot>>)
  BY <1>4, <1>6 DEF Split
<1>8. QED
  BY <1>2, <1>7
------------------------------------------------------------------------------
(* Output without a line that is a single dot, up to the end of a line.    *)
Clean(x) ==
  /\ x # <<>> => x[Len(x)] = NL
  /\ \A i \in 1 .. Len(x) : ~ EndsAt(x, i)

LEMMA CleanJoin ==
  ASSUME NEW S, NEW x \in Seq(S), NEW y \in Seq(S), x # <<>>, Clean(x), Clean(y)
  PROVE  Clean(x \o y)
<1> DEFINE M == Len(x)
           N == Len(y)
           z == x \o y
<1>1. /\ M \in Nat \ {0} /\ N \in Nat /\ Len(z) = M + N
      /\ \A i \in 1 .. M : z[i] = x[i]
      /\ \A k \in 1 .. N : z[M + k] = y[k]
  OBVIOUS
<1>2. x[M] = NL /\ NL # Dot
  BY DEF Clean, NL, Dot
<1>3. z[Len(z)] = NL
  <2>1. CASE N = 0
    <3> HIDE DEF z, M, N
    <3>1. M \in 1 .. M /\ Len(z) = M
      BY <1>1, <2>1
    <3>2. QED
      BY <1>1, <1>2, <3>1
  <2>2. CASE N # 0
    <3>1. y # <<>>
      BY <2>2
    <3>2. y[N] = NL
      BY <3>1 DEF Clean
    <3> HIDE DEF z, M, N
    <3>3. N \in 1 .. N
      BY <1>1, <2>2
    <3>4. QED
      BY <1>1, <3>2, <3>3
  <2>3. QED
    BY <2>1, <2>2
<1>4. ASSUME NEW i \in 1 .. M + N PROVE ~ EndsAt(z, i)
  <2> SUFFICES ASSUME EndsAt(z, i) PROVE FALSE
    OBVIOUS
  <2>1. z[i] = NL /\ i > 1 /\ z[i - 1] = Dot /\ (i = 2 \/ z[i - 2] = NL)
    BY DEF EndsAt
  <2> HIDE DEF z
  <2>2. CASE i <= M
    <3>1. ~ EndsAt(x, i)
      BY <1>1, <2>2 DEF Clean
    <3> HIDE DEF M, N
    <3>2. i \in 1 .. M /\ i - 1 \in 1 .. M /\ (i # 2 => i - 2 \in 1 .. M)
      BY <1>1, <2>1, <2>2
    <3>3. QED
      BY <1>1, <2>1, <3>1, <3>2 DEF EndsAt
  <2>3. CASE i > M
    <3> DEFINE k == i - M
    <3>1. k \in 1 .. N /\ i = M + k
      BY <1>1, <2>3
    <3>2. ~ EndsAt(y, k)
      BY <3>1 DEF Clean
    <3> HIDE DEF M, N, k
    <3>3. k # 1
      <4> SUFFICES ASSUME k = 1 PROVE FALSE
        OBVIOUS
      <4>1. i - 1 = M /\ M \in 1 .. M
        BY <1>1, <3>1
      <4>2. QED
        BY <1>1, <1>2, <2>1, <4>1
    <3>4. k - 1 \in 1 .. N /\ i - 1 = M + (k - 1) /\ i # 2
      BY <1>1, <3>1, <3>3
    <3>5. k # 2 => k - 2 \in 1 .. N /\ i - 2 = M + (k - 2)
      BY <1>1, <3>1, <3>3
    <3>6. y[k] = NL /\ k > 1 /\ y[k - 1] = Dot
      BY <1>1, <2>1, <3>1, <3>3, <3>4
    <3>7. k # 2 => y[k - 2] = NL
      BY <1>1, <2>1, <3>4, <3>5
    <3>8. QED
      BY <3>2, <3>6, <3>7 DEF EndsAt
  <2>4. QED
    BY <1>1, <2>2, <2>3
<1>5. QED
  BY <1>1, <1>3, <1>4 DEF Clean

(* The queue cuts such an output where the server ends it.                 *)
LEMMA CutAtEnd ==
  ASSUME NEW S, NEW x \in Seq(S), x # <<>>, Clean(x), End \in Seq(S)
  PROVE  AnswerEnd(x \o End) = Len(x) + 2 /\ Len(x \o End) = Len(x) + 2
<1> DEFINE M == Len(x)
           z == x \o End
           ends == {i \in DOMAIN z : EndsAt(z, i)}
<1>1. Len(End) = 2 /\ End[1] = Dot /\ End[2] = NL
  BY EndText
<1>2. /\ M \in Nat \ {0} /\ Len(z) = M + 2 /\ DOMAIN z = 1 .. M + 2
      /\ \A i \in 1 .. M : z[i] = x[i]
      /\ z[M + 1] = Dot /\ z[M + 2] = NL
  <2>1. ASSUME NEW y \in Seq(S)
        PROVE  /\ Len(x) \in Nat \ {0} /\ Len(x \o y) = Len(x) + Len(y)
               /\ \A i \in 1 .. Len(x) : (x \o y)[i] = x[i]
               /\ \A k \in 1 .. Len(y) : (x \o y)[Len(x) + k] = y[k]
    OBVIOUS
  <2>2. M \in Nat \ {0} /\ Len(z) = M + 2 /\ \A i \in 1 .. M : z[i] = x[i]
    BY <1>1, <2>1
  <2>3. \A k \in 1 .. 2 : z[M + k] = End[k]
    BY <1>1, <2>1
  <2>4. DOMAIN z = 1 .. Len(z)
    OBVIOUS
  <2> HIDE DEF z, M
  <2>5. z[M + 1] = End[1] /\ z[M + 2] = End[2]
    BY <2>3
  <2>6. QED
    BY <1>1, <2>2, <2>4, <2>5
<1>3. x[M] = NL /\ NL # Dot
  BY DEF Clean, NL, Dot
<1>4. ASSUME NEW i \in 1 .. M PROVE ~ EndsAt(z, i)
  <2>1. ~ EndsAt(x, i)
    BY DEF Clean
  <2> HIDE DEF M, z
  <2>2. i > 1 => i - 1 \in 1 .. M /\ (i # 2 => i - 2 \in 1 .. M)
    BY <1>2
  <2>3. QED
    BY <1>2, <2>1, <2>2 DEF EndsAt
<1> HIDE DEF M, z
<1>5. ~ EndsAt(z, M + 1)
  BY <1>2, <1>3 DEF EndsAt
<1>6. EndsAt(z, M + 2)
  <2>1. M \in 1 .. M /\ (M + 2) - 1 = M + 1 /\ (M + 2) - 2 = M /\ M + 2 > 1
    BY <1>2
  <2>2. z[M] = NL
    BY <1>2, <1>3, <2>1 DEF M
  <2>3. QED
    BY <1>2, <2>1, <2>2 DEF EndsAt
<1>7. ends = {M + 2}
  <2>1. \A i \in 1 .. M + 2 : i \in 1 .. M \/ i = M + 1 \/ i = M + 2
    BY <1>2
  <2>2. M + 2 \in 1 .. M + 2
    BY <1>2
  <2>3. QED
    BY <1>2, <1>4, <1>5, <1>6, <2>1, <2>2
<1>8. AnswerEnd(z) = M + 2
  <2>1. AnswerEnd(z) = IF ends = {} THEN 0
                            ELSE CHOOSE i \in ends : \A j \in ends : i <= j
    BY DEF AnswerEnd
  <2> HIDE DEF ends
  <2>2. (CHOOSE i \in ends : \A j \in ends : i <= j) = M + 2
    BY <1>2, <1>7
  <2>3. QED
    BY <1>7, <2>1, <2>2
<1>9. QED
  BY <1>2, <1>8 DEF M, z

LEMMA BehindStart ==
  ASSUME NEW S, NEW b \in Seq(S), NEW w \in Seq(S), b # <<>>
  PROVE  /\ b \o w \in Seq(S) /\ b \o w # <<>> /\ (b \o w)[1] = b[1]
         /\ SubSeq(b \o w, Len(b) + 1, Len(b \o w)) = w
<1> DEFINE x == b \o w
           y == SubSeq(x, Len(b) + 1, Len(x))
<1>1. /\ x \in Seq(S) /\ Len(x) = Len(b) + Len(w) /\ Len(b) \in Nat /\ Len(b) > 0
      /\ Len(w) \in Nat /\ x[1] = b[1] /\ \A k \in 1 .. Len(w) : x[Len(b) + k] = w[k]
  OBVIOUS
<1> HIDE DEF x
<1>2. y \in Seq(S) /\ Len(y) = Len(w) /\ \A k \in 1 .. Len(w) : y[k] = x[Len(b) + k]
  BY <1>1
<1>3. x # <<>>
  BY <1>1
<1> HIDE DEF y
<1>4. y = w
  BY <1>1, <1>2
<1>5. QED
  BY <1>1, <1>3, <1>4 DEF y, x

LEMMA RecordClean ==
  ASSUME NEW r \in Seq(WText), r # <<>>, r # << <<Dot>> >>
  PROVE  Clean(PrintRecord(r))
<1> DEFINE b == Body(r)
           N == Len(b)
           x == Append(b, NL)
<1>1. b \in Seq(Plain)
  BY BodyPlain
<1>2. b # <<Dot>>
  BY DotOnly
<1>3. PrintRecord(r) = x
  BY RecordPrinted
<1> HIDE DEF b
<1>4. /\ N \in Nat /\ Len(x) = N + 1 /\ x[N + 1] = NL
      /\ \A i \in 1 .. N : x[i] = b[i] /\ b[i] # NL
  BY <1>1 DEF Plain
<1>5. N # 1 \/ b[1] # Dot
  <2> SUFFICES ASSUME N = 1, b[1] = Dot PROVE FALSE
    OBVIOUS
  <2>1. b = <<b[1]>>
    BY <1>1
  <2>2. QED
    BY <1>2, <2>1
<1> HIDE DEF x, N
<1>6. ASSUME NEW i \in 1 .. N + 1 PROVE ~ EndsAt(x, i)
  <2> SUFFICES ASSUME EndsAt(x, i) PROVE FALSE
    OBVIOUS
  <2>1. x[i] = NL /\ i > 1 /\ x[i - 1] = Dot /\ (i = 2 \/ x[i - 2] = NL)
    BY DEF EndsAt
  <2>2. i = N + 1
    BY <1>4, <2>1
  <2>3. N >= 1 /\ i - 1 = N /\ N \in 1 .. N
    BY <1>4, <2>1, <2>2
  <2>4. b[N] = Dot
    BY <1>4, <2>1, <2>3
  <2>5. i # 2 => i - 2 \in 1 .. N
    BY <1>4, <2>1, <2>2
  <2>6. i = 2
    BY <1>4, <2>1, <2>5
  <2>7. N = 1
    BY <1>4, <2>2, <2>6
  <2>8. QED
    BY <1>5, <2>4, <2>7
<1>7. x # <<>> => x[Len(x)] = NL
  BY <1>4
<1>8. QED
  BY <1>3, <1>4, <1>6, <1>7 DEF Clean

LEMMA BeginText ==
  /\ OkLine \in Seq(WChar) /\ <<"ERR", NL>> \in Seq(WChar)
  /\ Clean(OkLine) /\ Clean(<<"ERR", NL>>)
<1>1. {"OK", "ERR", NL} \subseteq WChar /\ "OK" # Dot /\ "ERR" # Dot
      /\ "OK" # NL /\ "ERR" # NL
  BY DEF WChar, Dot, NL
<1>2. ASSUME NEW c \in WChar, c # Dot, c # NL
      PROVE  <<c, NL>> \in Seq(WChar) /\ Clean(<<c, NL>>)
  <2> DEFINE x == <<c, NL>>
  <2>1. x \in Seq(WChar) /\ Len(x) = 2 /\ x[1] = c /\ x[2] = NL
    BY <1>1
  <2> HIDE DEF x
  <2>2. ~ EndsAt(x, 1) /\ ~ EndsAt(x, 2)
    BY <1>2, <2>1 DEF EndsAt
  <2>3. \A i \in 1 .. 2 : i = 1 \/ i = 2
    OBVIOUS
  <2>4. Clean(x)
    BY <2>1, <2>2, <2>3 DEF Clean
  <2>5. QED
    BY <2>1, <2>4 DEF x
<1>3. QED
  BY <1>1, <1>2 DEF OkLine

LEMMA RecordsClean ==
  ASSUME NEW rs \in Seq(Seq(WText)), Meant(rs)
  PROVE  Clean(OkLine \o AllPrinted(rs))
<1> DEFINE N == Len(rs)
           ss == [i \in DOMAIN rs |-> PrintRecord(rs[i])]
<1>1. N \in Nat /\ DOMAIN rs = 1 .. N
  OBVIOUS
<1>2. ss \in Seq(Seq(WChar)) /\ Len(ss) = N
  <2>1. ss \in Seq(Seq(WChar)) /\ DOMAIN ss = 1 .. N
    BY <1>1, PrintedRecords
  <2> HIDE DEF ss, N
  <2>2. QED
    BY <1>1, <2>1
<1>3. ASSUME NEW i \in 1 .. N PROVE ss[i] \in Seq(WChar) /\ Clean(ss[i])
  <2>1. rs[i] \in Seq(WText) /\ rs[i] # <<>> /\ rs[i] # << <<Dot>> >>
    BY DEF Meant
  <2>2. ss[i] = PrintRecord(rs[i])
    BY <1>1
  <2> HIDE DEF ss, N
  <2>3. QED
    BY <2>1, <2>2, RecordClean, RecordPrinted
<1> HIDE DEF ss, N
<1>4. PICK f \in [0 .. N -> Seq(WChar)] :
        /\ f[0] = <<>> /\ \A n \in 1 .. N : f[n] = f[n - 1] \o ss[n]
        /\ FlattenSeq(ss) = f[N]
  BY <1>2, FlattenSteps
<1> DEFINE T == {n \in 0 .. N : Clean(OkLine \o f[n])}
<1>5. 0 \in T
  <2>1. ASSUME NEW b \in Seq(WChar) PROVE b \o <<>> = b
    OBVIOUS
  <2>2. Clean(OkLine \o f[0])
    BY <1>4, <2>1, BeginText
  <2>3. QED
    BY <1>1, <2>2
<1>6. ASSUME NEW n \in 0 .. N, n < N, n \in T PROVE n + 1 \in T
  <2>1. n + 1 \in 1 .. N /\ (n + 1) - 1 = n /\ n + 1 \in 0 .. N
    BY <1>1, <1>6
  <2> DEFINE x == OkLine \o f[n]
             y == ss[n + 1]
  <2>2. f[n + 1] = f[n] \o y /\ f[n] \in Seq(WChar) /\ y \in Seq(WChar) /\ Clean(y)
    BY <1>3, <1>4, <2>1
  <2>3. x \in Seq(WChar) /\ OkLine \o (f[n] \o y) = x \o y /\ x # <<>>
    <3>1. OkLine # <<>>
      BY DEF OkLine
    <3> HIDE DEF y
    <3>2. OkLine \o (f[n] \o y) = x \o y
      BY <2>2, BeginText
    <3>3. QED
      BY <2>2, <3>1, <3>2, BeginText, BehindStart
  <2>5. Clean(x)
    BY <1>6
  <2> HIDE DEF x, y
  <2>6. Clean(x \o y)
    BY <2>2, <2>3, <2>5, CleanJoin
  <2>7. QED
    BY <2>1, <2>2, <2>3, <2>6
<1>7. N \in T
  <2> HIDE DEF T
  <2>1. 0 .. N \subseteq T
    BY <1>1, <1>5, <1>6, Induction
  <2>2. QED
    BY <1>1, <2>1
<1>8. QED
  BY <1>4, <1>7 DEF AllPrinted, ss

(* What the client makes of an answer is what the server meant.            *)
Returned(a) ==
  LET text == Printed(a)
  IN /\ AnswerEnd(text) = Len(text)
     /\ ParseResponse(SubSeq(text, 1, AnswerEnd(text))) = a

LEMMA RecordsReturned ==
  ASSUME NEW rs \in Seq(Seq(WText)), Meant(rs) PROVE Returned(Records(rs))
<1> DEFINE x == OkLine \o AllPrinted(rs)
           text == x \o End
<1>1. AllPrinted(rs) \in Seq(WChar) /\ OkLine \in Seq(WChar) /\ End \in Seq(WChar)
  BY RecordsLead, BeginText, EndText
<1>2. Len(OkLine) = 2 /\ OkLine[1] = "OK"
  BY DEF OkLine
<1>3. x \in Seq(WChar) /\ x # <<>> /\ text \in Seq(WChar)
  <2>1. OkLine # <<>>
    BY DEF OkLine
  <2>2. QED
    BY <1>1, <2>1, BehindStart
<1>4. Printed(Records(rs)) = text
  BY DEF Printed, Records, AllPrinted
<1>5. AnswerEnd(text) = Len(text)
  <2>1. Clean(x)
    BY RecordsClean
  <2> HIDE DEF x
  <2>2. QED
    BY <1>1, <1>3, <2>1, CutAtEnd
<1>6. SubSeq(text, 1, Len(text)) = text
  BY <1>3
<1>7. text[1] = "OK" /\ SubSeq(text, 3, Len(text)) = AllPrinted(rs) \o End
  <2> DEFINE rest == AllPrinted(rs) \o End
  <2>1. OkLine # <<>> /\ rest \in Seq(WChar) /\ text = OkLine \o rest
    <3>1. OkLine # <<>>
      BY DEF OkLine
    <3>2. rest \in Seq(WChar)
      BY <1>1
    <3>3. text = OkLine \o rest
      BY <1>1, ConcatAssociative
    <3>4. QED
      BY <3>1, <3>2, <3>3
  <2> HIDE DEF rest, text
  <2>2. SubSeq(text, Len(OkLine) + 1, Len(text)) = rest /\ text[1] = OkLine[1]
    BY <1>1, <2>1, BehindStart
  <2>3. QED
    BY <1>2, <2>2 DEF rest
<1> HIDE DEF text, x
<1>8. ParseResponse(text) = Records(rs)
  <2>1. ParseResponse(text) = Records(ReadRecords(SubSeq(text, 3, Len(text))))
    BY <1>7 DEF ParseResponse
  <2>2. QED
    BY <1>7, <2>1, RecordsReadBack
<1>9. QED
  BY <1>4, <1>5, <1>6, <1>8 DEF Returned

LEMMA MessageReturned ==
  ASSUME NEW t \in WText, ~ LooksEnded([kind |-> "error", text |-> t])
  PROVE  Returned([kind |-> "error", text |-> t])
<1> DEFINE a == [kind |-> "error", text |-> t]
           y == t \o <<NL>>
           x == <<"ERR", NL>> \o y
           text == x \o End
<1>1. t \in Seq(WChar) /\ <<NL>> \in Seq(WChar) /\ End \in Seq(WChar)
      /\ <<"ERR", NL>> \in Seq(WChar)
  BY WireChars, BeginText, EndText DEF WText
<1>2. y \in Seq(WChar) /\ y # <<>> /\ y[Len(y)] = NL /\ Len(y) = Len(t) + 1
      /\ x \in Seq(WChar) /\ x # <<>> /\ text \in Seq(WChar)
  BY <1>1
<1>3. Printed(a) = text
  <2>1. Printed(a) = <<"ERR", NL>> \o t \o <<NL>> \o End
    BY DEF Printed
  <2>2. <<"ERR", NL>> \o t \o <<NL>> = x
    BY <1>1
  <2>3. QED
    BY <2>1, <2>2
<1>4. Clean(y)
  <2> DEFINE ends == {i \in DOMAIN y : EndsAt(y, i)}
  <2>1. ~ AnswerEnd(y) > 0
    BY DEF LooksEnded
  <2>2. DOMAIN y = 1 .. Len(y)
    BY <1>2
  <2>3. ends = {}
    <3> SUFFICES ASSUME ends # {} PROVE FALSE
      OBVIOUS
    <3>1. \A i \in ends : i > 0 /\ i \in Nat
      BY <1>2, <2>2
    <3>2. AnswerEnd(y) = CHOOSE i \in ends : \A j \in ends : i <= j
      BY DEF AnswerEnd
    <3> HIDE DEF ends, y
    <3>3. \E i \in ends : \A j \in ends : i <= j
      BY <3>1, Least
    <3>4. AnswerEnd(y) \in ends
      BY <3>2, <3>3
    <3>5. QED
      BY <2>1, <3>1, <3>4
  <2>4. \A i \in 1 .. Len(y) : ~ EndsAt(y, i)
    BY <2>2, <2>3
  <2> HIDE DEF y
  <2>5. QED
    BY <1>2, <2>4 DEF Clean
<1>5. Len(<<"ERR", NL>>) = 2 /\ <<"ERR", NL>>[1] = "ERR" /\ <<"ERR", NL>> # <<>>
  OBVIOUS
<1>6. AnswerEnd(text) = Len(text) /\ AnswerEnd(y \o End) = Len(t) + 3
  <2> HIDE DEF y
  <2>1. Clean(x)
    BY <1>1, <1>2, <1>4, <1>5, BeginText, CleanJoin
  <2> HIDE DEF x
  <2>2. AnswerEnd(text) = Len(text)
    BY <1>1, <1>2, <2>1, CutAtEnd
  <2>3. AnswerEnd(y \o End) = Len(y) + 2
    BY <1>1, <1>2, <1>4, CutAtEnd
  <2>4. Len(t) \in Nat
    BY <1>1
  <2>5. QED
    BY <1>2, <2>2, <2>3, <2>4
<1>7. SubSeq(text, 1, Len(text)) = text
  BY <1>2
<1>8. text[1] = "ERR" /\ SubSeq(text, 3, Len(text)) = y \o End
  <2> HIDE DEF y
  <2> DEFINE b == <<"ERR", NL>>
             rest == y \o End
  <2>1. b \in Seq(WChar) /\ b # <<>> /\ Len(b) = 2 /\ b[1] = "ERR"
    BY <1>1, <1>5
  <2>2. rest \in Seq(WChar) /\ text = b \o rest
    BY <1>1, <1>2, <2>1
  <2> HIDE DEF b, text, rest
  <2>3. SubSeq(text, Len(b) + 1, Len(text)) = rest /\ text[1] = b[1]
    BY <2>1, <2>2, BehindStart
  <2>4. QED
    BY <2>1, <2>3 DEF rest
<1>9. SubSeq(y \o End, 1, Len(t)) = t
  BY <1>1
<1> HIDE DEF text, x, y
<1>10. ParseResponse(text) = a
  <2>1. ParseResponse(text)
          = [kind |-> "error",
             text |-> SubSeq(y \o End, 1, AnswerEnd(y \o End) - 3)]
    BY <1>8 DEF ParseResponse
  <2>2. (Len(t) + 3) - 3 = Len(t)
    BY <1>1
  <2>3. QED
    BY <1>6, <1>9, <2>1, <2>2
<1>11. QED
  BY <1>3, <1>6, <1>7, <1>10 DEF Returned

(* What a server answers: records of at least one field, or a message.     *)
IsAnswer(a) ==
  \/ \E rs \in Seq(Seq(WText)) : /\ a = Records(rs)
                                 /\ \A i \in 1 .. Len(rs) : rs[i] # <<>>
  \/ \E t \in WText : a = [kind |-> "error", text |-> t]

LEMMA AnswerReturned ==
  ASSUME NEW a, IsAnswer(a), ~ LooksEnded(a) PROVE Returned(a)
<1>1. ASSUME NEW rs \in Seq(Seq(WText)), a = Records(rs),
             \A i \in 1 .. Len(rs) : rs[i] # <<>>
      PROVE  Returned(a)
  <2>1. a.kind = "ok" /\ a.records = rs /\ DOMAIN rs = 1 .. Len(rs)
    BY <1>1 DEF Records
  <2>2. ~ \E i \in DOMAIN a.records : a.records[i] = << <<Dot>> >>
    BY <2>1 DEF LooksEnded
  <2>3. Meant(rs)
    BY <1>1, <2>1, <2>2 DEF Meant
  <2>4. QED
    BY <1>1, <2>3, RecordsReturned
<1>2. QED
  BY <1>1, MessageReturned DEF IsAnswer

LEMMA Messages ==
  ASSUME NEW t \in WText PROVE IsAnswer(Message(t))
<1>1. <<"message">> \in Seq(WChar)
  BY DEF WChar
<1>2. <<"message">> \o t \in WText
  BY <1>1 DEF WText
<1>3. QED
  BY <1>2 DEF IsAnswer, Message

IsQuery(q) == q \in Seq(WText) /\ q # <<>>

(* The arguments the server has are those that were sent.                  *)
LEMMA ArgumentsArrive ==
  ASSUME NEW q, IsQuery(q), FirstLine(QueryLine(q)) # <<>>
  PROVE  Split(FirstLine(QueryLine(q))) = q
<1>1. QueryLine(q) = Append(Body(q), NL)
  BY DEF QueryLine, Body
<1>2. FirstLine(QueryLine(q)) = Body(q)
  BY <1>1, BodyPlain, FirstIsBody DEF IsQuery
<1>3. QED
  BY <1>2, SplitBack DEF IsQuery
------------------------------------------------------------------------------
(***************************************************************************)
(* Rendering: colours, boxes and crops, for pages of any size, any         *)
(* pictures and any number of arguments.                                   *)
(***************************************************************************)
(* The sizes that the constants stand for.                                 *)
RenderSizes ==
  /\ PageWidth \in Nat \ {0} /\ PageHeight \in Nat \ {0}
  /\ Widths \subseteq Nat \ {0} /\ MaxCommands \in Nat
------------------------------------------------------------------------------
(* Rounding errs by half place most.                                          *)
LEMMA Rounding ==
  ASSUME NEW n \in Int, NEW d \in Nat \ {0}
  PROVE  /\ Round(n, d) \in Int
         /\ 2 * d * Round(n, d) <= 2 * n + d
         /\ 2 * n + d < 2 * d * Round(n, d) + 2 * d
<1> DEFINE a == 2 * n + d
           b == 2 * d
<1>1. a \in Int /\ b \in Nat \ {0}
  OBVIOUS
<1> HIDE DEF a, b
<1>2. a \div b \in Int /\ b * (a \div b) <= a /\ a < b * (a \div b) + b
  BY <1>1
<1>3. QED
  BY <1>2 DEF Round, a, b

(* Rows and columns from the place of a pixel.                             *)
PlaceOf(x, y) == (y - 1) * PageWidth + x

LEMMA PixelPlace ==
  ASSUME RenderSizes, NEW x \in 1 .. PageWidth, NEW y \in Nat \ {0}
  PROVE  /\ 1 + ((PlaceOf(x, y) - 1) % PageWidth) = x
         /\ 1 + ((PlaceOf(x, y) - 1) \div PageWidth) = y
<1> DEFINE w == PageWidth
<1>w. w \in Nat \ {0} /\ x \in 1 .. w /\ y \in Nat \ {0}
  BY DEF RenderSizes
<1> HIDE DEF w
<1> DEFINE i == PlaceOf(x, y)
           m == (y - 1) * w + x - 1
           q == m \div w
<1>0. m = i - 1 /\ i \in Int
  <2>1. i = (y - 1) * w + x
    BY DEF PlaceOf, w
  <2> HIDE DEF i
  <2>2. QED
    BY <1>w, <2>1
<1>1. m \in Int /\ q \in Int /\ w * q <= m /\ m < w * q + w
  <2> HIDE DEF m
  <2>1. m \in Int
    BY <1>w DEF m
  <2>2. QED
    BY <1>w, <2>1
<1>2. q = y - 1
  <2> HIDE DEF q
  <2> DEFINE u == w * q
             v == w * (y - 1)
  <2>1. u \in Int /\ v \in Int /\ m = v + x - 1
    BY <1>w, <1>1
  <2>2. u < v + w /\ v < u + w
    <3>1. u <= m /\ m < u + w
      BY <1>w, <1>1
    <3> HIDE DEF u, v, m
    <3>2. QED
      BY <1>w, <2>1, <3>1
  <2> DEFINE d == q - (y - 1)
  <2>3. d \in Int /\ w * d < w /\ 0 - w < w * d
    <3>1. d \in Int /\ w * d = u - v
      BY <1>w, <1>1
    <3> HIDE DEF u, v
    <3>2. QED
      BY <1>w, <2>1, <2>2, <3>1
  <2>4. d = 0
    <3> HIDE DEF d
    <3>1. d >= 1 => w * d >= w
      BY <1>w, <2>3
    <3>2. d <= -1 => w * d <= 0 - w
      BY <1>w, <2>3
    <3>3. QED
      BY <1>w, <2>3, <3>1, <3>2
  <2>5. QED
    BY <1>w, <1>1, <2>4
<1>3. m % w = x - 1
  <2>1. m % w = m - w * q
    BY <1>w, <1>1
  <2>2. QED
    BY <1>w, <1>2, <2>1
<1>4. QED
  <2> HIDE DEF m, i
  <2>1. 1 + ((i - 1) % w) = x /\ 1 + ((i - 1) \div w) = y
    BY <1>w, <1>0, <1>1, <1>2, <1>3
  <2>2. QED
    BY <2>1 DEF i, w
------------------------------------------------------------------------------
(* The unit is a power of four, twice.                                     *)
LEMMA ScaleSteps ==
  ASSUME MaxCommands \in Nat
  PROVE  /\ Scale \in [0 .. MaxCommands -> Nat \ {0}]
         /\ Scale[0] = 2 /\ \A n \in 1 .. MaxCommands : Scale[n] = 4 * Scale[n - 1]
<1> DEFINE N == MaxCommands
           P(f) == f = [n \in 0 .. N |-> IF n = 0 THEN 2 ELSE 4 * f[n - 1]]
           G == [y \in Nat \X (1 .. N) |-> 4 * y[1]]
<1>1. N \in Nat /\ G \in [Nat \X (1 .. N) -> Nat] /\ 2 \in Nat
  OBVIOUS
<1>2. PICK h \in [0 .. N -> Nat] : Computes(h, N, 2, G)
  <2> HIDE DEF G, N
  <2>1. QED
    BY <1>1, Recursion
<1>3. ASSUME NEW n \in 1 .. N PROVE h[n] = 4 * h[n - 1]
  <2>1. <<h[n - 1], n>> \in Nat \X (1 .. N)
    BY <1>1
  <2>2. h[n] = G[<<h[n - 1], n>>]
    BY <1>2 DEF Computes
  <2> HIDE DEF N
  <2>3. QED
    BY <2>1, <2>2
<1>4. P(h)
  <2>1. h[0] = 2
    BY <1>2 DEF Computes
  <2>2. ASSUME NEW n \in 0 .. N
        PROVE  h[n] = IF n = 0 THEN 2 ELSE 4 * h[n - 1]
    <3>1. n = 0 \/ n \in 1 .. N
      BY <1>1
    <3> HIDE DEF N, G
    <3>2. QED
      BY <1>3, <2>1, <3>1
  <2> HIDE DEF N, G
  <2>3. QED
    BY <2>2
<1>5. P(Scale)
  <2>1. Scale = CHOOSE f : P(f)
    BY DEF Scale
  <2> HIDE DEF P
  <2>2. QED
    BY <1>4, <2>1
<1>6. Scale[0] = 2 /\ \A n \in 1 .. N : Scale[n] = 4 * Scale[n - 1]
  <2> HIDE DEF N
  <2>1. 0 \in 0 .. N /\ \A n \in 1 .. N : n \in 0 .. N /\ n # 0
    BY <1>1
  <2>2. ASSUME NEW f, P(f)
        PROVE  f[0] = 2 /\ \A n \in 1 .. N : f[n] = 4 * f[n - 1]
    BY <2>1, <2>2
  <2> HIDE DEF P
  <2>3. QED
    BY <1>5, <2>2
<1>7. Scale \in [0 .. N -> Nat \ {0}]
  <2>1. ASSUME NEW f, P(f) PROVE DOMAIN f = 0 .. N /\ f = [n \in 0 .. N |-> f[n]]
    BY <2>1
  <2>2. DOMAIN Scale = 0 .. N /\ Scale = [n \in 0 .. N |-> Scale[n]]
    <3> HIDE DEF P
    <3>1. QED
      BY <1>5, <2>1
  <2> DEFINE T == {n \in 0 .. N : Scale[n] \in Nat \ {0}}
  <2>3. 0 \in T /\ \A n \in 0 .. N : n < N /\ n \in T => n + 1 \in T
    <3>1. 0 \in T
      BY <1>1, <1>6
    <3>2. ASSUME NEW n \in 0 .. N, n < N, n \in T PROVE n + 1 \in T
      <4>1. n + 1 \in 1 .. N /\ n + 1 - 1 = n
        BY <1>1, <3>2
      <4>2. Scale[n + 1] = 4 * Scale[n]
        BY <1>6, <4>1
      <4>3. QED
        BY <3>2, <4>1, <4>2
    <3>3. QED
      BY <3>1, <3>2
  <2>4. 0 .. N \subseteq T
    <3> HIDE DEF T
    <3>1. QED
      BY <1>1, <2>3, Induction
  <2>5. QED
    BY <2>2, <2>4
<1>8. QED
  BY <1>6, <1>7
------------------------------------------------------------------------------
(* The cache of the last colour converted is not seen: each pixel becomes  *)
(* what its colour is converted to.                                        *)
LEMMA InvertedEach ==
  ASSUME NEW C, NEW pixels \in Seq(C), NEW o
  PROVE  /\ Len(Inverted(pixels, o)) = Len(pixels)
         /\ \A i \in 1 .. Len(pixels) : Inverted(pixels, o)[i] = Convert(pixels[i], o)
<1> DEFINE N == Len(pixels)
           D == C \cup {White}
           V == {Convert(g, o) : g \in D}
           X == [from : D, to : V, done : Seq(V)]
           base == [from |-> White, to |-> Convert(White, o), done |-> <<>>]
           P(f) == f = [n \in 0 .. N |-> IF n = 0 THEN base
                                         ELSE Converted(f[n - 1], pixels[n], o)]
           G == [y \in X \X (1 .. N) |-> Converted(y[1], pixels[y[2]], o)]
           seen == CHOOSE f : P(f)
<1>1. N \in Nat /\ base \in X /\ \A n \in 1 .. N : pixels[n] \in D
  BY DEF White
<1>2. ASSUME NEW s \in X, NEW g \in D PROVE Converted(s, g, o) \in X
  <2>1. s.to \in V /\ s.done \in Seq(V) /\ Convert(g, o) \in V
    OBVIOUS
  <2>2. Append(s.done, s.to) \in Seq(V) /\ Append(s.done, Convert(g, o)) \in Seq(V)
    <3> HIDE DEF V
    <3>1. QED
      BY <2>1
  <2> HIDE DEF V, D
  <2>3. [s EXCEPT !.done = Append(@, s.to)] \in X
    BY <2>2
  <2>4. [from |-> g, to |-> Convert(g, o), done |-> Append(s.done, Convert(g, o))] \in X
    BY <2>1, <2>2
  <2>5. QED
    BY <2>3, <2>4 DEF Converted
<1>3. G \in [X \X (1 .. N) -> X]
  <2> HIDE DEF X, N, D
  <2>1. QED
    BY <1>1, <1>2
<1>4. PICK h \in [0 .. N -> X] : Computes(h, N, base, G)
  <2> HIDE DEF G, N, X, base
  <2>1. QED
    BY <1>1, <1>3, Recursion
<1>5. ASSUME NEW n \in 1 .. N PROVE h[n] = Converted(h[n - 1], pixels[n], o)
  <2> HIDE DEF X, base
  <2>1. <<h[n - 1], n>> \in X \X (1 .. N)
    BY <1>1
  <2>2. h[n] = G[<<h[n - 1], n>>]
    BY <1>4 DEF Computes
  <2> HIDE DEF N
  <2>3. QED
    BY <2>1, <2>2
<1>6. P(h)
  <2> HIDE DEF X, base
  <2>1. h[0] = base
    BY <1>4 DEF Computes
  <2>2. ASSUME NEW n \in 0 .. N
        PROVE  h[n] = IF n = 0 THEN base ELSE Converted(h[n - 1], pixels[n], o)
    <3>1. n = 0 \/ n \in 1 .. N
      BY <1>1
    <3> HIDE DEF N, G
    <3>2. QED
      BY <1>5, <2>1, <3>1
  <2> HIDE DEF N, G
  <2>3. QED
    BY <2>2
<1>7. P(seen)
  <2> HIDE DEF P
  <2>1. QED
    BY <1>6
<1>8. Inverted(pixels, o) = seen[N].done
  BY DEF Inverted
<1>9. seen[0] = base /\ \A n \in 1 .. N : seen[n] = Converted(seen[n - 1], pixels[n], o)
  <2> HIDE DEF base
  <2>1. ASSUME NEW f, P(f)
        PROVE  f[0] = base /\ \A n \in 1 .. N : f[n] = Converted(f[n - 1], pixels[n], o)
    <3> HIDE DEF N
    <3>1. 0 \in 0 .. N /\ \A n \in 1 .. N : n \in 0 .. N /\ n # 0
      BY <1>1
    <3>2. QED
      BY <2>1, <3>1
  <2> HIDE DEF P, seen, N
  <2>2. QED
    BY <1>7, <2>1
<1> HIDE DEF seen, P, G
<1> DEFINE Good(s, n) == /\ s \in X /\ s.to = Convert(s.from, o) /\ Len(s.done) = n
                         /\ \A i \in 1 .. n : s.done[i] = Convert(pixels[i], o)
           T == {n \in 0 .. N : Good(seen[n], n)}
<1>10. 0 \in T
  <2>1. Good(base, 0)
    BY <1>1
  <2> HIDE DEF Good, base
  <2>2. QED
    BY <1>1, <1>9, <2>1
<1>11. ASSUME NEW n \in 0 .. N, n < N, n \in T PROVE n + 1 \in T
  <2> DEFINE s == seen[n]
             g == pixels[n + 1]
             t == Converted(s, g, o)
  <2>1. n + 1 \in 1 .. N /\ n + 1 - 1 = n /\ g \in D
    BY <1>1, <1>11
  <2>2. seen[n + 1] = t
    <3> HIDE DEF N
    <3>1. QED
      BY <1>9, <2>1
  <2>3. Good(s, n)
    BY <1>11
  <2> HIDE DEF s, g
  <2>4. s \in X /\ g \in D /\ s.done \in Seq(V)
    BY <2>1, <2>3
  <2>5. t \in X
    <3> HIDE DEF X, D
    <3>1. QED
      BY <1>2, <2>4
  <2>6. t.to = Convert(t.from, o) /\ t.done = Append(s.done, Convert(g, o))
    BY <2>3, <2>4 DEF Converted
  <2>7. /\ Len(t.done) = n + 1
        /\ \A i \in 1 .. n : t.done[i] = s.done[i]
        /\ t.done[n + 1] = Convert(g, o)
    <3>1. s.done \in Seq(V \cup {Convert(g, o)}) /\ Len(s.done) = n
      BY <2>3, <2>4
    <3> HIDE DEF V, t
    <3>2. QED
      BY <2>6, <3>1
  <2>8. Good(t, n + 1)
    <3>1. \A i \in 1 .. n + 1 : i \in 1 .. n \/ i = n + 1
      OBVIOUS
    <3> HIDE DEF X, t
    <3>2. QED
      BY <2>3, <2>5, <2>6, <2>7, <3>1 DEF g
  <2> HIDE DEF Good
  <2>9. QED
    BY <2>1, <2>2, <2>8
<1>12. N \in T
  <2> HIDE DEF T
  <2>1. N \in Nat /\ \A n \in 0 .. N : n < N /\ n \in T => n + 1 \in T
    BY <1>1, <1>11
  <2> HIDE DEF N
  <2>2. 0 .. N \subseteq T
    BY <1>10, <2>1, Induction
  <2>3. QED
    BY <2>1, <2>2
<1>13. QED
  <2>1. Good(seen[N], N)
    BY <1>12
  <2>2. QED
    BY <1>8, <2>1

(* A page's image has the colour that a pixel's grey becomes.              *)
LEMMA Recoloured1 ==
  ASSUME RenderSizes, NEW pic, NEW o, o.usecolors \in 0 .. 2
  PROVE  \E becomes : \A p \in Column \X Row : Recoloured(pic, o)[p] = becomes[pic[p]]
<1> DEFINE S == {pic[p] : p \in Column \X Row}
<1>1. CASE o.usecolors = 0
  <2> DEFINE b == [g \in S |-> <<g>>]
  <2>1. \A p \in Column \X Row : Recoloured(pic, o)[p] = b[pic[p]]
    BY <1>1 DEF Recoloured
  <2>2. QED
    BY <2>1
<1>2. CASE o.usecolors = 1
  <2> DEFINE b == [g \in S |-> <<Mixed(g, o)>>]
  <2>1. \A p \in Column \X Row : Recoloured(pic, o)[p] = b[pic[p]]
    BY <1>2 DEF Recoloured
  <2>2. QED
    BY <2>1
<1>3. CASE o.usecolors = 2
  <2> DEFINE b == [g \in S |-> Convert(g, o)]
             px == Pixels(pic)
             N == PageWidth * PageHeight
  <2>1. N \in Nat
    BY DEF RenderSizes
  <2>2. ASSUME NEW i \in 1 .. N
        PROVE  <<1 + ((i - 1) % PageWidth), 1 + ((i - 1) \div PageWidth)>> \in Column \X Row
    <3> DEFINE m == i - 1
               q == m \div PageWidth
               r == m % PageWidth
    <3>1. m \in Nat /\ m < PageWidth * PageHeight /\ PageWidth \in Nat \ {0} /\ PageHeight \in Nat \ {0}
      BY <2>1 DEF RenderSizes
    <3> HIDE DEF m
    <3>2. /\ q \in Int /\ r \in Int /\ 0 <= r /\ r < PageWidth
          /\ m = PageWidth * q + r
      BY <3>1
    <3> HIDE DEF q, r
    <3>3. q >= 0
      <4>1. q <= -1 => PageWidth * q <= 0 - PageWidth
        BY <3>1, <3>2
      <4>2. QED
        BY <3>1, <3>2, <4>1
    <3>4. q < PageHeight
      <4>1. q >= PageHeight => PageWidth * q >= PageWidth * PageHeight
        BY <3>1, <3>2
      <4>2. QED
        BY <3>1, <3>2, <4>1
    <3>5. 1 + r \in Column /\ 1 + q \in Row
      BY <3>1, <3>2, <3>3, <3>4 DEF Column, Row
    <3>6. QED
      BY <3>5 DEF m, q, r
  <2>3. px \in Seq(S) /\ Len(px) = N
    <3>1. \A i \in 1 .. N : px[i] \in S
      <4> HIDE DEF N
      <4>1. \A p \in Column \X Row : pic[p] \in S
        OBVIOUS
      <4> HIDE DEF S
      <4>2. QED
        BY <2>2, <4>1 DEF Pixels, N
    <3>2. px = [i \in 1 .. N |-> px[i]]
      BY DEF Pixels
    <3> HIDE DEF N, S, px
    <3>3. QED
      BY <2>1, <3>1, <3>2
  <2>4. ASSUME NEW p \in Column \X Row PROVE Recoloured(pic, o)[p] = b[pic[p]]
    <3>1. PICK x \in 1 .. PageWidth, y \in 1 .. PageHeight : p = <<x, y>>
      BY DEF Column, Row
    <3> DEFINE i == PlaceOf(x, y)
    <3>2. 1 + ((i - 1) % PageWidth) = x /\ 1 + ((i - 1) \div PageWidth) = y
      <4>1. y \in Nat \ {0}
        BY DEF RenderSizes
      <4>2. QED
        BY <4>1, PixelPlace
    <3>3. i \in 1 .. N
      <4>1. PageWidth \in Nat /\ PageHeight \in Nat
        BY DEF RenderSizes
      <4>2. (y - 1) * PageWidth >= 0 /\ (y - 1) * PageWidth <= (PageHeight - 1) * PageWidth
        BY <4>1
      <4>3. QED
        BY <4>1, <4>2 DEF PlaceOf
    <3>4. px[i] = pic[p]
      <4>1. px[i] = pic[<<1 + ((i - 1) % PageWidth), 1 + ((i - 1) \div PageWidth)>>]
        BY <3>3 DEF Pixels
      <4> HIDE DEF i, px
      <4>2. QED
        BY <3>1, <3>2, <4>1
    <3>5. Inverted(px, o)[i] = Convert(px[i], o)
      <4> HIDE DEF px, i, N, S
      <4>1. QED
        BY <2>3, <3>3, InvertedEach
    <3>6. Recoloured(pic, o)[p] = Inverted(px, o)[i]
      <4>1. Recoloured(pic, o)[p] = Picture(Inverted(px, o))[p]
        BY <1>3 DEF Recoloured
      <4>2. p[1] = x /\ p[2] = y
        BY <3>1
      <4>3. Picture(Inverted(px, o))[p] = Inverted(px, o)[PlaceOf(p[1], p[2])]
        BY DEF Picture, PlaceOf
      <4>4. QED
        BY <4>1, <4>2, <4>3
    <3>7. QED
      BY <3>4, <3>5, <3>6
  <2>5. QED
    BY <2>4
<1>4. QED
  BY <1>1, <1>2, <1>3
------------------------------------------------------------------------------
(* The first and the last column or row that is not all of the colour of   *)
(* the corner.                                                             *)
LEMMA Ends ==
  ASSUME NEW n \in Nat, NEW odd \in SUBSET (1 .. n), odd # {}
  PROVE  /\ FirstFrom(n, odd) + 1 \in odd /\ LastFrom(n, odd) \in odd
         /\ \A i \in odd : FirstFrom(n, odd) < i /\ i <= LastFrom(n, odd)
<1>1. \E i \in odd : \A j \in odd : i <= j
  <2>1. odd \in SUBSET Nat
    OBVIOUS
  <2>2. QED
    BY <2>1, Least
<1>2. \E i \in odd : \A j \in odd : i >= j
  <2> DEFINE back == {n - i : i \in odd}
  <2>1. back \in SUBSET Nat /\ back # {}
    <3>1. \A i \in odd : n - i \in Nat
      OBVIOUS
    <3>2. QED
      BY <3>1
  <2>2. PICK m \in back : \A k \in back : m <= k
    <3> HIDE DEF back
    <3>1. QED
      BY <2>1, Least
  <2>3. PICK i \in odd : m = n - i
    OBVIOUS
  <2>4. \A j \in odd : n - j \in back
    OBVIOUS
  <2> HIDE DEF back
  <2>5. QED
    BY <2>2, <2>3, <2>4
<1> DEFINE first == CHOOSE i \in odd : \A j \in odd : i <= j
           last  == CHOOSE i \in odd : \A j \in odd : i >= j
<1>3. first \in odd /\ \A j \in odd : first <= j
  BY <1>1
<1>4. last \in odd /\ \A j \in odd : last >= j
  BY <1>2
<1>5. FirstFrom(n, odd) = first - 1 /\ LastFrom(n, odd) = last
  BY DEF FirstFrom, LastFrom
<1> HIDE DEF first, last
<1>6. QED
  BY <1>3, <1>4, <1>5

(* The box of an image is as tight as it can be, whatever the image.       *)
Tight(im, box) ==
  IF Odd(im) = {} THEN box = WholePage
  ELSE /\ \A p \in Odd(im) : Holds(box, p)
       /\ \E p \in Odd(im) : p[1] = box[1] + 1
       /\ \E p \in Odd(im) : p[1] = box[3]
       /\ \E p \in Odd(im) : p[2] = box[2] + 1
       /\ \E p \in Odd(im) : p[2] = box[4]

LEMMA BoxOfImage ==
  ASSUME RenderSizes, NEW im
  PROVE  Tight(im, Box(im))
<1> DEFINE cols == OddColumns(im)
           rows == OddRows(im)
           odd  == Odd(im)
           x1 == FirstFrom(PageWidth, cols)
           x2 == LastFrom(PageWidth, cols)
           y1 == FirstFrom(PageHeight, rows)
           y2 == LastFrom(PageHeight, rows)
<1>1. /\ PageWidth \in Nat \ {0} /\ PageHeight \in Nat \ {0}
      /\ cols \in SUBSET (1 .. PageWidth) /\ rows \in SUBSET (1 .. PageHeight)
  BY DEF OddColumns, OddRows, Column, Row, RenderSizes
<1>2. \A p \in odd : p[1] \in cols /\ p[2] \in rows
  <2> SUFFICES ASSUME NEW p \in odd PROVE p[1] \in cols /\ p[2] \in rows
    OBVIOUS
  <2>1. PICK i \in Column, j \in Row : p = <<i, j>>
    BY DEF Odd
  <2>2. im[<<i, j>>] # im[<<1, 1>>]
    BY <2>1 DEF Odd
  <2>3. QED
    BY <2>1, <2>2 DEF OddColumns, OddRows, SameColumn, SameRow
<1>3. \A i \in cols : \E p \in odd : p[1] = i
  <2> SUFFICES ASSUME NEW i \in cols PROVE \E p \in odd : p[1] = i
    OBVIOUS
  <2>1. i \in Column /\ \E j \in Row : im[<<i, j>>] # im[<<1, 1>>]
    BY DEF OddColumns, SameColumn
  <2>2. PICK j \in Row : im[<<i, j>>] # im[<<1, 1>>]
    BY <2>1
  <2>3. <<i, j>> \in odd /\ <<i, j>>[1] = i
    BY <2>1, <2>2 DEF Odd
  <2>4. QED
    BY <2>3
<1>4. \A j \in rows : \E p \in odd : p[2] = j
  <2> SUFFICES ASSUME NEW j \in rows PROVE \E p \in odd : p[2] = j
    OBVIOUS
  <2>1. j \in Row /\ \E i \in Column : im[<<i, j>>] # im[<<1, 1>>]
    BY DEF OddRows, SameRow
  <2>2. PICK i \in Column : im[<<i, j>>] # im[<<1, 1>>]
    BY <2>1
  <2>3. <<i, j>> \in odd /\ <<i, j>>[2] = j
    BY <2>1, <2>2 DEF Odd
  <2>4. QED
    BY <2>3
<1>5. CASE odd = {}
  <2>1. cols = {} /\ rows = {}
    BY <1>3, <1>4, <1>5
  <2> HIDE DEF cols, rows
  <2>2. x1 = PageWidth /\ x2 = 0 /\ PageWidth >= 0
    BY <1>1, <2>1 DEF FirstFrom, LastFrom
  <2>3. Box(im) = WholePage
    BY <2>2 DEF Box, cols
  <2>4. QED
    BY <1>5, <2>3 DEF Tight
<1>6. CASE odd # {}
  <2> HIDE DEF cols, rows, odd
  <2>1. cols # {} /\ rows # {}
    BY <1>2, <1>6
  <2>2. /\ x1 + 1 \in cols /\ x2 \in cols /\ y1 + 1 \in rows /\ y2 \in rows
        /\ \A i \in cols : x1 < i /\ i <= x2
        /\ \A j \in rows : y1 < j /\ j <= y2
    <3> HIDE DEF x1, x2, y1, y2
    <3>1. /\ x1 + 1 \in cols /\ x2 \in cols
          /\ \A i \in cols : x1 < i /\ i <= x2
      BY <1>1, <2>1, Ends DEF x1, x2
    <3>2. /\ y1 + 1 \in rows /\ y2 \in rows
          /\ \A j \in rows : y1 < j /\ j <= y2
      BY <1>1, <2>1, Ends DEF y1, y2
    <3>3. QED
      BY <3>1, <3>2
  <2> HIDE DEF x1, x2, y1, y2
  <2>3. x1 < x2 /\ y1 < y2
    BY <2>2
  <2>4. x1 \in Int /\ x2 \in Int /\ y1 \in Int /\ y2 \in Int
    <3>1. FirstFrom(PageWidth, cols) \in Int /\ FirstFrom(PageHeight, rows) \in Int
      <4>1. \A n, o : o # {} => FirstFrom(n, o) = (CHOOSE i \in o : \A j \in o : i <= j) - 1
        BY DEF FirstFrom
      <4>2. ASSUME NEW o \in SUBSET Nat, o # {}
            PROVE  (CHOOSE i \in o : \A j \in o : i <= j) \in Nat
        BY <4>2, Least
      <4>3. cols \in SUBSET Nat /\ rows \in SUBSET Nat
        BY <1>1
      <4>4. QED
        BY <2>1, <4>1, <4>2, <4>3
    <3>2. QED
      BY <1>1, <2>2, <3>1 DEF x1, y1
  <2>5. Box(im) = <<x1, y1, x2, y2>>
    <3>1. ~ (x1 >= x2 \/ y1 >= y2)
      BY <2>3, <2>4
    <3>2. QED
      BY <3>1 DEF Box, x1, x2, y1, y2, cols, rows
  <2> DEFINE b == Box(im)
  <2>6. b[1] = x1 /\ b[2] = y1 /\ b[3] = x2 /\ b[4] = y2
    BY <2>5
  <2> HIDE DEF b
  <2>7. \A p \in odd : Holds(b, p)
    BY <1>2, <2>2, <2>6 DEF Holds
  <2>8. /\ \E p \in odd : p[1] = b[1] + 1
        /\ \E p \in odd : p[1] = b[3]
        /\ \E p \in odd : p[2] = b[2] + 1
        /\ \E p \in odd : p[2] = b[4]
    BY <1>3, <1>4, <2>2, <2>6
  <2>9. QED
    BY <1>6, <2>7, <2>8 DEF Tight, b, odd
<1>7. QED
  BY <1>5, <1>6
------------------------------------------------------------------------------
(* Edges after some arguments, of which n may still come: what is left of  *)
(* the page can be quartered as often.                                     *)
Edge(c, n) == c \in 0 .. Unit /\ \E z \in Nat : c = z * Scale[n]

LEMMA UnitSize == ASSUME RenderSizes PROVE Unit \in Nat \ {0} /\ Edge(0, MaxCommands) /\ Edge(Unit, MaxCommands)
<1>1. Unit \in Nat \ {0}
  BY ScaleSteps DEF Unit, RenderSizes
<1>2. 0 = 0 * Scale[MaxCommands] /\ Unit = 1 * Scale[MaxCommands]
  BY <1>1 DEF Unit
<1>3. QED
  BY <1>1, <1>2 DEF Edge

(* Asked for are the edges, the middle and a quarter.                      *)
Asked == {0, Unit \div 4, Unit \div 2, Unit}

(* Where an edge of a region lies: exactly there.                          *)
Placing(e, from, to, place) ==
  /\ from \in 0 .. Unit /\ to \in 0 .. Unit /\ from <= to /\ e \in 0 .. Unit
  /\ place \in Int /\ Unit * place = e * (to - from) + Unit * from

LEMMA AlongExact ==
  ASSUME RenderSizes, NEW n \in 1 .. MaxCommands,
         NEW from, NEW to, Edge(from, n), Edge(to, n), from <= to, NEW e \in Asked
  PROVE  /\ Edge(Along(e, from, to), n - 1) /\ Placing(e, from, to, Along(e, from, to))
         /\ Edge(from, n - 1) /\ Edge(to, n - 1)
<1> DEFINE s == Scale[n - 1]
           t == Scale[MaxCommands - 1]
<1>1. /\ s \in Nat \ {0} /\ t \in Nat \ {0} /\ Unit = 4 * t /\ Scale[n] = 4 * s
      /\ MaxCommands \in Nat
  BY ScaleSteps DEF RenderSizes, Unit
<1>2. PICK a \in Nat, b \in Nat : from = a * (4 * s) /\ to = b * (4 * s)
  BY <1>1 DEF Edge
<1>3. from \in 0 .. Unit /\ to \in 0 .. Unit
  BY DEF Edge
<1>4. PICK q \in {0, 1, 2, 4} : e = q * t
  BY <1>1 DEF Asked
<1>5. a <= b
  <2> HIDE DEF s
  <2>1. a > b => a * s > b * s
    BY <1>1
  <2>2. a * s <= b * s
    <3>1. from = 4 * (a * s) /\ to = 4 * (b * s) /\ a * s \in Int /\ b * s \in Int
      BY <1>1, <1>2
    <3>2. QED
      BY <3>1
  <2>3. QED
    BY <1>1, <2>1, <2>2
<1> HIDE DEF s, t
<1> DEFINE d == q * ((b - a) * s)
<1>6. d \in Nat /\ e * (to - from) = Unit * d
  <2>1. (b - a) \in Nat /\ (b - a) * s \in Nat
    BY <1>1, <1>5
  <2>2. to - from = 4 * ((b - a) * s)
    BY <1>1, <1>2, <1>5
  <2> DEFINE m == (b - a) * s
  <2> HIDE DEF m
  <2>3. e * (to - from) = (q * t) * (4 * m) /\ d = q * m /\ m \in Nat
    BY <1>4, <2>1, <2>2 DEF m
  <2>4. (q * t) * (4 * m) = (4 * t) * (q * m)
    BY <1>1, <2>3
  <2>5. QED
    BY <1>1, <2>3, <2>4
<1>7. Along(e, from, to) = d + from
  <2> HIDE DEF d
  <2>1. (e * (to - from)) \div Unit = d
    <3>1. (Unit * d) \div Unit = d
      <4> DEFINE v == (Unit * d) \div Unit
      <4>1. v \in Int /\ Unit * v <= Unit * d /\ Unit * d < Unit * v + Unit
        BY <1>1, <1>6
      <4> HIDE DEF v
      <4>2. v <= d - 1 => Unit * v <= Unit * d - Unit
        BY <1>1, <1>6, <4>1
      <4>3. v >= d + 1 => Unit * v >= Unit * d + Unit
        BY <1>1, <1>6, <4>1
      <4>4. v = d
        BY <1>1, <1>6, <4>1, <4>2, <4>3
      <4>5. QED
        BY <4>4 DEF v
    <3>2. QED
      BY <1>6, <3>1
  <2>2. QED
    BY <2>1 DEF Along
<1>8. from <= d + from /\ d + from <= to
  <2> DEFINE m == (b - a) * s
  <2>1. m \in Nat /\ to - from = 4 * m /\ d = q * m
    BY <1>1, <1>2, <1>5
  <2> HIDE DEF m, d
  <2>2. d \in Nat /\ d <= 4 * m
    BY <2>1
  <2>3. QED
    BY <1>3, <2>1, <2>2
<1>9. d + from = (q * (b - a) + 4 * a) * s /\ q * (b - a) + 4 * a \in Nat
  BY <1>1, <1>2, <1>5
<1>10. from = (4 * a) * s /\ to = (4 * b) * s /\ 4 * a \in Nat /\ 4 * b \in Nat
  BY <1>1, <1>2
<1>11. Edge(d + from, n - 1) /\ Edge(from, n - 1) /\ Edge(to, n - 1)
  <2> HIDE DEF d
  <2>1. d + from \in 0 .. Unit
    BY <1>1, <1>3, <1>6, <1>8
  <2>2. QED
    BY <1>3, <1>9, <1>10, <2>1 DEF Edge, s
<1>12. Unit * (d + from) = e * (to - from) + Unit * from
  <2> HIDE DEF d
  <2>1. QED
    BY <1>1, <1>3, <1>6
<1>13. e \in 0 .. Unit
  BY <1>1, <1>4
<1>14. QED
  <2>1. d + from \in Int
    BY <1>3, <1>6
  <2> HIDE DEF d
  <2>2. QED
    BY <1>3, <1>7, <1>11, <1>12, <1>13, <2>1 DEF Placing

(* A region asked for, and what is left of the page; n crops may come.     *)
Region(q) == \E e1, e2, e3, e4 \in Asked : q = <<e1, e2, e3, e4>> /\ e1 <= e3 /\ e2 <= e4
Left(c, n) ==
  \E l, t, r, b \in 0 .. Unit :
    /\ c = <<l, t, r, b>> /\ l <= r /\ t <= b
    /\ Edge(l, n) /\ Edge(t, n) /\ Edge(r, n) /\ Edge(b, n)

(* The pixels of the image that is left miss its edges by half a pixel.    *)
Cropped(pixels, from, to, first, size) ==
  /\ first \in Int /\ size \in Int
  /\ 2 * Unit * first <= 2 * (pixels * from) + Unit
  /\ 2 * (pixels * from) <= 2 * Unit * first + Unit
  /\ 2 * Unit * size <= 2 * (pixels * (to - from)) + Unit
  /\ 2 * (pixels * (to - from)) <= 2 * Unit * size + Unit

LEMMA CutRounds ==
  ASSUME RenderSizes, NEW pixels \in Nat, NEW from \in 0 .. Unit, NEW to \in 0 .. Unit
  PROVE  Cropped(pixels, from, to, Round(pixels * from, Unit), Round(pixels * (to - from), Unit))
<1> DEFINE m == pixels * from
           k == pixels * (to - from)
           u == Unit
<1>1. u \in Nat \ {0}
  BY UnitSize
<1>2. m \in Int /\ k \in Int
  BY <1>1
<1> HIDE DEF m, k, u
<1>3. /\ Round(m, u) \in Int /\ 2 * u * Round(m, u) <= 2 * m + u
      /\ 2 * m + u < 2 * u * Round(m, u) + 2 * u
  BY <1>1, <1>2, Rounding
<1>4. /\ Round(k, u) \in Int /\ 2 * u * Round(k, u) <= 2 * k + u
      /\ 2 * k + u < 2 * u * Round(k, u) + 2 * u
  BY <1>1, <1>2, Rounding
<1>5. /\ 2 * m <= 2 * u * Round(m, u) + u
      /\ 2 * k <= 2 * u * Round(k, u) + u
  BY <1>1, <1>2, <1>3, <1>4
<1>6. QED
  BY <1>3, <1>4, <1>5 DEF Cropped, m, k, u

LEMMA CutSize ==
  ASSUME RenderSizes, NEW pixels \in Nat, NEW from, NEW to, NEW first, NEW size,
         from \in 0 .. Unit, to \in 0 .. Unit, Cropped(pixels, from, to, first, size)
  PROVE  first + size <= pixels + 1
<1>1. Unit \in Nat \ {0} /\ first \in Int /\ size \in Int
  BY UnitSize DEF Cropped
<1>2. /\ pixels * from \in Int /\ pixels * (to - from) \in Int
      /\ pixels * from + pixels * (to - from) = pixels * to
      /\ pixels * to <= pixels * Unit
  BY <1>1
<1>3. Unit * (first + size) = Unit * first + Unit * size
  BY <1>1
<1>4. Unit * (first + size) <= Unit * (pixels + 1)
  <2> DEFINE a == pixels * from
             b == pixels * (to - from)
             f == Unit * first
             g == Unit * size
             w == pixels * Unit
  <2>1. /\ a \in Int /\ b \in Int /\ f \in Int /\ g \in Int /\ w \in Int
        /\ a + b <= w /\ 2 * Unit * first = 2 * f /\ 2 * Unit * size = 2 * g
        /\ Unit * (pixels + 1) = w + Unit
    BY <1>1, <1>2
  <2>2. 2 * f <= 2 * a + Unit /\ 2 * g <= 2 * b + Unit
    BY <2>1 DEF Cropped
  <2>3. Unit * (first + size) = f + g
    BY <1>3
  <2> HIDE DEF a, b, f, g, w
  <2>4. f + g <= w + Unit
    BY <1>1, <2>1, <2>2
  <2>5. QED
    BY <2>1, <2>3, <2>4
<1>5. first + size > pixels + 1 => Unit * (first + size) > Unit * (pixels + 1)
  BY <1>1
<1>6. QED
  BY <1>1, <1>4, <1>5

LEMMA NearBy ==
  ASSUME RenderSizes, NEW pixels \in Nat, NEW from, NEW to, NEW first, NEW size,
         Cropped(pixels, from, to, first, size), NEW e, NEW place, Placing(e, from, to, place)
  PROVE  Near(place, pixels, first, size, e, 1)
<1> DEFINE u == Unit
           x == place * pixels - first * u - e * size
           a == pixels * from
           b == pixels * (to - from)
<1>1. /\ u \in Nat \ {0} /\ first \in Int /\ size \in Int /\ place \in Int /\ from \in Int
      /\ to \in Int /\ e \in 0 .. u
  BY UnitSize DEF Cropped, Placing
<1>2. /\ a \in Int /\ b \in Int /\ x \in Int
  BY <1>1
<1> DEFINE p == a - u * first       \* place most u / 2
           q == b - u * size        \* likewise
<1>3. /\ p \in Int /\ q \in Int
      /\ 2 * p <= u /\ 0 - u <= 2 * p /\ 2 * q <= u /\ 0 - u <= 2 * q
  <2> DEFINE f == u * first
             g == u * size
  <2>1. f \in Int /\ g \in Int /\ 2 * u * first = 2 * f /\ 2 * u * size = 2 * g
    BY <1>1
  <2>2. /\ 2 * f <= 2 * a + u /\ 2 * a <= 2 * f + u
        /\ 2 * g <= 2 * b + u /\ 2 * b <= 2 * g + u
    BY <2>1 DEF Cropped
  <2> HIDE DEF u, a, b, f, g
  <2>3. p = a - f /\ q = b - g
    BY DEF f, g
  <2>4. QED
    BY <1>1, <1>2, <2>1, <2>2, <2>3
<1>4. u * x = e * q + u * p
  <2>1. u * place = e * (to - from) + u * from
    BY DEF Placing
  <2>2. (u * place) * pixels = e * b + u * a
    <3>1. (e * (to - from) + u * from) * pixels = e * ((to - from) * pixels) + u * (from * pixels)
      <4> HIDE DEF u
      <4>1. QED
        BY <1>1
    <3>2. (to - from) * pixels = b /\ from * pixels = a
      BY <1>1
    <3>3. QED
      BY <2>1, <3>1, <3>2
  <2> HIDE DEF a, b, u
  <2>3. u * x = (u * place) * pixels - u * (u * first) - u * (e * size)
    BY <1>1
  <2>4. e * q = e * b - e * (u * size) /\ u * p = u * a - u * (u * first)
    BY <1>1, <1>2
  <2>5. u * (e * size) = e * (u * size)
    BY <1>1
  <2>6. QED
    <3> DEFINE c1 == e * b
               c2 == u * a
               c3 == u * (u * first)
               c4 == e * (u * size)
    <3>1. c1 \in Int /\ c2 \in Int /\ c3 \in Int /\ c4 \in Int
      BY <1>1, <1>2
    <3> HIDE DEF p, q, x
    <3>2. u * x = c1 + c2 - c3 - c4 /\ e * q = c1 - c4 /\ u * p = c2 - c3
      BY <1>1, <1>2, <1>3, <2>2, <2>3, <2>4, <2>5
    <3> HIDE DEF c1, c2, c3, c4
    <3>3. QED
      BY <3>1, <3>2
<1> HIDE DEF a, b, p, q, x, u
<1>5. 2 * (e * q) <= u * u /\ 0 - (u * u) <= 2 * (e * q)
  <2>1. e * (2 * q) <= e * u /\ e * (0 - u) <= e * (2 * q)
    BY <1>1, <1>3
  <2>2. e * u <= u * u /\ e * u \in Int /\ e * (0 - u) = 0 - (e * u)
    BY <1>1
  <2>3. e * (2 * q) = 2 * (e * q) /\ e * q \in Int
    BY <1>1, <1>3
  <2>4. QED
    BY <1>1, <2>1, <2>2, <2>3
<1>6. 2 * (u * p) <= u * u /\ 0 - (u * u) <= 2 * (u * p)
  <2>1. u * (2 * p) <= u * u /\ u * (0 - u) <= u * (2 * p)
    BY <1>1, <1>3
  <2>2. u * (2 * p) = 2 * (u * p) /\ u * (0 - u) = 0 - (u * u)
    BY <1>1, <1>3
  <2>3. QED
    BY <2>1, <2>2
<1>7. u * x <= u * u /\ 0 - (u * u) <= u * x
  <2> DEFINE c1 == e * q
             c2 == u * p
             c3 == u * u
  <2>1. c1 \in Int /\ c2 \in Int /\ c3 \in Int
    BY <1>1, <1>3
  <2>2. u * x = c1 + c2 /\ 2 * c1 <= c3 /\ 0 - c3 <= 2 * c1 /\ 2 * c2 <= c3 /\ 0 - c3 <= 2 * c2
    BY <1>4, <1>5, <1>6
  <2> HIDE DEF c1, c2, c3
  <2>3. u * x <= c3 /\ 0 - c3 <= u * x
    BY <2>1, <2>2
  <2>4. QED
    BY <2>3 DEF c3
<1>8. x <= u /\ 0 - u <= x
  <2>1. x > u => u * x > u * u
    BY <1>1, <1>2
  <2>2. x < 0 - u => u * x < 0 - (u * u)
    <3>1. x < 0 - u => u * x < u * (0 - u)
      BY <1>1, <1>2
    <3>2. u * (0 - u) = 0 - (u * u)
      BY <1>1
    <3>3. QED
      BY <3>1, <3>2
  <2>3. QED
    BY <1>1, <1>2, <1>7, <2>1, <2>2
<1>9. QED
  BY <1>1, <1>2, <1>8 DEF Near, Abs, x, u
------------------------------------------------------------------------------
(* What is painted lies where it was asked for, in what was left then.     *)
Placed(p) ==
  /\ \E l, t, r, b : p.crop = <<l, t, r, b>>
  /\ Placing(p.asked[1], p.crop[1], p.crop[3], p.at[1])
  /\ Placing(p.asked[3], p.crop[1], p.crop[3], p.at[3])
  /\ p.key # ":highlight-line" =>
       /\ Placing(p.asked[2], p.crop[2], p.crop[4], p.at[2])
       /\ Placing(p.asked[4], p.crop[2], p.crop[4], p.at[4])

(* A command of which n arguments may still come.                          *)
Rendering(j, n) ==
  /\ j.width \in Widths
  /\ Left(j.crop, n)
  /\ \E S : j.painted \in Seq(S)
  /\ \A k \in DOMAIN j.painted : Placed(j.painted[k])

RenderInv ==
  /\ DOMAIN options = {"usecolors", "printed", "fg", "bg"} /\ options.usecolors \in 0 .. 2
  /\ job # NoJob =>
       /\ DOMAIN job = {"is", "width", "pen", "crop", "painted", "args"}
       /\ job.args \in 0 .. MaxCommands
       /\ Rendering(job, MaxCommands - job.args)
  /\ RendersRight

(* Regions and crops inside a crop.                                        *)
LEMMA InsideExact ==
  ASSUME RenderSizes, NEW n \in 1 .. MaxCommands, NEW c, Left(c, n), NEW q, Region(q)
  PROVE  /\ Left(c, n - 1) /\ Left(RegionAt(q, c), n - 1)
         /\ \E l, t, r, b : c = <<l, t, r, b>>
         /\ \E l, t, r, b : RegionAt(q, c) = <<l, t, r, b>>
         /\ Placing(q[1], c[1], c[3], RegionAt(q, c)[1]) /\ Placing(q[3], c[1], c[3], RegionAt(q, c)[3])
         /\ Placing(q[2], c[2], c[4], RegionAt(q, c)[2]) /\ Placing(q[4], c[2], c[4], RegionAt(q, c)[4])
<1>1. PICK l \in 0 .. Unit, t \in 0 .. Unit, r \in 0 .. Unit, b \in 0 .. Unit :
        /\ c = <<l, t, r, b>> /\ l <= r /\ t <= b
        /\ Edge(l, n) /\ Edge(t, n) /\ Edge(r, n) /\ Edge(b, n)
  BY DEF Left
<1>2. PICK e1 \in Asked, e2 \in Asked, e3 \in Asked, e4 \in Asked :
        q = <<e1, e2, e3, e4>> /\ e1 <= e3 /\ e2 <= e4
  BY DEF Region
<1>3. \A e \in Asked : /\ Edge(Along(e, l, r), n - 1) /\ Edge(Along(e, t, b), n - 1)
                       /\ Placing(e, l, r, Along(e, l, r)) /\ Placing(e, t, b, Along(e, t, b))
  <2>1. \A e \in Asked : Edge(Along(e, l, r), n - 1) /\ Placing(e, l, r, Along(e, l, r))
    BY <1>1, AlongExact
  <2>2. \A e \in Asked : Edge(Along(e, t, b), n - 1) /\ Placing(e, t, b, Along(e, t, b))
    BY <1>1, AlongExact
  <2>3. QED
    BY <2>1, <2>2
<1>4. RegionAt(q, c) = <<Along(e1, l, r), Along(e2, t, b), Along(e3, l, r), Along(e4, t, b)>>
  BY <1>1, <1>2 DEF RegionAt
<1>5. Along(e1, l, r) <= Along(e3, l, r) /\ Along(e2, t, b) <= Along(e4, t, b)
  <2> DEFINE u == Unit
  <2>0. u \in Nat \ {0}
    BY UnitSize
  <2>1. ASSUME NEW e \in Asked, NEW f \in Asked, e <= f,
               NEW from \in 0 .. u, NEW to \in 0 .. u, from <= to,
               Placing(e, from, to, Along(e, from, to)), Placing(f, from, to, Along(f, from, to))
        PROVE  Along(e, from, to) <= Along(f, from, to)
    <3> DEFINE x == Along(e, from, to)
               y == Along(f, from, to)
    <3>1. /\ x \in Int /\ y \in Int /\ u * x = e * (to - from) + u * from
          /\ u * y = f * (to - from) + u * from /\ e \in 0 .. u /\ f \in 0 .. u
      BY <2>1 DEF Placing
    <3> HIDE DEF x, y, u
    <3>2. e * (to - from) <= f * (to - from)
      BY <2>0, <2>1, <3>1
    <3>3. u * x <= u * y
      BY <2>0, <2>1, <3>1, <3>2
    <3>4. x > y => u * x > u * y
      BY <2>0, <3>1
    <3>5. x <= y
      BY <2>0, <3>1, <3>3, <3>4
    <3>6. QED
      BY <3>5 DEF x, y
  <2> HIDE DEF u
  <2>2. QED
    BY <1>1, <1>2, <1>3, <2>1 DEF u
<1>6. Edge(l, n - 1) /\ Edge(t, n - 1) /\ Edge(r, n - 1) /\ Edge(b, n - 1)
  <2>1. 0 \in Asked
    BY DEF Asked
  <2>2. QED
    BY <1>1, <2>1, AlongExact
<1>7. Left(c, n - 1)
  BY <1>1, <1>6 DEF Left
<1>8. Left(RegionAt(q, c), n - 1)
  <2>1. /\ Along(e1, l, r) \in 0 .. Unit /\ Along(e2, t, b) \in 0 .. Unit
        /\ Along(e3, l, r) \in 0 .. Unit /\ Along(e4, t, b) \in 0 .. Unit
    BY <1>3 DEF Edge
  <2>2. QED
    BY <1>3, <1>4, <1>5, <2>1 DEF Left
<1>9. QED
  BY <1>1, <1>2, <1>3, <1>4, <1>7, <1>8

(* What the loop over the arguments does to a command.                     *)
LEMMA Painted ==
  ASSUME RenderSizes, NEW n \in 1 .. MaxCommands, NEW j, Rendering(j, n),
         DOMAIN j = {"is", "width", "pen", "crop", "painted", "args"},
         NEW key, NEW q, Region(q)
  PROVE  Rendering(Paint(j, key, q), n - 1)
<1> DEFINE place   == RegionAt(q, j.crop)
           item == [key |-> key, asked |-> q, crop |-> j.crop, pen |-> j.pen,
                    at |-> IF key = ":highlight-line" THEN Flat(place) ELSE place]
           old  == j.painted
           new  == Append(old, item)
<1>1. /\ Paint(j, key, q).width = j.width /\ Paint(j, key, q).crop = j.crop
      /\ Paint(j, key, q).painted = new
  BY DEF Paint
<1>2. Left(j.crop, n)
  BY DEF Rendering
<1>3. /\ Left(j.crop, n - 1) /\ \E l, t, r, b : j.crop = <<l, t, r, b>>
      /\ \E l, t, r, b : place = <<l, t, r, b>>
      /\ Placing(q[1], j.crop[1], j.crop[3], place[1]) /\ Placing(q[3], j.crop[1], j.crop[3], place[3])
      /\ Placing(q[2], j.crop[2], j.crop[4], place[2]) /\ Placing(q[4], j.crop[2], j.crop[4], place[4])
  <2> DEFINE c == j.crop
  <2> HIDE DEF c
  <2>1. Left(c, n)
    BY <1>2 DEF c
  <2>2. /\ Left(c, n - 1) /\ \E l, t, r, b : c = <<l, t, r, b>>
        /\ \E l, t, r, b : RegionAt(q, c) = <<l, t, r, b>>
        /\ Placing(q[1], c[1], c[3], RegionAt(q, c)[1]) /\ Placing(q[3], c[1], c[3], RegionAt(q, c)[3])
        /\ Placing(q[2], c[2], c[4], RegionAt(q, c)[2]) /\ Placing(q[4], c[2], c[4], RegionAt(q, c)[4])
    BY <2>1, InsideExact
  <2>3. QED
    BY <2>2 DEF c
<1> HIDE DEF place
<1>4. Placed(item)
  <2>1. item.at[1] = place[1] /\ item.at[3] = place[3]
    BY DEF Flat
  <2>2. key # ":highlight-line" => item.at = place
    OBVIOUS
  <2>3. item.crop = j.crop /\ item.asked = q /\ item.key = key
    OBVIOUS
  <2> HIDE DEF item
  <2>4. QED
    BY <1>3, <2>1, <2>2, <2>3 DEF Placed
<1> HIDE DEF item
<1>5. PICK S : old \in Seq(S)
  BY DEF Rendering
<1> HIDE DEF old
<1>6. /\ new \in Seq(S \cup {item})
      /\ \A k \in DOMAIN new : new[k] = item \/ (k \in DOMAIN old /\ new[k] = old[k])
  <2>1. \A X, x, s : s \in Seq(X) =>
          /\ s \in Seq(X \cup {x}) /\ Append(s, x) \in Seq(X \cup {x})
          /\ \A k \in DOMAIN Append(s, x) :
               Append(s, x)[k] = x \/ (k \in DOMAIN s /\ Append(s, x)[k] = s[k])
    OBVIOUS
  <2>2. QED
    BY <1>5, <2>1
<1> HIDE DEF new
<1>7. \A k \in DOMAIN new : Placed(new[k])
  <2>1. \A k \in DOMAIN old : Placed(old[k])
    BY DEF Rendering, old
  <2>2. QED
    BY <1>4, <1>6, <2>1
<1>8. j.width \in Widths
  BY DEF Rendering
<1>9. QED
  BY <1>1, <1>3, <1>6, <1>7, <1>8 DEF Rendering

LEMMA Argued ==
  ASSUME RenderSizes, RenderInv, job # NoJob, Argument
  PROVE  RenderInv'
<1>1. PICK a \in Args :
        LET key == a[1]
            j   == [job EXCEPT !.args = @ + 1]
        IN \/ /\ key \in Keywords /\ Len(a) = 2 /\ a[2] \in Fitting(key)
              /\ job' = CASE key = ":crop-to" -> [j EXCEPT !.crop = RegionAt(a[2][2], @)]
                          [] key \in Painting -> Paint(j, key, a[2][2])
                          [] OTHER            -> SetPen(j, key, a[2][2])
              /\ UNCHANGED image
           \/ /\ ~ (key \in Keywords /\ Len(a) = 2 /\ a[2] \in Fitting(key))
              /\ job' = NoJob /\ image' = [is |-> "error"]
  BY DEF Argument
<1>2. UNCHANGED <<page, options, sets>> /\ job.args < MaxCommands
  BY DEF Argument
<1> DEFINE key == a[1]
           j   == [job EXCEPT !.args = @ + 1]
           q   == a[2][2]
           n   == MaxCommands - job.args
           D   == {"is", "width", "pen", "crop", "painted", "args"}
           Good(x) == DOMAIN x = D /\ x.args = job.args + 1 /\ Rendering(x, n - 1)
<1>3. /\ DOMAIN job = D /\ job.args \in 0 .. MaxCommands /\ Rendering(job, n)
      /\ MaxCommands \in Nat /\ n \in 1 .. MaxCommands
      /\ job.args + 1 \in 0 .. MaxCommands /\ MaxCommands - (job.args + 1) = n - 1
  BY <1>2 DEF RenderInv, RenderSizes
<1> HIDE DEF n
<1>4. /\ DOMAIN j = D /\ j.args = job.args + 1 /\ j.width = job.width
      /\ j.crop = job.crop /\ j.painted = job.painted /\ Rendering(j, n)
  <2>1. /\ DOMAIN j = D /\ j.args = job.args + 1 /\ j.width = job.width
        /\ j.crop = job.crop /\ j.painted = job.painted
    BY <1>3
  <2>2. QED
    BY <1>3, <2>1 DEF Rendering
<1>5. Left(j.crop, n - 1)
  <2>1. Left(j.crop, n) /\ Region(<<0, 0, 0, 0>>)
    BY <1>4, UnitSize DEF Rendering, Region, Asked
  <2> DEFINE c == j.crop
  <2> HIDE DEF c
  <2>2. Left(c, n) => Left(c, n - 1)
    BY <1>3, <2>1, InsideExact
  <2>3. QED
    BY <2>1, <2>2 DEF c
<1> DEFINE Parses == key \in Keywords /\ Len(a) = 2 /\ a[2] \in Fitting(key)
<1>p. \/ /\ Parses /\ UNCHANGED image
         /\ key = ":crop-to" => job' = [j EXCEPT !.crop = RegionAt(q, @)]
         /\ key \in Painting => job' = Paint(j, key, q)
         /\ key # ":crop-to" /\ key \notin Painting => job' = SetPen(j, key, q)
      \/ ~ Parses /\ job' = NoJob /\ image' = [is |-> "error"]
  <2>1. ":crop-to" \notin Painting
    BY DEF Painting
  <2>2. \/ /\ Parses /\ UNCHANGED image
           /\ job' = CASE key = ":crop-to" -> [j EXCEPT !.crop = RegionAt(q, @)]
                       [] key \in Painting -> Paint(j, key, q)
                       [] OTHER            -> SetPen(j, key, q)
        \/ ~ Parses /\ job' = NoJob /\ image' = [is |-> "error"]
    BY <1>1, Zenon
  <2> HIDE DEF Parses, q, key, j
  <2>3. QED
    BY <2>1, <2>2
<1> HIDE DEF j
<1>6. CASE key \in Keywords /\ Len(a) = 2 /\ a[2] \in Fitting(key)
  <2>1. /\ key = ":crop-to" => job' = [j EXCEPT !.crop = RegionAt(q, @)]
        /\ key \in Painting => job' = Paint(j, key, q)
        /\ key # ":crop-to" /\ key \notin Painting => job' = SetPen(j, key, q)
    BY <1>p, <1>6
  <2>2. image' = image
    BY <1>p, <1>6
  <2>3. key = ":crop-to" \/ key \in Painting => Region(q)
    <3>1. CASE key = ":crop-to" \/ key \in Painting
      <4>1. a[2] \in {<<"edges", r>> : r \in {<<0, 0, Unit \div 2, Unit>>,
                                            <<Unit \div 4, Unit \div 2, Unit, Unit>>}}
        BY <1>6, <3>1 DEF Fitting, Painting, Colouring
      <4>2. q \in {<<0, 0, Unit \div 2, Unit>>, <<Unit \div 4, Unit \div 2, Unit, Unit>>}
        BY <4>1
      <4>3. /\ 0 <= Unit \div 2 /\ 0 <= Unit /\ Unit \div 4 <= Unit /\ Unit \div 2 <= Unit
        BY UnitSize
      <4> DEFINE half == Unit \div 2
                 quarter == Unit \div 4
      <4>4. {0, quarter, half, Unit} \subseteq Asked
        BY DEF Asked
      <4> HIDE DEF q, half, quarter
      <4>5. q = <<0, 0, half, Unit>> \/ q = <<quarter, half, Unit, Unit>>
        BY <4>2 DEF half, quarter
      <4>6. 0 <= half /\ 0 <= Unit /\ quarter <= Unit /\ half <= Unit
        BY <4>3 DEF half, quarter
      <4>7. QED
        BY <4>4, <4>5, <4>6 DEF Region
    <3>2. QED
      BY <3>1
  <2> HIDE DEF q, key
  <2>4. CASE key = ":crop-to"
    <3>1. job' = [j EXCEPT !.crop = RegionAt(q, @)]
      BY <2>1, <2>4
    <3>2. DOMAIN job' = D /\ job'.args = j.args /\ job'.width = j.width
          /\ job'.painted = j.painted /\ job'.crop = RegionAt(q, j.crop)
      BY <1>4, <3>1
    <3>3. Left(RegionAt(q, j.crop), n - 1)
      <4> DEFINE c == j.crop
      <4>1. Left(c, n) /\ Region(q)
        BY <1>4, <2>3, <2>4 DEF Rendering
      <4> HIDE DEF c
      <4>2. Left(RegionAt(q, c), n - 1)
        BY <1>3, <4>1, InsideExact
      <4>3. QED
        BY <4>2 DEF c
    <3>4. Good(job')
      BY <1>4, <3>2, <3>3 DEF Rendering
    <3>5. QED
      BY <1>2, <1>3, <2>2, <3>4 DEF RenderInv, RendersRight, Recolours, BoxTight, ShownWhereAsked
  <2>5. CASE key \in Painting
    <3>1. key # ":crop-to"
      BY <2>5 DEF Painting
    <3>2. job' = Paint(j, key, q)
      BY <2>1, <2>5, <3>1
    <3>3. Rendering(job', n - 1)
      BY <1>3, <1>4, <2>3, <2>5, <3>2, Painted
    <3>4. DOMAIN job' = D /\ job'.args = j.args
      BY <1>4, <3>2 DEF Paint
    <3>5. QED
      BY <1>2, <1>3, <1>4, <2>2, <3>3, <3>4
         DEF RenderInv, RendersRight, Recolours, BoxTight, ShownWhereAsked
  <2>6. CASE key \notin Painting /\ key # ":crop-to"
    <3>1. job' = SetPen(j, key, q)
      BY <2>1, <2>6
    <3>2. key \in {":foreground", ":background", ":alpha", ":selection-style"}
      BY <1>6, <2>6 DEF Keywords, Painting, Colouring
    <3>3. DOMAIN job' = D /\ job'.args = j.args /\ job'.width = j.width
          /\ job'.painted = j.painted /\ job'.crop = j.crop
      BY <1>4, <3>1, <3>2 DEF SetPen
    <3>4. Rendering(job', n - 1)
      BY <1>4, <1>5, <3>3 DEF Rendering
    <3>5. QED
      BY <1>2, <1>3, <1>4, <2>2, <3>3, <3>4
         DEF RenderInv, RendersRight, Recolours, BoxTight, ShownWhereAsked
  <2>7. QED
    BY <2>4, <2>5, <2>6
<1>7. CASE ~ (key \in Keywords /\ Len(a) = 2 /\ a[2] \in Fitting(key))
  <2>1. job' = NoJob /\ image' = [is |-> "error"]
    BY <1>p, <1>7
  <2>2. QED
    BY <1>2, <2>1 DEF RenderInv, RendersRight, Recolours, BoxTight, ShownWhereAsked
<1>8. QED
  BY <1>6, <1>7

(* The image that is answered.                                             *)
LEMMA Shown ==
  ASSUME RenderSizes, NEW n \in 0 .. MaxCommands, NEW j, Rendering(j, n),
         image' = [is |-> "image", of |-> RenderedPage(options), painted |-> j.painted,
                   crop |-> j.crop, width |-> j.width, cut |-> Cut(j.width, j.crop)]
  PROVE  ShownWhereAsked'
<1> DEFINE w == j.width
           h == HeightFor(w)
           c == j.crop
           cut == Cut(w, c)
           u == Unit
<1>1. PICK l \in 0 .. Unit, t \in 0 .. Unit, r \in 0 .. Unit, b \in 0 .. Unit :
        c = <<l, t, r, b>> /\ l <= r /\ t <= b
  BY DEF Rendering, Left
<1>2. w \in Nat \ {0} /\ u \in Nat \ {0}
  BY UnitSize DEF Rendering, RenderSizes
<1>3. h \in Nat
  <2>1. w * PageHeight \in Nat /\ PageWidth \in Nat \ {0}
    BY <1>2 DEF RenderSizes
  <2> DEFINE m == w * PageHeight
             R == Round(m, PageWidth)
  <2> HIDE DEF m, w
  <2>2. R \in Int /\ 2 * m + PageWidth < 2 * PageWidth * R + 2 * PageWidth
    BY <2>1, Rounding DEF m
  <2>3. R >= 0
    <3> HIDE DEF R
    <3>1. R <= -1 => PageWidth * R <= 0 - PageWidth
      BY <2>1, <2>2
    <3>2. PageWidth * R \in Int /\ 2 * PageWidth * R = 2 * (PageWidth * R) /\ m \in Nat
      BY <2>1, <2>2 DEF m
    <3>3. QED
      BY <2>1, <2>2, <3>1, <3>2
  <2>4. h = R
    BY DEF HeightFor, m
  <2>5. QED
    BY <2>2, <2>3, <2>4
<1> HIDE DEF w, h, u
<1>4. /\ Cropped(w, l, r, Round(w * l, Unit), Round(w * (r - l), Unit))
      /\ Cropped(h, t, b, Round(h * t, Unit), Round(h * (b - t), Unit))
  BY <1>1, <1>2, <1>3, CutRounds
<1>5. Cropped(w, l, r, cut[1], cut[3]) /\ Cropped(h, t, b, cut[2], cut[4])
  <2>1. CASE c = Whole
    <3>1. l = 0 /\ t = 0 /\ r = u /\ b = u
      BY <1>1, <2>1 DEF Whole, u
    <3>2. cut = <<0, 0, w, h>>
      BY <2>1 DEF Cut, h
    <3>3. \A p \in Nat : Cropped(p, 0, u, 0, p)
      <4> SUFFICES ASSUME NEW p \in Nat PROVE Cropped(p, 0, u, 0, p)
        OBVIOUS
      <4>1. p * 0 = 0 /\ p * (u - 0) = u * p /\ u * p \in Int /\ 2 * u * p = 2 * (u * p)
            /\ 2 * u * 0 = 0
        BY <1>2
      <4>2. QED
        BY <1>2, <4>1 DEF Cropped, u
    <3>4. QED
      BY <1>2, <1>3, <3>1, <3>2, <3>3
  <2>2. CASE c # Whole
    <3>1. cut = <<Round(w * c[1], Unit), Round(h * c[2], Unit),
                  Round(w * (c[3] - c[1]), Unit), Round(h * (c[4] - c[2]), Unit)>>
      BY <2>2 DEF Cut, h
    <3>2. c[1] = l /\ c[2] = t /\ c[3] = r /\ c[4] = b
      BY <1>1
    <3> HIDE DEF c
    <3>3. QED
      BY <1>4, <3>1, <3>2
  <2>3. QED
    BY <2>1, <2>2
<1>6. c[1] = l /\ c[2] = t /\ c[3] = r /\ c[4] = b
  BY <1>1
<1>7. cut[1] + cut[3] <= w + 1 /\ cut[2] + cut[4] <= h + 1
  <2> HIDE DEF cut
  <2>1. cut[1] + cut[3] <= w + 1
    BY <1>1, <1>2, <1>5, CutSize
  <2>2. cut[2] + cut[4] <= h + 1
    BY <1>1, <1>3, <1>5, CutSize
  <2>3. QED
    BY <2>1, <2>2
<1> DEFINE ps == j.painted
<1>8. \A k \in DOMAIN ps : Placed(ps[k])
  BY DEF Rendering
<1>9. ASSUME NEW k \in DOMAIN ps, ps[k].crop = c
      PROVE  /\ Near(ps[k].at[1], w, cut[1], cut[3], ps[k].asked[1], 1)
             /\ Near(ps[k].at[3], w, cut[1], cut[3], ps[k].asked[3], 1)
             /\ ps[k].key # ":highlight-line" =>
                  /\ Near(ps[k].at[2], h, cut[2], cut[4], ps[k].asked[2], 1)
                  /\ Near(ps[k].at[4], h, cut[2], cut[4], ps[k].asked[4], 1)
  <2> DEFINE p == ps[k]
  <2>1. Placed(p) /\ p.crop = c
    BY <1>8, <1>9
  <2> HIDE DEF p, cut, c
  <2>2. /\ Placing(p.asked[1], l, r, p.at[1]) /\ Placing(p.asked[3], l, r, p.at[3])
        /\ p.key # ":highlight-line" =>
             Placing(p.asked[2], t, b, p.at[2]) /\ Placing(p.asked[4], t, b, p.at[4])
    BY <1>6, <2>1 DEF Placed
  <2>3. w \in Nat /\ h \in Nat
    BY <1>2, <1>3
  <2>4. /\ Near(p.at[1], w, cut[1], cut[3], p.asked[1], 1)
        /\ Near(p.at[3], w, cut[1], cut[3], p.asked[3], 1)
    BY <1>5, <2>2, <2>3, NearBy
  <2>5. p.key # ":highlight-line" =>
          /\ Near(p.at[2], h, cut[2], cut[4], p.asked[2], 1)
          /\ Near(p.at[4], h, cut[2], cut[4], p.asked[4], 1)
    BY <1>5, <2>2, <2>3, NearBy
  <2>6. QED
    BY <2>4, <2>5 DEF p
<1>10. /\ image'.width = w /\ image'.cut = cut /\ image'.painted = ps /\ image'.crop = c
  BY DEF w
<1> HIDE DEF cut, c, ps
<1>11. QED
  BY <1>7, <1>9, <1>10 DEF ShownWhereAsked, h

(* An image of the page, and its colours.                                  *)
LEMMA Coloured ==
  ASSUME RenderSizes, options.usecolors \in 0 .. 2, page' = page,
         image'.of = RenderedPage(options)
  PROVE  Recolours'
<1>1. PICK pic \in {page.screen, page.print} : RenderedPage(options) = Recoloured(pic, options)
  BY DEF RenderedPage
<1>2. PICK becomes : \A p \in Column \X Row : Recoloured(pic, options)[p] = becomes[pic[p]]
  BY Recoloured1
<1>3. \A p, q \in Column \X Row : pic[p] = pic[q] => image'.of[p] = image'.of[q]
  BY <1>1, <1>2
<1>4. pic \in {page'.screen, page'.print}
  BY <1>1
<1>5. QED
  BY <1>3, <1>4 DEF Recolours

THEOREM Renders == ASSUME RenderSizes PROVE RenderSpec => []RendersRight
<1>1. RenderInit => RenderInv
  BY DEF RenderInit, RenderInv, NoJob, NoImage, RendersRight, Recolours, BoxTight, ShownWhereAsked
<1>2. RenderInv /\ [RenderNext]_renderVars => RenderInv'
  <2> SUFFICES ASSUME RenderInv, [RenderNext]_renderVars PROVE RenderInv'
    OBVIOUS
  <2>1. CASE SetOption
    <3>1. /\ DOMAIN options' = {"usecolors", "printed", "fg", "bg"}
          /\ options'.usecolors \in 0 .. 2
      BY <2>1 DEF SetOption, RenderInv, SetUsecolors, SetPrinted
    <3>2. UNCHANGED <<page, job, image>>
      BY <2>1 DEF SetOption
    <3>3. QED
      BY <3>1, <3>2 DEF RenderInv, RendersRight, Recolours, BoxTight, ShownWhereAsked
  <2>2. CASE BoundingBox
    <3>1. /\ job = NoJob /\ image' = [is |-> "box", of |-> RenderedPage(options),
                                     box |-> Box(RenderedPage(options))]
          /\ UNCHANGED <<page, options, sets, job>>
      BY <2>2 DEF BoundingBox
    <3>2. image'.is = "box" /\ image'.of = RenderedPage(options) /\ image'.box = Box(RenderedPage(options))
      BY <3>1
    <3>3. Recolours'
      BY <3>1, <3>2, Coloured DEF RenderInv
    <3>4. BoxTight'
      <4>1. Tight(image'.of, image'.box)
        BY <3>2, BoxOfImage
      <4>2. QED
        BY <4>1 DEF Tight, BoxTight
    <3>5. ShownWhereAsked'
      BY <3>2 DEF ShownWhereAsked
    <3>6. QED
      BY <3>1, <3>3, <3>4, <3>5 DEF RenderInv, RendersRight
  <2>3. CASE RenderPage
    <3>1. PICK w \in Widths : job' = [is |-> "render", width |-> w, pen |-> NoPen,
                                     crop |-> Whole, painted |-> <<>>, args |-> 0]
      BY <2>3 DEF RenderPage
    <3>2. image' = NoImage /\ UNCHANGED <<page, options, sets>>
      BY <2>3 DEF RenderPage
    <3>3. /\ DOMAIN job' = {"is", "width", "pen", "crop", "painted", "args"}
          /\ job'.width = w /\ job'.crop = Whole /\ job'.painted = <<>> /\ job'.args = 0
      BY <3>1
    <3>4. Left(Whole, MaxCommands)
      <4>1. 0 \in 0 .. Unit /\ Unit \in 0 .. Unit /\ 0 <= Unit
        BY UnitSize
      <4>2. QED
        BY <4>1, UnitSize DEF Left, Whole
    <3>5. Rendering(job', MaxCommands)
      <4>1. <<>> \in Seq({}) /\ DOMAIN <<>> = {}
        OBVIOUS
      <4>2. QED
        BY <3>3, <3>4, <4>1 DEF Rendering
    <3>6. MaxCommands \in Nat /\ MaxCommands - 0 = MaxCommands /\ 0 \in 0 .. MaxCommands
      BY DEF RenderSizes
    <3>7. image'.is = "none"
      BY <3>2 DEF NoImage
    <3>8. QED
      BY <3>2, <3>3, <3>5, <3>6, <3>7
         DEF RenderInv, RendersRight, Recolours, BoxTight, ShownWhereAsked
  <2>4. CASE Argument
    BY <2>4, Argued DEF Argument
  <2>5. CASE Finish
    <3>1. job # NoJob /\ job' = NoJob /\ UNCHANGED <<page, options, sets>>
      BY <2>5 DEF Finish
    <3>2. CASE image' = [is |-> "error"]
      BY <3>1, <3>2 DEF RenderInv, RendersRight, Recolours, BoxTight, ShownWhereAsked
    <3>3. CASE image' = [is |-> "image", of |-> RenderedPage(options), painted |-> job.painted,
                         crop |-> job.crop, width |-> job.width, cut |-> Cut(job.width, job.crop)]
      <4>1. image'.is = "image" /\ image'.of = RenderedPage(options)
        BY <3>3
      <4>2. Recolours'
        BY <3>1, <4>1, Coloured DEF RenderInv
      <4>3. ShownWhereAsked'
        <5>1. MaxCommands - job.args \in 0 .. MaxCommands
          BY <3>1 DEF RenderInv, RenderSizes
        <5>2. Rendering(job, MaxCommands - job.args)
          BY <3>1 DEF RenderInv
        <5>3. QED
          BY <3>3, <5>1, <5>2, Shown
      <4>4. BoxTight'
        BY <4>1 DEF BoxTight
      <4>5. QED
        BY <3>1, <4>2, <4>3, <4>4 DEF RenderInv, RendersRight
    <3>4. QED
      BY <2>5, <3>2, <3>3 DEF Finish
  <2>6. CASE UNCHANGED renderVars
    BY <2>6 DEF renderVars, RenderInv, RendersRight, Recolours, BoxTight, ShownWhereAsked
  <2>7. QED
    BY <2>1, <2>2, <2>3, <2>4, <2>5, <2>6 DEF RenderNext
<1>3. RenderInv => RendersRight
  BY DEF RenderInv
<1>4. QED
  BY <1>1, <1>2, <1>3, PTL DEF RenderSpec
------------------------------------------------------------------------------
(***************************************************************************)
(* Any number of queries, given up or not, and a process that may die at   *)
(* any time: a query that was made while nothing was on its way, and that  *)
(* no other interrupts, gets its own answer.                               *)
(*                                                                         *)
(* What has arrived and what is on its way are one sequence, of which the  *)
(* pipe moves the border: nothing while the statement is unread, and then  *)
(* the whole of one answer.                                                *)
(***************************************************************************)
Kinds  == {"prompt", "rows", "success", "error", "killed"}
Pieces == [of : Nat, is : Kinds]

SqlTypeOK ==
  /\ made \in Nat /\ 1 .. made \subseteq Ids
  /\ stdin \in Seq(Ids) /\ process \in {"run", "dead"}
  /\ stdout \in Seq(Pieces) /\ buffer \in Seq(Pieces)
  /\ waits \in Seq(1 .. made)
  /\ result \in [Ids -> Int]
  /\ quiet \subseteq 1 .. made

Arriving == buffer \o stdout

(* The answers to q with the prompts after them; and what a process that   *)
(* finds no memory says before it quits.                                   *)
WholeAnswer(q) ==
  {<<Piece(q, "rows"), Piece(q, "success"), Prompt>>,
   <<Piece(q, "rows"), Piece(q, "error"), Prompt>>,
   <<Piece(q, "error"), Prompt>>}
LastWords(q) == <<Piece(q, "error"), Prompt, Piece(0, "error")>>

OnItsWay(q) ==
  \/ process = "dead" /\ buffer = Killed
  \/ stdin = <<q>> /\ Arriving = <<>>
  \/ stdin = <<>> /\ process = "dead" /\ Arriving = <<>>
  \/ stdin = <<>> /\ Arriving \in WholeAnswer(q) \cup {LastWords(q)}

(* Those that are not the innermost were interrupted by it.                *)
Interrupted == \A i \in 1 .. Len(waits) - 1 : waits[i] \in disturbed

(* Queries to come have no results.                                        *)
Unasked == \A q \in Ids : q > made => result[q] = NoneYet

SqlInv ==
  /\ SqlTypeOK /\ Unasked /\ Interrupted /\ InStep
  /\ waits # <<>> /\ Wait \in quiet \ disturbed => OnItsWay(Wait)
------------------------------------------------------------------------------
LEMMA PieceOf == /\ \A q \in Nat, s \in Kinds : Piece(q, s) \in Pieces
                 /\ Prompt \in Pieces /\ Prompt = Piece(0, "prompt")
                 /\ Killed = <<Piece(0, "killed")>> /\ Killed \in Seq(Pieces)
                 /\ \A q : Piece(q, "rows") # Prompt /\ Piece(q, "error") # Prompt
                           /\ Piece(q, "success") # Prompt
<1>1. \A q \in Nat, s \in Kinds : Piece(q, s) \in Pieces
  BY DEF Piece, Pieces
<1>2. Prompt = Piece(0, "prompt") /\ Killed = <<Piece(0, "killed")>>
  BY DEF Piece, Prompt, Killed
<1>3. Piece(0, "prompt") \in Pieces /\ Piece(0, "killed") \in Pieces
  BY <1>1 DEF Kinds
<1>4. ASSUME NEW q
      PROVE  /\ Piece(q, "rows") # Prompt /\ Piece(q, "error") # Prompt
             /\ Piece(q, "success") # Prompt
  <2>1. /\ Prompt.is = "prompt" /\ Piece(q, "rows").is = "rows"
        /\ Piece(q, "error").is = "error" /\ Piece(q, "success").is = "success"
    BY DEF Piece, Prompt
  <2>2. QED
    BY <2>1
<1>5. <<Piece(0, "killed")>> \in Seq(Pieces)
  BY <1>3
<1>6. QED
  BY <1>1, <1>2, <1>3, <1>4, <1>5

LEMMA WholeOf ==
  ASSUME NEW q \in Ids, NEW a \in Answers(q)
  PROVE  a \in Seq(Pieces) /\ a \o <<Prompt>> \in WholeAnswer(q)
<1> DEFINE r == Piece(q, "rows")  s == Piece(q, "success")  e == Piece(q, "error")
<1>1. r \in Pieces /\ s \in Pieces /\ e \in Pieces /\ Prompt \in Pieces
  <2>1. q \in Nat
    BY DEF Ids
  <2>2. Prompt \in Pieces
    BY PieceOf
  <2>3. r \in Pieces /\ s \in Pieces /\ e \in Pieces
    BY <2>1, PieceOf DEF Kinds
  <2>4. QED
    BY <2>2, <2>3
<1>2. /\ Answers(q) = {<<r, s>>, <<r, e>>, <<e>>}
      /\ WholeAnswer(q) = {<<r, s, Prompt>>, <<r, e, Prompt>>, <<e, Prompt>>}
  BY DEF Answers, WholeAnswer
<1> HIDE DEF r, s, e
<1>3. ASSUME NEW x \in Pieces, NEW y \in Pieces, NEW z \in Pieces
      PROVE  /\ <<x, y>> \o <<z>> = <<x, y, z>>
             /\ <<x>> \o <<z>> = <<x, z>>
             /\ <<x, y>> \in Seq(Pieces) /\ <<x>> \in Seq(Pieces)
  <2> DEFINE S == {x, y, z}
  <2>1. /\ <<x, y>> \in Seq(S) /\ <<x>> \in Seq(S) /\ <<z>> \in Seq(S)
        /\ <<x, y, z>> \in Seq(S) /\ <<x, z>> \in Seq(S)
    OBVIOUS
  <2>2. /\ Len(<<x, y>>) = 2 /\ Len(<<x>>) = 1 /\ Len(<<z>>) = 1
        /\ Len(<<x, y, z>>) = 3 /\ Len(<<x, z>>) = 2
        /\ <<x, y>>[1] = x /\ <<x, y>>[2] = y /\ <<x>>[1] = x /\ <<z>>[1] = z
    OBVIOUS
  <2> DEFINE xy == <<x, y>>  x1 == <<x>>  z1 == <<z>>  xyz == <<x, y, z>>  xz == <<x, z>>
  <2>3. xyz[1] = x /\ xyz[2] = y /\ xyz[3] = z /\ xz[1] = x /\ xz[2] = z
    OBVIOUS
  <2> HIDE DEF S, xy, x1, z1, xyz, xz
  <2>4. /\ xy \o z1 \in Seq(S) /\ Len(xy \o z1) = 3
        /\ \A i \in 1 .. 3 : (xy \o z1)[i] = IF i <= 2 THEN xy[i] ELSE z1[i - 2]
    BY <2>1, <2>2, ConcatProperties DEF xy, z1
  <2>5. /\ x1 \o z1 \in Seq(S) /\ Len(x1 \o z1) = 2
        /\ \A i \in 1 .. 2 : (x1 \o z1)[i] = IF i <= 1 THEN x1[i] ELSE z1[i - 1]
    BY <2>1, <2>2, ConcatProperties DEF x1, z1
  <2>6. /\ \A i \in 1 .. 3 : (xy \o z1)[i] = xyz[i]
        /\ \A i \in 1 .. 2 : (x1 \o z1)[i] = xz[i]
    BY <2>2, <2>3, <2>4, <2>5 DEF xy, x1, z1
  <2>7. xyz \in Seq(S) /\ Len(xyz) = 3 /\ xz \in Seq(S) /\ Len(xz) = 2
    BY <2>1, <2>2 DEF xyz, xz
  <2>8. xy \o z1 = xyz
    BY <2>4, <2>6, <2>7, SeqEqual
  <2>9. x1 \o z1 = xz
    BY <2>5, <2>6, <2>7, SeqEqual
  <2>10. <<x, y>> \in Seq(Pieces) /\ <<x>> \in Seq(Pieces)
    OBVIOUS
  <2>11. QED
    BY <2>8, <2>9, <2>10 DEF xy, x1, z1, xyz, xz
<1>4. CASE a = <<r, s>>
  BY <1>1, <1>2, <1>3, <1>4
<1>5. CASE a = <<r, e>>
  BY <1>1, <1>2, <1>3, <1>5
<1>6. CASE a = <<e>>
  BY <1>1, <1>2, <1>3, <1>6
<1>7. QED
  BY <1>2, <1>4, <1>5, <1>6

LEMMA SqlInitially == ASSUME NSql \in Nat PROVE SqlInit => SqlInv
<1> SUFFICES ASSUME SqlInit PROVE SqlInv
  OBVIOUS
<1>1. SqlTypeOK
  BY PieceOf DEF SqlInit, SqlTypeOK, NoneYet
<1>2. QED
  BY <1>1 DEF SqlInit, SqlInv, Unasked, Interrupted, InStep

(* Moving the border between what has arrived and what is on its way.      *)
LEMMA Moving ==
  ASSUME SqlTypeOK, NEW n \in 1 .. Len(stdout),
         buffer' = buffer \o SubSeq(stdout, 1, n),
         stdout' = SubSeq(stdout, n + 1, Len(stdout))
  PROVE  /\ Arriving' = Arriving
         /\ buffer' \in Seq(Pieces) /\ stdout' \in Seq(Pieces)
<1> DEFINE a == SubSeq(stdout, 1, n)  b == SubSeq(stdout, n + 1, Len(stdout))
<1>1. buffer \in Seq(Pieces) /\ stdout \in Seq(Pieces) /\ Len(stdout) \in Nat
  BY DEF SqlTypeOK
<1>2. a \in Seq(Pieces) /\ b \in Seq(Pieces)
  <2>1. \A i \in 1 .. Len(stdout) : stdout[i] \in Pieces
    BY <1>1
  <2>2. /\ \A i \in 1 .. n : stdout[i] \in Pieces
        /\ \A i \in n + 1 .. Len(stdout) : stdout[i] \in Pieces
    BY <1>1, <2>1
  <2>3. QED
    BY <1>1, <2>2, SubSeqProperties
<1>3. a \o b = stdout
  <2>1. 1 \in 1 .. Len(stdout) + 1 /\ n \in 0 .. Len(stdout) /\ Len(stdout) \in n .. Len(stdout)
    BY <1>1
  <2>2. a \o b = SubSeq(stdout, 1, Len(stdout))
    BY <1>1, <2>1, ConcatAdjacentSubSeq
  <2>3. QED
    BY <1>1, <2>2, SubSeqFull
<1> HIDE DEF a, b
<1>4. (buffer \o a) \o b = buffer \o (a \o b)
  <2>1. buffer \in Seq(Pieces)
    BY <1>1
  <2>2. QED
    BY <2>1, <1>2, ConcatAssociative
<1>5. buffer \o a \in Seq(Pieces)
  BY <1>1, <1>2, ConcatProperties
<1>6. QED
  BY <1>2, <1>3, <1>4, <1>5 DEF Arriving, a, b

LEMMA NothingArrives ==
  ASSUME SqlTypeOK, Arriving = <<>> PROVE buffer = <<>> /\ stdout = <<>>
BY ConcatSimplifications DEF SqlTypeOK, Arriving

(* What is read at a prompt is the beginning of the answer.                *)
LEMMA ReadsOwn ==
  ASSUME SqlTypeOK, NEW q \in Ids, OnItsWay(q), WaitingP
  PROVE  \/ Parse = q
         \/ Parse = Failed /\ process = "dead"
<1>1. CASE process = "dead" /\ buffer = Killed
  BY <1>1 DEF Parse
<1>2. CASE Arriving = <<>>
  BY <1>2, NothingArrives DEF WaitingP
<1>3. CASE Arriving \in WholeAnswer(q) \cup {LastWords(q)} /\ buffer # Killed
  <2>1. /\ buffer \in Seq(Pieces) /\ stdout \in Seq(Pieces)
        /\ Len(buffer) \in Nat /\ Len(stdout) \in Nat
    BY DEF SqlTypeOK
  <2>2. /\ Len(Arriving) = Len(buffer) + Len(stdout)
        /\ \A i \in 1 .. Len(buffer) : Arriving[i] = buffer[i]
    BY <2>1, ConcatProperties DEF Arriving
  <2>3. Len(buffer) >= 1 /\ buffer[Len(buffer)] = Prompt
    BY <1>3, <2>1 DEF WaitingP
  <2>4. buffer[1] = Arriving[1]
    BY <2>1, <2>2, <2>3
  <2>5. CASE Arriving \in {<<Piece(q, "error"), Prompt>>, LastWords(q)}
    <3>1. Arriving[1] = Piece(q, "error")
      BY <2>5 DEF LastWords
    <3>2. buffer[1].is = "error" /\ buffer[1].of = q
      BY <2>4, <3>1 DEF Piece
    <3>3. QED
      BY <1>3, <2>3, <3>2 DEF Parse
  <2>6. ASSUME NEW s \in {"success", "error"},
               Arriving = <<Piece(q, "rows"), Piece(q, s), Prompt>>
        PROVE  Parse = q
    <3>1. Arriving[1] = Piece(q, "rows") /\ Arriving[2] = Piece(q, s)
      BY <2>6
    <3>2. Len(buffer) # 1
      BY <2>3, <2>4, <3>1, PieceOf
    <3>3. Len(buffer) >= 2 /\ buffer[2] = Piece(q, s)
      <4>1. 2 \in 1 .. Len(buffer)
        <5>1. \A n \in Nat : n >= 1 /\ n # 1 => 2 \in 1 .. n
          OBVIOUS
        <5>2. Len(buffer) \in Nat /\ Len(buffer) >= 1
          BY <2>1, <2>3
        <5>3. QED
          BY <5>1, <5>2, <3>2
      <4>2. QED
        BY <2>1, <2>2, <3>1, <4>1
    <3>4. buffer[1].is = "rows" /\ buffer[1].of = q /\ buffer[2].is = s
      BY <2>4, <3>1, <3>3 DEF Piece
    <3>5. QED
      BY <1>3, <2>3, <3>3, <3>4 DEF Parse
  <2>7. QED
    BY <1>3, <2>5, <2>6 DEF WholeAnswer
<1>4. CASE Arriving \in WholeAnswer(q) \cup {LastWords(q)} /\ buffer = Killed
  <2>1. Len(buffer) = 1 /\ buffer[1] = Piece(0, "killed") /\ buffer \in Seq(Pieces)
    BY <1>4, PieceOf
  <2>2. Arriving[1] = Piece(0, "killed")
    <3>1. stdout \in Seq(Pieces) /\ 1 \in 1 .. Len(buffer)
      BY <2>1 DEF SqlTypeOK
    <3>2. (buffer \o stdout)[1] = buffer[1]
      BY <2>1, <3>1, ConcatProperties
    <3>3. QED
      BY <2>1, <3>2 DEF Arriving
  <2>3. Arriving[1].is = "killed"
    BY <2>2 DEF Piece
  <2>4. Arriving[1] \in {Piece(q, "rows"), Piece(q, "error")}
    BY <1>4 DEF WholeAnswer, LastWords
  <2>5. QED
    BY <2>3, <2>4 DEF Piece
<1>5. QED
  BY <1>1, <1>2, <1>3, <1>4 DEF OnItsWay
------------------------------------------------------------------------------
LEMMA QueryKeeps == ASSUME NSql \in Nat PROVE SqlInv /\ Query => SqlInv'
<1> SUFFICES ASSUME SqlInv, Query PROVE SqlInv'
  OBVIOUS
<1> DEFINE q == made + 1
<1>1. /\ SqlTypeOK /\ Unasked /\ Interrupted /\ InStep /\ q \in Ids /\ made' = q /\ made \in Nat
      /\ 1 .. q \subseteq Ids /\ q \notin quiet /\ quiet \subseteq 1 .. made
      /\ process' = process /\ stdout' = stdout
  <2>1. SqlTypeOK /\ Unasked /\ Interrupted /\ InStep
    BY DEF SqlInv
  <2>2. made \in Nat /\ made < NSql /\ quiet \subseteq 1 .. made
    BY DEF SqlInv, SqlTypeOK, Query
  <2>3. q \in Ids /\ 1 .. q \subseteq Ids
    BY <2>2 DEF Ids
  <2>4. q \notin 1 .. made
    BY <2>2
  <2>5. made' = q /\ process' = process /\ stdout' = stdout
    BY DEF Query
  <2>6. QED
    BY <2>1, <2>2, <2>3, <2>4, <2>5
<1>2. CASE buffer = Killed
  <2>1. /\ result' = [result EXCEPT ![q] = Failed]
        /\ UNCHANGED <<stdin, buffer, waits, quiet, disturbed>>
    BY <1>2 DEF Query
  <2>2. SqlTypeOK' /\ Unasked'
    <3>1. waits' \in Seq(1 .. made')
      BY <1>1, <2>1, SeqMonotonic DEF SqlTypeOK
    <3>2. SqlTypeOK'
      BY <1>1, <2>1, <3>1 DEF SqlTypeOK, Failed
    <3>3. Unasked'
      BY <1>1, <2>1 DEF SqlTypeOK, Unasked, Ids
    <3>4. QED
      BY <3>2, <3>3
  <2>3. InStep'
    BY <1>1, <2>1 DEF InStep, SqlTypeOK
  <2>4. waits' # <<>> /\ Wait' \in quiet' \ disturbed' => OnItsWay(Wait)'
    BY <1>1, <2>1 DEF SqlInv, OnItsWay, Wait, Arriving
  <2>5. QED
    BY <1>1, <2>1, <2>2, <2>3, <2>4 DEF SqlInv, Interrupted
<1>3. CASE buffer # Killed
  <2>1. /\ buffer' = <<>>
        /\ stdin' = IF process = "run" THEN Append(stdin, q) ELSE stdin
        /\ waits' = Append(waits, q)
        /\ quiet' = IF stdin = <<>> /\ stdout = <<>> THEN quiet \cup {q} ELSE quiet
        /\ disturbed' = disturbed \cup Waits
        /\ result' = result
    BY <1>3 DEF Query, Cleared
  <2>2. /\ waits' \in Seq(1 .. q) /\ Len(waits') = Len(waits) + 1 /\ waits'[Len(waits) + 1] = q
        /\ \A i \in 1 .. Len(waits) : waits'[i] = waits[i]
        /\ Len(waits) \in Nat /\ waits' # <<>>
    <3>1. waits \in Seq(1 .. q) /\ q \in 1 .. q
      BY <1>1, SeqMonotonic DEF SqlTypeOK
    <3>2. QED
      BY <2>1, <3>1, AppendProperties
  <2>3. SqlTypeOK' /\ Unasked'
    <3>1. stdin' \in Seq(Ids) /\ buffer' \in Seq(Pieces)
      BY <1>1, <2>1 DEF SqlTypeOK
    <3>2. quiet' \subseteq 1 .. made'
      BY <1>1, <2>1
    <3>3. SqlTypeOK'
      BY <1>1, <2>1, <2>2, <3>1, <3>2 DEF SqlTypeOK
    <3>4. Unasked'
      BY <1>1, <2>1 DEF Unasked, Ids
    <3>5. QED
      BY <3>3, <3>4
  <2>4. Interrupted'
    BY <2>1, <2>2 DEF Interrupted, Waits
  <2>5. InStep'
    <3>1. ASSUME NEW x \in quiet' \ disturbed', x # q
          PROVE  /\ result'[x] \in {NoneYet, GivenUp, Failed, x}
                 /\ result'[x] = Failed => process' = "dead"
      BY <1>1, <2>1, <3>1 DEF InStep
    <3>2. result'[q] = NoneYet
      BY <1>1, <2>1 DEF Unasked
    <3>3. NoneYet # Failed
      BY DEF NoneYet, Failed
    <3>4. QED
      BY <3>1, <3>2, <3>3 DEF InStep
  <2>6. Wait' = q
    BY <2>2 DEF Wait
  <2>7. ASSUME q \in quiet' PROVE OnItsWay(Wait)'
    <3>1. stdin = <<>> /\ stdout = <<>>
      BY <1>1, <2>1, <2>7
    <3>2. Arriving' = <<>>
      BY <1>1, <2>1, <3>1, ConcatEmptySeq DEF Arriving, SqlTypeOK
    <3>3. CASE process = "run"
      <4>1. stdin' = <<q>>
        BY <2>1, <3>1, <3>3
      <4>2. QED
        BY <2>6, <3>2, <4>1 DEF OnItsWay
    <3>4. CASE process = "dead"
      <4>1. stdin' = <<>> /\ process' = "dead"
        BY <1>1, <2>1, <3>1, <3>4
      <4>2. QED
        BY <3>2, <4>1 DEF OnItsWay
    <3>5. QED
      BY <1>1, <3>3, <3>4 DEF SqlTypeOK
  <2>8. QED
    BY <2>3, <2>4, <2>5, <2>6, <2>7 DEF SqlInv
<1>4. QED
  BY <1>2, <1>3

(* A step of the process or the pipe that gives nobody a result.           *)
LEMMA OnlyMoves ==
  ASSUME SqlInv, SqlTypeOK', UNCHANGED <<made, waits, result, quiet, disturbed>>,
         process = "dead" => process' = "dead",
         waits # <<>> /\ OnItsWay(Wait) => OnItsWay(Wait)'
  PROVE  SqlInv'
<1>1. Unasked' /\ Interrupted'
  BY DEF SqlInv, Unasked, Interrupted
<1>2. InStep'
  BY DEF SqlInv, InStep
<1>3. waits' # <<>> /\ Wait' \in quiet' \ disturbed' => OnItsWay(Wait)'
  BY DEF SqlInv, Wait
<1>4. QED
  BY <1>1, <1>2, <1>3 DEF SqlInv

LEMMA WaitOf ==
  ASSUME SqlTypeOK, waits # <<>>
  PROVE  /\ Wait \in 1 .. made /\ Wait \in Ids
         /\ SubSeq(waits, 1, Len(waits) - 1) \in Seq(1 .. made)
         /\ Len(SubSeq(waits, 1, Len(waits) - 1)) = Len(waits) - 1
         /\ \A i \in 1 .. Len(waits) - 1 : SubSeq(waits, 1, Len(waits) - 1)[i] = waits[i]
<1> DEFINE S == 1 .. made  n == Len(waits) - 1
<1>1. waits \in Seq(S) /\ S \subseteq Ids
  BY DEF SqlTypeOK, Ids
<1> HIDE DEF S
<1>2. Len(waits) \in Nat /\ Len(waits) # 0
  BY <1>1, EmptySeq
<1>3. Len(waits) \in 1 .. Len(waits) /\ n \in Int /\ n = Len(waits) - 1
  BY <1>2
<1>4. Wait \in S
  BY <1>1, <1>3, ElementOfSeq DEF Wait
<1>5. \A i \in 1 .. n : i \in 1 .. Len(waits)
  BY <1>2
<1>6. \A i \in 1 .. n : waits[i] \in S
  BY <1>1, <1>5, ElementOfSeq
<1> HIDE DEF n
<1>7. /\ SubSeq(waits, 1, n) \in Seq(S)
      /\ Len(SubSeq(waits, 1, n)) = IF 1 <= n THEN n - 1 + 1 ELSE 0
      /\ \A i \in 1 .. n - 1 + 1 : SubSeq(waits, 1, n)[i] = waits[1 + i - 1]
  BY <1>3, <1>6, SubSeqProperties
<1>8. /\ Len(SubSeq(waits, 1, n)) = n
      /\ \A i \in 1 .. n : SubSeq(waits, 1, n)[i] = waits[i]
  BY <1>2, <1>3, <1>7
<1>9. QED
  BY <1>1, <1>3, <1>4, <1>7, <1>8 DEF S, n

LEMMA ServeKeeps == SqlInv /\ Serve => SqlInv'
<1> SUFFICES ASSUME SqlInv, Serve PROVE SqlInv'
  OBVIOUS
<1> DEFINE q == Head(stdin)
<1>1. /\ SqlTypeOK /\ process = "run" /\ stdin # <<>> /\ stdin' = Tail(stdin)
      /\ UNCHANGED <<made, process, buffer, waits, result, quiet, disturbed>>
  BY DEF SqlInv, Serve
<1>2. PICK a \in Answers(q) : stdout' = (stdout \o a) \o <<Prompt>>
  BY DEF Serve
<1>3. /\ q \in Ids /\ stdin' \in Seq(Ids) /\ a \in Seq(Pieces) /\ a \o <<Prompt>> \in WholeAnswer(q)
      /\ <<Prompt>> \in Seq(Pieces) /\ buffer \in Seq(Pieces) /\ stdout \in Seq(Pieces)
  <2>1. q \in Ids /\ stdin' \in Seq(Ids)
    BY <1>1, HeadTailProperties DEF SqlTypeOK
  <2>2. Prompt \in Pieces
    BY PieceOf
  <2>3. <<Prompt>> \in Seq(Pieces)
    BY <2>2
  <2>4. QED
    BY <1>1, <2>1, <2>3, WholeOf DEF SqlTypeOK
<1>4. stdout' \in Seq(Pieces)
  BY <1>2, <1>3, ConcatProperties
<1>5. SqlTypeOK'
  BY <1>1, <1>3, <1>4 DEF SqlTypeOK
<1>6. ASSUME waits # <<>>, OnItsWay(Wait) PROVE OnItsWay(Wait)'
  <2>1. stdin = <<Wait>> /\ Arriving = <<>>
    BY <1>1, <1>6 DEF OnItsWay
  <2>2. buffer = <<>> /\ stdout = <<>>
    BY <1>1, <2>1, NothingArrives
  <2>3. q = Wait /\ stdin' = <<>>
    BY <1>1, <2>1
  <2>4. stdout' = a \o <<Prompt>>
    BY <1>2, <1>3, <2>2, ConcatEmptySeq
  <2>5. Arriving' = stdout'
    BY <1>1, <1>4, <2>2, ConcatEmptySeq DEF Arriving
  <2>6. Arriving' \in WholeAnswer(Wait) /\ Wait' = Wait
    BY <1>1, <1>3, <2>3, <2>4, <2>5 DEF Wait
  <2>7. QED
    BY <2>3, <2>6 DEF OnItsWay, WholeAnswer, LastWords
<1>7. QED
  BY <1>1, <1>5, <1>6, OnlyMoves

LEMMA NoMemoryKeeps == SqlInv /\ NoMemory => SqlInv'
<1> SUFFICES ASSUME SqlInv, NoMemory PROVE SqlInv'
  OBVIOUS
<1> DEFINE q == Head(stdin)
<1>1. /\ SqlTypeOK /\ process = "run" /\ stdin # <<>> /\ stdin' = <<>> /\ process' = "dead"
      /\ stdout' = stdout \o LastWords(q)
      /\ UNCHANGED <<made, buffer, waits, result, quiet, disturbed>>
  BY DEF SqlInv, NoMemory, LastWords
<1>2. LastWords(q) \in Seq(Pieces)
  <2>1. q \in Ids
    BY <1>1, HeadTailProperties DEF SqlTypeOK
  <2>2. Piece(q, "error") \in Pieces /\ Prompt \in Pieces /\ Piece(0, "error") \in Pieces
    BY <2>1, PieceOf DEF Ids, Kinds
  <2>3. QED
    BY <2>2 DEF LastWords
<1>3. stdout' \in Seq(Pieces)
  BY <1>1, <1>2, ConcatProperties DEF SqlTypeOK
<1>4. SqlTypeOK'
  BY <1>1, <1>3 DEF SqlTypeOK
<1>5. ASSUME waits # <<>>, OnItsWay(Wait) PROVE OnItsWay(Wait)'
  <2>1. stdin = <<Wait>> /\ Arriving = <<>>
    BY <1>1, <1>5 DEF OnItsWay
  <2>2. buffer = <<>> /\ stdout = <<>> /\ q = Wait
    BY <1>1, <2>1, NothingArrives
  <2>3. stdout' = LastWords(q)
    BY <1>1, <1>2, <2>2, ConcatEmptySeq
  <2>4. Arriving' = stdout' /\ Wait' = Wait
    BY <1>1, <1>3, <2>2, ConcatEmptySeq DEF Arriving, Wait
  <2>5. QED
    BY <1>1, <2>2, <2>3, <2>4 DEF OnItsWay, WholeAnswer, LastWords
<1>6. QED
  BY <1>1, <1>4, <1>5, OnlyMoves

LEMMA DieKeeps == SqlInv /\ Die => SqlInv'
<1> SUFFICES ASSUME SqlInv, Die PROVE SqlInv'
  OBVIOUS
<1>1. /\ SqlTypeOK /\ process = "run" /\ stdin' = <<>> /\ process' = "dead"
      /\ UNCHANGED <<made, stdout, buffer, waits, result, quiet, disturbed>>
  BY DEF SqlInv, Die
<1>2. SqlTypeOK'
  BY <1>1 DEF SqlTypeOK
<1>3. Arriving' = Arriving /\ Wait' = Wait
  BY <1>1 DEF Arriving, Wait
<1>4. ASSUME OnItsWay(Wait) PROVE OnItsWay(Wait)'
  BY <1>1, <1>3, <1>4 DEF OnItsWay, WholeAnswer, LastWords
<1>5. QED
  BY <1>1, <1>2, <1>4, OnlyMoves

LEMMA DeliverKeeps == SqlInv /\ Deliver => SqlInv'
<1> SUFFICES ASSUME SqlInv, Deliver PROVE SqlInv'
  OBVIOUS
<1>1. /\ SqlTypeOK /\ buffer # Killed
      /\ UNCHANGED <<made, stdin, process, waits, result, quiet, disturbed>>
  BY DEF SqlInv, Deliver
<1>2. PICK n \in 1 .. Len(stdout) : /\ buffer' = buffer \o SubSeq(stdout, 1, n)
                                    /\ stdout' = SubSeq(stdout, n + 1, Len(stdout))
  BY DEF Deliver
<1>3. Arriving' = Arriving /\ buffer' \in Seq(Pieces) /\ stdout' \in Seq(Pieces)
  BY <1>1, <1>2, Moving
<1>4. SqlTypeOK'
  BY <1>1, <1>3 DEF SqlTypeOK
<1>5. ASSUME OnItsWay(Wait) PROVE OnItsWay(Wait)'
  <2>1. Wait' = Wait
    BY <1>1 DEF Wait
  <2>2. QED
    BY <1>1, <1>3, <1>5, <2>1 DEF OnItsWay, WholeAnswer, LastWords
<1>6. QED
  BY <1>1, <1>4, <1>5, OnlyMoves

LEMMA SentinelKeeps == SqlInv /\ Sentinel => SqlInv'
<1> SUFFICES ASSUME SqlInv, Sentinel PROVE SqlInv'
  OBVIOUS
<1>1. /\ SqlTypeOK /\ process = "dead" /\ buffer' = Killed
      /\ UNCHANGED <<made, stdin, process, stdout, waits, result, quiet, disturbed>>
  BY DEF SqlInv, Sentinel
<1>2. SqlTypeOK'
  BY <1>1, PieceOf DEF SqlTypeOK
<1>3. OnItsWay(Wait)'
  BY <1>1 DEF OnItsWay, Killed
<1>4. QED
  BY <1>1, <1>2, <1>3, OnlyMoves

(* The innermost wait ends with a result r; those outside were interrupted.*)
LEMMA Ending ==
  ASSUME SqlInv, waits # <<>>, NEW r \in Int,
         result' = [result EXCEPT ![Wait] = r],
         waits' = SubSeq(waits, 1, Len(waits) - 1),
         UNCHANGED <<made, stdin, process, stdout, buffer, quiet, disturbed>>,
         Wait \in quiet \ disturbed =>
           /\ r \in {GivenUp, Failed, Wait}
           /\ r = Failed => process = "dead"
  PROVE  SqlInv'
<1>1. SqlTypeOK /\ Unasked /\ Interrupted /\ InStep
  BY DEF SqlInv
<1>2. /\ Wait \in 1 .. made /\ Wait \in Ids /\ waits' \in Seq(1 .. made)
      /\ Len(waits') = Len(waits) - 1 /\ Len(waits) \in Nat
      /\ \A i \in 1 .. Len(waits) - 1 : waits'[i] = waits[i]
  <2>1. Len(waits) \in Nat
    BY <1>1 DEF SqlTypeOK
  <2>2. QED
    BY <1>1, <2>1, WaitOf
<1>3. SqlTypeOK'
  BY <1>1, <1>2 DEF SqlTypeOK
<1>4. Unasked'
  BY <1>1, <1>2 DEF Unasked, SqlTypeOK
<1>5. Interrupted'
  BY <1>1, <1>2 DEF Interrupted
<1>6. InStep'
  <2>1. ASSUME NEW q \in quiet \ disturbed
        PROVE  /\ result'[q] \in {NoneYet, GivenUp, Failed, q}
               /\ result'[q] = Failed => process' = "dead"
    <3>1. CASE q = Wait
      <4>1. result'[q] = r
        BY <1>1, <1>2, <3>1 DEF SqlTypeOK
      <4>2. QED
        BY <2>1, <3>1, <4>1
    <3>2. CASE q # Wait
      <4>1. result'[q] = result[q]
        BY <1>1, <2>1, <3>2 DEF SqlTypeOK, Ids
      <4>2. QED
        BY <1>1, <2>1, <4>1 DEF InStep
    <3>3. QED
      BY <3>1, <3>2
  <2>2. QED
    BY <2>1 DEF InStep
<1>7. waits' # <<>> => Wait' \in disturbed
  <2>1. ASSUME waits' # <<>> PROVE Len(waits') \in 1 .. Len(waits) - 1
    BY <1>2, <2>1, EmptySeq
  <2>2. QED
    BY <1>1, <1>2, <2>1 DEF Interrupted, Wait
<1>8. QED
  BY <1>3, <1>4, <1>5, <1>6, <1>7 DEF SqlInv

LEMMA ReturnKeeps == SqlInv /\ Return => SqlInv'
<1> SUFFICES ASSUME SqlInv, Return PROVE SqlInv'
  OBVIOUS
<1>1. /\ SqlTypeOK /\ waits # <<>> /\ WaitingP
      /\ result' = [result EXCEPT ![Wait] = Parse]
      /\ waits' = SubSeq(waits, 1, Len(waits) - 1)
      /\ UNCHANGED <<made, stdin, process, stdout, buffer, quiet, disturbed>>
  BY DEF SqlInv, Return
<1>2. Parse \in Int
  <2>1. buffer \in Seq(Pieces) /\ (buffer # <<>> => buffer[1] \in Pieces)
    BY <1>1, EmptySeq DEF SqlTypeOK
  <2>2. buffer[1] \in Pieces => buffer[1].of \in Int
    BY DEF Pieces
  <2>3. buffer # <<>>
    BY <1>1 DEF WaitingP
  <2>4. Parse = buffer[1].of \/ Parse = Failed
    BY DEF Parse
  <2>5. QED
    BY <2>1, <2>2, <2>3, <2>4 DEF Failed
<1>3. Wait \in quiet \ disturbed => Parse = Wait \/ (Parse = Failed /\ process = "dead")
  BY <1>1, WaitOf, ReadsOwn DEF SqlInv
<1>4. Wait # Failed
  BY <1>1, WaitOf DEF Ids, Failed
<1>5. QED
  BY <1>1, <1>2, <1>3, <1>4, Ending

LEMMA GiveUpKeeps == SqlInv /\ GiveUp => SqlInv'
<1> SUFFICES ASSUME SqlInv, GiveUp PROVE SqlInv'
  OBVIOUS
<1>1. GivenUp \in Int /\ GivenUp # Failed
  BY DEF GivenUp, Failed
<1>2. /\ waits # <<>> /\ result' = [result EXCEPT ![Wait] = GivenUp]
      /\ waits' = SubSeq(waits, 1, Len(waits) - 1)
      /\ UNCHANGED <<made, stdin, process, stdout, buffer, quiet, disturbed>>
  BY DEF GiveUp
<1>3. QED
  BY <1>1, <1>2, Ending

(* emacsql, emacsql-wait, emacsql-parse and the main loop of emacsql.c: a  *)
(* query made while nothing is on its way, which no other interrupts, gets *)
(* its own answer, or none because the process died or it was given up.    *)
THEOREM OwnRows == ASSUME NSql \in Nat PROVE SqlSpec => []InStep
<1>1. SqlInit => SqlInv
  BY SqlInitially
<1>2. SqlInv /\ [SqlNext]_sqlVars => SqlInv'
  <2> SUFFICES ASSUME SqlInv, [SqlNext]_sqlVars PROVE SqlInv'
    OBVIOUS
  <2>1. CASE SqlNext
    BY <2>1, QueryKeeps, ServeKeeps, NoMemoryKeeps, DieKeeps, DeliverKeeps, SentinelKeeps,
       ReturnKeeps, GiveUpKeeps DEF SqlNext
  <2>2. CASE UNCHANGED sqlVars
    <3>1. SqlTypeOK' /\ Wait' = Wait
      BY <2>2 DEF SqlInv, SqlTypeOK, sqlVars, Wait
    <3>2. OnItsWay(Wait) => OnItsWay(Wait)'
      BY <2>2, <3>1 DEF sqlVars, OnItsWay, WholeAnswer, LastWords, Arriving
    <3>3. QED
      BY <2>2, <3>1, <3>2, OnlyMoves DEF sqlVars
  <2>3. QED
    BY <2>1, <2>2
<1>3. SqlInv => InStep
  BY DEF SqlInv
<1>4. QED
  BY <1>1, <1>2, <1>3, PTL DEF SqlSpec
------------------------------------------------------------------------------
(***************************************************************************)
(* Without nesting, transactions of any number of processes are all or     *)
(* nothing.                                                                *)
(***************************************************************************)
TransactionTypeOK ==
  /\ pc \in [Emacsen -> Statements \cup Ended \cup {"unwind"}]
  /\ lock \in [Emacsen -> {"none", "begun", "shared"}]
  /\ pending \in [Emacsen -> SUBSET Writes]
  /\ stored \in [Emacsen -> SUBSET Writes]
  /\ DOMAIN sent = Emacsen

(* What is sent and not executed: a statement given up, then what ends the *)
(* transaction.                                                            *)
SentWell(e) ==
  /\ pc[e] \in Statements \cup {"returned"} => sent[e] = <<>>
  /\ pc[e] = "unwind" => sent[e] = <<>> \/ \E s \in Statements : sent[e] = <<s>>
  /\ pc[e] = "failed" =>
       \/ sent[e] = <<>>
       \/ \E x \in Closings : \/ sent[e] = <<x>>
                              \/ \E s \in Statements : sent[e] = <<s, x>>

(* What the transaction holds and the database has before a statement, or  *)
(* at a place of the macro.                                                *)
Before(e, p) ==
  /\ p \in {"begin", "returned", "failed"} => lock[e] = "none"
  /\ p \in {"read", "write1", "write2", "commit"} => lock[e] # "none"
  /\ p \in {"begin", "read", "write1"} => pending[e] = {}
  /\ p = "write2" => pending[e] = {1}
  /\ p = "commit" => pending[e] = Writes
  /\ p \in Statements => stored[e] = {}
  /\ p = "returned" => stored[e] = Writes
  /\ stored[e] \in {{}, Writes}

(* Where the process is, which may lag behind its Emacs.                   *)
Process(e) == IF sent[e] = <<>> THEN pc[e] ELSE Head(sent[e])
TransactionInv ==
  TransactionTypeOK /\ \A e \in Emacsen : SentWell(e) /\ Before(e, Process(e))

LEMMA TransactionInitially == TransactionInit => TransactionInv
BY DEF TransactionInit, TransactionInv, TransactionTypeOK, SentWell, Before, Process,
       Statements, Ended, Writes

(* A statement leaves what the next one finds, and whatever it was, the    *)
(* transaction can be unwound.                                             *)
Executed(e, s) ==
  /\ lock' \in [Emacsen -> {"none", "begun", "shared"}]
  /\ pending' \in [Emacsen -> SUBSET Writes]
  /\ stored' \in [Emacsen -> SUBSET Writes]
  /\ \A d \in Emacsen \ {e} : /\ lock'[d] = lock[d] /\ pending'[d] = pending[d]
                              /\ stored'[d] = stored[d]
  /\ s \in Statements => Before(e, After(s))'
  /\ s \in Closings => Before(e, "failed")'
  /\ stored'[e] \in {{}, Writes}

LEMMA ExecuteKeeps ==
  ASSUME TransactionTypeOK, NEW e \in Emacsen, NEW s \in Statements \cup Closings,
         Before(e, s), Execute(e, s), ~ Wrong(e, s)
  PROVE  Executed(e, s)
<1> USE DEF Executed, TransactionTypeOK, Before, Writes, Statements, Closings, After
<1>1. CASE s = "begin"
  BY <1>1 DEF Execute, At
<1>2. CASE s = "read"
  <2>1. /\ lock' = [lock EXCEPT ![e] = IF lock[e] = "begun" THEN "shared" ELSE lock[e]]
        /\ UNCHANGED <<pending, stored>>
    BY <1>2 DEF Execute, At
  <2>2. QED
    BY <1>2, <2>1
<1>3. ASSUME NEW w \in {1, 2}, s = At(w) PROVE Executed(e, s)
  <2>1. InTransaction(e) /\ s = (IF w = 1 THEN "write1" ELSE "write2")
    BY <1>3 DEF InTransaction, At
  <2>2. UNCHANGED <<lock, stored>> /\ pending' = [pending EXCEPT ![e] = pending[e] \cup {w}]
    BY <1>3, <2>1 DEF Execute, At
  <2>3. pending[e] \cup {w} = IF w = 1 THEN {1} ELSE {1, 2}
    BY <1>3, <2>1
  <2>4. QED
    BY <1>3, <2>1, <2>2, <2>3
<1>4. CASE s = "commit"
  <2>1. stored' = [stored EXCEPT ![e] = stored[e] \cup pending[e]]
        /\ lock' = [lock EXCEPT ![e] = "none"] /\ pending' = [pending EXCEPT ![e] = {}]
    BY <1>4 DEF Execute, At
  <2>2. stored[e] \cup pending[e] = Writes
    BY <1>4
  <2>3. QED
    BY <1>4, <2>1, <2>2
<1>5. CASE s \in Closings
  BY <1>5 DEF Execute, At, Rollback
<1>6. QED
  BY <1>1, <1>2, <1>3, <1>4, <1>5 DEF At

LEMMA Pipes ==
  ASSUME NEW A, NEW s \in A, NEW x \in A
  PROVE  /\ <<s>> # <<>> /\ <<s, x>> # <<>> /\ Head(<<s>>) = s /\ Head(<<s, x>>) = s
         /\ Tail(<<s>>) = <<>> /\ Tail(<<s, x>>) = <<x>>
         /\ Append(<<>>, s) = <<s>> /\ Append(<<s>>, x) = <<s, x>>
<1>1. /\ <<s>> # <<>> /\ <<s, x>> # <<>> /\ Head(<<s>>) = s /\ Head(<<s, x>>) = s
      /\ Tail(<<s>>) = <<>> /\ Append(<<>>, s) = <<s>>
  OBVIOUS
<1>2. ASSUME NEW q \in Seq(A), NEW r \in Seq(A), Len(q) = 1, Len(r) = 1, q[1] = r[1]
      PROVE  q = r
  <2>1. q = [i \in 1 .. 1 |-> q[i]] /\ r = [i \in 1 .. 1 |-> r[i]]
    BY <1>2
  <2>2. \A i \in 1 .. 1 : i = 1
    OBVIOUS
  <2>3. \A i \in 1 .. 1 : q[i] = r[i]
    BY <1>2, <2>2
  <2>4. QED
    BY <2>1, <2>3, Zenon
<1>3. ASSUME NEW q \in Seq(A), NEW r \in Seq(A),
             Len(q) = 2, Len(r) = 2, q[1] = r[1], q[2] = r[2]
      PROVE  q = r
  <2>1. q = [i \in 1 .. 2 |-> q[i]] /\ r = [i \in 1 .. 2 |-> r[i]]
    BY <1>3
  <2>2. \A i \in 1 .. 2 : i = 1 \/ i = 2
    OBVIOUS
  <2>3. \A i \in 1 .. 2 : q[i] = r[i]
    BY <1>3, <2>2
  <2>4. QED
    BY <2>1, <2>3, Zenon
<1>4. <<s, x>> \in Seq(A) /\ Len(<<s, x>>) = 2 /\ <<s, x>>[1] = s /\ <<s, x>>[2] = x
  OBVIOUS
<1>5. Append(<<s>>, x) = <<s, x>>
  <2>1. Append(<<s>>, x) \in Seq(A) /\ Len(Append(<<s>>, x)) = 2
    OBVIOUS
  <2>2. Append(<<s>>, x)[1] = s /\ Append(<<s>>, x)[2] = x
    OBVIOUS
  <2>3. QED
    BY <2>1, <2>2, <1>4, <1>3
<1>6. Tail(<<s, x>>) = <<x>>
  <2>1. ASSUME NEW q \in Seq(A), Len(q) = 2, q[2] = x
        PROVE  Tail(q) \in Seq(A) /\ Len(Tail(q)) = 1 /\ Tail(q)[1] = x
    <3>1. Tail(q) \in Seq(A) /\ Len(Tail(q)) = 1
      BY <2>1
    <3>2. Tail(q)[1] = x
      BY <2>1
    <3>3. QED
      BY <3>1, <3>2
  <2>2. <<x>> \in Seq(A) /\ Len(<<x>>) = 1 /\ <<x>>[1] = x
    OBVIOUS
  <2>3. QED
    BY <2>1, <2>2, <1>2, <1>4
<1>7. QED
  BY <1>1, <1>5, <1>6

(* A step of a process, or of its Emacs, leaves the others as they are.    *)
Others(e) ==
  \A d \in Emacsen \ {e} :
    /\ pc'[d] = pc[d] /\ sent'[d] = sent[d] /\ lock'[d] = lock[d]
    /\ pending'[d] = pending[d] /\ stored'[d] = stored[d]

LEMMA OneIsEnough ==
  ASSUME TransactionInv, NEW e \in Emacsen, TransactionTypeOK', Others(e),
         SentWell(e)', Before(e, Process(e))'
  PROVE  TransactionInv'
<1>1. ASSUME NEW d \in Emacsen \ {e} PROVE SentWell(d)' /\ Before(d, Process(d))'
  BY <1>1 DEF TransactionInv, Others, SentWell, Before, Process
<1>2. QED
  BY <1>1 DEF TransactionInv

(* The macro's own steps, while it waits for each statement.               *)
LEMMA InStepWithEmacs ==
  ASSUME ~ Nested, TransactionInv, NEW e \in Emacsen,
         \/ Statement(e) \/ BodyFails(e) \/ WaitEnds(e) \/ Locked(e)
  PROVE  TransactionInv'
<1>1. /\ pc[e] \in Statements /\ sent[e] = <<>> /\ Before(e, pc[e])
      /\ Process(e) = pc[e] /\ TransactionTypeOK
  BY DEF Statement, BodyFails, WaitEnds, Locked, TransactionInv, SentWell, Process
<1>2. CASE Statement(e)
  <2>1. PICK s \in Statements : s = pc[e]
    BY <1>1
  <2>2. /\ s \in Statements \cup Closings /\ Before(e, s) /\ Execute(e, s) /\ ~ Wrong(e, s)
        /\ UNCHANGED sent /\ pc' = [pc EXCEPT ![e] = After(s)]
    BY <1>1, <1>2, <2>1 DEF Statement, Goes
  <2>3. Executed(e, s)
    BY <1>1, <2>2, ExecuteKeeps
  <2>4. After(s) \in Statements \cup {"returned"} /\ pc'[e] = After(s)
    BY <1>1, <2>2 DEF After, Statements, TransactionTypeOK
  <2>5. Before(e, Process(e))' /\ SentWell(e)'
    BY <1>1, <2>2, <2>3, <2>4 DEF Executed, Before, Process, SentWell, Statements
  <2>6. TransactionTypeOK' /\ Others(e)
    BY <1>1, <2>2, <2>3, <2>4 DEF Executed, TransactionTypeOK, Others, Ended
  <2>7. QED
    BY <2>5, <2>6, OneIsEnough
<1>3. CASE BodyFails(e)
  <2>1. pc' = [pc EXCEPT ![e] = "unwind"] /\ UNCHANGED <<lock, pending, stored, tries, sent>>
    BY <1>3 DEF BodyFails, Goes, database
  <2>2. TransactionTypeOK' /\ Others(e) /\ pc'[e] = "unwind"
    BY <1>1, <2>1 DEF TransactionTypeOK, Others
  <2>3. SentWell(e)' /\ Before(e, Process(e))'
    BY <1>1, <2>1, <2>2 DEF SentWell, Before, Process, Statements, Ended
  <2>4. QED
    BY <2>2, <2>3, OneIsEnough
<1>4. CASE WaitEnds(e)
  <2>1. pc' = [pc EXCEPT ![e] = "unwind"] /\ UNCHANGED <<lock, pending, stored, tries>>
        /\ sent' = [sent EXCEPT ![e] = Append(sent[e], pc[e])]
    BY <1>4 DEF WaitEnds, Goes, database
  <2>2. TransactionTypeOK' /\ Others(e) /\ pc'[e] = "unwind"
    BY <1>1, <2>1 DEF TransactionTypeOK, Others
  <2>3. sent'[e] = <<pc[e]>> /\ sent'[e] # <<>> /\ Head(sent'[e]) = pc[e]
    BY <1>1, <2>1, Pipes DEF TransactionTypeOK
  <2>4. SentWell(e)' /\ Before(e, Process(e))'
    BY <1>1, <2>1, <2>2, <2>3 DEF SentWell, Before, Process, Statements
  <2>5. QED
    BY <2>2, <2>4, OneIsEnough
<1>5. CASE Locked(e)
  <2>1. /\ pc[e] \in {"write1", "write2", "commit"} /\ InTransaction(e)
        /\ UNCHANGED <<sent, stored>>
        /\ lock' = [lock EXCEPT ![e] = "none"] /\ pending' = [pending EXCEPT ![e] = {}]
    BY <1>1, <1>5 DEF Locked, Busy, Rollback, Before, InTransaction
  <2>2. pc' = [pc EXCEPT ![e] = "begin"]
    BY <1>5, <2>1 DEF Locked, Goes, Again
  <2>3. TransactionTypeOK' /\ Others(e) /\ pc'[e] = "begin"
    BY <1>1, <2>1, <2>2 DEF TransactionTypeOK, Others, Statements
  <2>4. SentWell(e)' /\ Before(e, Process(e))'
    BY <1>1, <2>1, <2>3 DEF SentWell, Before, Process, Statements, TransactionTypeOK
  <2>5. QED
    BY <2>3, <2>4, OneIsEnough
<1>6. QED
  BY <1>2, <1>3, <1>4, <1>5

(* What happens behind the macro.                                          *)
LEMMA BehindEmacs ==
  ASSUME TransactionInv, NEW e \in Emacsen,
         \/ Unwind(e) \/ Late(e) \/ EmacsKilled(e) \/ ProcessKilled(e)
  PROVE  TransactionInv'
<1>1. TransactionTypeOK /\ SentWell(e) /\ Before(e, Process(e))
      /\ pc[e] \in Statements \cup Ended \cup {"unwind"}
  BY DEF TransactionInv, TransactionTypeOK
<1>2. CASE Unwind(e)
  <2>1. pc' = [pc EXCEPT ![e] = "failed"] /\ UNCHANGED <<lock, pending, stored, tries>>
        /\ sent' = [sent EXCEPT ![e] = Append(sent[e], "rollback")] /\ pc[e] = "unwind"
    BY <1>2 DEF Unwind, Goes, database
  <2>2. TransactionTypeOK' /\ Others(e) /\ pc'[e] = "failed"
    BY <1>1, <2>1 DEF TransactionTypeOK, Others, Ended
  <2>3. CASE sent[e] = <<>>
    <3>1. sent'[e] = <<"rollback">> /\ sent'[e] # <<>> /\ Head(sent'[e]) = "rollback"
      BY <1>1, <2>1, <2>3, Pipes DEF TransactionTypeOK
    <3>2. SentWell(e)' /\ Before(e, Process(e))'
      BY <1>1, <2>1, <2>2, <3>1 DEF SentWell, Before, Process, Statements, Closings
    <3>3. QED
      BY <2>2, <3>2, OneIsEnough
  <2>4. ASSUME NEW s \in Statements, sent[e] = <<s>> PROVE TransactionInv'
    <3> DEFINE x == "rollback"
    <3>0. x \in Statements \cup Closings /\ s \in Statements \cup Closings
      BY DEF Closings
    <3>1. sent'[e] = <<s, "rollback">> /\ sent'[e] # <<>> /\ Head(sent'[e]) = s
          /\ Process(e) = s
      <4>1. sent'[e] = Append(sent[e], x)
        BY <1>1, <2>1 DEF TransactionTypeOK
      <4> HIDE DEF x
      <4>2. /\ <<s>> # <<>> /\ <<s, x>> # <<>> /\ Head(<<s>>) = s /\ Head(<<s, x>>) = s
            /\ Append(<<s>>, x) = <<s, x>>
        BY <3>0, Pipes
      <4>3. sent'[e] = <<s, x>> /\ sent'[e] # <<>> /\ Head(sent'[e]) = s
        BY <2>4, <4>1, <4>2
      <4>4. Process(e) = s
        BY <2>4, <4>2 DEF Process
      <4>5. QED
        BY <4>3, <4>4 DEF x
    <3>2. SentWell(e)' /\ Before(e, Process(e))'
      BY <1>1, <2>1, <2>2, <3>1 DEF SentWell, Before, Process, Statements, Closings
    <3>3. QED
      BY <2>2, <3>2, OneIsEnough
  <2>5. QED
    BY <1>1, <2>1, <2>3, <2>4 DEF SentWell
<1>3. CASE Late(e)
  <2>1. PICK s : s = Head(sent[e])
    OBVIOUS
  <2>2. /\ sent[e] # <<>> /\ sent' = [sent EXCEPT ![e] = Tail(sent[e])]
        /\ \/ UNCHANGED database /\ (Busy(e, s) \/ Wrong(e, s))
           \/ Execute(e, s) /\ ~ Wrong(e, s)
        /\ UNCHANGED <<pc, tries>> /\ Process(e) = s
    BY <1>3, <2>1 DEF Late, Process
  <2> DEFINE IsRead ==
        \/ s \in Statements /\ sent'[e] = <<>> /\ pc[e] = "unwind"
        \/ /\ s \in Statements /\ pc[e] = "failed"
           /\ \E x \in Closings : sent'[e] = <<x>> /\ sent'[e] # <<>> /\ Head(sent'[e]) = x
        \/ s \in Closings /\ sent'[e] = <<>> /\ pc[e] = "failed"
  <2>3. IsRead
    <3>1. sent'[e] = Tail(sent[e])
      BY <1>1, <2>2 DEF TransactionTypeOK
    <3>2. pc[e] \in {"unwind", "failed"}
      BY <1>1, <2>2 DEF SentWell, Ended
    <3>3. CASE pc[e] = "unwind"
      <4>1. PICK a \in Statements : sent[e] = <<a>>
        BY <1>1, <2>2, <3>3 DEF SentWell
      <4>2. s = a /\ sent'[e] = <<>>
        BY <2>1, <3>1, <4>1, Pipes
      <4>3. QED
        BY <3>3, <4>1, <4>2
    <3>4. CASE pc[e] = "failed"
      <4>1. PICK x \in Closings : \/ sent[e] = <<x>>
                                  \/ \E a \in Statements : sent[e] = <<a, x>>
        BY <1>1, <2>2, <3>4 DEF SentWell
      <4>2. CASE sent[e] = <<x>>
        <5>1. s = x /\ sent'[e] = <<>>
          BY <2>1, <3>1, <4>2, Pipes
        <5>2. QED
          BY <3>4, <4>1, <5>1
      <4>3. ASSUME NEW a \in Statements, sent[e] = <<a, x>> PROVE IsRead
        <5>1. s = a /\ sent'[e] = <<x>> /\ sent'[e] # <<>> /\ Head(sent'[e]) = x
          BY <2>1, <3>1, <4>3, Pipes
        <5>2. QED
          BY <3>4, <4>1, <4>3, <5>1
      <4>4. QED
        BY <4>1, <4>2, <4>3
    <3>5. QED
      BY <3>2, <3>3, <3>4
  <2>4. /\ lock' \in [Emacsen -> {"none", "begun", "shared"}]
        /\ pending' \in [Emacsen -> SUBSET Writes]
        /\ stored' \in [Emacsen -> SUBSET Writes]
        /\ \A d \in Emacsen \ {e} : /\ lock'[d] = lock[d] /\ pending'[d] = pending[d]
                                    /\ stored'[d] = stored[d]
        /\ s \in Closings => Before(e, "failed")'
        /\ stored'[e] \in {{}, Writes}
    <3>1. CASE UNCHANGED database /\ (Busy(e, s) \/ Wrong(e, s))
      <4>1. s \notin Closings
        BY <3>1 DEF Closings, Busy, Wrong
      <4>2. QED
        BY <1>1, <2>2, <3>1, <4>1 DEF database, TransactionTypeOK, Before
    <3>2. CASE Execute(e, s) /\ ~ Wrong(e, s)
      <4>1. s \in Statements \cup Closings /\ Before(e, s)
        BY <1>1, <2>2, <2>3
      <4>2. Executed(e, s)
        BY <1>1, <3>2, <4>1, ExecuteKeeps
      <4>3. QED
        BY <4>2 DEF Executed
    <3>3. QED
      BY <2>2, <3>1, <3>2
  <2>5. TransactionTypeOK' /\ Others(e)
    BY <1>1, <2>2, <2>4 DEF TransactionTypeOK, Others
  <2>6. SentWell(e)' /\ Before(e, Process(e))'
    BY <1>1, <2>2, <2>3, <2>4 DEF SentWell, Before, Process, Statements, Closings
  <2>7. QED
    BY <2>5, <2>6, OneIsEnough
<1>4. CASE EmacsKilled(e)
  <2>1. pc' = [pc EXCEPT ![e] = "failed"] /\ UNCHANGED <<lock, pending, stored, tries>>
        /\ pc[e] \notin Ended
        /\ \/ sent' = [sent EXCEPT ![e] = Append(sent[e], "exit")]
           \/ pc[e] \in Statements /\ sent' = [sent EXCEPT ![e] = <<pc[e], "exit">>]
    BY <1>4 DEF EmacsKilled, Goes, database
  <2>2. TransactionTypeOK' /\ Others(e) /\ pc'[e] = "failed"
    BY <1>1, <2>1 DEF TransactionTypeOK, Others, Ended
  <2>3. CASE sent[e] = <<>> /\ sent' = [sent EXCEPT ![e] = Append(sent[e], "exit")]
    <3>1. sent'[e] = <<"exit">> /\ sent'[e] # <<>> /\ Head(sent'[e]) = "exit"
      BY <1>1, <2>3, Pipes DEF TransactionTypeOK
    <3>2. SentWell(e)' /\ Before(e, Process(e))'
      BY <1>1, <2>1, <2>2, <3>1 DEF SentWell, Before, Process, Statements, Closings
    <3>3. QED
      BY <2>2, <3>2, OneIsEnough
  <2>4. ASSUME NEW s \in Statements, sent'[e] = <<s, "exit">>, Process(e) = s
        PROVE  TransactionInv'
    <3>1. sent'[e] # <<>> /\ Head(sent'[e]) = s
      BY <2>4, Pipes
    <3>2. SentWell(e)' /\ Before(e, Process(e))'
      BY <1>1, <2>1, <2>2, <2>4, <3>1 DEF SentWell, Before, Process, Statements, Closings
    <3>3. QED
      BY <2>2, <3>2, OneIsEnough
  <2>5. ASSUME NEW s \in Statements, sent[e] = <<s>>,
               sent' = [sent EXCEPT ![e] = Append(sent[e], "exit")]
        PROVE  TransactionInv'
    <3> DEFINE x == "exit"
    <3>0. x \in Statements \cup Closings /\ s \in Statements \cup Closings
      BY DEF Closings
    <3>1. sent'[e] = <<s, "exit">> /\ Process(e) = s
      <4>1. sent'[e] = Append(sent[e], x)
        BY <1>1, <2>5 DEF TransactionTypeOK
      <4> HIDE DEF x
      <4>2. <<s>> # <<>> /\ Head(<<s>>) = s /\ Append(<<s>>, x) = <<s, x>>
        BY <3>0, Pipes
      <4>3. sent'[e] = <<s, x>> /\ Process(e) = s
        BY <2>5, <4>1, <4>2 DEF Process
      <4>4. QED
        BY <4>3 DEF x
    <3>2. QED
      BY <2>4, <3>1
  <2>6. CASE pc[e] \in Statements /\ sent' = [sent EXCEPT ![e] = <<pc[e], "exit">>]
    <3>1. PICK s \in Statements : s = pc[e]
      BY <2>6
    <3>2. sent'[e] = <<s, "exit">> /\ Process(e) = s
      BY <1>1, <2>6, <3>1 DEF TransactionTypeOK, SentWell, Process
    <3>3. QED
      BY <2>4, <3>2
  <2>7. QED
    BY <1>1, <2>1, <2>3, <2>5, <2>6 DEF SentWell
<1>5. CASE ProcessKilled(e)
  <2>1. pc' = [pc EXCEPT ![e] = IF pc[e] \in Ended THEN pc[e] ELSE "failed"]
        /\ sent' = [sent EXCEPT ![e] = <<>>] /\ UNCHANGED stored
        /\ lock' = [lock EXCEPT ![e] = "none"] /\ pending' = [pending EXCEPT ![e] = {}]
    BY <1>5 DEF ProcessKilled, Goes, Rollback
  <2>2. TransactionTypeOK' /\ Others(e) /\ sent'[e] = <<>> /\ pc'[e] \in Ended
    BY <1>1, <2>1 DEF TransactionTypeOK, Others, Ended
  <2>3. pc'[e] = "returned" => Process(e) = "returned"
    BY <1>1, <2>1 DEF TransactionTypeOK, SentWell, Process, Ended, Statements
  <2>4. SentWell(e)' /\ Before(e, Process(e))'
    BY <1>1, <2>1, <2>2, <2>3
       DEF SentWell, Before, Process, Ended, Statements, TransactionTypeOK
  <2>5. QED
    BY <2>2, <2>4, OneIsEnough
<1>6. QED
  BY <1>2, <1>3, <1>4, <1>5

(* emacsql-with-transaction: for any number of processes and of tries,     *)
(* whatever is given up or killed, a transaction that is not nested has    *)
(* written all or nothing at any time, all when it returned, and is not    *)
(* left open.                                                              *)
THEOREM Transactions ==
  ASSUME ~ Nested PROVE TransactionSpec => []AllOrNothing
<1>1. ASSUME TransactionInv, [TransactionNext]_transactionVars
      PROVE  TransactionInv'
  <2>1. CASE TransactionNext
    BY <1>1, <2>1, InStepWithEmacs, BehindEmacs DEF TransactionNext
  <2>2. CASE UNCHANGED transactionVars
    BY <1>1, <2>2
       DEF transactionVars, database, TransactionInv, TransactionTypeOK, SentWell,
           Before, Process
  <2>3. QED
    BY <1>1, <2>1, <2>2
<1>2. TransactionInv => AllOrNothing
  BY DEF TransactionInv, SentWell, Before, Process, AllOrNothing, Ended, InTransaction,
         Statements
<1>3. QED
  BY <1>1, <1>2, TransactionInitially, PTL DEF TransactionSpec
==============================================================================
