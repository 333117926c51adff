---------------------------- MODULE PartsProofs ----------------------------
(***************************************************************************)
(* The parts of MCParts: the layout's purposes and its switch, for frames  *)
(* of any size; the theorems about SynctexOpen, Emacsql and                *)
(* EmacsqlTransaction, carried over to the behaviours that run them; the   *)
(* generators, for any source and any buffers; the texts of queries and    *)
(* answers, for any characters; and the word expansion, for any text.      *)
(***************************************************************************)
EXTENDS MCParts, SubsequenceProofs, SequenceTheorems, TLAPS

(* There is a window, one is selected, and a window's purpose is its own.  *)
Distinct(ws) ==
  \A i, j \in DOMAIN ws : ws[i] = ws[j] /\ ws[i] # None => i = j
Frame(ws, s) ==
  /\ ws \in Seq(Window) /\ Len(ws) > 0 /\ s \in 1 .. Len(ws)
  /\ Distinct(ws)
LayoutInv == Frame(wins, sel) /\ enabled \in BOOLEAN
------------------------------------------------------------------------------
(* What is done to a frame leaves a frame.                                 *)
LEMMA OneWindow ==
  ASSUME NEW w \in Window PROVE Frame(Only(w), 1)
BY DEF Frame, Only, Distinct

LEMMA ThreePanes == Frame(Panes, 3)
BY DEF Frame, Panes, Distinct, Window, Purposes, None

LEMMA SetupFrame ==
  ASSUME LayoutInv, NEW en, NEW r \in Setup(en)
  PROVE  Frame(r.wins, r.sel)
<1>1. wins[sel] \in Window
  BY DEF LayoutInv, Frame
<1>2. \A p \in Window : WithPurpose(Only(wins[sel]), 1, p) = Only(p)
  BY DEF WithPurpose, Only
<1>3. {"main", "I"} \subseteq Window
  BY DEF Window, Purposes
<1>4. r \in {Result(Panes, 3, TRUE), Result(Only(wins[sel]), 1, FALSE),
             Result(Only("I"), 1, TRUE), Result(Only("main"), 1, TRUE)}
  BY <1>2, <1>3 DEF Setup
<1>5. QED
  BY <1>1, <1>3, <1>4, OneWindow, ThreePanes DEF Result

LEMMA SplitFrame ==
  ASSUME NEW ws, NEW s, Frame(ws, s), NEW i \in DOMAIN ws,
         NEW new, new = InsertAt(ws, i + 1, None)
  PROVE  /\ Len(new) = Len(ws) + 1
         /\ \A t \in 1 .. Len(new) : Frame(new, t)
<1> DEFINE front == SubSeq(ws, 1, i)
           back  == SubSeq(ws, i + 1, Len(ws))
<1>1. /\ ws \in Seq(Window) /\ i \in 1 .. Len(ws) /\ Len(ws) \in Nat
      /\ None \in Window /\ Distinct(ws)
  BY DEF Frame, Window
<1>2. /\ front \in Seq(Window) /\ Len(front) = i
      /\ \A k \in 1 .. i : front[k] = ws[k]
  BY <1>1
<1>3. /\ back \in Seq(Window) /\ Len(back) = Len(ws) - i
      /\ \A k \in 1 .. Len(ws) - i : back[k] = ws[i + k]
  BY <1>1
<1>4. new = front \o <<None>> \o back
  <2>1. (i + 1) - 1 = i
    BY <1>1
  <2>2. QED
    BY <2>1 DEF InsertAt
<1>5. /\ new \in Seq(Window) /\ Len(new) = Len(ws) + 1
      /\ \A k \in 1 .. Len(new) :
           new[k] = IF k <= i THEN ws[k] ELSE IF k = i + 1 THEN None ELSE ws[k - 1]
  <2> HIDE DEF front, back
  <2> DEFINE first == front \o <<None>>
  <2>1. <<None>> \in Seq(Window) /\ Len(<<None>>) = 1 /\ <<None>>[1] = None
    BY <1>1
  <2>2. /\ first \in Seq(Window) /\ Len(first) = i + 1
        /\ \A k \in 1 .. i + 1 : first[k] = IF k <= i THEN ws[k] ELSE None
    BY <1>1, <1>2, <2>1, ConcatProperties
  <2> HIDE DEF first
  <2>3. new = first \o back
    BY <1>4 DEF first
  <2>4. /\ new \in Seq(Window) /\ Len(new) = Len(first) + Len(back)
        /\ \A k \in 1 .. Len(first) + Len(back) :
             new[k] = IF k <= Len(first) THEN first[k] ELSE back[k - Len(first)]
    <3>1. first \in Seq(Window) /\ back \in Seq(Window)
      BY <1>3, <2>2
    <3>2. QED
      BY <2>3, <3>1, ConcatProperties
  <2>5. Len(first) + Len(back) = Len(ws) + 1
    BY <1>1, <1>3, <2>2
  <2>6. ASSUME NEW k \in 1 .. Len(ws) + 1, ~ k <= i + 1
        PROVE  new[k] = ws[k - 1]
    <3>1. new[k] = back[k - (i + 1)]
      BY <1>1, <2>2, <2>4, <2>5, <2>6
    <3>2. k - (i + 1) \in 1 .. Len(ws) - i /\ i + (k - (i + 1)) = k - 1
      BY <1>1, <2>6
    <3>3. QED
      BY <1>3, <3>1, <3>2
  <2>7. QED
    BY <1>1, <2>2, <2>4, <2>5, <2>6
<1>6. Distinct(new)
  <2> SUFFICES ASSUME NEW j \in 1 .. Len(new), NEW k \in 1 .. Len(new),
                      new[j] = new[k], new[j] # None
               PROVE  j = k
    BY <1>5 DEF Distinct
  <2> DEFINE old(m) == IF m <= i THEN m ELSE m - 1
  <2>1. /\ old(j) \in 1 .. Len(ws) /\ old(k) \in 1 .. Len(ws)
        /\ new[j] = ws[old(j)] /\ new[k] = ws[old(k)]
        /\ j # i + 1 /\ k # i + 1
    BY <1>1, <1>5
  <2>2. old(j) = old(k)
    BY <1>1, <2>1 DEF Distinct
  <2>3. QED
    BY <1>1, <1>5, <2>1, <2>2
<1>7. QED
  BY <1>1, <1>5, <1>6 DEF Frame

LEMMA DeleteFrame ==
  ASSUME NEW ws, NEW s, Frame(ws, s), Len(ws) > 1,
         NEW new, new = RemoveAt(ws, s)
  PROVE  /\ Len(new) = Len(ws) - 1
         /\ \A t \in 1 .. Len(new) : Frame(new, t)
<1> DEFINE front == SubSeq(ws, 1, s - 1)
           back  == SubSeq(ws, s + 1, Len(ws))
<1>1. ws \in Seq(Window) /\ s \in 1 .. Len(ws) /\ Len(ws) \in Nat /\ Distinct(ws)
  BY DEF Frame
<1>2. /\ front \in Seq(Window) /\ Len(front) = s - 1
      /\ \A k \in 1 .. s - 1 : front[k] = ws[k]
  BY <1>1
<1>3. /\ back \in Seq(Window) /\ Len(back) = Len(ws) - s
      /\ \A k \in 1 .. Len(ws) - s : back[k] = ws[s + k]
  BY <1>1
<1>4. /\ new \in Seq(Window) /\ Len(new) = Len(ws) - 1
      /\ \A k \in 1 .. Len(new) : new[k] = IF k < s THEN ws[k] ELSE ws[k + 1]
  <2>1. new = front \o back
    BY DEF RemoveAt
  <2> HIDE DEF front, back
  <2>2. Len(front) + Len(back) = Len(ws) - 1
    BY <1>1, <1>2, <1>3
  <2>3. /\ new \in Seq(Window) /\ Len(new) = Len(ws) - 1
        /\ \A k \in 1 .. Len(ws) - 1 :
             new[k] = IF k <= Len(front) THEN front[k] ELSE back[k - Len(front)]
    BY <1>2, <1>3, <2>1, <2>2, ConcatProperties
  <2>4. ASSUME NEW k \in 1 .. Len(ws) - 1, ~ k < s
        PROVE  new[k] = ws[k + 1]
    <3>1. k - Len(front) \in 1 .. Len(ws) - s /\ s + (k - Len(front)) = k + 1
      BY <1>1, <1>2, <2>4
    <3>2. QED
      BY <1>1, <1>2, <1>3, <2>3, <2>4, <3>1
  <2>5. ASSUME NEW k \in 1 .. Len(ws) - 1, k < s
        PROVE  new[k] = ws[k]
    <3>1. k \in 1 .. s - 1 /\ k <= Len(front)
      BY <1>1, <1>2, <2>5
    <3>2. QED
      BY <1>2, <2>3, <3>1
  <2>6. \A k \in 1 .. Len(ws) - 1 : new[k] = IF k < s THEN ws[k] ELSE ws[k + 1]
    BY <2>4, <2>5
  <2>7. QED
    BY <2>3, <2>6
<1>5. Distinct(new)
  <2> HIDE DEF front, back
  <2> SUFFICES ASSUME NEW j \in 1 .. Len(new), NEW k \in 1 .. Len(new),
                      new[j] = new[k], new[j] # None
               PROVE  j = k
    BY <1>4 DEF Distinct
  <2> DEFINE old(m) == IF m < s THEN m ELSE m + 1
  <2>1. /\ old(j) \in 1 .. Len(ws) /\ old(k) \in 1 .. Len(ws)
        /\ new[j] = ws[old(j)] /\ new[k] = ws[old(k)]
    BY <1>1, <1>4
  <2>2. old(j) = old(k)
    <3>1. DOMAIN ws = 1 .. Len(ws)
      BY <1>1
    <3>2. ws[old(j)] = ws[old(k)] /\ ws[old(j)] # None
      BY <2>1
    <3> HIDE DEF old
    <3>3. QED
      BY <1>1, <2>1, <3>1, <3>2 DEF Distinct
  <2>3. QED
    BY <1>1, <1>4, <2>2
<1>6. QED
  BY <1>4, <1>5 DEF Frame
------------------------------------------------------------------------------
LEMMA LayoutInitially == Init => LayoutInv
BY OneWindow DEF Init, LayoutInv, Only, Window

LEMMA LayoutStep == LayoutInv /\ [Next]_vars => LayoutInv'
<1> SUFFICES ASSUME LayoutInv, [Next]_vars PROVE LayoutInv'
  OBVIOUS
<1> USE DEF LayoutInv
<1>1. CASE Load
  BY <1>1, SetupFrame DEF Load
<1>2. CASE SetupCommand
  BY <1>2, SetupFrame DEF SetupCommand
<1>3. CASE EnsureLayout
  BY <1>3, SetupFrame DEF EnsureLayout
<1>4. CASE ToggleState
  BY <1>4 DEF ToggleState
<1>5. CASE SplitWindow
  <2>1. sel \in DOMAIN wins
    BY DEF Frame
  <2>2. CASE wins' = SplitAt(sel)
    <3>1. Len(wins') = Len(wins) + 1 /\ \A t \in 1 .. Len(wins') : Frame(wins', t)
      BY <2>1, <2>2, SplitFrame DEF SplitAt
    <3>2. sel \in 1 .. Len(wins')
      BY <3>1 DEF Frame
    <3>3. QED
      BY <1>5, <3>1, <3>2 DEF SplitWindow
  <2>3. CASE wins' = wins
    BY <1>5, <2>3 DEF SplitWindow
  <2>4. QED
    BY <1>5, <2>2, <2>3 DEF SplitWindow
<1>6. ASSUME NEW i \in DOMAIN wins, PopToBuffer(i) PROVE LayoutInv'
  BY <1>6, SplitFrame DEF PopToBuffer, SplitAt, Frame
<1>7. ASSUME NEW i \in DOMAIN wins, DisplayBuffer(i) PROVE LayoutInv'
  BY <1>7, SplitFrame DEF DisplayBuffer, SplitAt, Frame
<1>8. CASE OtherWindow
  BY <1>8 DEF OtherWindow, Frame
<1>9. CASE DeleteWindow
  BY <1>9, DeleteFrame DEF DeleteWindow, Frame
<1>10. CASE DeleteOtherWindows
  <2>1. wins[sel] \in Window
    BY DEF Frame
  <2>2. QED
    BY <1>10, <2>1, OneWindow DEF DeleteOtherWindows
<1>11. CASE UNCHANGED vars
  BY <1>11 DEF vars
<1>12. QED
  BY <1>1, <1>2, <1>3, <1>4, <1>5, <1>6, <1>7, <1>8, <1>9, <1>10, <1>11 DEF Next

(* imperial-layout.el: in frames of any size, whatever splits fail and     *)
(* however often the file is loaded, no two windows have one purpose.      *)
THEOREM OnePurposeEach == Spec => []PurposesDistinct
<1>1. LayoutInv => PurposesDistinct
  BY DEF LayoutInv, Frame, Distinct, PurposesDistinct
<1>2. QED
  BY <1>1, LayoutInitially, LayoutStep, PTL DEF Spec

(* The advices: while splitting is forbidden no command but loading the    *)
(* file again makes a window.                                              *)
THEOREM Forbidden == Spec => NoWindowWhileForbidden
<1> DEFINE Step == advised /\ ~ enabled /\ last' # "load" => Len(wins') <= Len(wins)
<1>1. LayoutInv /\ [Next]_vars => [Step]_vars
  <2> SUFFICES ASSUME LayoutInv, Next, advised, ~ enabled, last' # "load"
               PROVE  Len(wins') <= Len(wins)
    OBVIOUS
  <2> USE DEF LayoutInv, Frame, MaySplit
  <2>1. CASE SetupCommand \/ EnsureLayout
    <3>1. wins' = wins \/ \E r \in Setup(enabled) : wins' = r.wins
      BY <2>1 DEF SetupCommand, EnsureLayout
    <3>2. \A r \in Setup(enabled) : Len(r.wins) = 1
      BY DEF Setup, Only, WithPurpose, Result
    <3>3. QED
      BY <3>1, <3>2
  <2>2. CASE SplitWindow
    BY <2>2 DEF SplitWindow
  <2>3. ASSUME NEW i \in DOMAIN wins, PopToBuffer(i) \/ DisplayBuffer(i)
        PROVE  Len(wins') <= Len(wins)
    BY <2>3 DEF PopToBuffer, DisplayBuffer
  <2>4. CASE DeleteWindow
    BY <2>4, DeleteFrame DEF DeleteWindow
  <2>5. CASE DeleteOtherWindows
    <3>1. wins' = <<wins[sel]>>
      BY <2>5 DEF DeleteOtherWindows, Only
    <3>2. Len(wins') = 1
      BY <3>1
    <3>3. QED
      BY <3>2
  <2>6. CASE ToggleState \/ OtherWindow
    BY <2>6 DEF ToggleState, OtherWindow
  <2>7. QED
    BY <2>1, <2>2, <2>3, <2>4, <2>5, <2>6 DEF Next, Load
<1>2. QED
  BY <1>1, LayoutInitially, LayoutStep, PTL DEF Spec, NoWindowWhileForbidden
------------------------------------------------------------------------------
(* The parts of MCParts whose theorems are proved elsewhere: a behaviour   *)
(* of MCParts that runs such a part is one of the part's own.              *)
Server ==
  INSTANCE ServerProofs
    WITH tex <- v1, spaces <- v2, renames <- v3, disk <- v4, runs <- v5,
         at <- v6, names <- v7, since <- v8, read <- v9,
         page <- v1, options <- v2, sets <- v3, job <- v4, image <- v5,
         PageHeight <- RenderHeight, Greys <- {0, 255}, MaxCommands <- 0,
         made <- v1, stdin <- v2, process <- v3, stdout <- v4, buffer <- v5,
         waits <- v6, result <- v7, quiet <- v8, disturbed <- v9,
         pc <- v1, lock <- v2, pending <- v3, stored <- v4, tries <- v5,
         sent <- v6
Cropper ==
  INSTANCE ServerProofs
    WITH tex <- v1, spaces <- v2, renames <- v3, disk <- v4, runs <- v5,
         at <- v6, names <- v7, since <- v8, read <- v9,
         page <- v1, options <- v2, sets <- v3, job <- v4, image <- v5,
         PageHeight <- RenderHeight, Greys <- {0}, MaxSets <- 0,
         made <- v1, stdin <- v2, process <- v3, stdout <- v4, buffer <- v5,
         waits <- v6, result <- v7, quiet <- v8, disturbed <- v9,
         pc <- v1, lock <- v2, pending <- v3, stored <- v4, tries <- v5,
         sent <- v6

LEMMA SqlSame ==
  /\ Sql!SqlInit <=> Server!SqlInit
  /\ Sql!SqlNext <=> Server!SqlNext
  /\ Sql!InStep <=> Server!InStep
<1> USE DEF Sql!Ids, Sql!Prompt, Sql!Piece, Sql!Killed, Sql!NoneYet, Sql!GivenUp,
            Sql!Failed, Sql!Wait, Sql!Waits, Sql!NotCleared, Sql!Cleared, Sql!Answers,
            Sql!NoMemory, Sql!WaitingP, Sql!Parse,
            Server!Ids, Server!Prompt, Server!Piece,
            Server!Killed, Server!NoneYet, Server!GivenUp, Server!Failed,
            Server!Wait, Server!Waits, Server!NotCleared, Server!Cleared,
            Server!Answers, Server!NoMemory, Server!WaitingP, Server!Parse
<1>1. Sql!SqlInit <=> Server!SqlInit
  BY DEF Sql!SqlInit, Server!SqlInit
<1>2. Sql!InStep <=> Server!InStep
  BY DEF Sql!InStep, Server!InStep
<1>3. Sql!Query <=> Server!Query
  BY DEF Sql!Query, Server!Query
<1>4. Sql!Serve <=> Server!Serve
  BY DEF Sql!Serve, Server!Serve
<1>5. Sql!Die <=> Server!Die
  BY DEF Sql!Die, Server!Die
<1>6. Sql!Deliver <=> Server!Deliver
  BY DEF Sql!Deliver, Server!Deliver
<1>7. Sql!Sentinel <=> Server!Sentinel
  BY DEF Sql!Sentinel, Server!Sentinel
<1>8. Sql!Return <=> Server!Return
  BY DEF Sql!Return, Server!Return
<1>9. Sql!GiveUp <=> Server!GiveUp
  BY DEF Sql!GiveUp, Server!GiveUp, Sql!Cardinality, Server!Cardinality
<1>10. QED
  BY <1>1, <1>2, <1>3, <1>4, <1>5, <1>6, <1>7, <1>8, <1>9 DEF Sql!SqlNext, Server!SqlNext

LEMMA OpenSame ==
  /\ Open!Init <=> Server!Init
  /\ Open!Next <=> Server!Next
  /\ Open!LatestRead <=> Server!LatestRead
<1> USE DEF Open!Name, Open!Unquoted, Open!Both, Open!Attempts, Open!Kept,
            Server!Name, Server!Unquoted, Server!Both,
            Server!Attempts, Server!Kept
<1>1. Open!Init <=> Server!Init
  BY DEF Open!Init, Server!Init
<1>2. Open!LatestRead <=> Server!LatestRead
  BY DEF Open!LatestRead, Server!LatestRead
<1>3. Open!RunTeX <=> Server!RunTeX
  BY DEF Open!RunTeX, Server!RunTeX
<1>4. ASSUME NEW r \in Readers
      PROVE  /\ Open!Begin(r) <=> Server!Begin(r)
             /\ Open!Absent(r) <=> Server!Absent(r)
             /\ Open!Found(r) <=> Server!Found(r)
             /\ Open!NoFile(r) <=> Server!NoFile(r)
             /\ Open!Rename(r) <=> Server!Rename(r)
             /\ Open!CannotRename(r) <=> Server!CannotRename(r)
             /\ Open!Reopen(r) <=> Server!Reopen(r)
  BY DEF Open!Begin, Server!Begin, Open!Absent, Server!Absent, Open!Found,
         Server!Found, Open!NoFile, Server!NoFile, Open!Rename,
         Server!Rename, Open!CannotRename, Server!CannotRename, Open!Reopen,
         Server!Reopen
<1>5. QED
  BY <1>1, <1>2, <1>3, <1>4 DEF Open!Next, Server!Next

LEMMA OptionsSame ==
  /\ Options!RenderInit <=> Server!RenderInit
  /\ Options!RenderNext <=> Server!RenderNext
  /\ Options!RendersRight <=> Server!RendersRight
<1> USE DEF Options!Scale, Options!Unit, Options!Whole, Options!Round, Options!Column,
            Options!Row, Options!NoJob, Options!NoImage,
            Options!SetUsecolors, Options!SetPrinted, Options!Mixed,
            Options!White, Options!Convert, Options!Converted,
            Options!Inverted, Options!Pixels, Options!Picture,
            Options!Recoloured, Options!RenderedPage, Options!HeightFor,
            Options!SameColumn, Options!SameRow, Options!OddColumns,
            Options!OddRows, Options!FirstFrom, Options!LastFrom,
            Options!WholePage, Options!Box, Options!NoPen,
            Options!Colouring, Options!Painting, Options!Keywords,
            Options!Fitting, Options!Args, Options!Style, Options!Along,
            Options!RegionAt, Options!Flat, Options!SetPen, Options!Paint,
            Options!Cut, Options!Odd, Options!Holds, Options!Abs,
            Options!Near, Server!Scale, Server!Unit, Server!Whole,
            Server!Round, Server!Column, Server!Row, Server!NoJob,
            Server!NoImage, Server!SetUsecolors, Server!SetPrinted,
            Server!Mixed, Server!White, Server!Convert, Server!Converted,
            Server!Inverted, Server!Pixels, Server!Picture,
            Server!Recoloured, Server!RenderedPage, Server!HeightFor,
            Server!SameColumn, Server!SameRow, Server!OddColumns,
            Server!OddRows, Server!FirstFrom, Server!LastFrom,
            Server!WholePage, Server!Box, Server!NoPen, Server!Colouring,
            Server!Painting, Server!Keywords, Server!Fitting, Server!Args,
            Server!Style, Server!Along, Server!RegionAt, Server!Flat,
            Server!SetPen, Server!Paint, Server!Cut, Server!Odd,
            Server!Holds, Server!Abs, Server!Near
<1>1. Options!RenderInit <=> Server!RenderInit
  BY DEF Options!RenderInit, Server!RenderInit
<1>2. Options!RendersRight <=> Server!RendersRight
  BY DEF Options!RendersRight, Server!RendersRight, Options!Recolours, Server!Recolours,
         Options!BoxTight, Server!BoxTight, Options!ShownWhereAsked, Server!ShownWhereAsked
<1>3. Options!SetOption <=> Server!SetOption
  BY DEF Options!SetOption, Server!SetOption
<1>4. Options!BoundingBox <=> Server!BoundingBox
  BY DEF Options!BoundingBox, Server!BoundingBox
<1>5. Options!RenderPage <=> Server!RenderPage
  BY DEF Options!RenderPage, Server!RenderPage
<1>6. Options!Argument <=> Server!Argument
  BY DEF Options!Argument, Server!Argument
<1>7. Options!Finish <=> Server!Finish
  BY DEF Options!Finish, Server!Finish
<1>8. QED
  BY <1>1, <1>2, <1>3, <1>4, <1>5, <1>6, <1>7 DEF Options!RenderNext, Server!RenderNext

LEMMA CommandsSame ==
  /\ Commands!RenderInit <=> Cropper!RenderInit
  /\ Commands!RenderNext <=> Cropper!RenderNext
  /\ Commands!RendersRight <=> Cropper!RendersRight
<1> USE DEF Commands!Scale, Commands!Unit, Commands!Whole, Commands!Round,
            Commands!Column, Commands!Row, Commands!NoJob, Commands!NoImage,
            Commands!SetUsecolors, Commands!SetPrinted, Commands!Mixed,
            Commands!White, Commands!Convert, Commands!Converted,
            Commands!Inverted, Commands!Pixels, Commands!Picture,
            Commands!Recoloured, Commands!RenderedPage, Commands!HeightFor,
            Commands!SameColumn, Commands!SameRow, Commands!OddColumns,
            Commands!OddRows, Commands!FirstFrom, Commands!LastFrom,
            Commands!WholePage, Commands!Box, Commands!NoPen,
            Commands!Colouring, Commands!Painting, Commands!Keywords,
            Commands!Fitting, Commands!Args, Commands!Style, Commands!Along,
            Commands!RegionAt, Commands!Flat, Commands!SetPen,
            Commands!Paint, Commands!Cut, Commands!Odd, Commands!Holds,
            Commands!Abs, Commands!Near, Cropper!Scale, Cropper!Unit,
            Cropper!Whole, Cropper!Round, Cropper!Column, Cropper!Row,
            Cropper!NoJob, Cropper!NoImage, Cropper!SetUsecolors,
            Cropper!SetPrinted, Cropper!Mixed, Cropper!White,
            Cropper!Convert, Cropper!Converted, Cropper!Inverted,
            Cropper!Pixels, Cropper!Picture, Cropper!Recoloured,
            Cropper!RenderedPage, Cropper!HeightFor, Cropper!SameColumn,
            Cropper!SameRow, Cropper!OddColumns, Cropper!OddRows,
            Cropper!FirstFrom, Cropper!LastFrom, Cropper!WholePage,
            Cropper!Box, Cropper!NoPen, Cropper!Colouring, Cropper!Painting,
            Cropper!Keywords, Cropper!Fitting, Cropper!Args, Cropper!Style,
            Cropper!Along, Cropper!RegionAt, Cropper!Flat, Cropper!SetPen,
            Cropper!Paint, Cropper!Cut, Cropper!Odd, Cropper!Holds,
            Cropper!Abs, Cropper!Near
<1>1. Commands!RenderInit <=> Cropper!RenderInit
  BY DEF Commands!RenderInit, Cropper!RenderInit
<1>2. Commands!RendersRight <=> Cropper!RendersRight
  BY DEF Commands!RendersRight, Cropper!RendersRight, Commands!Recolours, Cropper!Recolours,
         Commands!BoxTight, Cropper!BoxTight, Commands!ShownWhereAsked, Cropper!ShownWhereAsked
<1>3. Commands!SetOption <=> Cropper!SetOption
  BY DEF Commands!SetOption, Cropper!SetOption
<1>4. Commands!BoundingBox <=> Cropper!BoundingBox
  BY DEF Commands!BoundingBox, Cropper!BoundingBox
<1>5. Commands!RenderPage <=> Cropper!RenderPage
  BY DEF Commands!RenderPage, Cropper!RenderPage
<1>6. Commands!Argument <=> Cropper!Argument
  BY DEF Commands!Argument, Cropper!Argument
<1>7. Commands!Finish <=> Cropper!Finish
  BY DEF Commands!Finish, Cropper!Finish
<1>8. QED
  BY <1>1, <1>2, <1>3, <1>4, <1>5, <1>6, <1>7 DEF Commands!RenderNext, Cropper!RenderNext

LEMMA TransactionSame ==
  /\ Transaction!TransactionInit <=> Server!TransactionInit
  /\ Transaction!TransactionNext <=> Server!TransactionNext
  /\ Transaction!AllOrNothing <=> Server!AllOrNothing
<1> USE DEF Transaction!Writes, Server!Writes,
            Transaction!At, Server!At,
            Transaction!Statements, Server!Statements,
            Transaction!Closings, Server!Closings,
            Transaction!Ended, Server!Ended,
            Transaction!InTransaction, Server!InTransaction,
            Transaction!Refused, Server!Refused,
            Transaction!Busy, Server!Busy,
            Transaction!Wrong, Server!Wrong,
            Transaction!Rollback, Server!Rollback,
            Transaction!Goes, Server!Goes,
            Transaction!After, Server!After,
            Transaction!Again, Server!Again,
            Transaction!database, Server!database
<1>1. Transaction!TransactionInit <=> Server!TransactionInit
  BY DEF Transaction!TransactionInit, Server!TransactionInit
<1>2. Transaction!AllOrNothing <=> Server!AllOrNothing
  BY DEF Transaction!AllOrNothing, Server!AllOrNothing
<1>3. ASSUME NEW e \in Emacsen, NEW s
      PROVE  Transaction!Execute(e, s) <=> Server!Execute(e, s)
  BY DEF Transaction!Execute, Server!Execute
<1>4. ASSUME NEW e \in Emacsen
      PROVE  /\ Transaction!Statement(e) <=> Server!Statement(e)
             /\ Transaction!Late(e) <=> Server!Late(e)
  BY <1>3 DEF Transaction!Statement, Server!Statement, Transaction!Late, Server!Late
<1>5. ASSUME NEW e \in Emacsen
      PROVE  /\ Transaction!BodyFails(e) <=> Server!BodyFails(e)
             /\ Transaction!WaitEnds(e) <=> Server!WaitEnds(e)
             /\ Transaction!Locked(e) <=> Server!Locked(e)
             /\ Transaction!Unwind(e) <=> Server!Unwind(e)
             /\ Transaction!EmacsKilled(e) <=> Server!EmacsKilled(e)
             /\ Transaction!ProcessKilled(e) <=> Server!ProcessKilled(e)
  BY DEF Transaction!BodyFails, Server!BodyFails,
         Transaction!WaitEnds, Server!WaitEnds,
         Transaction!Locked, Server!Locked,
         Transaction!Unwind, Server!Unwind,
         Transaction!EmacsKilled, Server!EmacsKilled,
         Transaction!ProcessKilled, Server!ProcessKilled
<1>6. QED
  BY <1>1, <1>2, <1>4, <1>5 DEF Transaction!TransactionNext, Server!TransactionNext
------------------------------------------------------------------------------
(* synctex_reader_init_with_output_file: for any number of readers and of  *)
(* runs of TeX, none opens a file older than the one it found as it began. *)
THEOREM OpensLatest == PartsSpec => []LatestRead
<1> DEFINE Runs == part = "open"
<1>1. Runs /\ PartsInit => Server!Init
  BY OpenSame DEF PartsInit
<1>2. Runs /\ [PartsNext]_parts => Runs' /\ [Server!Next]_(Server!vars)
  <2>1. Runs /\ PartsNext => Runs' /\ Open!Next
    BY DEF PartsNext
  <2>2. Runs /\ UNCHANGED parts => Runs' /\ UNCHANGED Server!vars
    BY DEF parts, vs, Server!vars
  <2>3. QED
    BY <2>1, <2>2, OpenSame
<1>3. ~ Runs /\ [PartsNext]_parts => ~ Runs'
  BY DEF PartsNext, parts
<1>4. Server!Spec => []Server!LatestRead
  BY Server!Latest
<1>5. ~ Runs \/ Server!LatestRead => LatestRead
  BY OpenSame DEF LatestRead
<1> HIDE DEF Runs
<1>6. Runs /\ PartsSpec => Server!Spec
  BY <1>1, <1>2, PTL DEF PartsSpec, Server!Spec
<1>7. ~ Runs /\ PartsSpec => []~ Runs
  BY <1>3, PTL DEF PartsSpec
<1>8. QED
  BY <1>4, <1>5, <1>6, <1>7, PTL

(* The options of a document, and the commands: the behaviours of each.    *)
LEMMA OptionsRun == PartsSpec => [](part = "options" => Options!RendersRight)
<1> DEFINE Runs == part = "options"
<1>1. Runs /\ PartsInit => Server!RenderInit
  BY OptionsSame DEF PartsInit
<1>2. Runs /\ [PartsNext]_parts => Runs' /\ [Server!RenderNext]_(Server!renderVars)
  <2>1. Runs /\ PartsNext => Runs' /\ Options!RenderNext
    BY DEF PartsNext
  <2>2. Runs /\ UNCHANGED parts => Runs' /\ UNCHANGED Server!renderVars
    BY DEF parts, vs, Server!renderVars
  <2>3. QED
    BY <2>1, <2>2, OptionsSame
<1>3. ~ Runs /\ [PartsNext]_parts => ~ Runs'
  BY DEF PartsNext, parts
<1>4. Server!RenderSpec => []Server!RendersRight
  <2>1. Server!RenderSizes
    BY PagesAssumption, RenderAssumption DEF Server!RenderSizes
  <2>2. QED
    BY <2>1, Server!Renders
<1>5. Server!RendersRight => Options!RendersRight
  BY OptionsSame
<1> HIDE DEF Runs
<1>6. Runs /\ PartsSpec => Server!RenderSpec
  BY <1>1, <1>2, PTL DEF PartsSpec, Server!RenderSpec
<1>7. ~ Runs /\ PartsSpec => []~ Runs
  BY <1>3, PTL DEF PartsSpec
<1>8. PartsSpec => [](Runs => Options!RendersRight)
  BY <1>4, <1>5, <1>6, <1>7, PTL
<1>9. QED
  BY <1>8 DEF Runs

LEMMA CommandsRun == PartsSpec => [](part = "commands" => Commands!RendersRight)
<1> DEFINE Runs == part = "commands"
<1>1. Runs /\ PartsInit => Cropper!RenderInit
  BY CommandsSame DEF PartsInit
<1>2. Runs /\ [PartsNext]_parts => Runs' /\ [Cropper!RenderNext]_(Cropper!renderVars)
  <2>1. Runs /\ PartsNext => Runs' /\ Commands!RenderNext
    BY DEF PartsNext
  <2>2. Runs /\ UNCHANGED parts => Runs' /\ UNCHANGED Cropper!renderVars
    BY DEF parts, vs, Cropper!renderVars
  <2>3. QED
    BY <2>1, <2>2, CommandsSame
<1>3. ~ Runs /\ [PartsNext]_parts => ~ Runs'
  BY DEF PartsNext, parts
<1>4. Cropper!RenderSpec => []Cropper!RendersRight
  <2>1. Cropper!RenderSizes
    BY PagesAssumption, RenderAssumption DEF Cropper!RenderSizes
  <2>2. QED
    BY <2>1, Cropper!Renders
<1>5. Cropper!RendersRight => Commands!RendersRight
  BY CommandsSame
<1> HIDE DEF Runs
<1>6. Runs /\ PartsSpec => Cropper!RenderSpec
  BY <1>1, <1>2, PTL DEF PartsSpec, Cropper!RenderSpec
<1>7. ~ Runs /\ PartsSpec => []~ Runs
  BY <1>3, PTL DEF PartsSpec
<1>8. PartsSpec => [](Runs => Commands!RendersRight)
  BY <1>4, <1>5, <1>6, <1>7, PTL
<1>9. QED
  BY <1>8 DEF Runs

(* renderpage and boundingbox: for pages of any size and any pictures, and *)
(* any number of options set and of arguments, equal pixels have equal     *)
(* colours, the box is tight, and what is painted when all is cropped      *)
(* appears where it was asked for.                                         *)
THEOREM RenderedRight == PartsSpec => []RendersRight
<1>1. /\ part = "options" => Options!RendersRight
      /\ part = "commands" => Commands!RendersRight
      => RendersRight
  BY DEF RendersRight
<1>2. QED
  BY <1>1, OptionsRun, CommandsRun, PTL

(* emacsql.el: for any number of queries and of waits given up, a query    *)
(* made in quiet and not interrupted gets its own answer.                  *)
THEOREM AnswersInStep == PartsSpec => []InStep
<1> DEFINE Runs == part = "sql"
<1>1. Runs /\ PartsInit => Server!SqlInit
  BY SqlSame DEF PartsInit
<1>2. Runs /\ [PartsNext]_parts => Runs' /\ [Server!SqlNext]_(Server!sqlVars)
  <2>1. Runs /\ PartsNext => Runs' /\ Sql!SqlNext
    BY DEF PartsNext
  <2>2. Runs /\ UNCHANGED parts => Runs' /\ UNCHANGED Server!sqlVars
    BY DEF parts, vs, Server!sqlVars
  <2>3. QED
    BY <2>1, <2>2, SqlSame
<1>3. ~ Runs /\ [PartsNext]_parts => ~ Runs'
  BY DEF PartsNext, parts
<1>4. Server!SqlSpec => []Server!InStep
  BY EmacsqlAssumption, Server!OwnRows
<1>5. ~ Runs \/ Server!InStep => InStep
  BY SqlSame DEF InStep
<1> HIDE DEF Runs
<1>6. Runs /\ PartsSpec => Server!SqlSpec
  BY <1>1, <1>2, PTL DEF PartsSpec, Server!SqlSpec
<1>7. ~ Runs /\ PartsSpec => []~ Runs
  BY <1>3, PTL DEF PartsSpec
<1>8. QED
  BY <1>4, <1>5, <1>6, <1>7, PTL

(* emacsql-with-transaction: for any number of Emacsen and of tries,       *)
(* whatever is given up or killed, each transaction that is not nested     *)
(* writes all or nothing.                                                  *)
THEOREM WritesAllOrNothing ==
  ASSUME ~ Nested PROVE PartsSpec => []AllOrNothing
<1> DEFINE Runs == part = "transaction"
<1>1. Runs /\ PartsInit => Server!TransactionInit
  BY TransactionSame DEF PartsInit
<1>2. Runs /\ [PartsNext]_parts => Runs' /\ [Server!TransactionNext]_(Server!transactionVars)
  <2>1. Runs /\ PartsNext => Runs' /\ Transaction!TransactionNext
    BY DEF PartsNext
  <2>2. Runs /\ UNCHANGED parts => Runs' /\ UNCHANGED Server!transactionVars
    BY DEF parts, vs, Server!transactionVars, Server!database
  <2>3. QED
    BY <2>1, <2>2, TransactionSame
<1>3. ~ Runs /\ [PartsNext]_parts => ~ Runs'
  BY DEF PartsNext, parts
<1>4. Server!TransactionSpec => []Server!AllOrNothing
  BY Server!Transactions
<1>5. ~ Runs \/ Server!AllOrNothing => AllOrNothing
  BY TransactionSame DEF AllOrNothing
<1> HIDE DEF Runs
<1>6. Runs /\ PartsSpec => Server!TransactionSpec
  BY <1>1, <1>2, PTL DEF PartsSpec, Server!TransactionSpec
<1>7. ~ Runs /\ PartsSpec => []~ Runs
  BY <1>3, PTL DEF PartsSpec
<1>8. QED
  BY <1>4, <1>5, <1>6, <1>7, PTL
------------------------------------------------------------------------------
(* The generators.  What they append is what is missing, all of it; so     *)
(* until something else happens nothing is missing.                        *)
GoName == (Stems \cup {""}) \X Letters
GoBuffer == [live : BOOLEAN, visits : BOOLEAN, header : BOOLEAN,
             defs : Seq(GoName), modified : BOOLEAN]
BenchNames == [i \in DOMAIN Go!Benched |-> Go!BenchName(Go!Benched[i])]
Wanted(k) == IF k = "test" THEN Go!Tested ELSE BenchNames
AllIn(names, b) == \A i \in 1 .. Len(names) : names[i] \in Go!ToSet(b.defs)
GoInv ==
  /\ v1 \in Seq(Go!Decl)
  /\ v3 \in [Go!Kinds -> GoBuffer]
  /\ v4 \in [Go!Kinds -> SUBSET Seq(GoName)]
  /\ \A k \in Go!Kinds : v5.cmd = k /\ v5.ok => AllIn(Wanted(k), v3[k])

LEMMA SameThose ==
  ASSUME NEW s, NEW S PROVE Go!Those(s, S) = Those(s, S)
BY DEF Go!Those, Those

(* The names that the generators look for are names.                       *)
LEMMA BenchedNames == ASSUME v1 \in Seq(Go!Decl) PROVE Go!Benched \in Seq(GoName)
<1>1. ASSUME NEW d \in Go!Decl PROVE d.name \in GoName
  BY DEF Go!Decl, Go!Name, GoName
<1> DEFINE names == [i \in 1 .. Len(v1) |-> v1[i].name]
           S == {n \in Go!ToSet(names) : Go!Benchable(n)}
<1>2. names \in Seq(GoName)
  BY <1>1
<1> HIDE DEF names, S
<1>3. Those(names, S) \in Seq(GoName)
  BY <1>2, ThoseOf
<1>4. Go!Benched = Those(names, S)
  BY SameThose DEF Go!Benched, names, S
<1>5. QED
  BY <1>3, <1>4

LEMMA WantedNames ==
  ASSUME v1 \in Seq(Go!Decl), NEW k PROVE Wanted(k) \in Seq(GoName)
<1>1. ASSUME NEW d \in Go!Decl PROVE Go!Found(d) \in GoName /\ d.name \in GoName
  BY DEF Go!Found, Go!Decl, Go!Name, GoName
<1>2. Go!Tested \in Seq(GoName)
  <2> DEFINE found == [i \in 1 .. Len(v1) |-> Go!Found(v1[i])]
             S == {n \in Go!ToSet(found) : Go!Testable(n)}
  <2>1. found \in Seq(GoName)
    BY <1>1
  <2> HIDE DEF found, S
  <2>2. Those(found, S) \in Seq(GoName)
    BY <2>1, ThoseOf
  <2>3. Go!Tested = Those(found, S)
    BY SameThose DEF Go!Tested, found, S
  <2>4. QED
    BY <2>2, <2>3
<1>3. Go!Benched \in Seq(GoName)
  BY BenchedNames
<1>4. ASSUME NEW n \in GoName PROVE Go!BenchName(n) \in GoName
  BY DEF Go!BenchName, GoName
<1>5. BenchNames \in Seq(GoName)
  BY <1>3, <1>4 DEF BenchNames
<1>6. QED
  BY <1>2, <1>5 DEF Wanted

(* What is missing is appended: then nothing is.                           *)
LEMMA MissingSeq ==
  ASSUME NEW b \in GoBuffer, NEW names \in Seq(GoName)
  PROVE  Go!Missing(b, names) \in Seq(GoName)
BY SameThose, ThoseOf DEF Go!Missing

LEMMA NoneMissing ==
  ASSUME NEW b \in GoBuffer, NEW names \in Seq(GoName), AllIn(names, b)
  PROVE  Go!Missing(b, names) = <<>>
<1> DEFINE S == Go!ToSet(names) \ Go!ToSet(b.defs)
           m == Those(names, S)
<1>1. Go!Missing(b, names) = m
  BY SameThose DEF Go!Missing
<1> HIDE DEF S
<1>2. m \in Seq(GoName) /\ \A i \in 1 .. Len(m) :
        m[i] \in S /\ \E j \in 1 .. Len(names) : i <= j /\ m[i] = names[j]
  BY ThoseOf
<1> HIDE DEF m
<1>3. ASSUME NEW i \in 1 .. Len(m) PROVE FALSE
  BY <1>2 DEF AllIn, S
<1>4. QED
  BY <1>1, <1>2, <1>3

LEMMA AllAdded ==
  ASSUME NEW b \in GoBuffer, NEW names \in Seq(GoName), NEW new,
         new.defs = b.defs \o Go!Missing(b, names)
  PROVE  AllIn(names, new)
<1> DEFINE S == Go!ToSet(names) \ Go!ToSet(b.defs)
           m == Those(names, S)
<1>1. Go!Missing(b, names) = m
  BY SameThose DEF Go!Missing
<1>2. m \in Seq(GoName) /\ b.defs \in Seq(GoName)
  BY ThoseOf DEF GoBuffer
<1> SUFFICES ASSUME NEW i \in 1 .. Len(names)
             PROVE  names[i] \in Go!ToSet(new.defs)
  BY DEF AllIn
<1>3. names[i] \in Go!ToSet(names)
  BY DEF Go!ToSet
<1>4. CASE names[i] \in Go!ToSet(b.defs)
  <2>0. PICK j \in DOMAIN b.defs : b.defs[j] = names[i]
    BY <1>4 DEF Go!ToSet
  <2>1. j \in 1 .. Len(b.defs)
    BY <1>2, <2>0
  <2> HIDE DEF m
  <2>2. j \in DOMAIN new.defs /\ new.defs[j] = names[i]
    BY <1>1, <1>2, <2>0, <2>1
  <2>3. QED
    BY <2>2 DEF Go!ToSet
<1>5. CASE names[i] \notin Go!ToSet(b.defs)
  <2>1. names[i] \in S
    BY <1>3, <1>5
  <2> HIDE DEF S
  <2>2. PICK j \in 1 .. Len(m) : m[j] = names[i]
    BY <2>1, ThoseAll
  <2> HIDE DEF m
  <2>3. Len(b.defs) + j \in DOMAIN new.defs /\ new.defs[Len(b.defs) + j] = names[i]
    BY <1>1, <1>2, <2>2
  <2>4. QED
    BY <2>3 DEF Go!ToSet
<1>6. QED
  BY <1>4, <1>5

LEMMA Created ==
  ASSUME NEW k \in Go!Kinds, v3 \in [Go!Kinds -> GoBuffer]
  PROVE  Go!Get(k) \in GoBuffer /\ Go!Get(k).defs = v3[k].defs
BY DEF Go!Get, GoBuffer

LEMMA NoBufferIs == Go!NoBuffer \in GoBuffer
BY DEF Go!NoBuffer, GoBuffer

(* Saving, or declining to, changes no definition.                         *)
LEMMA SaveKeeps ==
  ASSUME GoInv, NEW k \in Go!Kinds, NEW b \in GoBuffer, NEW added, NEW n,
         Go!Save(k, b, Go!Outcome(k, TRUE, added, n))
  PROVE  /\ v3' \in [Go!Kinds -> GoBuffer] /\ v3'[k].defs = b.defs
         /\ v4' \in [Go!Kinds -> SUBSET Seq(GoName)]
         /\ v5'.cmd = k /\ v5'.added = added
<1>1. b.defs \in Seq(GoName) /\ {b.defs} \in SUBSET Seq(GoName)
  BY DEF GoBuffer
<1>2. ASSUME NEW m \in BOOLEAN
      PROVE  LET c == [b EXCEPT !.visits = TRUE, !.modified = m]
             IN  c \in GoBuffer /\ c.defs = b.defs
  BY DEF GoBuffer
<1>3. \E c \in GoBuffer : c.defs = b.defs /\ v3' = [v3 EXCEPT ![k] = c]
  BY <1>2 DEF Go!Save
<1>4. v4' \in [Go!Kinds -> SUBSET Seq(GoName)]
  BY <1>1 DEF Go!Save, GoInv
<1>5. v5'.cmd = k /\ v5'.added = added
  <2> DEFINE o == Go!Outcome(k, TRUE, added, n)
  <2>1. v5' = o \/ v5' = [o EXCEPT !.ok = FALSE]
    BY DEF Go!Save
  <2>2. o.cmd = k /\ o.added = added
    BY DEF Go!Outcome
  <2>3. [o EXCEPT !.ok = FALSE].cmd = k /\ [o EXCEPT !.ok = FALSE].added = added
    BY DEF Go!Outcome
  <2> HIDE DEF o
  <2>4. QED
    BY <2>1, <2>2, <2>3
<1>6. QED
  BY <1>3, <1>4, <1>5 DEF GoInv

(* A generator leaves nothing missing, and adds what was.                  *)
Generated(k) ==
  /\ v1' = v1
  /\ v3' \in [Go!Kinds -> GoBuffer]
  /\ v4' \in [Go!Kinds -> SUBSET Seq(GoName)]
  /\ v5'.cmd = k
  /\ \/ ~ v5'.ok /\ v5'.added = <<>>
     \/ /\ v3'[k].defs = v3[k].defs \o Go!Missing(v3[k], Wanted(k))
        /\ v5'.added = Go!Missing(v3[k], Wanted(k))
LEMMA MissingIn ==
  ASSUME NEW b, NEW c, NEW names, b.defs = c.defs
  PROVE  Go!Missing(b, names) = Go!Missing(c, names)
BY DEF Go!Missing

LEMMA TestsGenerated == ASSUME GoInv, Go!GenerateTests PROVE Generated("test")
<1> DEFINE b   == Go!Get("test")
           add == Go!Missing(b, Go!Tested)
           new == [b EXCEPT !.defs = @ \o add, !.modified = @ \/ add # <<>>]
           n   == Len(Go!Tested) - Len(b.defs)
<1>1. "test" \in Go!Kinds /\ b \in GoBuffer /\ b.defs = v3["test"].defs
  BY Created DEF GoInv, Go!Kinds
<1>2. add \in Seq(GoName) /\ add = Go!Missing(v3["test"], Wanted("test"))
  <2>1. Go!Tested = Wanted("test") /\ Go!Tested \in Seq(GoName)
    BY WantedNames DEF Wanted, GoInv
  <2> HIDE DEF b
  <2>2. QED
    BY <1>1, <2>1, MissingSeq, MissingIn
<1>3. new \in GoBuffer /\ new.defs = b.defs \o add
  <2> DEFINE m == b.modified \/ add # <<>>
  <2>1. m \in BOOLEAN /\ b.defs \o add \in Seq(GoName)
    BY <1>1, <1>2 DEF GoBuffer
  <2>2. new = [b EXCEPT !.defs = b.defs \o add, !.modified = m]
    OBVIOUS
  <2> HIDE DEF b, add, m, new
  <2>3. QED
    BY <1>1, <2>1, <2>2 DEF GoBuffer
<1> HIDE DEF b, add
<1> HIDE DEF new
<1>4. CASE Go!Save("test", new, Go!Outcome("test", TRUE, add, n)) /\ v1' = v1
  <2> HIDE DEF n
  <2>1. QED
    BY <1>1, <1>2, <1>3, <1>4, SaveKeeps DEF Generated
<1>5. CASE /\ v3' = [v3 EXCEPT !["test"] = b] /\ v4' = v4 /\ v1' = v1
           /\ v5' = Go!Outcome("test", FALSE, <<>>, 0)
  BY <1>1, <1>5 DEF Generated, GoInv, Go!Outcome
<1>6. CASE /\ v3' = [v3 EXCEPT !["test"] = new] /\ v4' = v4 /\ v1' = v1
           /\ v5' = Go!Outcome("test", TRUE, add, n)
  BY <1>1, <1>2, <1>3, <1>6 DEF Generated, GoInv, Go!Outcome
<1>7. QED
  BY <1>4, <1>5, <1>6 DEF Go!GenerateTests, b, add, new

LEMMA BenchmarksGenerated ==
  ASSUME GoInv, Go!GenerateBenchmarks PROVE Generated("bench")
<1> DEFINE b   == Go!Get("bench")
           add == Go!Missing(b, BenchNames)
           new == [b EXCEPT !.header = @ \/ Go!Empty(b), !.defs = @ \o add,
                            !.modified = @ \/ Go!Empty(b) \/ add # <<>>]
<1>1. "bench" \in Go!Kinds /\ b \in GoBuffer /\ b.defs = v3["bench"].defs
  BY Created DEF GoInv, Go!Kinds
<1>2. add \in Seq(GoName) /\ add = Go!Missing(v3["bench"], Wanted("bench"))
  <2>1. BenchNames = Wanted("bench")
    BY DEF Wanted
  <2>3. BenchNames \in Seq(GoName)
    BY <2>1, WantedNames DEF GoInv
  <2> HIDE DEF b
  <2>2. QED
    BY <1>1, <2>1, <2>3, MissingSeq, MissingIn
<1>3. new \in GoBuffer /\ new.defs = b.defs \o add
  <2> DEFINE h == b.header \/ Go!Empty(b)
             m == b.modified \/ Go!Empty(b) \/ add # <<>>
  <2>1. h \in BOOLEAN /\ m \in BOOLEAN /\ b.defs \o add \in Seq(GoName)
    BY <1>1, <1>2 DEF GoBuffer, Go!Empty
  <2>2. new = [b EXCEPT !.header = h, !.defs = b.defs \o add, !.modified = m]
    OBVIOUS
  <2> HIDE DEF b, add, h, m, new
  <2>3. QED
    BY <1>1, <2>1, <2>2 DEF GoBuffer
<1> HIDE DEF b, add, new
<1>4. CASE Go!Save("bench", new, Go!Outcome("bench", TRUE, add, Len(add))) /\ v1' = v1
  BY <1>1, <1>2, <1>3, <1>4, SaveKeeps DEF Generated
<1>5. CASE /\ v3' = v3 /\ v4' = v4 /\ v1' = v1
           /\ v5' = Go!Outcome("bench", FALSE, <<>>, 0)
  BY <1>1, <1>5 DEF Generated, GoInv, Go!Outcome
<1>6. CASE /\ v3' = [v3 EXCEPT !["bench"] = new] /\ v4' = v4 /\ v1' = v1
           /\ v5' = Go!Outcome("bench", TRUE, add, Len(add)) /\ add = <<>>
  BY <1>1, <1>2, <1>3, <1>6 DEF Generated, GoInv, Go!Outcome
<1>7. QED
  BY <1>4, <1>5, <1>6 DEF Go!GenerateBenchmarks, b, add, new, BenchNames

LEMMA GoStep == ASSUME GoInv, Go!Next PROVE GoInv'
<1>1. ASSUME NEW k \in Go!Kinds, Generated(k) PROVE GoInv'
  <2>1. v1' \in Seq(Go!Decl) /\ v3' \in [Go!Kinds -> GoBuffer]
        /\ v4' \in [Go!Kinds -> SUBSET Seq(GoName)]
    BY <1>1 DEF Generated, GoInv
  <2>2. Wanted(k)' = Wanted(k)
    BY <1>1 DEF Generated, Wanted, BenchNames, Go!Tested, Go!Benched
  <2>3. ASSUME NEW j \in Go!Kinds, v5'.cmd = j, v5'.ok
        PROVE  AllIn(Wanted(j)', v3'[j])
    <3>1. j = k /\ v3'[k].defs = v3[k].defs \o Go!Missing(v3[k], Wanted(k))
      BY <1>1, <2>3 DEF Generated
    <3>2. Wanted(k) \in Seq(GoName) /\ v3[k] \in GoBuffer
      BY <1>1, WantedNames DEF GoInv
    <3>3. QED
      BY <2>2, <3>1, <3>2, AllAdded
  <2>4. QED
    BY <2>1, <2>3 DEF GoInv
<1>2. ASSUME /\ v1' \in Seq(Go!Decl) /\ v3' \in [Go!Kinds -> GoBuffer]
             /\ v4' \in [Go!Kinds -> SUBSET Seq(GoName)]
             /\ v5' = Go!Outcome("edit", TRUE, <<>>, 0)
      PROVE  GoInv'
  BY <1>2 DEF GoInv, Go!Outcome, Go!Kinds
<1>3. CASE Go!GenerateTests
  BY <1>1, <1>3, TestsGenerated DEF Go!Kinds
<1>4. CASE Go!GenerateBenchmarks
  BY <1>1, <1>4, BenchmarksGenerated DEF Go!Kinds
<1>5. ASSUME NEW d \in Go!Decl, Go!Declare(d) PROVE GoInv'
  <2>1. v1' = Append(v1, d) /\ v3' = v3 /\ v4' = v4
        /\ v5' = Go!Outcome("edit", TRUE, <<>>, 0)
    BY <1>5 DEF Go!Declare
  <2>2. v1' \in Seq(Go!Decl)
    BY <2>1 DEF GoInv
  <2>3. QED
    BY <1>2, <2>1, <2>2 DEF GoInv
<1>6. ASSUME NEW i \in 1 .. Len(v1), Go!Undeclare(i) PROVE GoInv'
  <2>1. SubSeq(v1, 1, i - 1) \in Seq(Go!Decl) /\ SubSeq(v1, i + 1, Len(v1)) \in Seq(Go!Decl)
    BY DEF GoInv
  <2>2. Go!RemoveAt(v1, i) \in Seq(Go!Decl)
    BY <2>1 DEF Go!RemoveAt
  <2>3. QED
    BY <1>2, <1>6, <2>2 DEF GoInv, Go!Undeclare
<1>7. ASSUME NEW k \in Go!Kinds, Go!Visit(k) PROVE GoInv'
  <2>1. PICK text \in v4[k] :
          v3' = [v3 EXCEPT ![k] = [live |-> TRUE, visits |-> TRUE, header |-> TRUE,
                                   defs |-> text, modified |-> FALSE]]
    BY <1>7 DEF Go!Visit
  <2>2. text \in Seq(GoName)
    BY DEF GoInv
  <2>3. QED
    BY <1>2, <1>7, <2>1, <2>2 DEF GoInv, Go!Visit, GoBuffer
<1>8. ASSUME NEW k \in Go!Kinds, Go!Kill(k) PROVE GoInv'
  BY <1>2, <1>8, NoBufferIs DEF GoInv, Go!Kill
<1>9. ASSUME NEW k \in Go!Kinds, NEW n \in Go!Name, Go!Write(k, n) PROVE GoInv'
  <2>1. n \in GoName /\ v3[k] \in GoBuffer
    BY DEF GoName, Go!Name, GoInv
  <2>2. v3' = [v3 EXCEPT ![k] = [v3[k] EXCEPT !.header = TRUE, !.defs = Append(v3[k].defs, n),
                                              !.modified = TRUE]]
    BY <1>9 DEF Go!Write, GoInv
  <2>3. [v3[k] EXCEPT !.header = TRUE, !.defs = Append(v3[k].defs, n), !.modified = TRUE]
          \in GoBuffer
    <3>1. ASSUME NEW b \in GoBuffer, NEW defs \in Seq(GoName)
          PROVE  [b EXCEPT !.header = TRUE, !.defs = defs, !.modified = TRUE] \in GoBuffer
      BY DEF GoBuffer
    <3>2. v3[k].defs \in Seq(GoName)
      BY <2>1 DEF GoBuffer
    <3>3. Append(v3[k].defs, n) \in Seq(GoName)
      BY <2>1, <3>2
    <3>4. QED
      BY <2>1, <3>1, <3>3
  <2>4. QED
    BY <1>2, <1>9, <2>2, <2>3 DEF GoInv, Go!Write
<1>10. QED
  BY <1>3, <1>4, <1>5, <1>6, <1>7, <1>8, <1>9 DEF Go!Next

LEMMA GoStart == ASSUME Go!Init PROVE GoInv
<1>1. <<>> \in Seq(Go!Decl) /\ <<>> \in Seq(GoName)
  OBVIOUS
<1>2. v5.cmd = "edit"
  BY DEF Go!Init, Go!Outcome
<1>3. v3 \in [Go!Kinds -> GoBuffer] /\ v4 \in [Go!Kinds -> SUBSET Seq(GoName)]
  BY <1>1, NoBufferIs DEF Go!Init
<1>4. QED
  BY <1>1, <1>2, <1>3 DEF Go!Init, GoInv, Go!Kinds

LEMMA GoAgain == ASSUME GoInv, Go!Next PROVE Go!AddsNothingAgain
<1> SUFFICES ASSUME NEW k \in Go!Kinds, v5.cmd = k, v5.ok, v5'.cmd = k
             PROVE  v5'.added = <<>>
  BY DEF Go!AddsNothingAgain
<1>1. Go!Missing(v3[k], Wanted(k)) = <<>>
  BY WantedNames, NoneMissing DEF GoInv
<1>2. ASSUME NEW j, Generated(j) PROVE v5'.added = <<>>
  <2>1. j = k
    BY <1>2 DEF Generated
  <2>2. QED
    BY <1>1, <1>2, <2>1 DEF Generated
<1>3. CASE Go!GenerateTests
  BY <1>2, <1>3, TestsGenerated
<1>4. CASE Go!GenerateBenchmarks
  BY <1>2, <1>4, BenchmarksGenerated
<1>5. CASE v5' = Go!Outcome("edit", TRUE, <<>>, 0)
  BY <1>5 DEF Go!Outcome
<1>6. QED
  BY <1>3, <1>4, <1>5
     DEF Go!Next, Go!Declare, Go!Undeclare, Go!Visit, Go!Kill, Go!Write

(* Either generator, in any order with any edits, visits and saves.        *)
GoPart == part = "go" => GoInv
LEMMA GoParts ==
  /\ PartsInit => GoPart
  /\ GoPart /\ [PartsNext]_parts => GoPart' /\ [part = "go" => Go!AddsNothingAgain]_parts
<1>1. PartsInit => GoPart
  BY GoStart DEF PartsInit, GoPart
<1>2. ASSUME GoPart, PartsNext
      PROVE  GoPart' /\ [part = "go" => Go!AddsNothingAgain]_parts
  <2>1. part' = part /\ (part = "go" => Go!Next)
    BY <1>2 DEF PartsNext
  <2>2. QED
    BY <1>2, <2>1, GoStep, GoAgain DEF GoPart
<1>3. ASSUME GoPart, UNCHANGED parts PROVE GoPart'
  <2>1. part' = part /\ v1' = v1 /\ v3' = v3 /\ v4' = v4 /\ v5' = v5
    BY <1>3 DEF parts, vs
  <2>2. QED
    BY <1>3, <2>1
       DEF GoPart, GoInv, Wanted, BenchNames, AllIn, Go!Tested, Go!Benched
<1>4. QED
  BY <1>1, <1>2, <1>3

(* go-generate-benchmark-internal: for any functions of the source and any *)
(* buffer, when it has run every function has its benchmark.               *)
THEOREM BenchmarksComplete == PartsSpec => []EveryBenchmark
<1>1. GoPart => EveryBenchmark
  <2> SUFFICES ASSUME GoInv, v5.cmd = "bench", v5.ok, NEW i \in 1 .. Len(Go!Benched)
               PROVE  Go!BenchName(Go!Benched[i]) \in Go!ToSet(v3["bench"].defs)
    BY DEF GoPart, EveryBenchmark, Go!EveryBenchmark
  <2>1. Go!Benched \in Seq(GoName) /\ AllIn(BenchNames, v3["bench"])
    BY BenchedNames DEF GoInv, Wanted, Go!Kinds
  <2>2. BenchNames[i] = Go!BenchName(Go!Benched[i]) /\ Len(BenchNames) = Len(Go!Benched)
    BY <2>1 DEF BenchNames
  <2>3. QED
    BY <2>1, <2>2 DEF AllIn
<1>2. QED
  BY <1>1, GoParts, PTL DEF PartsSpec

(* A generator that runs again at once adds nothing, whatever it finds.    *)
THEOREM AddsNothingMore == PartsSpec => AgainNothing
BY GoParts, PTL DEF PartsSpec, AgainNothing
------------------------------------------------------------------------------
(* The formats of texts are those of ServerProofs.                         *)
LEMMA TextSame ==
  /\ Wire!NL = Server!NL /\ Wire!Dot = Server!Dot
  /\ \A q : Wire!QueryLine(q) = Server!QueryLine(q)
  /\ \A t : Wire!FirstLine(t) = Server!FirstLine(t)
  /\ \A t : Wire!Split(t) = Server!Split(t)
  /\ \A t : Wire!AnswerEnd(t) = Server!AnswerEnd(t)
  /\ \A t : Wire!ParseResponse(t) = Server!ParseResponse(t)
  /\ \A t : Wire!Message(t) = Server!Message(t)
  /\ \A rs : Wire!Records(rs) = Server!Records(rs)
  /\ \A a : Wire!Printed(a) = Server!Printed(a)
  /\ \A a : Wire!LooksEnded(a) <=> Server!LooksEnded(a)
<1> USE DEF Wire!NL, Wire!Colon, Wire!Back, Wire!Dot,
            Server!NL, Server!Colon, Server!Back, Server!Dot
<1>1. \A t : Wire!AnswerEnd(t) = Server!AnswerEnd(t)
  BY DEF Wire!AnswerEnd, Wire!EndsAt, Server!AnswerEnd, Server!EndsAt
<1>2. \A q : Wire!QueryLine(q) = Server!QueryLine(q)
  BY DEF Wire!QueryLine, Wire!Joined, Wire!Escape, Wire!EscapeChar, Wire!FlattenSeq,
         Server!QueryLine, Server!Joined, Server!Escape, Server!EscapeChar,
         Server!FlattenSeq
<1>3. \A t : Wire!FirstLine(t) = Server!FirstLine(t)
  BY DEF Wire!FirstLine, Server!FirstLine
<1>4. \A t : Wire!Split(t) = Server!Split(t)
  BY DEF Wire!Split, Wire!Scanned, Wire!NoArgs, Wire!SplitChar, Wire!Unescaped,
         Server!Split, Server!Scanned, Server!NoArgs, Server!SplitChar, Server!Unescaped
<1>5. \A t : Wire!ReadRecords(t) = Server!ReadRecords(t)
  BY DEF Wire!ReadRecords, Wire!NoRecords, Wire!ReadChar, Wire!Unescaped,
         Server!ReadRecords, Server!NoRecords, Server!ReadChar, Server!Unescaped
<1>6. /\ \A t : Wire!Message(t) = Server!Message(t)
      /\ \A rs : Wire!Records(rs) = Server!Records(rs)
  BY DEF Wire!Message, Server!Message, Wire!Records, Server!Records
<1>7. \A t : Wire!ParseResponse(t) = Server!ParseResponse(t)
  BY <1>1, <1>5, <1>6 DEF Wire!ParseResponse, Server!ParseResponse
<1>8. \A a : Wire!Printed(a) = Server!Printed(a)
  <2>1. \A s : Wire!FlattenSeq(s) = Server!FlattenSeq(s)
    BY DEF Wire!FlattenSeq, Server!FlattenSeq
  <2>2. \A t : Wire!PrintString(t) = Server!PrintString(t)
    BY <2>1 DEF Wire!PrintString, Server!PrintString
  <2>3. \A r : Wire!PrintRecord(r) = Server!PrintRecord(r)
    BY <2>1, <2>2 DEF Wire!PrintRecord, Server!PrintRecord, Wire!Joined, Server!Joined
  <2>4. \A rs : [i \in DOMAIN rs |-> Wire!PrintRecord(rs[i])]
                = [i \in DOMAIN rs |-> Server!PrintRecord(rs[i])]
    BY <2>3
  <2>5. QED
    BY <2>1, <2>4 DEF Wire!Printed, Wire!OkLine, Wire!End,
                      Server!Printed, Server!OkLine, Server!End
<1>9. \A a : Wire!LooksEnded(a) <=> Server!LooksEnded(a)
  BY <1>1 DEF Wire!LooksEnded, Server!LooksEnded
<1>10. QED
  BY <1>1, <1>2, <1>3, <1>4, <1>6, <1>7, <1>8, <1>9

(* The texts that are asked about are such as pdf-info-query can send.     *)
LEMMA ShortTexts ==
  /\ Wire!Texts \subseteq Server!WText
  /\ \A c \in Server!WChar : <<c>> \in Server!WText
<1>1. Wire!Chars \subseteq Server!WChar
  BY DEF Wire!Chars, Server!WChar, Wire!NL, Wire!Colon, Wire!Back, Wire!Dot,
         Server!NL, Server!Colon, Server!Back, Server!Dot
<1>2. ASSUME NEW m \in Nat, NEW t \in [1 .. m -> Wire!Chars] PROVE t \in Server!WText
  <2>1. t \in Seq(Wire!Chars)
    OBVIOUS
  <2>2. QED
    BY <1>1, <2>1 DEF Server!WText
<1>3. ASSUME NEW t \in Wire!Texts PROVE t \in Server!WText
  <2>1. PICK m \in 0 .. MaxLength : t \in [1 .. m -> Wire!Chars]
    BY DEF Wire!Texts, Wire!SeqOf
  <2>2. m \in Nat
    BY WireAssumption
  <2>3. QED
    BY <1>2, <2>1, <2>2
<1>4. \A c \in Server!WChar : <<c>> \in Server!WText
  BY DEF Server!WText
<1>5. QED
  BY <1>3, <1>4

LEMMA OddTextsToo == Wire!OddTexts \subseteq Server!WText
<1>1. {"0", "1", "2", "-1", " ", "a"} \subseteq Server!WChar
  BY DEF Server!WChar
<1>2. \A c, d, e \in Server!WChar : <<c, d>> \in Seq(Server!WChar) /\ <<c, d, e>> \in Seq(Server!WChar)
  OBVIOUS
<1>3. \A c, d, e, f, g, h, i \in Server!WChar : <<c, d, e, f, g, h, i>> \in Seq(Server!WChar)
  OBVIOUS
<1>4. \A c, d, e, f, g, h \in Server!WChar : <<c, d, e, f, g, h>> \in Seq(Server!WChar)
  OBVIOUS
<1>5. <<"0", " ", "0", " ", "1", " ", "1">> \in Seq(Server!WChar)
      /\ <<"0", " ", "1", " ", "-1", " ", "-1">> \in Seq(Server!WChar)
      /\ <<"0", " ", "2", " ", "1", " ", "1">> \in Seq(Server!WChar)
  BY <1>1, <1>3
<1>6. <<"0", " ", "1", " ", "1", " ">> \in Seq(Server!WChar) /\ <<"1", "a">> \in Seq(Server!WChar)
  BY <1>1, <1>2, <1>4
<1>7. <<>> \in Seq(Server!WChar) /\ <<"0">> \in Seq(Server!WChar) /\ <<"2">> \in Seq(Server!WChar)
      /\ <<"-1">> \in Seq(Server!WChar)
  BY <1>1, ShortTexts, Server!WireChars DEF Server!WText
<1>8. QED
  BY <1>5, <1>6, <1>7 DEF Wire!OddTexts, Server!WText

LEMMA QueriesSent == ASSUME NEW q \in Wire!Queries PROVE Server!IsQuery(q)
<1>1. \A t \in Server!WText : Server!IsQuery(<<t>>)
  BY DEF Server!IsQuery
<1>2. \A s, t \in Server!WText : Server!IsQuery(<<s, t>>)
  BY DEF Server!IsQuery
<1>3. \A s, t, u \in Server!WText : Server!IsQuery(<<s, t, u>>)
  BY DEF Server!IsQuery
<1>4. \A s, t, u, v \in Server!WText : Server!IsQuery(<<s, t, u, v>>)
  BY DEF Server!IsQuery
<1>5. \A s, t, u, v, w \in Server!WText : Server!IsQuery(<<s, t, u, v, w>>)
  BY DEF Server!IsQuery
<1>6. {"ping", "open", "features", "gettext", "charlayout", "getattachments",
       "setoptions", "1", "-1", "file"} \subseteq Server!WChar
  BY DEF Server!WChar
<1>7. /\ <<"ping">> \in Server!WText /\ <<"open">> \in Server!WText /\ <<"features">> \in Server!WText
      /\ <<"gettext">> \in Server!WText /\ <<"charlayout">> \in Server!WText
      /\ <<"getattachments">> \in Server!WText /\ <<"setoptions">> \in Server!WText
      /\ <<"1">> \in Server!WText /\ <<"-1">> \in Server!WText /\ Wire!OpenFile \in Server!WText
      /\ <<>> \in Server!WText
  BY <1>6, ShortTexts, Server!WireChars DEF Wire!OpenFile
<1>8. CASE \/ q \in {<<<<"ping">>, t>> : t \in Wire!Texts}
           \/ q \in {<<<<"ping">>>>, <<<<"features">>>>}
           \/ q \in {<<<<"ping">>, <<>>, t>> : t \in Wire!Texts}
           \/ q \in {<<t>> : t \in Wire!Texts \ {<<>>}}
  BY <1>1, <1>2, <1>3, <1>7, <1>8, ShortTexts, Zenon
<1>9. CASE \/ q \in {<<<<"open">>, t, <<>>>> : t \in Wire!OddTexts}
           \/ q \in {<<<<"charlayout">>, Wire!OpenFile, <<"1">>, t>> : t \in Wire!OddTexts}
  BY <1>3, <1>4, <1>7, <1>9, OddTextsToo, Zenon
<1>10. CASE q \in {<<<<"getattachments">>, t, b>> :
                      t \in Wire!Texts \cup {Wire!OpenFile}, b \in Wire!OddTexts}
  <2>1. PICK t \in Wire!Texts \cup {Wire!OpenFile}, b \in Wire!OddTexts :
          q = <<<<"getattachments">>, t, b>>
    BY <1>10
  <2>2. t \in Server!WText /\ b \in Server!WText
    BY <1>7, ShortTexts, OddTextsToo
  <2>3. QED
    BY <1>3, <1>7, <2>1, <2>2, Zenon
<1>11. CASE q \in {<<<<"gettext">>, Wire!OpenFile, m, t, n>> :
                    m \in Wire!OddTexts, t \in Wire!OddTexts, n \in {<<>>, <<"-1">>}}
  <2>1. PICK m \in Wire!OddTexts, t \in Wire!OddTexts, n \in {<<>>, <<"-1">>} :
          q = <<<<"gettext">>, Wire!OpenFile, m, t, n>>
    BY <1>11
  <2>2. m \in Server!WText /\ t \in Server!WText /\ n \in Server!WText
    BY <1>7, OddTextsToo
  <2>3. QED
    BY <1>5, <1>7, <2>1, <2>2, Zenon
<1>12. CASE \/ q \in {<<<<"setoptions">>, Wire!OpenFile>>, <<<<"setoptions">>>>}
            \/ q \in {<<<<"setoptions">>, Wire!OpenFile, s, t>> :
                        s \in Wire!OddTexts, t \in Wire!OddTexts}
  <2>1. CASE q \in {<<<<"setoptions">>, Wire!OpenFile>>, <<<<"setoptions">>>>}
    BY <1>1, <1>2, <1>7, <2>1, Zenon
  <2>2. ASSUME NEW s \in Wire!OddTexts, NEW t \in Wire!OddTexts,
               q = <<<<"setoptions">>, Wire!OpenFile, s, t>>
        PROVE  Server!IsQuery(q)
    <3>1. s \in Server!WText /\ t \in Server!WText
      BY OddTextsToo
    <3>2. QED
      BY <1>4, <1>7, <2>2, <3>1, Zenon
  <2>3. QED
    BY <1>12, <2>1, <2>2
<1>13. QED
  BY <1>8, <1>9, <1>10, <1>11, <1>12 DEF Wire!Queries
------------------------------------------------------------------------------
(* What is on the way is what the formats make of what was sent.           *)
WireInv ==
  /\ Server!IsQuery(v1)
  /\ Wire!Done(v2) => v2.text = Wire!QueryLine(v1)
  /\ Wire!Done(v3) => Wire!Done(v2) /\ v3.list = v1
  /\ Wire!Done(v4) => Server!IsAnswer(v4)
  /\ Wire!Done(v5) => Wire!Done(v4) /\ v5.text = Wire!Printed(v4)
  /\ Wire!Done(v6) =>
       /\ Wire!Done(v5)
       /\ v6 = Wire!ParseResponse(SubSeq(v5.text, 1, Wire!AnswerEnd(v5.text)))

(* Of the types of a command's arguments, only the last can be "REST".     *)
IsSpec(spec) ==
  /\ Len(spec) \in Nat /\ DOMAIN spec = 1 .. Len(spec)
  /\ \A i \in 1 .. Len(spec) : spec[i] = "REST" => i = Len(spec)

LEMMA CommandSpecs ==
  ASSUME NEW c \in DOMAIN Wire!Commands
  PROVE  c \in Server!WChar /\ IsSpec(Wire!Commands[c])
<1>1. DOMAIN Wire!Commands = {"ping", "open", "features", "gettext", "charlayout",
                              "getattachments", "setoptions"}
  BY DEF Wire!Commands
<1>2. /\ IsSpec(<<"STRING">>) /\ IsSpec(<<"NONEMPTY_STRING", "STRING">>) /\ IsSpec(<<>>)
      /\ IsSpec(<<"DOC", "BOOL">>) /\ IsSpec(<<"DOC", "REST">>)
      /\ IsSpec(<<"DOC", "NATNUM", "EDGES_OR_POSITION">>)
      /\ IsSpec(<<"DOC", "NATNUM", "EDGES", "NATNUM">>)
  BY DEF IsSpec
<1>3. CASE c = "ping"
  BY <1>2, <1>3 DEF Wire!Commands, Server!WChar
<1>4. CASE c = "open"
  BY <1>2, <1>4 DEF Wire!Commands, Server!WChar
<1>5. CASE c = "features"
  BY <1>2, <1>5 DEF Wire!Commands, Server!WChar
<1>6. CASE c = "gettext"
  BY <1>2, <1>6 DEF Wire!Commands, Server!WChar
<1>7. CASE c = "charlayout"
  BY <1>2, <1>7 DEF Wire!Commands, Server!WChar
<1>8. CASE c = "getattachments"
  BY <1>2, <1>8 DEF Wire!Commands, Server!WChar
<1>9. CASE c = "setoptions"
  BY <1>2, <1>9 DEF Wire!Commands, Server!WChar
<1>10. QED
  BY <1>1, <1>3, <1>4, <1>5, <1>6, <1>7, <1>8, <1>9

(* The message of an error is made of a text.                              *)
LEMMA Blamed ==
  ASSUME NEW given \in Seq(Server!WText), NEW c \in DOMAIN Wire!Commands,
         ~ Wire!Accepted(given, Wire!Commands[c])
  PROVE  Wire!Culprit(given, c) \in Server!WText
<1> DEFINE spec == Wire!Commands[c]
           N == Len(spec)
           bad == {i \in DOMAIN spec : spec[i] # "REST" /\ ~ Wire!Parses(given[i], spec[i])}
           first == CHOOSE i \in bad : \A j \in bad : i <= j
<1>1. <<c>> \in Server!WText
  BY CommandSpecs, ShortTexts
<1>2. N \in Nat /\ DOMAIN spec = 1 .. N /\ \A i \in 1 .. N : spec[i] = "REST" => i = N
  BY CommandSpecs DEF IsSpec
<1>3. Wire!Culprit(given, c) = IF ~ Wire!Fits(Len(given), spec) THEN <<c>> ELSE given[first]
  BY DEF Wire!Culprit
<1>4. CASE Wire!Fits(Len(given), spec)
  <2>1. spec # <<>> /\ \E i \in 1 .. N : spec[i] # "REST" /\ ~ Wire!Parses(given[i], spec[i])
    BY <1>4 DEF Wire!Accepted
  <2>2. bad # {} /\ bad \subseteq Nat
    <3>1. \A i : i \in bad <=> i \in 1 .. N /\ spec[i] # "REST" /\ ~ Wire!Parses(given[i], spec[i])
      BY <1>2
    <3> HIDE DEF bad, spec, N
    <3>2. \E i \in 1 .. N : i \in bad
      BY <2>1, <3>1
    <3>3. \A i \in bad : i \in Nat
      BY <1>2, <3>1
    <3>4. QED
      BY <3>2, <3>3
  <2>3. first \in bad
    <3> HIDE DEF bad
    <3>1. QED
      BY <2>2, Least
  <2> HIDE DEF first
  <2>4. first \in 1 .. N /\ spec[first] # "REST"
    BY <1>2, <2>3
  <2>5. first <= Len(given)
    <3> HIDE DEF spec, N, bad
    <3>1. CASE Wire!TakesRest(spec)
      <4>1. spec[N] = "REST"
        BY <3>1 DEF Wire!TakesRest, Wire!Last, N
      <4>2. first # N
        BY <2>4, <4>1
      <4>3. Len(given) >= N - 1
        BY <1>4, <3>1 DEF Wire!Fits, N
      <4>4. Len(given) \in Nat
        OBVIOUS
      <4>5. QED
        BY <1>2, <2>4, <4>2, <4>3, <4>4
    <3>2. CASE ~ Wire!TakesRest(spec)
      <4>1. Len(given) = N
        BY <1>4, <3>2 DEF Wire!Fits, N
      <4>2. QED
        BY <1>2, <2>4, <4>1
    <3>3. QED
      BY <3>1, <3>2
  <2>6. first \in 1 .. Len(given)
    <3>1. Len(given) \in Nat
      OBVIOUS
    <3> HIDE DEF spec, N, bad
    <3>2. QED
      BY <1>2, <2>4, <2>5, <3>1
  <2>7. QED
    BY <1>3, <1>4, <2>6
<1>5. QED
  BY <1>1, <1>3, <1>4

LEMMA Replies ==
  ASSUME NEW given \in Seq(Server!WText), NEW c \in DOMAIN Wire!Commands,
         Wire!Accepted(given, Wire!Commands[c]), NEW rs \in Wire!Answers(c, given)
  PROVE  Server!IsAnswer(Wire!Records(rs))
<1>1. \A t \in Server!WText : <<t>> \in Seq(Server!WText) /\ <<t>> # <<>>
  OBVIOUS
<1>2. \A s, t \in Server!WText : <<s, t>> \in Seq(Server!WText) /\ <<s, t>> # <<>>
  OBVIOUS
<1>3. ASSUME NEW r \in Seq(Server!WText), r # <<>>, rs = <<r>> PROVE Server!IsAnswer(Wire!Records(rs))
  <2>1. rs \in Seq(Seq(Server!WText)) /\ \A i \in 1 .. Len(rs) : rs[i] # <<>>
    BY <1>3
  <2>2. QED
    BY <2>1, TextSame DEF Server!IsAnswer
<1>4. CASE c = "ping"
  <2>1. Len(given) = 1
    <3>1. /\ Wire!Commands[c] = <<"STRING">> /\ <<"STRING">> # <<>> /\ Len(<<"STRING">>) = 1
          /\ <<"STRING">>[1] # "REST"
      BY <1>4 DEF Wire!Commands
    <3>2. Wire!Fits(Len(given), <<"STRING">>)
      BY <3>1 DEF Wire!Accepted
    <3>3. QED
      BY <3>1, <3>2 DEF Wire!Fits, Wire!TakesRest, Wire!Last
  <2>2. rs = << <<given[1]>> >>
    BY <1>4 DEF Wire!Answers
  <2>3. given[1] \in Server!WText
    BY <2>1
  <2>4. QED
    BY <1>1, <1>3, <2>2, <2>3
<1>5. CASE c = "features"
  <2>1. CASE rs = <<>>
    <3>1. rs \in Seq(Seq(Server!WText)) /\ \A i \in 1 .. Len(rs) : rs[i] # <<>>
      BY <2>1
    <3>2. QED
      BY <3>1, TextSame DEF Server!IsAnswer
  <2>2. ASSUME NEW s \in Wire!Texts, NEW t \in Wire!Texts, rs = << <<s, t>> >>
        PROVE  Server!IsAnswer(Wire!Records(rs))
    BY <1>2, <1>3, <2>2, ShortTexts
  <2>3. ASSUME NEW s \in Wire!Texts, NEW t \in Wire!Texts, rs = <<<<s>>, <<t>>>>
        PROVE  Server!IsAnswer(Wire!Records(rs))
    <3>1. <<s>> \in Seq(Server!WText) /\ <<t>> \in Seq(Server!WText) /\ <<s>> # <<>> /\ <<t>> # <<>>
      BY <1>1, ShortTexts
    <3>2. rs \in Seq(Seq(Server!WText)) /\ \A i \in 1 .. Len(rs) : rs[i] # <<>>
      <4>1. ASSUME NEW q \in Seq(Server!WText), NEW r \in Seq(Server!WText), q # <<>>, r # <<>>
            PROVE  <<q, r>> \in Seq(Seq(Server!WText)) /\ \A i \in 1 .. Len(<<q, r>>) : <<q, r>>[i] # <<>>
        BY <4>1
      <4>2. QED
        BY <2>3, <3>1, <4>1
    <3>3. QED
      BY <3>2, TextSame DEF Server!IsAnswer
  <2>4. QED
    BY <1>5, <2>1, <2>2, <2>3 DEF Wire!Answers
<1>6. CASE c # "ping" /\ c # "features"
  <2>1. rs = << <<(<<>>)>> >> /\ <<>> \in Server!WText
    BY <1>6, Server!WireChars DEF Wire!Answers
  <2>2. QED
    BY <1>1, <1>3, <2>1
<1>7. QED
  BY <1>4, <1>5, <1>6

LEMMA WireStart == ASSUME Wire!Init PROVE WireInv
<1>1. Server!IsQuery(v1)
  BY QueriesSent DEF Wire!Init
<1>2. ~ Wire!Done(v2) /\ ~ Wire!Done(v3) /\ ~ Wire!Done(v4) /\ ~ Wire!Done(v5) /\ ~ Wire!Done(v6)
  BY DEF Wire!Init, Wire!Done
<1>3. QED
  BY <1>1, <1>2 DEF WireInv

LEMMA WireStep == ASSUME WireInv, Wire!Next PROVE WireInv'
<1>1. CASE Wire!Send
  <2>1. v2'.text = Wire!QueryLine(v1) /\ v1' = v1 /\ v3' = v3 /\ v4' = v4 /\ v5' = v5 /\ v6' = v6
    BY <1>1 DEF Wire!Send
  <2>2. ~ Wire!Done(v3)
    BY <1>1 DEF WireInv, Wire!Send
  <2>3. QED
    BY <2>1, <2>2 DEF WireInv, Wire!Done
<1>2. CASE Wire!Read
  <2>1. /\ v3'.list = Wire!Split(Wire!FirstLine(v2.text)) /\ Wire!Done(v2)
        /\ Wire!FirstLine(v2.text) # <<>>
        /\ v1' = v1 /\ v2' = v2 /\ v4' = v4 /\ v5' = v5 /\ v6' = v6
    BY <1>2 DEF Wire!Read
  <2>2. v3'.list = v1
    BY <2>1, TextSame, Server!ArgumentsArrive DEF WireInv
  <2>3. QED
    BY <2>1, <2>2 DEF WireInv, Wire!Done
<1>3. CASE Wire!Execute \/ Wire!UnknownCommand
  <2>1. /\ v3.list = v1 /\ ~ Wire!Done(v4)
        /\ v1' = v1 /\ v2' = v2 /\ v3' = v3 /\ v5' = v5 /\ v6' = v6
    BY <1>3 DEF WireInv, Wire!Execute, Wire!UnknownCommand
  <2>2. v1 \in Seq(Server!WText) /\ v1 # <<>> /\ v1[1] \in Server!WText /\ Tail(v1) \in Seq(Server!WText)
    BY DEF WireInv, Server!IsQuery
  <2>3. Server!IsAnswer(v4')
    <3>1. CASE Wire!UnknownCommand
      BY <2>1, <2>2, <3>1, TextSame, Server!Messages DEF Wire!UnknownCommand
    <3>2. CASE Wire!Execute
      <4> DEFINE c == v1[1][1]
                 given == Tail(v1)
      <4>1. c \in DOMAIN Wire!Commands
        <5>1. PICK d \in DOMAIN Wire!Commands : v1[1] = <<d>>
          BY <2>1, <3>2 DEF Wire!Execute, Wire!Known
        <5>2. QED
          BY <5>1
      <4>2. \/ /\ Wire!Accepted(given, Wire!Commands[c])
               /\ \E rs \in Wire!Answers(c, given) : v4' = Wire!Records(rs)
            \/ /\ ~ Wire!Accepted(given, Wire!Commands[c])
               /\ v4' = Wire!Message(Wire!Culprit(given, c))
        BY <2>1, <3>2 DEF Wire!Execute
      <4> HIDE DEF c
      <4>3. QED
        BY <2>2, <4>1, <4>2, TextSame, Replies, Blamed, Server!Messages
    <3>3. QED
      BY <1>3, <3>1, <3>2
  <2>4. ~ Wire!Done(v5)
    BY <2>1 DEF WireInv
  <2>5. QED
    BY <2>1, <2>3, <2>4 DEF WireInv, Wire!Done
<1>4. CASE Wire!Answer
  <2>1. /\ v5'.text = Wire!Printed(v4) /\ Wire!Done(v4) /\ ~ Wire!Done(v5)
        /\ v1' = v1 /\ v2' = v2 /\ v3' = v3 /\ v4' = v4 /\ v6' = v6
    BY <1>4 DEF Wire!Answer
  <2>2. ~ Wire!Done(v6)
    BY <2>1 DEF WireInv
  <2>3. QED
    BY <2>1, <2>2 DEF WireInv, Wire!Done
<1>5. CASE Wire!Receive
  <2>1. /\ v6' = Wire!ParseResponse(SubSeq(v5.text, 1, Wire!AnswerEnd(v5.text)))
        /\ Wire!Done(v5)
        /\ v1' = v1 /\ v2' = v2 /\ v3' = v3 /\ v4' = v4 /\ v5' = v5
    BY <1>5 DEF Wire!Receive
  <2>2. QED
    BY <2>1 DEF WireInv, Wire!Done
<1>6. QED
  BY <1>1, <1>2, <1>3, <1>4, <1>5 DEF Wire!Next

WirePart == part = "wire" => WireInv
LEMMA WireParts ==
  /\ PartsInit => WirePart
  /\ WirePart /\ [PartsNext]_parts => WirePart'
<1>1. PartsInit => WirePart
  BY WireStart DEF PartsInit, WirePart
<1>2. ASSUME WirePart, PartsNext PROVE WirePart'
  <2>1. part' = part /\ (part = "wire" => Wire!Next)
    BY <1>2 DEF PartsNext
  <2>2. QED
    BY <1>2, <2>1, WireStep DEF WirePart
<1>3. ASSUME WirePart, UNCHANGED parts PROVE WirePart'
  <2>1. /\ part' = part /\ v1' = v1 /\ v2' = v2 /\ v3' = v3 /\ v4' = v4 /\ v5' = v5
        /\ v6' = v6
    BY <1>3 DEF parts, vs
  <2>2. QED
    BY <1>3, <2>1 DEF WirePart, WireInv, Wire!Done
<1>4. QED
  BY <1>1, <1>2, <1>3

(* Whatever the texts contain, the server has the arguments the client     *)
(* sent, and unless a record or a line of a message is a single dot, the   *)
(* client reads what the server meant, to the end of the output.           *)
THEOREM TextsArrive == PartsSpec => []Arrives
<1>1. WirePart => Arrives
  <2> SUFFICES ASSUME WireInv PROVE Wire!Arrives
    BY DEF WirePart, Arrives
  <2>1. Wire!Done(v3) => v3.list = v1
    BY DEF WireInv
  <2>2. ASSUME Wire!Done(v6), ~ Wire!LooksEnded(v4)
        PROVE  v6 = v4 /\ Wire!AnswerEnd(v5.text) = Len(v5.text)
    <3>1. /\ Server!IsAnswer(v4) /\ v5.text = Wire!Printed(v4)
          /\ v6 = Wire!ParseResponse(SubSeq(v5.text, 1, Wire!AnswerEnd(v5.text)))
      BY <2>2 DEF WireInv
    <3>2. Server!Returned(v4)
      BY <2>2, <3>1, TextSame, Server!AnswerReturned
    <3>3. QED
      BY <3>1, <3>2, TextSame DEF Server!Returned
  <2>3. QED
    BY <2>1, <2>2 DEF Wire!Arrives
<1>2. QED
  BY <1>1, WireParts, PTL DEF PartsSpec
------------------------------------------------------------------------------
(* Word expansion.  What the characters of the text are does not change    *)
(* while definitions, which hold none of them, are inserted anywhere.      *)
Named == Expand!Plain
Texts == Seq(WordChars)
Token == Expand!Chars \cup {Expand!Def(w) : w \in Texts} \cup {Expand!Body, Expand!Right}
ExpandInv == v6 = "none" => v1 \in Seq(Token) /\ v2 \in 0 .. Len(v1)

(* Letters are characters of words; definitions hold no plain characters.  *)
LEMMA WordTokens ==
  /\ \A t \in Token : t[1] = "letter" => t[2] \in WordChars
  /\ Named \subseteq Token
  /\ Expand!Left \notin Named /\ Expand!Right \notin Named /\ Expand!Body \notin Named
  /\ Expand!Left \in Token /\ Expand!Right \in Token /\ Expand!Body \in Token
  /\ \A w \in Texts : Expand!Def(w) \in Token /\ Expand!Def(w) \notin Named
<1>1. \A c \in WordChars : Expand!Letter(c)[1] = "letter" /\ Expand!Letter(c)[2] = c
  BY DEF Expand!Letter
<1>2. /\ Expand!Under[1] = "_" /\ Expand!Gap[1] = " " /\ Expand!Left[1] = "{"
      /\ Expand!Right[1] = "}" /\ Expand!Body[1] = "body"
      /\ \A w : Expand!Def(w)[1] = "def"
  BY DEF Expand!Under, Expand!Gap, Expand!Left, Expand!Right, Expand!Body, Expand!Def
<1>3. \A t \in Named : \/ t \in {Expand!Under, Expand!Gap}
                      \/ \E c \in WordChars : t = Expand!Letter(c)
  BY DEF Named, Expand!Plain
<1>4. \A t \in Token : \/ t \in Named
                      \/ t \in {Expand!Left, Expand!Right, Expand!Body}
                      \/ \E w \in Texts : t = Expand!Def(w)
  BY DEF Token, Named, Expand!Chars
<1>5. \A t \in Named : t[1] \in {"letter", "_", " "}
  BY <1>1, <1>2, <1>3
<1>6. Named \subseteq Token /\ Expand!Left \in Token /\ Expand!Right \in Token
      /\ Expand!Body \in Token /\ \A w \in Texts : Expand!Def(w) \in Token
  BY DEF Token, Named, Expand!Chars
<1>7. \A t \in Token : t[1] = "letter" => t[2] \in WordChars
  BY <1>1, <1>2, <1>3, <1>4
<1>8. QED
  BY <1>2, <1>5, <1>6, <1>7

------------------------------------------------------------------------------
(* The loop that collects: the first word collected is the first behind    *)
(* the point, and the loop comes as far as its end at least.               *)
Collecting(s, p, c) ==
  /\ c.p \in p .. Len(s) /\ c.words \in Seq(Texts)
  /\ c.end = 0 => c.words = <<>> /\ (c.p = p \/ Expand!WordEnds(s, p) = {})
  /\ c.end # 0 => /\ c.end = Expand!NextWord(s, p)
                  /\ c.end \in p + 1 .. c.p
Collector == [p : Nat, words : Seq(Texts), end : Nat]

LEMMA SmallestIs ==
  ASSUME NEW S \in SUBSET Nat, S # {} PROVE Expand!Min(S) \in S
<1>1. Expand!Min(S) = CHOOSE x \in S : \A y \in S : x <= y
  BY DEF Expand!Min
<1>2. \E x \in S : \A y \in S : x <= y
  BY Least
<1>3. QED
  BY <1>1, <1>2

LEMMA NextIs ==
  ASSUME NEW s \in Seq(Token), NEW p \in 0 .. Len(s)
  PROVE  \/ Expand!NextWord(s, p) = p /\ Expand!WordEnds(s, p) = {}
         \/ /\ Expand!NextWord(s, p) \in p + 1 .. Len(s)
            /\ \E b \in p .. Expand!NextWord(s, p) - 1 :
                  Expand!WholeWord(s, b, Expand!NextWord(s, p))
<1> DEFINE ws == Expand!WordEnds(s, p)
<1>1. CASE ws = {}
  BY <1>1 DEF Expand!NextWord
<1>2. CASE ws # {}
  <2>1. ws \in SUBSET Nat
    BY DEF Expand!WordEnds
  <2>2. Expand!NextWord(s, p) = Expand!Min(ws)
    BY <1>2 DEF Expand!NextWord
  <2>3. Expand!NextWord(s, p) \in ws
    BY <1>2, <2>1, <2>2, SmallestIs
  <2>4. QED
    BY <2>3 DEF Expand!WordEnds
<1>3. QED
  BY <1>1, <1>2

LEMMA ForwardIs ==
  ASSUME NEW s \in Seq(Token), NEW p \in 0 .. Len(s)
  PROVE  Expand!ForwardWord(s, p) \in p .. Len(s)
<1> DEFINE ends == {e \in p + 1 .. Len(s) : Expand!IsLetter(s, e) /\ ~ Expand!IsLetter(s, e + 1)}
<1>1. Expand!ForwardWord(s, p) = IF ends = {} THEN Len(s) ELSE Expand!Min(ends)
  BY DEF Expand!ForwardWord
<1>2. ends \in SUBSET Nat /\ ends \subseteq p .. Len(s)
  OBVIOUS
<1>3. Len(s) \in p .. Len(s)
  OBVIOUS
<1> HIDE DEF ends
<1>4. CASE ends # {}
  <2>1. Expand!Min(ends) \in ends
    BY <1>2, <1>4, SmallestIs
  <2>2. QED
    BY <1>1, <1>2, <1>4, <2>1
<1>5. QED
  BY <1>1, <1>3, <1>4

(* What is collected is a word.                                            *)
LEMMA WordIs ==
  ASSUME NEW s \in Seq(Token), NEW e \in 0 .. Len(s), NEW a \in 0 .. e - 1,
         Expand!WholeWord(s, a, e)
  PROVE  Expand!WordTo(s, e) \in Texts
<1> DEFINE b == CHOOSE d \in 0 .. e - 1 : Expand!WholeWord(s, d, e)
<1>1. b \in 0 .. e - 1 /\ Expand!WholeWord(s, b, e)
  OBVIOUS
<1>2. Expand!WordTo(s, e) = [i \in 1 .. e - b |-> s[b + i][2]]
  BY DEF Expand!WordTo
<1> HIDE DEF b
<1>3. ASSUME NEW i \in 1 .. e - b PROVE s[b + i][2] \in WordChars
  <2>1. b + i \in b + 1 .. e
    BY <1>1
  <2>2. b + i \in DOMAIN s /\ s[b + i][1] = "letter"
    BY <1>1, <2>1 DEF Expand!WholeWord, Expand!IsLetter
  <2>3. s[b + i] \in Token
    BY <2>2
  <2>4. QED
    BY <2>2, <2>3, WordTokens
<1>4. e - b \in Nat
  BY <1>1
<1>5. QED
  BY <1>2, <1>3, <1>4 DEF Texts

LEMMA CollectOne ==
  ASSUME NEW s \in Seq(Token), NEW p \in 0 .. Len(s), NEW c \in Collector,
         Collecting(s, p, c)
  PROVE  Expand!Collect1(s, c) \in Collector /\ Collecting(s, p, Expand!Collect1(s, c))
<1> DEFINE i == Expand!NextWord(s, c.p)
           d == Expand!Collect1(s, c)
           q == Expand!ForwardWord(s, i)
<1>1. c.p \in 0 .. Len(s) /\ Len(s) \in Nat /\ c.end \in Nat /\ c.words \in Seq(Texts)
  BY DEF Collecting, Collector
<1>2. \/ i = c.p /\ Expand!WordEnds(s, c.p) = {}
      \/ i \in c.p + 1 .. Len(s) /\ \E b \in c.p .. i - 1 : Expand!WholeWord(s, b, i)
  BY <1>1, NextIs
<1> HIDE DEF i
<1>3. i \in c.p .. Len(s) /\ i \in 0 .. Len(s)
  BY <1>1, <1>2
<1>4. q \in i .. Len(s)
  BY <1>3, ForwardIs
<1> HIDE DEF q
<1>5. q \in Nat /\ q \in p .. Len(s) /\ c.p <= q
  BY <1>1, <1>3, <1>4 DEF Collecting
<1>6. CASE i = c.p
  <2>1. d = [c EXCEPT !.p = q]
    BY <1>6 DEF Expand!Collect1, i, q
  <2> HIDE DEF d
  <2>2. d.p = q /\ d.words = c.words /\ d.end = c.end /\ d \in Collector
    BY <1>5, <2>1 DEF Collector
  <2>3. Expand!WordEnds(s, c.p) = {}
    BY <1>1, <1>2, <1>6
  <2>4. c.end = 0 => Expand!WordEnds(s, p) = {}
    BY <2>3 DEF Collecting
  <2>5. QED
    BY <1>1, <1>5, <2>2, <2>4 DEF Collecting, d
<1>7. CASE i # c.p
  <2>1. PICK b \in c.p .. i - 1 : i \in c.p + 1 .. Len(s) /\ Expand!WholeWord(s, b, i)
    BY <1>2, <1>7
  <2>2. Expand!WordTo(s, i) \in Texts
    <3>1. b \in 0 .. i - 1
      BY <1>1, <2>1
    <3>2. QED
      BY <1>3, <2>1, <3>1, WordIs
  <2>3. d = [p |-> q, words |-> Append(c.words, Expand!WordTo(s, i)),
             end |-> IF c.end = 0 THEN i ELSE c.end]
    BY <1>7 DEF Expand!Collect1, i, q
  <2>4. Expand!WordEnds(s, p) # {}
    <3>1. i \in p + 1 .. Len(s) /\ b \in p .. i - 1
      BY <1>1, <2>1 DEF Collecting
    <3>2. i \in Expand!WordEnds(s, p)
      BY <2>1, <3>1 DEF Expand!WordEnds
    <3>3. QED
      BY <3>2
  <2>5. c.end = 0 => c.p = p
    BY <2>4 DEF Collecting
  <2>6. c.end = 0 => i = Expand!NextWord(s, p) /\ i \in p + 1 .. q
    BY <1>1, <1>4, <2>1, <2>5 DEF i
  <2> HIDE DEF d
  <2>7. c.end # 0 => c.end = Expand!NextWord(s, p) /\ c.end \in p + 1 .. q
    BY <1>1, <1>5 DEF Collecting
  <2>8. /\ d.p = q /\ d.words \in Seq(Texts) /\ d.end = IF c.end = 0 THEN i ELSE c.end
        /\ d \in Collector
    BY <1>1, <1>3, <1>5, <2>2, <2>3 DEF Collector
  <2>9. i # 0
    BY <1>1, <2>1
  <2>10. QED
    BY <1>5, <2>6, <2>7, <2>8, <2>9 DEF Collecting, d
<1>8. QED
  BY <1>6, <1>7

LEMMA Collected ==
  ASSUME NEW s \in Seq(Token), NEW p \in 0 .. Len(s), NEW n \in Nat
  PROVE  Expand!Collect(s, p, n) \in Collector /\ Collecting(s, p, Expand!Collect(s, p, n))
<1> DEFINE start == [p |-> p, words |-> <<>>, end |-> 0]
           C == {c \in Collector : Collecting(s, p, c)}
           P(f) == f = [i \in 0 .. n |-> IF i = 0 THEN start ELSE Expand!Collect1(s, f[i - 1])]
           G == [y \in C \X (1 .. n) |-> Expand!Collect1(s, y[1])]
           c == CHOOSE f : P(f)
<1>1. start \in C
  <2>1. p \in Nat /\ p \in p .. Len(s)
    OBVIOUS
  <2>2. start \in Collector
    BY <2>1 DEF Collector
  <2>3. Collecting(s, p, start)
    BY <2>1 DEF Collecting
  <2>4. QED
    BY <2>2, <2>3
<1>2. G \in [C \X (1 .. n) -> C]
  BY CollectOne
<1>3. PICK f \in [0 .. n -> C] : Computes(f, n, start, G)
  <2> HIDE DEF C, G, start
  <2>1. QED
    BY <1>1, <1>2, Recursion
<1> HIDE DEF start, C
<1>4. ASSUME NEW i \in 1 .. n PROVE f[i] = Expand!Collect1(s, f[i - 1])
  <2>1. i - 1 \in 0 .. n
    OBVIOUS
  <2>2. f[i - 1] \in C /\ f[i] = G[<<f[i - 1], i>>]
    BY <1>3, <2>1 DEF Computes
  <2>3. QED
    BY <2>2
<1>5. P(f)
  <2>1. ASSUME NEW i \in 0 .. n
        PROVE  f[i] = IF i = 0 THEN start ELSE Expand!Collect1(s, f[i - 1])
    <3>1. i = 0 \/ i \in 1 .. n
      OBVIOUS
    <3>2. f[0] = start
      BY <1>3 DEF Computes
    <3>3. QED
      BY <1>4, <3>1, <3>2
  <2>2. QED
    BY <2>1
<1>6. P(c)
  <2> HIDE DEF P
  <2>1. QED
    BY <1>5
<1>7. \A i \in 0 .. n : c[i] = IF i = 0 THEN start ELSE Expand!Collect1(s, c[i - 1])
  <2>1. ASSUME NEW h, P(h)
        PROVE  \A i \in 0 .. n : h[i] = IF i = 0 THEN start ELSE Expand!Collect1(s, h[i - 1])
    BY <2>1
  <2> HIDE DEF P, c
  <2>2. QED
    BY <1>6, <2>1
<1>8. Expand!Collect(s, p, n) = c[n]
  BY DEF Expand!Collect, start
<1> HIDE DEF P, c, G
<1> DEFINE T == {i \in 0 .. n : c[i] \in C}
<1>9. 0 \in T
  BY <1>1, <1>7
<1>10. ASSUME NEW i \in 0 .. n, i < n, i \in T PROVE i + 1 \in T
  <2>1. i + 1 \in 0 .. n /\ i + 1 # 0 /\ (i + 1) - 1 = i
    BY <1>10
  <2>2. c[i + 1] = Expand!Collect1(s, c[i])
    BY <1>7, <2>1
  <2>3. Expand!Collect1(s, c[i]) \in C
    BY <1>10, CollectOne DEF C
  <2>4. QED
    BY <2>1, <2>2, <2>3
<1>11. n \in T
  <2> HIDE DEF T
  <2>1. 0 .. n \subseteq T
    BY <1>9, <1>10, Induction
  <2>2. QED
    BY <2>1
<1>12. QED
  BY <1>8, <1>11 DEF C

------------------------------------------------------------------------------
(* A buffer while definitions are inserted: its characters remain k.       *)
Buffer == [text : Seq(Token), point : Nat, ok : BOOLEAN]
Inserting(b, k) == /\ b \in Buffer /\ b.point <= Len(b.text)
                   /\ Those(b.text, Named) = k

LEMMA TemplateTokens ==
  ASSUME NEW w \in Texts
  PROVE  Expand!Template(w) \in Seq(Token) /\ Those(Expand!Template(w), Named) = <<>>
<1>1. /\ Expand!Def(w) \in Token /\ Expand!Left \in Token /\ Expand!Right \in Token
      /\ Expand!Body \in Token
  BY WordTokens
<1>2. /\ Expand!Def(w) \notin Named /\ Expand!Left \notin Named /\ Expand!Right \notin Named
      /\ Expand!Body \notin Named
  BY WordTokens
<1>3. \A a, b \in Token : <<a, b>> \in Seq(Token)
  OBVIOUS
<1>4. \A a, b, c, d \in Token : <<a, b, c, d>> \in Seq(Token)
  OBVIOUS
<1>5. CASE v3 = "python"
  <2> DEFINE t == <<Expand!Def(w), Expand!Body>>
  <2>1. t \in Seq(Token) /\ \A j \in 1 .. Len(t) : t[j] \notin Named
    BY <1>1, <1>2, <1>3
  <2> HIDE DEF t
  <2>2. Those(t, Named) = <<>>
    BY <2>1, ThoseNone
  <2>3. QED
    BY <1>5, <2>1, <2>2 DEF Expand!Template, t
<1>6. CASE v3 # "python"
  <2> DEFINE t == <<Expand!Def(w), Expand!Left, Expand!Body, Expand!Right>>
  <2>1. t \in Seq(Token)
    BY <1>1, <1>4
  <2>2. \A j \in 1 .. Len(t) : t[j] \notin Named
    BY <1>2
  <2> HIDE DEF t
  <2>3. Those(t, Named) = <<>>
    BY <2>1, <2>2, ThoseNone
  <2>4. QED
    BY <1>6, <2>1, <2>3 DEF Expand!Template, t
<1>7. QED
  BY <1>5, <1>6

LEMMA InsertKeeps ==
  ASSUME NEW k, NEW b, Inserting(b, k), NEW w \in Texts
  PROVE  /\ Inserting(Expand!InsertText(b, Expand!Template(w)), k)
         /\ Expand!InsertText(b, Expand!Template(w)).ok = b.ok
<1> DEFINE ts == Expand!Template(w)
           s == b.text
           r == Spliced(s, b.point, ts)
           new == Expand!InsertText(b, ts)
<1>1. s \in Seq(Token) /\ b.point \in Nat /\ b.point <= Len(s) /\ b.ok \in BOOLEAN
  BY DEF Inserting, Buffer
<1>2. ts \in Seq(Token) /\ Those(ts, Named) = <<>>
  BY TemplateTokens
<1>3. b.point \in 0 .. Len(s) /\ Those(s, Named) = k
  BY <1>1 DEF Inserting
<1> HIDE DEF ts
<1>4. r \in Seq(Token) /\ Len(r) = Len(s) + Len(ts) /\ Those(r, Named) = Those(s, Named)
  <2> HIDE DEF s
  <2>1. QED
    BY <1>1, <1>2, <1>3, ThoseInserted
<1>5. new = [b EXCEPT !.text = r, !.point = b.point + Len(ts)]
  BY DEF Expand!InsertText, Spliced
<1>6. Len(ts) \in Nat /\ Len(s) \in Nat
  BY <1>1, <1>2
<1> HIDE DEF r, new
<1>7. DOMAIN b = {"text", "point", "ok"} /\ b \in Buffer
  BY DEF Inserting, Buffer
<1>8. new.text = r /\ new.point = b.point + Len(ts) /\ new.ok = b.ok
  BY <1>5, <1>7
<1>9. new = [text |-> r, point |-> b.point + Len(ts), ok |-> b.ok]
  BY <1>5, <1>7 DEF Buffer
<1>10. new \in Buffer
  BY <1>1, <1>4, <1>6, <1>9 DEF Buffer
<1>11. Inserting(new, k)
  BY <1>1, <1>3, <1>4, <1>6, <1>8, <1>10 DEF Inserting
<1>12. QED
  BY <1>8, <1>11 DEF new, ts

(* Moving the point to a brace changes no text.                            *)
LEMMA BraceKeeps ==
  ASSUME NEW k, NEW b, Inserting(b, k), Expand!Braces(b) # {}
  PROVE  Inserting(Expand!ToBrace(b), k) /\ Expand!ToBrace(b).ok = b.ok
<1> DEFINE S == Expand!Braces(b)
           m == Expand!Max(S)
<1>1. b \in Buffer /\ b.point \in Nat /\ b.point <= Len(b.text) /\ Len(b.text) \in Nat
  BY DEF Inserting, Buffer
<1>2. m \in S
  <2>1. m = CHOOSE x \in S : \A y \in S : x >= y
    BY DEF Expand!Max
  <2>2. \E x \in S : \A y \in S : x >= y
    <3> DEFINE D == {b.point - x : x \in S}
    <3>1. D \in SUBSET Nat /\ D # {}
      BY <1>1 DEF Expand!Braces
    <3> HIDE DEF D
    <3>2. PICK d \in D : \A e \in D : d <= e
      BY <3>1, Least
    <3>3. PICK x \in S : d = b.point - x
      BY <3>2 DEF D
    <3>4. \A y \in S : b.point - x <= b.point - y
      BY <3>2, <3>3 DEF D
    <3>5. S \subseteq 1 .. b.point
      BY DEF Expand!Braces
    <3> HIDE DEF S
    <3>6. \A y \in S : x >= y
      BY <1>1, <3>4, <3>5
    <3>7. QED
      BY <3>6
  <2> HIDE DEF S
  <2>3. QED
    BY <2>1, <2>2
<1>3. m \in 1 .. b.point
  BY <1>2 DEF Expand!Braces
<1> HIDE DEF m
<1>4. Expand!ToBrace(b) = [b EXCEPT !.point = m - 1] \/ Expand!ToBrace(b) = [b EXCEPT !.point = m]
  BY DEF Expand!ToBrace, Expand!BehindBrace, Expand!BeforeBrace, m
<1>5. QED
  BY <1>1, <1>3, <1>4 DEF Inserting, Buffer

LEMMA InsertOne ==
  ASSUME NEW k, NEW b, Inserting(b, k), NEW w \in Texts, NEW first \in BOOLEAN
  PROVE  Inserting(Expand!Insert1(b, w, first), k)
<1> DEFINE new == Expand!InsertText(b, Expand!Template(w))
<1>1. Inserting(new, k)
  BY InsertKeeps
<1>2. Expand!Insert1(b, w, first) =
        IF ~ b.ok THEN b
        ELSE IF ~ first THEN new
        ELSE IF Expand!Braces(new) = {} THEN [new EXCEPT !.ok = FALSE]
        ELSE Expand!ToBrace(new)
  BY DEF Expand!Insert1
<1> HIDE DEF new
<1>3. Inserting([new EXCEPT !.ok = FALSE], k)
  BY <1>1 DEF Inserting, Buffer
<1>4. Expand!Braces(new) # {} => Inserting(Expand!ToBrace(new), k)
  BY <1>1, BraceKeeps
<1>5. QED
  BY <1>1, <1>2, <1>3, <1>4

LEMMA Inserted ==
  ASSUME NEW k, NEW b, Inserting(b, k), NEW words \in Seq(Texts)
  PROVE  Inserting(Expand!InsertAll(b, words), k)
<1> DEFINE n == Len(words)
           C == {c \in Buffer : Inserting(c, k)}
           P(f) == f = [i \in 0 .. n |-> IF i = 0 THEN b
                                         ELSE Expand!Insert1(f[i - 1], words[i], i = 1)]
           G == [y \in C \X (1 .. n) |-> Expand!Insert1(y[1], words[y[2]], y[2] = 1)]
           c == CHOOSE f : P(f)
<1>1. n \in Nat /\ b \in C /\ \A i \in 1 .. n : words[i] \in Texts
  BY DEF Inserting
<1>2. \A d : Inserting(d, k) => d \in C
  BY DEF Inserting
<1>3. G \in [C \X (1 .. n) -> C]
  <2> HIDE DEF n
  <2>1. ASSUME NEW y \in C \X (1 .. n)
        PROVE  Expand!Insert1(y[1], words[y[2]], y[2] = 1) \in C
    BY <1>1, <1>2, InsertOne
  <2> HIDE DEF C
  <2>2. QED
    BY <2>1
<1> HIDE DEF n
<1>4. PICK f \in [0 .. n -> C] : Computes(f, n, b, G)
  <2> HIDE DEF C, G
  <2>1. QED
    BY <1>1, <1>3, Recursion
<1> HIDE DEF C
<1>5. ASSUME NEW i \in 1 .. n PROVE f[i] = Expand!Insert1(f[i - 1], words[i], i = 1)
  <2>1. i - 1 \in 0 .. n
    BY <1>1
  <2>2. f[i - 1] \in C /\ f[i] = G[<<f[i - 1], i>>]
    BY <1>4, <2>1 DEF Computes
  <2>3. QED
    BY <2>2
<1>6. P(f)
  <2>1. ASSUME NEW i \in 0 .. n
        PROVE  f[i] = IF i = 0 THEN b ELSE Expand!Insert1(f[i - 1], words[i], i = 1)
    <3>1. i = 0 \/ i \in 1 .. n
      BY <1>1
    <3>2. f[0] = b
      BY <1>4 DEF Computes
    <3>3. QED
      BY <1>5, <3>1, <3>2
  <2>2. QED
    BY <2>1
<1>7. P(c)
  <2> HIDE DEF P
  <2>1. QED
    BY <1>6
<1>8. \A i \in 0 .. n : c[i] = IF i = 0 THEN b ELSE Expand!Insert1(c[i - 1], words[i], i = 1)
  <2>1. ASSUME NEW h, P(h)
        PROVE  \A i \in 0 .. n : h[i] = IF i = 0 THEN b
                                         ELSE Expand!Insert1(h[i - 1], words[i], i = 1)
    BY <2>1
  <2> HIDE DEF P, c
  <2>2. QED
    BY <1>7, <2>1
<1>9. Expand!InsertAll(b, words) = c[n]
  BY DEF Expand!InsertAll, n
<1> HIDE DEF P, c, G
<1> DEFINE T == {i \in 0 .. n : Inserting(c[i], k)}
<1>10. 0 \in T
  BY <1>1, <1>8
<1>11. ASSUME NEW i \in 0 .. n, i < n, i \in T PROVE i + 1 \in T
  <2>1. i + 1 \in 1 .. n /\ i + 1 \in 0 .. n /\ i + 1 # 0 /\ (i + 1) - 1 = i
    BY <1>1, <1>11
  <2>2. c[i + 1] = Expand!Insert1(c[i], words[i + 1], i + 1 = 1)
    BY <1>8, <2>1
  <2>3. Inserting(c[i], k) /\ words[i + 1] \in Texts
    BY <1>1, <1>11, <2>1
  <2>4. Inserting(Expand!Insert1(c[i], words[i + 1], i + 1 = 1), k)
    BY <2>3, InsertOne
  <2>5. QED
    BY <2>1, <2>2, <2>4
<1>12. n \in T
  <2> HIDE DEF T
  <2>1. 0 .. n \subseteq T
    BY <1>1, <1>10, <1>11, Induction
  <2>2. QED
    BY <1>1, <2>1
<1>13. QED
  BY <1>9, <1>12

------------------------------------------------------------------------------
(* What the command leaves of the characters.                              *)
LEMMA ThoseSame == \A s, S : Expand!Those(s, S) = Those(s, S)
BY DEF Expand!Those, Those

LEMMA ExpandKeeps ==
  ASSUME v6 = "none", ExpandInv, NEW n \in Nat, Expand!Expand(n)
  PROVE  v6' = "done" =>
           Those(v1', Named) = Those(SubSeq(v1, 1, v2)
                                       \o SubSeq(v1, Expand!NextWord(v1, v2) + 1, Len(v1)),
                                       Named)
<1> DEFINE c == Expand!Collect(v1, v2, n)
           d == Expand!Delete(v1, v2, c)
           b == Expand!InsertAll(d, c.words)
           rest == SubSeq(v1, 1, v2) \o SubSeq(v1, Expand!NextWord(v1, v2) + 1, Len(v1))
<1> SUFFICES ASSUME v6' = "done" PROVE Those(v1', Named) = Those(rest, Named)
  OBVIOUS
<1>1. v1 \in Seq(Token) /\ v2 \in 0 .. Len(v1) /\ Len(v1) \in Nat
  BY DEF ExpandInv
<1>2. c \in Collector /\ Collecting(v1, v2, c)
  BY <1>1, Collected
<1>3. c.words # <<>> /\ v1' = b.text
  BY DEF Expand!Expand
<1> HIDE DEF c
<1>4. /\ c.end = Expand!NextWord(v1, v2) /\ c.end \in v2 + 1 .. c.p
      /\ c.p \in v2 .. Len(v1) /\ c.words \in Seq(Texts)
  BY <1>2, <1>3 DEF Collecting
<1>5. d = [text |-> rest, point |-> c.p - (c.end - v2), ok |-> TRUE]
  BY <1>4 DEF Expand!Delete
<1>6. rest \in Seq(Token) /\ Len(rest) = v2 + (Len(v1) - c.end)
  BY <1>1, <1>4
<1> HIDE DEF rest, d
<1>7. Inserting(d, Those(rest, Named))
  <2>1. c.p - (c.end - v2) \in Nat /\ c.p - (c.end - v2) <= Len(rest)
    BY <1>1, <1>4, <1>6
  <2>2. QED
    BY <1>5, <1>6, <2>1 DEF Inserting, Buffer
<1>8. Inserting(b, Those(rest, Named))
  BY <1>4, <1>7, Inserted
<1>9. QED
  BY <1>3, <1>8 DEF Inserting

WordsInv == ExpandInv /\ Expand!KeepsRest
LEMMA WordsStart == Expand!Init => WordsInv
<1> SUFFICES ASSUME Expand!Init PROVE WordsInv
  OBVIOUS
<1>1. v1 \in Expand!SeqOf(Expand!Chars, MaxText) /\ v2 \in 0 .. Len(v1) /\ v6 = "none"
  BY DEF Expand!Init
<1>2. PICK m \in 0 .. MaxText : v1 \in [1 .. m -> Expand!Chars]
  BY <1>1 DEF Expand!SeqOf
<1>3. m \in Nat
  BY <1>2
<1>4. v1 \in Seq(Expand!Chars) /\ Expand!Chars \subseteq Token
  BY <1>2, <1>3 DEF Token
<1>5. v1 \in Seq(Token)
  BY <1>4
<1>6. QED
  BY <1>1, <1>5 DEF WordsInv, ExpandInv, Expand!KeepsRest

LEMMA WordsStep == ASSUME WordsInv, Expand!Next PROVE WordsInv'
<1>1. PICK n \in Nat : Expand!Expand(n)
  <2>1. 0 .. MaxCount \subseteq Nat
    BY ExpandAssumption
  <2>2. QED
    BY <2>1 DEF Expand!Next, Expand!ExpandRegion
<1>2. /\ v6 = "none" /\ v4' = [text |-> v1, point |-> v2]
      /\ v6' \in {"done", "error"}
  BY <1>1 DEF Expand!Expand
<1>3. v6' = "done" =>
         Those(v1', Named) = Those(SubSeq(v1, 1, v2)
                                     \o SubSeq(v1, Expand!NextWord(v1, v2) + 1, Len(v1)),
                                     Named)
  BY <1>1, <1>2, ExpandKeeps DEF WordsInv
<1>4. Expand!KeepsRest'
  BY <1>2, <1>3, ThoseSame DEF Expand!KeepsRest, Expand!Kept, Expand!FirstEnd, Named
<1>5. QED
  BY <1>2, <1>4 DEF WordsInv, ExpandInv

WordsPart == part = "expand" => WordsInv
LEMMA WordsParts ==
  /\ PartsInit => WordsPart
  /\ WordsPart /\ [PartsNext]_parts => WordsPart'
<1>1. PartsInit => WordsPart
  BY WordsStart DEF PartsInit, WordsPart
<1>2. ASSUME WordsPart, PartsNext PROVE WordsPart'
  <2>1. part' = part /\ (part = "expand" => Expand!Next)
    BY <1>2 DEF PartsNext
  <2>2. QED
    BY <1>2, <2>1, WordsStep DEF WordsPart
<1>3. ASSUME WordsPart, UNCHANGED parts PROVE WordsPart'
  <2>1. part' = part /\ v1' = v1 /\ v2' = v2 /\ v4' = v4 /\ v6' = v6
    BY <1>3 DEF parts, vs
  <2>2. QED
    BY <1>3, <2>1 DEF WordsPart, WordsInv, ExpandInv, Expand!KeepsRest, Expand!Kept,
                      Expand!FirstEnd
<1>4. QED
  BY <1>1, <1>2, <1>3

(* Whatever the text, the point and the argument: what stands between the  *)
(* point and the end of the first whole word behind it is taken off, and   *)
(* every other character stays, in its order.                              *)
THEOREM RestKept == PartsSpec => []KeepsRest
<1>1. WordsPart => KeepsRest
  BY DEF WordsPart, WordsInv, KeepsRest
<1>2. QED
  BY <1>1, WordsParts, PTL DEF PartsSpec
==============================================================================
