---------------------------- MODULE WindowLayout ----------------------------
(***************************************************************************)
(* The three panes of imperial-layout.el and the switch that forbids to    *)
(* split windows.  The windows are a sequence in the order in which        *)
(* other-window visits them; a window is the value of its parameter        *)
(* window-purpose, which only setup-window-layout sets.                    *)
(* A split is made by Emacs' split-window, which the file advises; it      *)
(* fails when the window is too small.                                     *)
(***************************************************************************)
EXTENDS Integers, Sequences, SequencesExt

CONSTANT MaxWindows       \* bound: windows the user or display-buffer makes

ASSUME BoundAssumption == MaxWindows \in Nat /\ MaxWindows >= 3

Purposes == {"I", "io", "main"}
None     == "none"
Window   == Purposes \cup {None}

VARIABLES wins,       \* the windows of the frame
          sel,        \* the number of the selected one
          enabled,    \* split-window-enabled
          loaded,     \* the file: "no", "partly" (an error ended it), "yes"
          inited,     \* after-init-hook has run
          last        \* the last command

vars == <<wins, sel, enabled, loaded, inited, last>>
-----------------------------------------------------------------------------
(* The advices and the hook are in place once the file is loaded to the    *)
(* end.                                                                    *)
advised == loaded = "yes"

(* split-window-wrapper: a call of split-window does its work.             *)
MaySplit(en) == en \/ ~ advised

(* delete-other-windows leaves the selected window.                        *)
Only(w) == <<w>>

WithPurpose(ws, i, p) == [ws EXCEPT ![i] = p]

(* The three panes: the selected window is split, the first half is split  *)
(* again; other-window goes to the new window below and then to the other  *)
(* half.                                                                   *)
Panes == <<"I", "io", "main">>

Result(ws, s, ok) == [wins |-> ws, sel |-> s, ok |-> ok]

(* Mutant of Setup: other windows stay when the first split is not made.   *)
SetupBeside(en) ==
  IF MaySplit(en)
  THEN { Result(Panes, 3, TRUE) }
  ELSE { Result(WithPurpose(wins, sel, "main"), sel, TRUE) }

(* setup-window-layout.  The first split may signal an error, an error of  *)
(* the second one is caught and the first undone.  Where splitting is      *)
(* forbidden the one window gets all three purposes in turn.               *)
Setup(en) ==
  LET one == Only(wins[sel])
  IN IF MaySplit(en)
     THEN { Result(Panes, 3, TRUE),
            Result(one, 1, FALSE),
            Result(WithPurpose(one, 1, "I"), 1, TRUE) }
     ELSE { Result(WithPurpose(one, 1, "main"), 1, TRUE) }

HasLayout == \A p \in Purposes : \E i \in DOMAIN wins : wins[i] = p

(* split-window on window i: the new window comes after it.                *)
SplitAt(i) == InsertAt(wins, i + 1, None)
-----------------------------------------------------------------------------
(* The file is loaded, at startup or again: the switch is toggled, the     *)
(* layout set up, then the functions are advised and splitting forbidden.  *)
(* An error ends the load in between.                                      *)
Load ==
  /\ \E r \in Setup(~ enabled) :
       /\ wins' = r.wins /\ sel' = r.sel
       /\ \/ r.ok   /\ enabled' = FALSE     /\ loaded' = "yes"
          \/ ~ r.ok /\ enabled' = ~ enabled
             /\ loaded' = IF advised THEN "yes" ELSE "partly"
  /\ last' = "load"
  /\ UNCHANGED inited

(* M-x setup-window-layout                                                 *)
SetupCommand ==
  /\ loaded # "no"
  /\ \E r \in Setup(enabled) : wins' = r.wins /\ sel' = r.sel
  /\ last' = "setup"
  /\ UNCHANGED <<enabled, loaded, inited>>

(* ensure-layout, from after-init-hook if the file was loaded by then.     *)
EnsureLayout ==
  /\ ~ inited
  /\ inited' = TRUE
  /\ \/ /\ advised /\ ~ HasLayout
        /\ \E r \in Setup(enabled) : wins' = r.wins /\ sel' = r.sel
        /\ last' = "ensure"
     \/ /\ advised => HasLayout
        /\ last' = IF advised THEN "ensure" ELSE "init"
        /\ UNCHANGED <<wins, sel>>
  /\ UNCHANGED <<enabled, loaded>>

ToggleState ==
  /\ loaded # "no"
  /\ enabled' = ~ enabled
  /\ last' = "toggle"
  /\ UNCHANGED <<wins, sel, loaded, inited>>

(* The user splits the selected window; forbidden, this does nothing.      *)
SplitWindow ==
  /\ Len(wins) < MaxWindows
  /\ wins' = IF MaySplit(enabled) THEN SplitAt(sel) ELSE wins
  /\ last' = "split"
  /\ UNCHANGED <<sel, enabled, loaded, inited>>

(* Mutant of PopToBuffer: pop-to-buffer splits as ever.                    *)
PopToBufferAnyway(i) ==
  /\ Len(wins) < MaxWindows
  /\ wins' = SplitAt(i) /\ sel' = i + 1
  /\ last' = "pop"
  /\ UNCHANGED <<enabled, loaded, inited>>

(* pop-to-buffer: in some window, or a new one; forbidden, it is           *)
(* switch-to-buffer in the selected window.                                *)
PopToBuffer(i) ==
  /\ \/ /\ MaySplit(enabled)
        /\ \/ sel' = i /\ UNCHANGED wins
           \/ /\ Len(wins) < MaxWindows
              /\ wins' = SplitAt(i)
              /\ sel' = i + 1
     \/ ~ MaySplit(enabled) /\ UNCHANGED <<wins, sel>>
  /\ last' = "pop"
  /\ UNCHANGED <<enabled, loaded, inited>>

(* display-buffer does not select; forbidden, split-window does nothing    *)
(* and the buffer is shown in a window there is.                           *)
DisplayBuffer(i) ==
  /\ Len(wins) < MaxWindows
  /\ wins' \in IF MaySplit(enabled) THEN {wins, SplitAt(i)} ELSE {wins}
  /\ sel'  = IF Len(wins') > Len(wins) /\ i < sel THEN sel + 1 ELSE sel
  /\ last' = "display"
  /\ UNCHANGED <<enabled, loaded, inited>>

OtherWindow ==
  /\ sel'  = (sel % Len(wins)) + 1
  /\ last' = "other"
  /\ UNCHANGED <<wins, enabled, loaded, inited>>

DeleteWindow ==
  /\ Len(wins) > 1
  /\ wins' = RemoveAt(wins, sel)
  /\ sel' \in 1 .. Len(wins) - 1
  /\ last' = "delete"
  /\ UNCHANGED <<enabled, loaded, inited>>

DeleteOtherWindows ==
  /\ wins' = Only(wins[sel]) /\ sel' = 1
  /\ last' = "delete others"
  /\ UNCHANGED <<enabled, loaded, inited>>

Init ==
  /\ wins = <<None>> /\ sel = 1
  /\ enabled = FALSE /\ loaded = "no" /\ inited = FALSE
  /\ last = "start"

Next ==
  \/ Load \/ SetupCommand \/ EnsureLayout \/ ToggleState
  \/ SplitWindow
  \/ \E i \in DOMAIN wins : PopToBuffer(i) \/ DisplayBuffer(i)
  \/ OtherWindow \/ DeleteWindow \/ DeleteOtherWindows

Spec == Init /\ [][Next]_vars
-----------------------------------------------------------------------------
(* However the layout was set up, partly set up, torn down and set up      *)
(* again: no two windows have the same purpose, so that                    *)
(* get-window-with-purpose has one answer.                                 *)
PurposesDistinct ==
  \A i, j \in DOMAIN wins :
    wins[i] = wins[j] /\ wins[i] # None => i = j

(* The switch: while splitting is forbidden no command makes a window,     *)
(* whichever function it calls (loading the file again toggles the switch  *)
(* first).                                                                 *)
NoWindowWhileForbidden ==
  [][advised /\ ~ enabled /\ last' # "load" => Len(wins') <= Len(wins)]_vars
=============================================================================
