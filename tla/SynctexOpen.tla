---------------------------- MODULE SynctexOpen ----------------------------
(***************************************************************************)
(* Finding the synctex file of a document (__synctex_open_v2 and its       *)
(* callers in synctex_parser.c): several processes look for it while TeX   *)
(* writes it again.  An old pdftex puts quotes around a name with spaces;  *)
(* who finds such a file renames it.  The build directory, which this      *)
(* program never gives, is left out.                                       *)
(***************************************************************************)
EXTENDS Integers, Sequences

CONSTANTS Readers,    \* processes with a scanner: servers, local servers
          MaxRuns     \* bound: runs of TeX

Name == [quoted : BOOLEAN, gz : BOOLEAN]

VARIABLES tex,        \* the name under which this TeX writes
          spaces,     \* whether the document's name has spaces
          renames,    \* whether files of the directory can be renamed
          disk,       \* the run that wrote each file, 0 for none
          runs,       \* runs of TeX
          at,         \* where each reader is in opening the file
          names,      \* the names that it has still to try
          since,      \* the last run of TeX when it began
          read        \* the run whose file it has opened, 0 for none

vars == <<tex, spaces, renames, disk, runs, at, names, since, read>>

Unquoted(n) == [n EXCEPT !.quoted = FALSE]
Both(q)     == <<[quoted |-> q, gz |-> FALSE], [quoted |-> q, gz |-> TRUE]>>

(* Mutant of Attempts: the names without quotes are tried first.           *)
PlainFirst == IF spaces THEN Both(FALSE) \o Both(TRUE) ELSE Both(FALSE)

(* synctex_reader_init_with_output_file: with quotes, when they make       *)
(* sense, then without; each time the compressed file after the other.     *)
Attempts == IF spaces THEN Both(TRUE) \o Both(FALSE) ELSE Both(FALSE)

Init ==
  /\ spaces \in BOOLEAN /\ renames \in BOOLEAN
  /\ tex \in {n \in Name : n.quoted => spaces}
  /\ runs \in 0 .. 1
  /\ disk = [n \in Name |-> IF n = tex THEN runs ELSE 0]
  /\ at = [r \in Readers |-> "idle"]
  /\ names = [r \in Readers |-> <<>>]
  /\ since = [r \in Readers |-> 0] /\ read = [r \in Readers |-> 0]

Kept == UNCHANGED <<tex, spaces, renames, runs>>

(* External: TeX writes a new file and puts it in the place of the old.    *)
RunTeX ==
  /\ runs < MaxRuns
  /\ runs' = runs + 1
  /\ disk' = [disk EXCEPT ![tex] = runs + 1]
  /\ UNCHANGED <<tex, spaces, renames, at, names, since, read>>

Begin(r) ==
  /\ at[r] = "idle"
  /\ at' = [at EXCEPT ![r] = "try"]
  /\ names' = [names EXCEPT ![r] = Attempts]
  /\ since' = [since EXCEPT ![r] = runs]
  /\ read' = [read EXCEPT ![r] = 0]
  /\ UNCHANGED disk /\ Kept

(* gzopen.                                                                 *)
Absent(r) ==
  /\ at[r] = "try" /\ names[r] # <<>> /\ disk[Head(names[r])] = 0
  /\ names' = [names EXCEPT ![r] = Tail(@)]
  /\ UNCHANGED <<disk, at, since, read>> /\ Kept

Found(r) ==
  /\ at[r] = "try" /\ names[r] # <<>> /\ disk[Head(names[r])] # 0
  /\ IF Head(names[r]).quoted
     THEN at' = [at EXCEPT ![r] = "rename"] /\ UNCHANGED read
     ELSE /\ at' = [at EXCEPT ![r] = "idle"]
          /\ read' = [read EXCEPT ![r] = disk[Head(names[r])]]
  /\ UNCHANGED <<disk, names, since>> /\ Kept

NoFile(r) ==
  /\ at[r] = "try" /\ names[r] = <<>>
  /\ at' = [at EXCEPT ![r] = "failed"]
  /\ UNCHANGED <<disk, names, since, read>> /\ Kept

(* The file was closed; another reader may have renamed it since.          *)
Rename(r) ==
  /\ at[r] = "rename" /\ renames /\ disk[Head(names[r])] # 0
  /\ LET n == Head(names[r]) IN
     /\ disk' = [disk EXCEPT ![n] = 0, ![Unquoted(n)] = disk[n]]
     /\ names' = [names EXCEPT ![r][1] = Unquoted(n)]
  /\ at' = [at EXCEPT ![r] = "reopen"]
  /\ UNCHANGED <<since, read>> /\ Kept

CannotRename(r) ==
  /\ at[r] = "rename" /\ (~renames \/ disk[Head(names[r])] = 0)
  /\ at' = [at EXCEPT ![r] = "reopen"]
  /\ UNCHANGED <<disk, names, since, read>> /\ Kept

Reopen(r) ==
  /\ at[r] = "reopen"
  /\ IF disk[Head(names[r])] = 0
     THEN at' = [at EXCEPT ![r] = "try"] /\ names' = [names EXCEPT ![r] = Both(FALSE)]
          /\ UNCHANGED read
     ELSE at' = [at EXCEPT ![r] = "idle"] /\ UNCHANGED names
          /\ read' = [read EXCEPT ![r] = disk[Head(names[r])]]
  /\ UNCHANGED <<disk, since>> /\ Kept

Next == \/ RunTeX
        \/ \E r \in Readers : \/ Begin(r) \/ Absent(r) \/ Found(r) \/ NoFile(r)
                              \/ Rename(r) \/ CannotRename(r) \/ Reopen(r)

Spec == Init /\ [][Next]_vars
-----------------------------------------------------------------------------
(* Whatever the other readers and TeX do, opening fails only when there    *)
(* was no file as it began, and what is opened is no older than the file   *)
(* that was there.                                                         *)
LatestRead == \A r \in Readers : /\ at[r] = "failed" => since[r] = 0
                                 /\ read[r] # 0 => read[r] >= since[r]
==============================================================================
