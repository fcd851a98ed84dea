------------------------------ MODULE Changes ------------------------------
(***************************************************************************)
(* The changes pane of the terminal interface (crates/wtd/src/tui/mod.rs   *)
(* ChangesView, show_changes, reload_changes, changes_key): a list of a    *)
(* worktree's commits with the newest first, an index into it, and the     *)
(* files of the entry at the index, all read at different moments while an *)
(* agent commits and edits in the worktree.                                *)
(*                                                                         *)
(* Entry 0 is the working tree.                                            *)
(***************************************************************************)
EXTENDS Integers, Sequences

CONSTANTS MaxCommits,  \* bound: commits ever made
          MaxEdits,    \* bound: edits of the working tree
          MaxFails     \* bound: calls of git that fail

ASSUME ChangesAssumption == {MaxCommits, MaxEdits, MaxFails} \subseteq Nat

VARIABLES log,      \* the commits, numbered, with the newest last
          made,     \* the number of commits ever made
          work,     \* how often the working tree was edited
          pane,     \* what the pane holds: commits listed, index, entry shown, files
          reading,  \* the list has been read, the files are read next
          fails,    \* how many calls of git failed
          shifted   \* ghost: the list was read anew under an index that stayed

cvars == <<log, made, work, pane, reading, fails, shifted>>

(* The files of entry i of a list of commits: the newest is entry 1. *)
Files(commits, i) ==
  IF i = 0 THEN [what |-> "work", n |-> work]
  ELSE [what |-> "commit", n |-> commits[Len(commits) + 1 - i]]

NoFiles == [what |-> "none", n |-> 0]
NoEntry == -1

(* A call of git yields x, or `empty` if it fails. *)
Called(x, empty, result) ==
  \/ result = x /\ UNCHANGED fails
  \/ fails < MaxFails /\ result = empty /\ fails' = fails + 1

ChangesInit ==
  /\ log = <<>>
  /\ made = 0
  /\ work = 0
  /\ pane = [commits |-> log, sel |-> 0, shown |-> 0, files |-> Files(log, 0)]
  /\ reading = FALSE
  /\ fails = 0
  /\ shifted = FALSE

(* A commit, or one undone. *)
Commit ==
  /\ \/ /\ made < MaxCommits
        /\ made' = made + 1
        /\ log' = Append(log, made')
     \/ /\ log # <<>>
        /\ log' = SubSeq(log, 1, Len(log) - 1)
        /\ UNCHANGED made
  /\ UNCHANGED <<work, pane, reading, fails, shifted>>

Edit ==
  /\ work < MaxEdits
  /\ work' = work + 1
  /\ UNCHANGED <<log, made, pane, reading, fails, shifted>>

(* The pane as it is opened, its files not read yet. *)
Opened(listed) == [commits |-> listed, sel |-> 0, shown |-> NoEntry, files |-> NoFiles]

ShowCommit ==
  /\ ~reading /\ reading' = TRUE
  /\ \E listed \in {log, <<>>} : Called(log, <<>>, listed) /\ pane' = Opened(listed)
  /\ shifted' = FALSE
  /\ UNCHANGED <<log, made, work>>

(* Another entry of the list as it was last read. *)
Select ==
  /\ ~reading
  /\ \E i \in {pane.sel - 1, pane.sel + 1} \cap 0..Len(pane.commits), read \in BOOLEAN :
       /\ Called(TRUE, FALSE, read)
       /\ pane' = [pane EXCEPT !.sel = i, !.shown = i,
                               !.files = IF read THEN Files(pane.commits, i) ELSE NoFiles]
  /\ shifted' = FALSE
  /\ UNCHANGED <<log, made, work, reading>>

(* Every three seconds: the list; the index stays within it.               *)
Kept(listed) == IF pane.sel < Len(listed) THEN pane.sel ELSE Len(listed)

ReadList ==
  /\ ~reading /\ reading' = TRUE
  /\ \E listed \in {log, <<>>} :
       /\ Called(log, <<>>, listed)
       /\ pane' = [pane EXCEPT !.commits = listed, !.sel = Kept(listed)]
       /\ shifted' = (shifted \/ listed # pane.commits)
  /\ UNCHANGED <<log, made, work>>

(* A mutant for ReadAnew: the files are read anew only of the working tree.*)
ReadAnewWork == pane.sel = 0

(* A mutant for ReadAnew: the files are read anew only for another entry.  *)
ReadAnewMoved == pane.shown # pane.sel

(* Whose files are read anew with the list. *)
ReadAnew == pane.sel = 0 \/ pane.shown # pane.sel

(* Then the files, by calls of their own: of a commit of the list by its   *)
(* name, of the working tree as it is by now.                              *)
ReadFiles ==
  /\ reading /\ reading' = FALSE
  /\ \E read \in BOOLEAN :
       /\ IF ReadAnew THEN Called(TRUE, FALSE, read) ELSE read /\ UNCHANGED fails
       /\ pane' = [pane EXCEPT !.shown = pane.sel,
                               !.files = IF ~ReadAnew THEN @
                                         ELSE IF read THEN Files(pane.commits, pane.sel) ELSE NoFiles]
  /\ shifted' = (shifted /\ pane.sel = pane.shown /\ pane.sel # 0)
  /\ UNCHANGED <<log, made, work>>

Reload == ReadList \/ ReadFiles

ChangesNext == Commit \/ Edit \/ ShowCommit \/ Select \/ Reload

ChangesSpec == ChangesInit /\ [][ChangesNext]_cvars

(* The pane is reloaded as long as it is shown. *)
ChangesFairSpec == ChangesSpec /\ WF_cvars(Reload)

-----------------------------------------------------------------------------
(* The highlight is on an entry of the list, and the commits are in the    *)
(* order they were made.                                                   *)
InOrder(s) == \A i, j \in DOMAIN s : i < j => s[i] < s[j]

ChangesTypeOK ==
  /\ made \in 0..MaxCommits /\ work \in 0..MaxEdits /\ fails \in 0..MaxFails
  /\ log \in Seq(1..made) /\ InOrder(log)
  /\ pane.commits \in Seq(1..made) /\ InOrder(pane.commits)
  /\ pane.sel \in 0..Len(pane.commits) /\ pane.shown \in NoEntry..MaxCommits
  /\ pane.files \in [what : {"work"}, n : 0..work] \cup [what : {"commit"}, n : 1..made] \cup {NoFiles}
  /\ {reading, shifted} \subseteq BOOLEAN

DiffOfSelection ==
  \/ pane.files = NoFiles
  \/ IF pane.sel = 0 THEN pane.files.what = "work"
     ELSE pane.files = Files(pane.commits, pane.sel)

(* What is drawn is of one entry; its files are those of the entry that is *)
(* highlighted, or none as a call of git failed, unless the list was read  *)
(* anew under an index that stayed (mod.rs:287).                           *)
DiffShown == ~reading => pane.shown = pane.sel /\ (DiffOfSelection \/ shifted)

(* The same without the excuse, as the comment on `sel` has it (mod.rs:55).*)
DiffOfSelected == ~reading => DiffOfSelection

(* The working tree shown becomes the one on disk.                         *)
Stale == pane.sel = 0 /\ pane.files # Files(pane.commits, 0)

DiffFresh == []<>~Stale

(* The pane shows the entry it says it shows, and the working tree as it is. *)
ChangesTrue == [](ChangesTypeOK /\ DiffShown) /\ DiffFresh
=============================================================================
