-------------------------- MODULE MCMessageStore ---------------------------
(***************************************************************************)
(* Two worktrees that write to each other; one may be removed.  The fleet  *)
(* map shows them idle, and in the run about the store also busy.          *)
(***************************************************************************)
EXTENDS MessageStore

CONSTANTS a, b, s1

MCWorktrees == {a, b}
MCRemovable == {b}
MCSessionIds == {s1}
MCShown == {"input", "working"}
MCIdle == {"input"}
MCResetTimes == {}
=============================================================================
