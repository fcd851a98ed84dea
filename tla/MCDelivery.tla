----------------------------- MODULE MCDelivery -----------------------------
(***************************************************************************)
(* One worktree asks, the other works and is written to.                   *)
(***************************************************************************)
EXTENDS Delivery

CONSTANTS a, b, h, term

MCWorktrees == {a, b}
MCSessionIds == {h, term}
MCNone == {}
MCTerminal == {term}
MCShown == Statuses
MCDone == {"done"}
MCResetTimes == {}
=============================================================================
