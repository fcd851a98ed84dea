--------------------------- MODULE MCStatusFiles ---------------------------
(***************************************************************************)
(* Small instances of StatusFiles.  MCAll is every event; MCReadOnly is a  *)
(* prompt, a turn end and a mark: no revert and no source edit, so nothing *)
(* that should drop a milestone.                                           *)
(***************************************************************************)
EXTENDS StatusFiles

CONSTANTS h1, h2

OneHook == {h1}
TwoHooks == {h1, h2}

MCResetTimes == {1}

MCAll == Events
MCReadOnly == {Event("working"), Event("stop"), Event("done")}
=============================================================================
