----------------------------- MODULE MCInstall -----------------------------
(***************************************************************************)
(* `wtd setup` and the updater, each by itself: they share no state here,  *)
(* so a behaviour takes one of the two and the other stays as it began.    *)
(***************************************************************************)
EXTENDS Updater, Setup, TLC

CONSTANTS one, two, resident, aside

MCReleased == {2}
MCRequests == {one, two}
MCCheckers == {resident}

VARIABLE part

installVars == <<part, uvars, setupvars>>

MCInit ==
  /\ part \in {"setup", "updater"}
  /\ SetupInit /\ Init
  /\ part = "setup" => safe /\ current.is = "link"
  /\ part = "updater" => placed = {} /\ wanted["windows"] = {}

MCNext ==
  /\ UNCHANGED part
  /\ \/ part = "setup"   /\ SetupNext /\ UNCHANGED uvars
     \/ part = "updater" /\ Next      /\ UNCHANGED setupvars

MCSpec == MCInit /\ [][MCNext]_installVars

(* What happens after two of the things that the updater has no answer to is
   not looked at. *)
FewHarms == Cardinality(harm) <= 1

(* The two requests and the two processes of a setup have the same names.  *)
MCSymmetry == Permutations(MCRequests)
=============================================================================
