----------------------------- MODULE MCWorktree -----------------------------
(***************************************************************************)
(* The commands on worktrees, and the presets and proposals of one: they   *)
(* share no state here, so a behaviour takes one part and the others stay  *)
(* as they began.  Presets and proposals meet in the layers alone: what an *)
(* accepted proposal does to them is one of the changes that anyone makes. *)
(***************************************************************************)
EXTENDS Worktrees, Presets, TLC

VARIABLE part

worktreeVars == <<part, wvars, presetvars>>

MCInit ==
  /\ part \in {"commands", "presets", "proposals"}
  /\ WInit /\ PresetsInit
  /\ part # "presets" => ~extra /\ override = "none"

MCNext ==
  /\ UNCHANGED part
  /\ \/ part = "commands" /\ WNext       /\ UNCHANGED presetvars
     \/ /\ part = "presets" /\ PresetsNext
        /\ UNCHANGED <<wvars, proposal, decision>>
     \/ /\ part = "proposals" /\ PresetsNext
        /\ UNCHANGED <<wvars, apply>>

MCSpec == MCInit /\ [][MCNext]_worktreeVars

MCSymmetry == Permutations(Procs) \cup Permutations(Ids) \cup Permutations(Deciders)
=============================================================================
