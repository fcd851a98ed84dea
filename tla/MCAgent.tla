------------------------------ MODULE MCAgent ------------------------------
(***************************************************************************)
(* What wtd puts between an agent and its worktree: the status machine     *)
(* behind the hooks, the reminders and the guardrails.  They share no      *)
(* state here, so a behaviour takes one of the three and the others stay   *)
(* as they began.                                                          *)
(***************************************************************************)
EXTENDS StatusMachine, Nudge, Guard, TLC

MCResetTimes == {1, 2}

VARIABLE part

agentVars == <<part, vars, nvars, gvars>>

MCInit ==
  /\ part \in {"status", "reminders", "guard"}
  /\ Init /\ NudgeInit /\ GInit
  /\ part # "reminders" => ~plan
  /\ part # "guard" => /\ \A c \in Commands : good[c] = {}
                       /\ ~\E flag \in DOMAIN config \ {"commands"} : config[flag]

MCNext ==
  /\ UNCHANGED part
  /\ \/ part = "status"    /\ Next      /\ UNCHANGED <<nvars, gvars>>
     \/ part = "reminders" /\ NudgeNext /\ UNCHANGED <<vars, gvars>>
     \/ part = "guard"     /\ GNext     /\ UNCHANGED <<vars, nvars>>

MCSpec == MCInit /\ [][MCNext]_agentVars

MCSymmetry == Permutations(Trees) \cup Permutations(Commands)
=============================================================================
