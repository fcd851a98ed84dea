------------------------------ MODULE MCScreen ------------------------------
(***************************************************************************)
(* The daemon's map of the fleet and the clients that mirror it, the       *)
(* full-screen interface and its pane of changes, each by itself: they     *)
(* share no state here, so a behaviour takes one of the three and the      *)
(* others stay as they began.                                              *)
(***************************************************************************)
EXTENDS Fleet, Tui, Changes, TLC

VARIABLE part

screenVars == <<part, fvars, vars, cvars>>

(* The worktrees of the interface are alike: it is told to open one of     *)
(* them, or none.  The worktrees of the fleet begin idle; the Linux ones   *)
(* have a title, which is all that is kept of a row (see Merged).          *)
First == CHOOSE w \in Worktrees : TRUE

MCInit ==
  /\ part \in {"fleet", "tui", "changes"}
  /\ FInit /\ TuiInit /\ ChangesInit
  /\ \A i \in Ids : /\ files[i].status = mirror[i]
                    /\ files[i].title = Absent <=> (i \notin Linux \/ part # "fleet")
  /\ pending \in {Nobody, First}
  /\ part # "tui" => /\ \A w \in Worktrees : real[w] = "off"
                     /\ cursor = First
                     /\ pending = Nobody

MCNext ==
  /\ UNCHANGED part
  /\ \/ part = "fleet"   /\ FNext       /\ UNCHANGED <<vars, cvars>>
        /\ \A i \in Ids \ Linux : files'[i].title = Absent
     \/ part = "tui"     /\ TuiNext     /\ UNCHANGED <<fvars, cvars>>
     \/ part = "changes" /\ ChangesNext /\ UNCHANGED <<fvars, vars>>

(* The fairness of each part, as its module states it. *)
FleetFair ==
  /\ WF_fvars(part = "fleet" /\ Scan("loop")) /\ WF_fvars(part = "fleet" /\ CallGoesOn)
  /\ WF_fvars(part = "fleet" /\ (ParentCheck \/ ParentSet))
  /\ WF_fvars(part = "fleet" /\ (Receive \/ Lag))

InterfaceFair ==
  /\ WF_vars(part = "tui" /\ Drain) /\ WF_vars(part = "tui" /\ TakeUp)
  /\ WF_vars(part = "tui" /\ Connect)
  /\ \A w \in Worktrees : /\ WF_vars(part = "tui" /\ Mirror(w))
                          /\ WF_vars(part = "tui" /\ StartEnds(w))

PaneFair == WF_cvars(part = "changes" /\ Reload)

MCSpec == MCInit /\ [][MCNext]_screenVars /\ FleetFair /\ InterfaceFair /\ PaneFair
=============================================================================
