----------------------------- MODULE MCDesktop -----------------------------
(***************************************************************************)
(* The form for a new session and the tray, each by itself: they share no  *)
(* state here, so a behaviour takes one of the two and the other stays as  *)
(* it began.                                                               *)
(***************************************************************************)
EXTENDS NewSession, Tray, TLC

CONSTANTS r1, r2, win, wsl

MCDefaultPlatform == r1 :> win @@ r2 :> wsl

VARIABLE part

desktopVars == <<part, nvars, tvars>>

MCInit ==
  /\ part \in {"form", "tray"}
  /\ NInit /\ TInit
  /\ part = "form" => logon

MCNext ==
  /\ UNCHANGED part
  /\ \/ part = "form" /\ NNext /\ UNCHANGED tvars
     \/ part = "tray" /\ TNext /\ UNCHANGED nvars

(* The fairness of each part, as its module states it. *)
FormFair ==
  /\ WF_nvars(part = "form" /\ \E j \in bg : Create(j))
  /\ WF_nvars(part = "form" /\ Results)

TrayFair ==
  /\ \A t \in Trays : WF_tvars(part = "tray" /\ Main(t))
  /\ WF_tvars(part = "tray" /\ Subscribe) /\ WF_tvars(part = "tray" /\ Push)
  /\ WF_tvars(part = "tray" /\ Lost) /\ WF_tvars(part = "tray" /\ State)
  /\ WF_tvars(part = "tray" /\ Obey) /\ WF_tvars(part = "tray" /\ HelperStarts)
  /\ WF_tvars(part = "tray" /\ Watch)

MCSpec == MCInit /\ [][MCNext]_desktopVars /\ FormFair /\ TrayFair
=============================================================================
