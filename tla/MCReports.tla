----------------------------- MODULE MCReports -----------------------------
(***************************************************************************)
(* Two hooks that report at the same time, one of which may be killed; and *)
(* the reviews of two worktrees of one repository, two runs, one of which  *)
(* may be the daemon's retry of the other.  They share no state here, so a *)
(* behaviour takes one of the two and the other stays as it began.         *)
(***************************************************************************)
EXTENDS StatusFiles, Review

CONSTANTS h1, h2

TwoHooks == {h1, h2}
MCResetTimes == {1}
MCReports == Events

VARIABLE part

reportsVars == <<part, fvars, rvars>>

MCInit == part \in {"files", "reviews"} /\ FInit /\ RInit

MCNext ==
  /\ UNCHANGED part
  /\ \/ part = "files"   /\ FNext /\ UNCHANGED rvars
     \/ part = "reviews" /\ RNext /\ UNCHANGED fvars

(* The fairness of each part, as its module states it. *)
FilesFair ==
  /\ \A h \in Hooks : WF_fvars(part = "files" /\ HookStep(h))
  /\ WF_fvars(part = "files" /\ \E m \in notices : HandleHook(m))
  /\ WF_fvars(part = "files" /\ ScanRead) /\ WF_fvars(part = "files" /\ ScanApply)

ReviewsFair ==
  /\ WF_rvars(part = "reviews" /\ Take) /\ WF_rvars(part = "reviews" /\ MinutePasses)
  /\ \A w \in Trees : WF_rvars(part = "reviews" /\ StartJob(w))

MCSpec == MCInit /\ [][MCNext]_reportsVars /\ FilesFair /\ ReviewsFair
=============================================================================
