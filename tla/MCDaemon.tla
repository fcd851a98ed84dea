------------------------------ MODULE MCDaemon ------------------------------
(***************************************************************************)
(* Four loops of the daemon: the schedule of the git refreshes, the check  *)
(* for an update - beside a command's, with one request to apply it -, the *)
(* account usage and the metrics.  They share no state here, so a          *)
(* behaviour takes one part and the others stay as they began.             *)
(***************************************************************************)
EXTENDS GitSchedule, Updater, Usage, Metrics, TLC

CONSTANTS win_tree, wsl_tree, linux, slot, request, resident, aside

MCWorktrees == {win_tree, wsl_tree}
MCDistros == {linux}
MCDistro == wsl_tree :> linux
MCSlots == {slot}
MCSweeps == {3}
MCReleased == {2}
MCRequests == {request}
MCCheckers == {resident, aside}
MCWindows == {[five |-> [full |-> f, at |-> 2], seven |-> [full |-> TRUE, at |-> 3]] : f \in BOOLEAN}

VARIABLE part

loopVars == <<part, gvars, uvars, usageVars, metricsvars>>

MCInit ==
  /\ part \in {"git", "update", "usage", "metrics"}
  /\ GInit /\ Init /\ UsageInit /\ MetricsInit
  /\ part # "update" => safe /\ current.is = "link"
  /\ part # "usage" => \A a \in Accounts : who[a] = "" /\ cache[a] = NoReading

MCNext ==
  /\ UNCHANGED part
  /\ \/ part = "git"     /\ GNext       /\ UNCHANGED <<uvars, usageVars, metricsvars>>
     \/ part = "update"  /\ Next        /\ UNCHANGED <<gvars, usageVars, metricsvars>>
     \/ part = "usage"   /\ UsageNext   /\ UNCHANGED <<gvars, uvars, metricsvars>>
     \/ part = "metrics" /\ MetricsNext /\ UNCHANGED <<gvars, uvars, usageVars>>

(* The fairness of each part, as its module states it. *)
GitFair ==
  /\ WF_gvars(part = "git" /\ Tick) /\ WF_gvars(part = "git" /\ Passing)
  /\ WF_gvars(part = "git" /\ \E b \in batches, k \in Slots : Batch(b, k))
  /\ \A k \in Slots :
       WF_gvars(part = "git" /\ \E w \in Worktrees, ok \in BOOLEAN, sweep \in Sweeps :
                                  Done(k, w, ok, sweep))

UpdateFair ==
  /\ WF_uvars(part = "update" /\ \E r \in Requests : LoopChooses(r))
  /\ \A r \in Requests :
       WF_uvars(part = "update" /\ (Copy(r) \/ SpawnFails(r) \/ Spawn(r) \/ Helper(r)))
  /\ WF_uvars(part = "update" /\ Age)

NumbersFair ==
  /\ WF_usageVars(part = "usage" /\ Rounds) /\ WF_usageVars(part = "usage" /\ RescanResets)
  /\ WF_metricsvars(part = "metrics" /\ Measure)
  /\ WF_metricsvars(part = "metrics" /\ PushMetrics)

MCSpec == MCInit /\ [][MCNext]_loopVars /\ GitFair /\ UpdateFair /\ NumbersFair

(* Resolved asks for nothing after the first thing the updater has no answer to. *)
NoHarm == harm = {}
=============================================================================
