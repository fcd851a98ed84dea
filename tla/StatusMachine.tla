--------------------------- MODULE StatusMachine ---------------------------
(***************************************************************************)
(* One worktree's status under an arbitrary sequence of events, applied    *)
(* one after another: what status.rs promises.  StatusFiles models how     *)
(* processes really apply them, through files.                             *)
(***************************************************************************)
EXTENDS Status

VARIABLES cur,     \* the worktree's StatusState
          last     \* history: the event the last step applied

vars == <<cur, last>>

Init == cur = StatusDefault /\ last = Event("sync")

Report(ev) == cur' = Apply(cur, ev) /\ last' = ev

Next == \E ev \in Events : Report(ev)

Spec == Init /\ [][Next]_vars

-----------------------------------------------------------------------------
(* The state is well typed: whatever is reported, the files can hold it.   *)
TypeOK == cur \in StatusStates /\ last \in Events

(***************************************************************************)
(* A milestone is stashed only beneath a status a turn or a review shows   *)
(* (status.rs:5-8), and a reset time is kept only while limited: a stale   *)
(* one would be shown, and retried at, as if it belonged to the next hit.  *)
(***************************************************************************)
StashOK ==
  cur.stash # "none" => cur.status \in {"working", "limited", "reviewing", "input"}

ResetOK == cur.resets_at # UnknownReset => cur.status = "limited"

Consistent == StashOK /\ ResetOK

(***************************************************************************)
(* "`pr` and `done` are sticky milestones" (status.rs:5): no sequence of   *)
(* turns, reviews, limits and session ends gains, loses or swaps the       *)
(* milestone; only marking, reverting and a source edit change it.         *)
(***************************************************************************)
MilestoneSticky ==
  [][Milestone(cur') # Milestone(cur) => last'.word \in MarkWords]_vars

(***************************************************************************)
(* "`limited` ... holds through turn-end notifications and clears on the   *)
(* next prompt or tool call" (status.rs:7-8): what ends a limit is a       *)
(* prompt, a tool call, a mark, a review or the session's end; and while   *)
(* it lasts the time it resets is that of the last hit.                    *)
(***************************************************************************)
LimitHolds ==
  [][cur.status = "limited" =>
       /\ last'.word \in {"stop", "sync", "scratch"} => cur' = cur
       /\ cur'.status = "limited" /\ last'.word # "limited"
            => cur'.resets_at = cur.resets_at
       /\ last'.word \in {"working", "tool"} => cur'.status = "working"]_vars

(***************************************************************************)
(* "`reviewing` is owned by the reviewer and survives agent turns"         *)
(* (status.rs:7): nothing the agent's own turn reports hides a review, but *)
(* for a turn end over a stashed milestone, which restores the milestone   *)
(* before it looks for a review (status.rs:168).                           *)
(***************************************************************************)
ReviewSurvives ==
  [][cur.status = "reviewing" /\ last'.word \in TurnWords /\ cur'.status # "reviewing"
       => /\ cur.stash # "none" /\ last'.word \in {"stop", "sessionend"}
          /\ cur'.status = cur.stash]_vars

(***************************************************************************)
(* What status.rs:5-8 promises of its milestones, limits and reviews, for  *)
(* every sequence of events, with a stash and a reset time where the       *)
(* status needs one and nowhere else.                                      *)
(***************************************************************************)
StatusKept == [](TypeOK /\ Consistent) /\ MilestoneSticky /\ LimitHolds /\ ReviewSurvives
=============================================================================
