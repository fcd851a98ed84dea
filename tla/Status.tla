------------------------------- MODULE Status -------------------------------
(***************************************************************************)
(* A worktree's Claude status, wtd-core/src/status.rs: what one event      *)
(* does to the visible status, the stashed milestone and the reset time of *)
(* a usage limit.  Every hook, `agent done|pr|wip`, the reviewer and the   *)
(* daemon's session-exit handler go through Apply.                         *)
(*                                                                         *)
(* An edit is "edit" when its path counts as a source edit and "scratch"   *)
(* when is_scratch_path says otherwise: no other fact about the path is    *)
(* ever used.                                                              *)
(***************************************************************************)
EXTENDS Integers

CONSTANT ResetTimes   \* reset times a usage-limit message can name

ASSUME ResetTimesAssumption == ResetTimes \subseteq Nat \ {0}

Milestones == {"pr", "done"}

Statuses == {"none", "working", "input", "limited", "reviewing", "stopped"}
              \cup Milestones

UnknownReset == 0     \* resets_at when the message names no time

StatusStates == [status : Statuses, stash : Milestones \cup {"none"},
                 resets_at : ResetTimes \cup {UnknownReset}]

\* What the agent's own hooks report while it works through a turn.
TurnWords == {"working", "tool", "limited", "stop", "sessionend"}

\* What changes a milestone on purpose: marking, reverting, a source edit.
MarkWords == {"wip", "edit", "done", "pr"}

Words == TurnWords \cup MarkWords \cup {"sync", "scratch", "reviewing", "reviewed"}

Events == [word : Words \ {"limited"}, resets_at : {UnknownReset}]
            \cup [word : {"limited"}, resets_at : ResetTimes \cup {UnknownReset}]

Event(w) == [word |-> w, resets_at |-> UnknownReset]

StatusDefault == [status |-> "none", stash |-> "none", resets_at |-> UnknownReset]

(***************************************************************************)
(* The transition on <<status, stash>>.  A definition whose comment says   *)
(* "mutant" is a bug the runs must notice; nothing else uses it.           *)
(***************************************************************************)
\* mutant: stashes any status, not only a milestone
TurnStepStashesAll(status, stash, next) ==
  IF status = "reviewing" THEN <<status, stash>> ELSE <<next, status>>

\* mutant: a new turn overwrites the milestone instead of stashing it
TurnStepDropsMilestone(status, stash, next) ==
  IF status = "reviewing" THEN <<status, stash>> ELSE <<next, stash>>

TurnStep(status, stash, next) ==
  CASE status \in Milestones -> <<next, status>>
    [] status = "reviewing"  -> <<status, stash>>
    [] OTHER                 -> <<next, stash>>

\* mutant: restores the stashed milestone and leaves it stashed
TurnEndKeepsStash(status, stash, next) ==
  CASE stash # "none"                                -> <<stash, stash>>
    [] stash = "none" /\ status \in Milestones \cup {"reviewing"}
                                                     -> <<status, stash>>
    [] OTHER                                         -> <<next, stash>>

\* mutant: a turn end hides a review
TurnEndHidesReview(status, stash, next) ==
  CASE stash # "none"                          -> <<stash, "none">>
    [] stash = "none" /\ status \in Milestones -> <<status, stash>>
    [] OTHER                                   -> <<next, stash>>

TurnEnd(status, stash, next) ==
  CASE stash # "none"                                -> <<stash, "none">>
    [] stash = "none" /\ status \in Milestones \cup {"reviewing"}
                                                     -> <<status, stash>>
    [] OTHER                                         -> <<next, stash>>

(* The milestone a worktree has reached, shown or stashed. *)
Milestone(s) == IF s.status \in Milestones THEN s.status ELSE s.stash

Transition(status, stash, w) ==
  CASE w \in {"sync", "scratch"}   -> <<status, stash>>
    [] w \in {"wip", "edit"}       -> <<"working", "none">>
    [] w \in {"done", "pr"}        -> <<w, "none">>
    [] w = "reviewing"             -> IF status \in Milestones THEN <<status, stash>>
                                                               ELSE <<"reviewing", stash>>
    [] w = "reviewed"              -> IF status \in Milestones THEN <<status, stash>>
                                                               ELSE <<"input", stash>>
    [] w \in {"working", "tool"}   -> TurnStep(status, stash, "working")
    [] w = "limited"               -> TurnStep(status, stash, "limited")
    [] w = "stop"                  -> IF status = "limited" THEN <<status, stash>>
                                                            ELSE TurnEnd(status, stash, "input")
    [] w = "sessionend"            -> TurnEnd(status, stash, "stopped")

\* mutant: any event but the hit itself forgets when the limit resets
ApplyForgetsReset(cur, ev) ==
  LET t == Transition(cur.status, cur.stash, ev.word) IN
  [status |-> t[1], stash |-> t[2],
   resets_at |-> IF ev.word = "limited" THEN ev.resets_at ELSE UnknownReset]

Apply(cur, ev) ==
  LET t == Transition(cur.status, cur.stash, ev.word) IN
  [status    |-> t[1],
   stash     |-> t[2],
   resets_at |-> CASE t[1] = "limited" /\ ev.word = "limited" -> ev.resets_at
                   [] t[1] = "limited" /\ ev.word # "limited" -> cur.resets_at
                   [] OTHER                                   -> UnknownReset]
=============================================================================
