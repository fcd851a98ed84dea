------------------------ MODULE StatusMachineProofs ------------------------
(***************************************************************************)
(* What status.rs promises, for every set of reset times: the state stays  *)
(* well typed and consistent, and a milestone is sticky; and that a hook   *)
(* process at a time, reading and writing its three files, keeps that      *)
(* promise (hook.rs, statusfile.rs).                                       *)
(***************************************************************************)
EXTENDS StatusMachine, StatusFiles, TLAPS

(* Every event's word is one of Words, so Transition has a branch for it. *)
LEMMA EventWords ==
  ASSUME NEW ev \in Events
  PROVE  /\ ev.word \in {"working", "tool", "limited", "stop", "sessionend", "wip",
                         "edit", "done", "pr", "sync", "scratch", "reviewing", "reviewed"}
         /\ ev.resets_at \in ResetTimes \cup {UnknownReset}
  BY DEF Events, Words, TurnWords, MarkWords

(* Applying an event to a well-typed state gives a well-typed state
   (status.rs `apply`). *)
LEMMA ApplyType ==
  ASSUME NEW s \in StatusStates, NEW ev \in Events
  PROVE  Apply(s, ev) \in StatusStates
  <1>1. /\ s.status \in Statuses
        /\ s.stash \in Milestones \cup {"none"}
        /\ s.resets_at \in ResetTimes \cup {UnknownReset}
    BY DEF StatusStates
  <1> DEFINE t == Transition(s.status, s.stash, ev.word)
  <1>2. t[1] \in Statuses /\ t[2] \in Milestones \cup {"none"}
    BY <1>1, EventWords DEF Transition, TurnStep, TurnEnd, Statuses, Milestones
  <1>3. UnknownReset \in ResetTimes \cup {UnknownReset}
    OBVIOUS
  <1> QED
    BY <1>1, <1>2, <1>3, EventWords DEF Apply, StatusStates

(* Every reachable state of the status machine is well typed. *)
THEOREM TypeCorrect == Spec => []TypeOK
  <1>1. Init => TypeOK
    BY DEF Init, TypeOK, StatusDefault, StatusStates, Statuses, Milestones,
           Event, Events, Words, TurnWords, MarkWords
  <1>2. TypeOK /\ [Next]_vars => TypeOK'
    BY ApplyType DEF TypeOK, Next, Report, vars
  <1> QED
    BY <1>1, <1>2, PTL DEF Spec

(* What an event does to a consistent state keeps it consistent: a stash
   only beneath working, limited, reviewing or input, a reset time only while
   limited. *)
LEMMA ApplyConsistent ==
  ASSUME NEW s \in StatusStates, NEW ev \in Events,
         s.stash # "none" => s.status \in {"working", "limited", "reviewing", "input"},
         s.resets_at # UnknownReset => s.status = "limited"
  PROVE  /\ Apply(s, ev).stash # "none" =>
              Apply(s, ev).status \in {"working", "limited", "reviewing", "input"}
         /\ Apply(s, ev).resets_at # UnknownReset => Apply(s, ev).status = "limited"
  <1>1. s.status \in Statuses /\ s.stash \in Milestones \cup {"none"}
    BY DEF StatusStates
  <1> DEFINE t == Transition(s.status, s.stash, ev.word)
  <1>2. t[2] # "none" => t[1] \in {"working", "limited", "reviewing", "input"}
    BY <1>1, EventWords DEF Transition, TurnStep, TurnEnd, Statuses, Milestones
  <1> QED
    BY <1>2 DEF Apply

(* A milestone is stashed only beneath a status that shows a turn or a
   review, and a reset time never outlives the limit it belongs to. *)
THEOREM Consistency == Spec => []Consistent
  <1>1. Init => Consistent
    BY DEF Init, Consistent, StashOK, ResetOK, StatusDefault
  <1>2. TypeOK /\ Consistent /\ [Next]_vars => Consistent'
    <2> SUFFICES ASSUME TypeOK, Consistent, [Next]_vars
                 PROVE  Consistent'
      OBVIOUS
    <2>1. ASSUME NEW ev \in Events, Report(ev)
          PROVE  Consistent'
      BY <2>1, ApplyConsistent DEF TypeOK, Consistent, StashOK, ResetOK, Report
    <2>2. CASE UNCHANGED vars
      BY <2>2 DEF vars, Consistent, StashOK, ResetOK
    <2> QED
      BY <2>1, <2>2 DEF Next
  <1> QED
    BY <1>1, <1>2, TypeCorrect, PTL DEF Spec

(* From a consistent state, an event that is neither a mark, nor a revert,
   nor a source edit leaves the worktree's milestone as it is. *)
LEMMA ApplyKeepsMilestone ==
  ASSUME NEW s \in StatusStates, NEW ev \in Events,
         s.stash # "none" => s.status \in {"working", "limited", "reviewing", "input"},
         ev.word \notin MarkWords
  PROVE  Milestone(Apply(s, ev)) = Milestone(s)
  <1>1. s.status \in Statuses /\ s.stash \in Milestones \cup {"none"}
    BY DEF StatusStates
  <1>2. ev.word \in {"working", "tool", "limited", "stop", "sessionend",
                     "sync", "scratch", "reviewing", "reviewed"}
    BY EventWords DEF MarkWords
  <1> DEFINE t == Transition(s.status, s.stash, ev.word)
  <1>3. (IF t[1] \in Milestones THEN t[1] ELSE t[2])
          = (IF s.status \in Milestones THEN s.status ELSE s.stash)
    BY <1>1, <1>2 DEF Transition, TurnStep, TurnEnd, Statuses, Milestones
  <1> QED
    BY <1>3 DEF Apply, Milestone

(* "`pr` and `done` are sticky milestones": no turn, review, limit or
   session end gains, loses or swaps one. *)
THEOREM MilestonesAreSticky == Spec => MilestoneSticky
  <1>1. TypeOK /\ Consistent /\ [Next]_vars
          => [Milestone(cur') # Milestone(cur) => last'.word \in MarkWords]_vars
    BY ApplyKeepsMilestone DEF TypeOK, Consistent, StashOK, Next, Report, vars
  <1> QED
    BY <1>1, TypeCorrect, Consistency, PTL DEF Spec, MilestoneSticky

(* What an event does to a limited status (status.rs `transition`, `apply`). *)
LEMMA ApplyLimited ==
  ASSUME NEW s \in StatusStates, NEW ev \in Events, s.status = "limited"
  PROVE  /\ ev.word \in {"stop", "sync", "scratch"} => Apply(s, ev) = s
         /\ Apply(s, ev).status = "limited" /\ ev.word # "limited"
              => Apply(s, ev).resets_at = s.resets_at
         /\ ev.word \in {"working", "tool"} => Apply(s, ev).status = "working"
  <1> DEFINE t == Transition(s.status, s.stash, ev.word)
  <1>1. s = [status |-> s.status, stash |-> s.stash, resets_at |-> s.resets_at]
    BY DEF StatusStates
  <1>2. ev.word \in {"stop", "sync", "scratch"} => t[1] = s.status /\ t[2] = s.stash
    BY DEF Transition
  <1>3. ev.word \in {"working", "tool"} => t[1] = "working"
    BY DEF Transition, TurnStep, Milestones
  <1>4. ev.word \in {"stop", "sync", "scratch"} => Apply(s, ev) = s
    BY <1>1, <1>2 DEF Apply
  <1> QED
    BY <1>3, <1>4 DEF Apply

(* "`limited` ... holds through turn-end notifications and clears on the next
   prompt or tool call", and keeps its reset time until the next hit. *)
THEOREM LimitsHold == Spec => LimitHolds
  <1>1. TypeOK /\ [Next]_vars
          => [cur.status = "limited" =>
                /\ last'.word \in {"stop", "sync", "scratch"} => cur' = cur
                /\ cur'.status = "limited" /\ last'.word # "limited"
                     => cur'.resets_at = cur.resets_at
                /\ last'.word \in {"working", "tool"} => cur'.status = "working"]_vars
    BY ApplyLimited DEF TypeOK, Next, Report, vars
  <1> QED
    BY <1>1, TypeCorrect, PTL DEF Spec, LimitHolds

(* What an event of the agent's own turn does to a review. *)
LEMMA ApplyUnderReview ==
  ASSUME NEW s \in StatusStates, NEW ev \in Events, s.status = "reviewing",
         ev.word \in TurnWords, Apply(s, ev).status # "reviewing"
  PROVE  /\ s.stash # "none" /\ ev.word \in {"stop", "sessionend"}
         /\ Apply(s, ev).status = s.stash
  <1> DEFINE t == Transition(s.status, s.stash, ev.word)
  <1>1. Apply(s, ev).status = t[1]
    BY DEF Apply
  <1>2. ev.word \in {"working", "tool", "limited"} => t[1] = "reviewing"
    BY DEF Transition, TurnStep, Milestones
  <1>3. ASSUME NEW next
        PROVE  TurnEnd(s.status, s.stash, next)[1]
                 = IF s.stash = "none" THEN "reviewing" ELSE s.stash
    <2>1. CASE s.stash = "none"
      BY <2>1 DEF TurnEnd, Milestones
    <2>2. CASE s.stash # "none"
      BY <2>2 DEF TurnEnd, Milestones
    <2> QED
      BY <2>1, <2>2
  <1>4. ev.word = "stop" => t = TurnEnd(s.status, s.stash, "input")
    BY DEF Transition
  <1>5. ev.word = "sessionend" => t = TurnEnd(s.status, s.stash, "stopped")
    BY DEF Transition
  <1> QED
    BY <1>1, <1>2, <1>3, <1>4, <1>5 DEF TurnWords

(* "`reviewing` is owned by the reviewer and survives agent turns", unless a
   milestone is stashed beneath it when the turn ends. *)
THEOREM ReviewsSurvive == Spec => ReviewSurvives
  <1>1. TypeOK /\ [Next]_vars
          => [cur.status = "reviewing" /\ last'.word \in TurnWords /\ cur'.status # "reviewing"
                => /\ cur.stash # "none" /\ last'.word \in {"stop", "sessionend"}
                   /\ cur'.status = cur.stash]_vars
    BY ApplyUnderReview DEF TypeOK, Next, Report, vars
  <1> QED
    BY <1>1, TypeCorrect, PTL DEF Spec, ReviewSurvives

(* All of it together: what a worktree's status comes to, whatever is reported
   in whatever order (status.rs). *)
THEOREM StatusIsKept == Spec => StatusKept
  BY TypeCorrect, Consistency, MilestonesAreSticky, LimitsHold, ReviewsSurvive, PTL
     DEF StatusKept

-----------------------------------------------------------------------------
(* The files: well typed whatever overlaps and whoever is killed.          *)

HookStates == [pc : Phases, ev : Events, old : StatusStates, new : StatusStates]

FilesInv ==
  /\ file \in Statuses /\ resume \in Milestones \cup {"none"}
  /\ limit \in ResetTimes \cup {UnknownReset} /\ mirror \in Statuses
  /\ hook \in [Hooks -> HookStates]
  /\ started \in 0..MaxEvents /\ kills \in 0..MaxKills
  /\ notices \subseteq [by : Hooks, status : Statuses]
  /\ view \in Statuses /\ scan \in Statuses \cup {"idle"}
  /\ latest \in Events /\ mark \in Milestones \cup {"none"}

LEMMA FilesInvType == FilesInv => FTypeOK
  BY DEF FilesInv, FTypeOK, OnDisk, StatusStates, HookStates

LEMMA NothingThere ==
  /\ "none" \in Statuses /\ "none" \in Milestones \cup {"none"}
  /\ StatusDefault \in StatusStates /\ Event("sync") \in Events /\ Idle \in HookStates
  <1>1. StatusDefault \in StatusStates
    BY DEF StatusDefault, StatusStates, Statuses
  <1>2. Event("sync") \in Events
    BY DEF Event, Events, Words
  <1> QED BY <1>1, <1>2 DEF Statuses, Idle, HookStates, Phases

(* What a reader finds is of the file's kind.                              *)
LEMMA FoundOK ==
  ASSUME FilesInv
  PROVE  /\ FoundFile \subseteq Statuses
         /\ FoundResume \subseteq Milestones \cup {"none"}
         /\ FoundLimit \subseteq ResetTimes \cup {UnknownReset}
  BY NothingThere DEF FilesInv, FoundFile, FoundResume, FoundLimit, Found

LEMMA MilestoneType ==
  ASSUME NEW s \in StatusStates PROVE Milestone(s) \in Milestones \cup {"none"}
  BY DEF StatusStates, Milestone

(* One process moves on.                                                   *)
LEMMA HookMoves ==
  ASSUME FilesInv, NEW h \in Hooks, NEW p \in HookStates, hook' = [hook EXCEPT ![h] = p]
  PROVE  hook' \in [Hooks -> HookStates]
  BY DEF FilesInv

LEMMA StartFiles ==
  ASSUME FilesInv, NEW h \in Hooks, NEW ev \in Events, Start(h, ev)
  PROVE  FilesInv'
  <1>1. [Idle EXCEPT !.pc = "read_limit", !.ev = ev] \in HookStates
    BY NothingThere DEF HookStates, Phases
  <1>2. hook' \in [Hooks -> HookStates]
    BY <1>1, HookMoves DEF Start
  <1> QED BY <1>2, FilesAssumption DEF FilesInv, Start, filesVars, daemonVars

LEMMA ReadFiles ==
  ASSUME FilesInv, NEW h \in Hooks, ReadLimit(h) \/ ReadFile(h) \/ ReadResume(h)
  PROVE  FilesInv'
  <1>0. hook[h] \in HookStates /\ hook[h].old \in StatusStates /\ hook[h].ev \in Events
    BY DEF FilesInv, HookStates
  <1>1. CASE ReadLimit(h)
    <2>1. PICK v \in FoundLimit : hook' = [hook EXCEPT ![h].pc = "read_file", ![h].old.resets_at = v]
      BY <1>1 DEF ReadLimit
    <2>2. v \in ResetTimes \cup {UnknownReset}
      BY FoundOK
    <2>3. [hook[h].old EXCEPT !.resets_at = v] \in StatusStates
      BY <1>0, <2>2 DEF StatusStates
    <2>4. hook' = [hook EXCEPT ![h] = [hook[h] EXCEPT !.pc = "read_file",
                                                      !.old = [hook[h].old EXCEPT !.resets_at = v]]]
      BY <1>0, <2>1 DEF FilesInv, HookStates
    <2>5. hook' \in [Hooks -> HookStates]
      BY <1>0, <2>3, <2>4 DEF FilesInv, HookStates, Phases
    <2> QED BY <1>1, <2>5 DEF FilesInv, ReadLimit, filesVars, daemonVars
  <1>2. CASE ReadFile(h)
    <2>1. PICK v \in FoundFile : hook' = [hook EXCEPT ![h].pc = "read_resume", ![h].old.status = v]
      BY <1>2 DEF ReadFile
    <2>2. v \in Statuses
      BY FoundOK
    <2>3. [hook[h].old EXCEPT !.status = v] \in StatusStates
      BY <1>0, <2>2 DEF StatusStates
    <2>4. hook' = [hook EXCEPT ![h] = [hook[h] EXCEPT !.pc = "read_resume",
                                                      !.old = [hook[h].old EXCEPT !.status = v]]]
      BY <1>0, <2>1 DEF FilesInv, HookStates
    <2>5. hook' \in [Hooks -> HookStates]
      BY <1>0, <2>3, <2>4 DEF FilesInv, HookStates, Phases
    <2> QED BY <1>2, <2>5 DEF FilesInv, ReadFile, filesVars, daemonVars
  <1>3. CASE ReadResume(h)
    <2>1. PICK v \in FoundResume :
            LET old == [hook[h].old EXCEPT !.stash = v]
                new == Apply(old, hook[h].ev)
            IN  /\ hook' = [hook EXCEPT ![h].pc = IF new = old THEN "notify" ELSE "write_resume",
                                        ![h].old = old, ![h].new = new]
                /\ mark' = IF new = old THEN MarkOf(hook[h].ev, new) ELSE mark
      BY <1>3 DEF ReadResume
    <2>2. v \in Milestones \cup {"none"}
      BY FoundOK
    <2>3. PICK old \in StatusStates : old = [hook[h].old EXCEPT !.stash = v]
      BY <1>0, <2>2 DEF StatusStates
    <2>4. PICK new \in StatusStates : new = Apply(old, hook[h].ev)
      BY <1>0, ApplyType
    <2>5. PICK pc \in Phases : /\ pc = (IF new = old THEN "notify" ELSE "write_resume")
                               /\ hook' = [hook EXCEPT ![h].pc = pc, ![h].old = old, ![h].new = new]
      BY <2>1, <2>3, <2>4 DEF Phases
    <2>6. hook' = [hook EXCEPT ![h] = [hook[h] EXCEPT !.pc = pc, !.old = old, !.new = new]]
      BY <1>0, <2>5 DEF FilesInv, HookStates
    <2>7. hook' \in [Hooks -> HookStates]
      BY <1>0, <2>6 DEF FilesInv, HookStates
    <2>8. mark' \in Milestones \cup {"none"}
      BY <2>1, <2>3, <2>4, MilestoneType DEF MarkOf, FilesInv
    <2> QED BY <1>3, <2>7, <2>8 DEF FilesInv, ReadResume, filesVars, daemonVars
  <1> QED BY <1>1, <1>2, <1>3

LEMMA WriteFiles ==
  ASSUME FilesInv, NEW h \in Hooks, WriteResume(h) \/ WriteLimit(h) \/ WriteFile(h) \/ WriteMirror(h)
  PROVE  FilesInv'
  <1>0. /\ hook[h] \in HookStates /\ hook[h].ev \in Events /\ hook[h].new \in StatusStates
        /\ hook[h].new.status \in Statuses /\ hook[h].new.stash \in Milestones \cup {"none"}
        /\ hook[h].new.resets_at \in ResetTimes \cup {UnknownReset}
    BY DEF FilesInv, HookStates, StatusStates
  <1>1. PICK pc \in Phases : hook' = [hook EXCEPT ![h].pc = pc]
    BY DEF WriteResume, WriteLimit, WriteFile, WriteMirror, Phases
  <1>2. hook' \in [Hooks -> HookStates]
    BY <1>0, <1>1 DEF FilesInv, HookStates
  <1>3. MarkOf(hook[h].ev, hook[h].new) \in Milestones \cup {"none"}
    BY <1>0, MilestoneType DEF MarkOf, FilesInv
  <1>4. CASE WriteResume(h)
    BY <1>0, <1>2, <1>4 DEF FilesInv, WriteResume, daemonVars
  <1>5. CASE WriteLimit(h)
    BY <1>0, <1>2, <1>5 DEF FilesInv, WriteLimit, daemonVars
  <1>6. CASE WriteFile(h)
    BY <1>0, <1>2, <1>3, <1>6 DEF FilesInv, WriteFile, daemonVars
  <1>7. CASE WriteMirror(h)
    BY <1>0, <1>2, <1>7 DEF FilesInv, WriteMirror, daemonVars
  <1> QED BY <1>4, <1>5, <1>6, <1>7

LEMMA EndFiles ==
  ASSUME FilesInv, NEW h \in Hooks, Notify(h) \/ Exited(h) \/ Kill(h)
  PROVE  FilesInv'
  <1>0. hook[h].new \in StatusStates /\ hook[h].new.status \in Statuses
    BY DEF FilesInv, HookStates, StatusStates
  <1>1. hook' \in [Hooks -> HookStates]
    BY NothingThere, HookMoves DEF Notify, Exited, Kill
  <1>2. CASE Notify(h)
    <2>1. notices' \subseteq [by : Hooks, status : Statuses]
      BY <1>0, <1>2 DEF Notify, FilesInv
    <2> QED BY <1>1, <1>2, <2>1 DEF FilesInv, Notify, filesVars
  <1>3. CASE Exited(h)
    BY <1>0, <1>1, <1>3 DEF FilesInv, Exited, filesVars
  <1>4. CASE Kill(h)
    BY <1>1, <1>4, NothingThere, FilesAssumption DEF FilesInv, Kill, Found, daemonVars
  <1> QED BY <1>2, <1>3, <1>4

LEMMA DaemonFiles ==
  ASSUME FilesInv, (\E m \in notices : HandleHook(m)) \/ ScanRead \/ ScanApply
  PROVE  FilesInv'
  <1>1. ASSUME NEW m \in notices, HandleHook(m) PROVE FilesInv'
    BY <1>1 DEF FilesInv, HandleHook, filesVars
  <1>2. CASE ScanRead
    BY <1>2, FoundOK DEF FilesInv, ScanRead, filesVars
  <1>3. CASE ScanApply
    BY <1>3 DEF FilesInv, ScanApply, filesVars
  <1> QED BY <1>1, <1>2, <1>3

LEMMA StepFiles == FilesInv /\ [FNext]_fvars => FilesInv'
  <1> SUFFICES ASSUME FilesInv, [FNext]_fvars PROVE FilesInv'
    OBVIOUS
  <1>1. ASSUME NEW h \in Hooks, NEW ev \in Reports, Start(h, ev) PROVE FilesInv'
    BY <1>1, StartFiles, FilesAssumption
  <1>2. ASSUME NEW h \in Hooks, HookStep(h) PROVE FilesInv'
    BY <1>2, ReadFiles, WriteFiles, EndFiles DEF HookStep
  <1>3. CASE (\E m \in notices : HandleHook(m)) \/ ScanRead \/ ScanApply
    BY <1>3, DaemonFiles
  <1>4. CASE \E h \in Hooks : Kill(h)
    BY <1>4, EndFiles
  <1>5. CASE UNCHANGED fvars
    BY <1>5 DEF fvars, filesVars, daemonVars, FilesInv
  <1> QED BY <1>1, <1>2, <1>3, <1>4, <1>5 DEF FNext, Unkilled

LEMMA InitFiles == FInit => FilesInv
  BY NothingThere, FilesAssumption DEF FInit, FilesInv

(* However many hooks overlap and wherever one is killed, no file holds    *)
(* anything but a status, a milestone or a reset time (statusfile.rs).     *)
THEOREM FilesTyped == FSpec => []FTypeOK
  <1>1. FInit => FilesInv
    BY InitFiles
  <1>2. FilesInv /\ [FNext]_fvars => FilesInv'
    BY StepFiles
  <1>3. FilesInv => FTypeOK
    BY FilesInvType
  <1> QED BY <1>1, <1>2, <1>3, PTL DEF FSpec

-----------------------------------------------------------------------------
(* One process at a time, none killed: the files keep what status.rs says. *)

(* What process h has read is on disk until it writes, and what it has     *)
(* written is what it computed.                                            *)
InStep(h) ==
  LET p == hook[h] IN
  /\ p.pc \in {"read_file", "read_resume"} => p.old.resets_at = limit
  /\ p.pc = "read_resume" => p.old.status = file
  /\ Writing(h) => /\ p.new = Apply(p.old, p.ev) /\ file = p.old.status
                   /\ resume = IF p.pc = "write_resume" THEN p.old.stash ELSE p.new.stash
                   /\ limit = IF p.pc = "write_file" THEN p.new.resets_at ELSE p.old.resets_at
  /\ p.pc = "write_mirror" => file = p.new.status /\ mirror = p.old.status
  /\ p.pc # "write_mirror" => mirror = file

(* The state between the reading and the writing of the files.             *)
Held(h) == IF Writing(h) THEN hook[h].old ELSE OnDisk

(* Its milestone is the one last marked, and nothing is stashed but        *)
(* beneath a turn or a review: or the next event could not be trusted with *)
(* the milestone.                                                          *)
HeldOK(h) ==
  /\ Milestone(Held(h)) = mark
  /\ Held(h).stash # "none" => Held(h).status \in {"working", "limited", "reviewing", "input"}
  /\ Held(h).resets_at # UnknownReset => Held(h).status = "limited"

SerialInv(h) == FilesInv /\ InStep(h) /\ HeldOK(h)

LEMMA SettledIsHeld ==
  ASSUME NEW h, Hooks = {h} PROVE Settled = Held(h) /\ Settled' = Held(h)'
  <1>1. \A g : g \in Hooks <=> g = h
    OBVIOUS
  <1>2. Settled = Held(h)
    <2>1. CASE Writing(h)
      <3>1. (CHOOSE g \in Hooks : Writing(g)) = h
        BY <1>1, <2>1
      <3> QED BY <1>1, <2>1, <3>1 DEF Settled, Held
    <2>2. CASE ~Writing(h)
      BY <1>1, <2>2 DEF Settled, Held
    <2> QED BY <2>1, <2>2
  <1>3. Settled' = Held(h)'
    <2>1. CASE Writing(h)'
      <3>1. (CHOOSE g \in Hooks : Writing(g)') = h
        BY <1>1, <2>1
      <3> QED BY <1>1, <2>1, <3>1 DEF Settled, Held
    <2>2. CASE ~Writing(h)'
      BY <1>1, <2>2 DEF Settled, Held
    <2> QED BY <2>1, <2>2
  <1> QED BY <1>2, <1>3

LEMMA InitSerial ==
  ASSUME NEW h, Hooks = {h}, FInit PROVE SerialInv(h)
  <1>1. FilesInv
    BY InitFiles
  <1>2. hook[h].pc = "idle"
    BY DEF FInit, Idle
  <1>3. OnDisk = StatusDefault
    BY DEF FInit, OnDisk, StatusDefault
  <1> QED BY <1>1, <1>2, <1>3
        DEF FInit, SerialInv, InStep, HeldOK, Held, Writing, Milestone, StatusDefault, Milestones

(* A read finds what is there: nobody rewrites meanwhile.                  *)
LEMMA FoundIsThere ==
  ASSUME NEW h, Hooks = {h}, ~Writing(h)
  PROVE  FoundFile = {file} /\ FoundResume = {resume} /\ FoundLimit = {limit}
  BY DEF Writing, FoundFile, FoundResume, FoundLimit, Found, RewritesFile, RewritesResume, RewritesLimit

(* A step that writes nothing and starts no write.                         *)
LEMMA NothingWritten ==
  ASSUME NEW h, SerialInv(h), FilesInv', UNCHANGED <<filesVars, mark>>, ~Writing(h), ~Writing(h)', InStep(h)'
  PROVE  SerialInv(h)' /\ Held(h)' = Held(h)
  BY DEF SerialInv, HeldOK, Held, OnDisk, filesVars

LEMMA NewType ==
  ASSUME FilesInv, NEW h \in Hooks
  PROVE  /\ hook[h] \in HookStates /\ hook[h].old \in StatusStates /\ hook[h].new \in StatusStates
         /\ hook[h].ev \in Events /\ OnDisk \in StatusStates
  BY DEF FilesInv, HookStates, OnDisk, StatusStates

(* What a step of the process does to the state it holds: applies the event *)
(* as it writes the status, the last of the three files, or leaves it.      *)
LEMMA HookSerial ==
  ASSUME NEW h, Hooks = {h}, SerialInv(h), NEW ev \in Events, Start(h, ev) \/ HookStep(h), FilesInv'
  PROVE  /\ SerialInv(h)'
         /\ \/ Held(h)' = Held(h) /\ latest' = latest
            \/ latest' \in Events /\ Held(h)' = Apply(Held(h), latest')
  <1> USE DEF SerialInv
  <1>0. /\ h \in Hooks /\ hook \in [Hooks -> HookStates] /\ hook[h] \in HookStates /\ hook[h].old \in StatusStates
        /\ hook[h].new \in StatusStates /\ hook[h].ev \in Events /\ OnDisk \in StatusStates
    BY NewType DEF FilesInv
  <1>1. CASE Start(h, ev)
    <2>1. hook'[h].pc = "read_limit" /\ hook[h].pc = "idle" /\ UNCHANGED <<filesVars, mark, latest>>
      BY <1>0, <1>1 DEF Start, Idle
    <2>2. InStep(h)' /\ ~Writing(h) /\ ~Writing(h)'
      BY <2>1 DEF InStep, Writing, filesVars
    <2> QED BY <2>1, <2>2, NothingWritten
  <1>2. CASE ReadLimit(h)
    <2>1. hook[h].pc = "read_limit" /\ ~Writing(h)
      BY <1>2 DEF ReadLimit, Writing
    <2>2. hook' = [hook EXCEPT ![h].pc = "read_file", ![h].old.resets_at = limit] /\ UNCHANGED <<filesVars, mark, latest>>
      BY <1>2, <2>1, FoundIsThere DEF ReadLimit
    <2>3. hook'[h].pc = "read_file" /\ hook'[h].old.resets_at = limit
      BY <1>0, <2>2 DEF HookStates, StatusStates
    <2>4. InStep(h)' /\ ~Writing(h)'
      BY <2>1, <2>2, <2>3 DEF InStep, Writing, filesVars
    <2> QED BY <2>1, <2>2, <2>4, NothingWritten
  <1>3. CASE ReadFile(h)
    <2>1. hook[h].pc = "read_file" /\ ~Writing(h)
      BY <1>3 DEF ReadFile, Writing
    <2>2. hook' = [hook EXCEPT ![h].pc = "read_resume", ![h].old.status = file] /\ UNCHANGED <<filesVars, mark, latest>>
      BY <1>3, <2>1, FoundIsThere DEF ReadFile
    <2>3. hook'[h].pc = "read_resume" /\ hook'[h].old.status = file /\ hook'[h].old.resets_at = hook[h].old.resets_at
      BY <1>0, <2>2 DEF HookStates, StatusStates
    <2>4. InStep(h)' /\ ~Writing(h)'
      BY <2>1, <2>2, <2>3 DEF InStep, Writing, filesVars
    <2> QED BY <2>1, <2>2, <2>4, NothingWritten
  <1>4. CASE ReadResume(h)
    <2>1. hook[h].pc = "read_resume" /\ ~Writing(h)
      BY <1>4 DEF ReadResume, Writing
    <2>2. PICK old : old = [hook[h].old EXCEPT !.stash = resume]
      OBVIOUS
    <2>3. old = OnDisk
      BY <1>0, <2>1, <2>2 DEF InStep, OnDisk, StatusStates
    <2>4. PICK new : new = Apply(old, hook[h].ev)
      OBVIOUS
    <2>5. /\ hook' = [hook EXCEPT ![h].pc = IF new = old THEN "notify" ELSE "write_resume",
                                  ![h].old = old, ![h].new = new]
          /\ mark' = IF new = old THEN MarkOf(hook[h].ev, new) ELSE mark
          /\ UNCHANGED <<filesVars, latest>>
      BY <1>4, <2>1, <2>2, <2>4, FoundIsThere DEF ReadResume
    <2>6. /\ hook'[h].pc = (IF new = old THEN "notify" ELSE "write_resume")
          /\ hook'[h].old = old /\ hook'[h].new = new /\ hook'[h].ev = hook[h].ev
      BY <1>0, <2>5 DEF HookStates
    <2>7. UNCHANGED <<file, resume, limit, mirror, OnDisk>>
      BY <2>5 DEF filesVars, OnDisk
    <2>8. InStep(h)'
      BY <2>1, <2>3, <2>4, <2>6, <2>7 DEF InStep, Writing, OnDisk
    <2>9. Held(h)' = Held(h)
      BY <2>1, <2>3, <2>6, <2>7 DEF Held, Writing
    <2>10. mark' = mark
      BY <2>1, <2>3, <2>5 DEF HeldOK, Held, MarkOf
    <2> QED BY <2>5, <2>8, <2>9, <2>10 DEF HeldOK
  <1>5. CASE WriteResume(h)
    <2>1. hook' = [hook EXCEPT ![h].pc = "write_limit"] /\ hook[h].pc = "write_resume" /\ UNCHANGED <<file, limit, mirror, mark, latest>>
      BY <1>5 DEF WriteResume
    <2>2. hook'[h].pc = "write_limit" /\ hook'[h].old = hook[h].old /\ hook'[h].new = hook[h].new /\ hook'[h].ev = hook[h].ev
      BY <1>0, <2>1 DEF HookStates
    <2>3. resume' = hook[h].new.stash
      BY <1>5, <2>1 DEF WriteResume, InStep, Writing
    <2>4. InStep(h)'
      BY <2>1, <2>2, <2>3 DEF InStep, Writing
    <2>5. Held(h)' = Held(h)
      BY <2>1, <2>2 DEF Held, Writing
    <2> QED BY <2>1, <2>4, <2>5 DEF HeldOK
  <1>6. CASE WriteLimit(h)
    <2>1. hook' = [hook EXCEPT ![h].pc = "write_file"] /\ hook[h].pc = "write_limit" /\ UNCHANGED <<file, resume, mirror, mark, latest>>
      BY <1>6 DEF WriteLimit
    <2>2. hook'[h].pc = "write_file" /\ hook'[h].old = hook[h].old /\ hook'[h].new = hook[h].new /\ hook'[h].ev = hook[h].ev
      BY <1>0, <2>1 DEF HookStates
    <2>3. limit' = hook[h].new.resets_at
      BY <1>6, <2>1 DEF WriteLimit, InStep, Writing
    <2>4. InStep(h)'
      BY <2>1, <2>2, <2>3 DEF InStep, Writing
    <2>5. Held(h)' = Held(h)
      BY <2>1, <2>2 DEF Held, Writing
    <2> QED BY <2>1, <2>4, <2>5 DEF HeldOK
  <1>7. CASE WriteFile(h)
    <2>1. /\ hook' = [hook EXCEPT ![h].pc = "write_mirror"] /\ hook[h].pc = "write_file"
          /\ UNCHANGED <<resume, limit, mirror>> /\ latest' = hook[h].ev /\ mark' = MarkOf(hook[h].ev, hook[h].new)
      BY <1>7 DEF WriteFile
    <2>2. hook'[h].pc = "write_mirror" /\ hook'[h].old = hook[h].old /\ hook'[h].new = hook[h].new /\ hook'[h].ev = hook[h].ev
      BY <1>0, <2>1 DEF HookStates
    <2>3. file' = hook[h].new.status /\ hook[h].new = Apply(hook[h].old, hook[h].ev) /\ file = hook[h].old.status /\ mirror = file
      BY <1>7, <2>1 DEF WriteFile, InStep, Writing
    <2>4. resume' = hook[h].new.stash /\ limit' = hook[h].new.resets_at
      BY <2>1 DEF InStep, Writing
    <2>5. InStep(h)'
      BY <2>1, <2>2, <2>3 DEF InStep, Writing
    <2>6. Held(h) = hook[h].old /\ Held(h)' = hook[h].new
      <3>1. OnDisk' = hook[h].new
        BY <1>0, <2>3, <2>4 DEF OnDisk, StatusStates
      <3> QED BY <2>1, <2>2, <3>1 DEF Held, Writing
    <2>7. HeldOK(h)'
      <3>1. /\ hook[h].new.stash # "none" => hook[h].new.status \in {"working", "limited", "reviewing", "input"}
            /\ hook[h].new.resets_at # UnknownReset => hook[h].new.status = "limited"
        BY <1>0, <2>3, <2>6, ApplyConsistent DEF HeldOK
      <3>2. hook[h].ev.word \notin MarkWords => Milestone(hook[h].new) = mark
        BY <1>0, <2>3, <2>6, ApplyKeepsMilestone DEF HeldOK
      <3>3. Milestone(hook[h].new) = mark'
        BY <2>1, <3>2 DEF MarkOf
      <3> QED BY <2>6, <3>1, <3>3 DEF HeldOK
    <2> QED BY <1>0, <2>1, <2>3, <2>5, <2>6, <2>7
  <1>8. CASE WriteMirror(h)
    <2>1. hook' = [hook EXCEPT ![h].pc = "notify"] /\ hook[h].pc = "write_mirror" /\ UNCHANGED <<file, resume, limit, mark, latest>>
      BY <1>8 DEF WriteMirror
    <2>2. hook'[h].pc = "notify"
      BY <1>0, <2>1 DEF HookStates
    <2>3. mirror' = file'
      BY <1>8, <2>1 DEF WriteMirror, InStep
    <2>4. InStep(h)'
      BY <2>2, <2>3 DEF InStep, Writing
    <2>5. Held(h)' = Held(h)
      BY <2>1, <2>2 DEF Held, Writing, OnDisk
    <2> QED BY <2>1, <2>4, <2>5 DEF HeldOK
  <1>9. CASE Notify(h) \/ Exited(h)
    <2>1. hook' = [hook EXCEPT ![h] = Idle] /\ hook[h].pc = "notify" /\ UNCHANGED <<filesVars, mark, latest>>
      BY <1>9 DEF Notify, Exited
    <2>2. hook'[h].pc = "idle" /\ ~Writing(h) /\ ~Writing(h)'
      BY <1>0, <2>1 DEF Idle, Writing
    <2>3. InStep(h)'
      BY <2>1, <2>2 DEF InStep, Writing, filesVars
    <2> QED BY <2>1, <2>2, <2>3, NothingWritten
  <1> QED BY <1>1, <1>2, <1>3, <1>4, <1>5, <1>6, <1>7, <1>8, <1>9 DEF HookStep

LEMMA StepSerial ==
  ASSUME NEW h, Hooks = {h}, SerialInv(h), [Unkilled]_fvars
  PROVE  /\ SerialInv(h)'
         /\ \/ Held(h)' = Held(h) /\ latest' = latest
            \/ latest' \in Events /\ Held(h)' = Apply(Held(h), latest')
  <1>1. FilesInv'
    BY StepFiles DEF SerialInv, FNext
  <1>2. CASE \E g \in Hooks : (\E ev \in Reports : Start(g, ev)) \/ HookStep(g)
    BY <1>1, <1>2, HookSerial, FilesAssumption, NothingThere
  <1>3. CASE \/ UNCHANGED fvars
             \/ (\E m \in notices : HandleHook(m)) \/ ScanRead \/ ScanApply
    <2>1. UNCHANGED <<filesVars, hook, latest, mark>>
      BY <1>3 DEF fvars, filesVars, HandleHook, ScanRead, ScanApply
    <2>2. UNCHANGED <<file, resume, limit, mirror, OnDisk>>
      BY <2>1 DEF filesVars, OnDisk
    <2>3. Held(h)' = Held(h) /\ (Writing(h)' <=> Writing(h))
      BY <2>1, <2>2 DEF Held, Writing
    <2>4. InStep(h)'
      BY <2>1, <2>2, <2>3 DEF SerialInv, InStep
    <2> QED BY <1>1, <2>1, <2>3, <2>4 DEF SerialInv, HeldOK
  <1> QED BY <1>2, <1>3 DEF Unkilled

LEMMA SerialSettles ==
  ASSUME NEW h, Hooks = {h}, SerialInv(h) PROVE MarkKept /\ MirrorFresh
  <1> SUFFICES ASSUME Quiet PROVE Milestone(OnDisk) = mark /\ mirror = file
    BY DEF MarkKept, MirrorFresh
  <1>1. hook[h].pc = "idle"
    BY DEF Quiet
  <1> QED BY <1>1 DEF SerialInv, InStep, HeldOK, Held, Writing

(* With one hook process at a time and none killed, the milestone on disk   *)
(* is the one last marked and the mirror is the file's, whatever is         *)
(* reported in whatever order (statusfile.rs write).                        *)
THEOREM SerialHooksKeepTheMark ==
  ASSUME NEW h, Hooks = {h} PROVE UnkilledSpec => [](MarkKept /\ MirrorFresh)
  <1>1. FInit => SerialInv(h)
    BY InitSerial
  <1>2. SerialInv(h) /\ [Unkilled]_fvars => SerialInv(h)'
    BY StepSerial
  <1>3. SerialInv(h) => MarkKept /\ MirrorFresh
    BY SerialSettles
  <1> QED BY <1>1, <1>2, <1>3, PTL DEF UnkilledSpec

(* What the instance of the machine in StatusFiles computes is Apply.       *)
LEMMA MachineApply == \A s, ev : Machine!Apply(s, ev) = Apply(s, ev)
  BY DEF Machine!Apply, Machine!Transition, Machine!TurnStep, Machine!TurnEnd, Machine!Milestones,
         Machine!UnknownReset, Apply, Transition, TurnStep, TurnEnd, Milestones, UnknownReset

LEMMA MachineEvents == Machine!Events = Events
  BY DEF Machine!Events, Machine!Words, Machine!TurnWords, Machine!MarkWords, Machine!UnknownReset,
         Events, Words, TurnWords, MarkWords, UnknownReset

(* And the files implement status.rs: every step of the process is a        *)
(* stutter or, as the status file is written, the event's step of the       *)
(* machine (StatusMachine).                                                 *)
THEOREM SerialHooksImplement ==
  ASSUME NEW h, Hooks = {h} PROVE UnkilledSpec => SerialMachine
  <1>1. FInit => SerialInv(h)
    BY InitSerial
  <1>2. SerialInv(h) /\ [Unkilled]_fvars => SerialInv(h)'
    BY StepSerial
  <1>3. FInit => Machine!Init
    <2> SUFFICES ASSUME FInit PROVE Machine!Init
      OBVIOUS
    <2>1. hook[h].pc = "idle"
      BY DEF FInit, Idle
    <2>2. Settled = OnDisk
      BY <2>1, SettledIsHeld DEF Held, Writing
    <2> QED BY <2>2 DEF FInit, OnDisk, Machine!Init, Machine!StatusDefault, Machine!UnknownReset, Machine!Event, Event, UnknownReset
  <1>4. SerialInv(h) /\ [Unkilled]_fvars => [Machine!Next]_(Machine!vars)
    <2> SUFFICES ASSUME SerialInv(h), [Unkilled]_fvars PROVE [Machine!Next]_(Machine!vars)
      OBVIOUS
    <2>1. Settled = Held(h) /\ Settled' = Held(h)'
      BY SettledIsHeld
    <2>2. CASE Settled' = Settled /\ latest' = latest
      BY <2>2 DEF Machine!vars
    <2>3. CASE latest' \in Events /\ Settled' = Apply(Settled, latest')
      <3>1. Machine!Report(latest')
        BY <2>3, MachineApply DEF Machine!Report
      <3> QED BY <2>3, <3>1, MachineEvents DEF Machine!Next
    <2> QED BY <2>1, <2>2, <2>3, StepSerial
  <1> QED BY <1>1, <1>2, <1>3, <1>4, PTL DEF UnkilledSpec, SerialMachine, Machine!Spec
=============================================================================
