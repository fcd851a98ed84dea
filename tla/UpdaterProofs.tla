--------------------------- MODULE UpdaterProofs ---------------------------
(***************************************************************************)
(* Theorems about Updater, for any versions, requests, checks and faults:  *)
(* type correctness; one apply at a time; a version that failed its health *)
(* check never comes back; there is always a complete version to start.    *)
(* Each of the last three rests on an invariant of its own (LockInv,       *)
(* VersionInv, WholeInv), and each of these on the ones before it.         *)
(***************************************************************************)
EXTENDS Updater, TLAPS, FiniteSetTheorems

-----------------------------------------------------------------------------
(* What a step leaves alone stays well typed. *)
LEMMA Frame ==
  ASSUME UTypeOK
  PROVE  /\ UNCHANGED diskVars => DiskOK'
         /\ UNCHANGED <<file, lock>> => FileOK'
         /\ UNCHANGED daemonVars => DaemonOK'
         /\ UNCHANGED <<pc, job>> => RequestsOK'
         /\ UNCHANGED <<cpc, task>> => ChecksOK'
         /\ UNCHANGED <<faults, harm, bad>> => HistoryOK'
  <1>1. UNCHANGED diskVars => DiskOK'
    BY DEF UTypeOK, DiskOK, diskVars
  <1>2. UNCHANGED <<file, lock>> => FileOK'
    BY DEF UTypeOK, FileOK
  <1>3. UNCHANGED daemonVars => DaemonOK'
    BY DEF UTypeOK, DaemonOK, daemonVars
  <1>4. UNCHANGED <<pc, job>> => RequestsOK'
    BY DEF UTypeOK, RequestsOK
  <1>5. UNCHANGED <<cpc, task>> => ChecksOK'
    BY DEF UTypeOK, ChecksOK
  <1>6. UNCHANGED <<faults, harm, bad>> => HistoryOK'
    BY DEF UTypeOK, HistoryOK
  <1> QED BY <1>1, <1>2, <1>3, <1>4, <1>5, <1>6

(* A request, or its helper, makes a step. *)
LEMMA RequestGoes ==
  ASSUME RequestsOK, NEW r \in Requests, NEW step \in Steps, NEW j \in Job,
         Fits(step, j), Goto(r, step), job' = [job EXCEPT ![r] = j]
  PROVE  RequestsOK'
  BY DEF RequestsOK, Goto, Fits

LEMMA RequestSteps ==
  ASSUME RequestsOK, NEW r \in Requests, NEW step \in Steps,
         Fits(step, job[r]), Goto(r, step), UNCHANGED job
  PROVE  RequestsOK'
  BY DEF RequestsOK, Goto, Fits

LEMMA RequestEnds ==
  ASSUME RequestsOK, NEW r \in Requests, Ends(r)
  PROVE  RequestsOK'
  <1>1. NoJob \in Job
    BY DEF NoJob, Job, NoFile, StateFile
  <1>2. Fits("off", NoJob)
    BY DEF Fits, NoJob, LockedSteps, JudgedSteps, HelperSteps
  <1> QED BY <1>1, <1>2, RequestGoes DEF Ends, Steps

(* A check makes a step. *)
LEMMA CheckGoes ==
  ASSUME ChecksOK, NEW c \in Checkers, NEW step \in {"idle"} \cup CheckSteps, NEW t \in Task,
         step = "idle" <=> t.ver = 0, Goes(c, step, t)
  PROVE  ChecksOK'
  BY DEF ChecksOK, Goes

LEMMA CheckCloses ==
  ASSUME ChecksOK, FileOK, NEW c \in Checkers, cpc[c] # "idle", Closes(c)
  PROVE  ChecksOK'
  <1>1. [task[c] EXCEPT !.mem = file] \in Task /\ task[c].ver # 0
    BY DEF ChecksOK, FileOK, Task
  <1>2. [task[c] EXCEPT !.mem = file].ver = task[c].ver
    BY DEF ChecksOK, Task
  <1> QED BY <1>1, <1>2, CheckGoes DEF Closes, CheckSteps

LEMMA CheckEnds ==
  ASSUME ChecksOK, NEW c \in Checkers, Goes(c, "idle", NoTask)
  PROVE  ChecksOK'
  <1>1. NoTask \in Task /\ NoTask.ver = 0
    BY DEF NoTask, Task, NoFile, StateFile
  <1> QED BY <1>1, CheckGoes

(* Something happens that the code has no answer to, or fails. *)
LEMMA HistoryGoes ==
  ASSUME HistoryOK, NEW kinds \in SUBSET Harms,
         Fault \/ UNCHANGED faults, Harm(kinds) \/ UNCHANGED harm, UNCHANGED bad
  PROVE  HistoryOK'
  BY UpdateAssumption DEF HistoryOK, Fault, Harm

LEMMA HereType ==
  ASSUME DiskOK, NEW running \in SUBSET Versions
  PROVE  Here(running) \subseteq Versions
  BY DEF Here, Labelled, Files, DiskOK, Folders

LEMMA StagedType == ASSUME NEW running PROVE Staged(running) \subseteq Versions
  BY DEF Staged

LEMMA TargetType ==
  ASSUME UTypeOK, NEW r \in Requests, pc[r] \in {"stopped", "back", "pointing", "reversing"}
  PROVE  Target(r) \in Versions
  BY DEF Target, UTypeOK, RequestsOK, Fits, Job, LockedSteps, JudgedSteps, HelperSteps

-----------------------------------------------------------------------------
(* Each action keeps every part of the type invariant that it disturbs. *)

LEMMA DaemonStartsType ==
  ASSUME UTypeOK, DaemonStarts
  PROVE  UTypeOK'
  <1>1. DaemonOK'
    BY DEF DaemonStarts, DaemonUp, Files, UTypeOK, DiskOK, DaemonOK
  <1> QED BY <1>1, Frame DEF DaemonStarts, UTypeOK

LEMMA SafetyChangesType ==
  ASSUME UTypeOK, SafetyChanges
  PROVE  UTypeOK'
  <1>1. DaemonOK'
    BY DEF SafetyChanges, UTypeOK, DaemonOK, daemonVars
  <1> QED BY <1>1, Frame DEF SafetyChanges, UTypeOK

LEMMA AgeType ==
  ASSUME UTypeOK, Age
  PROVE  UTypeOK'
  <1>1. FileOK'
    BY DEF Age, UTypeOK, FileOK
  <1> QED BY <1>1, Frame DEF Age, UTypeOK

LEMMA LeaveType ==
  ASSUME UTypeOK, NEW c \in Checkers, Leave(c)
  PROVE  UTypeOK'
  <1>1. ChecksOK'
    BY CheckCloses DEF Leave, UTypeOK
  <1> QED BY <1>1, Frame DEF Leave, UTypeOK

LEMMA CopyType ==
  ASSUME UTypeOK, NEW r \in Requests, Copy(r)
  PROVE  UTypeOK'
  <1>1. RequestsOK'
    BY RequestSteps DEF Copy, UTypeOK, RequestsOK, Steps, Fits,
                         HelperSteps, LockedSteps, JudgedSteps
  <1> QED BY <1>1, Frame DEF Copy, UTypeOK

LEMMA SpawnType ==
  ASSUME UTypeOK, NEW r \in Requests, Spawn(r)
  PROVE  UTypeOK'
  <1>1. RequestsOK'
    BY RequestSteps DEF Spawn, UTypeOK, RequestsOK, Steps, Fits,
                         HelperSteps, LockedSteps, JudgedSteps
  <1> QED BY <1>1, Frame DEF Spawn, UTypeOK

LEMMA SpawnFailsType ==
  ASSUME UTypeOK, NEW r \in Requests, SpawnFails(r)
  PROVE  UTypeOK'
  <1>1. RequestsOK'
    BY RequestEnds DEF SpawnFails, UTypeOK
  <1>2. DaemonOK'
    BY DEF SpawnFails, UTypeOK, DaemonOK
  <1>3. HistoryOK'
    BY HistoryGoes DEF SpawnFails, UTypeOK, HistoryOK, Harms, SpawnFailed
  <1> QED BY <1>1, <1>2, <1>3, Frame DEF SpawnFails, UTypeOK

LEMMA RemoveStaleType ==
  ASSUME UTypeOK, NEW r \in Requests, RemoveStale(r)
  PROVE  UTypeOK'
  <1>1. RequestsOK'
    BY RequestSteps DEF RemoveStale, UTypeOK, RequestsOK, Steps, Fits,
                         HelperSteps, LockedSteps, JudgedSteps
  <1>2. FileOK'
    BY DEF RemoveStale, UTypeOK, FileOK
  <1>3. HistoryOK'
    BY HistoryGoes DEF RemoveStale, UTypeOK, HistoryOK, Harms
  <1> QED BY <1>1, <1>2, <1>3, Frame DEF RemoveStale, UTypeOK

LEMMA TakeFailsType ==
  ASSUME UTypeOK, NEW r \in Requests, TakeFails(r)
  PROVE  UTypeOK'
  <1>1. RequestsOK'
    BY RequestEnds DEF TakeFails, UTypeOK
  <1>2. HistoryOK'
    BY HistoryGoes DEF TakeFails, UTypeOK, HistoryOK, Harms, GivesUp
  <1> QED BY <1>1, <1>2, Frame DEF TakeFails, UTypeOK

LEMMA KeepType ==
  ASSUME UTypeOK, NEW r \in Requests, Keep(r)
  PROVE  UTypeOK'
  <1>1. RequestsOK'
    BY RequestSteps DEF Keep, UTypeOK, RequestsOK, Steps, Fits,
                         HelperSteps, LockedSteps, JudgedSteps
  <1>2. DiskOK'
    BY DEF Keep, UTypeOK, DiskOK, Files, Folders, RequestsOK, Job
  <1> QED BY <1>1, <1>2, Frame DEF Keep, UTypeOK

LEMMA KeepFailsType ==
  ASSUME UTypeOK, NEW r \in Requests, KeepFails(r)
  PROVE  UTypeOK'
  <1>1. RequestsOK'
    BY RequestEnds DEF KeepFails, UTypeOK, Leaves
  <1>2. FileOK'
    BY DEF KeepFails, UTypeOK, FileOK, Leaves
  <1>3. DiskOK'
    BY DEF KeepFails, UTypeOK, DiskOK, Folders
  <1>4. HistoryOK'
    BY HistoryGoes DEF KeepFails, UTypeOK, HistoryOK, Harms, GivesUp
  <1> QED BY <1>1, <1>2, <1>3, <1>4, Frame DEF KeepFails, UTypeOK

LEMMA StartType ==
  ASSUME UTypeOK, NEW r \in Requests, Start(r)
  PROVE  UTypeOK'
  <1>1. RequestsOK'
    BY RequestSteps DEF Start, UTypeOK, RequestsOK, Steps, Fits,
                         HelperSteps, LockedSteps, JudgedSteps
  <1>2. DaemonOK'
    BY DEF Start, DaemonUp, Files, UTypeOK, DiskOK, DaemonOK
  <1> QED BY <1>1, <1>2, Frame DEF Start, UTypeOK

LEMMA RecordFailsType ==
  ASSUME UTypeOK, NEW r \in Requests, RecordFails(r)
  PROVE  UTypeOK'
  <1>1. RequestsOK'
    BY RequestEnds DEF RecordFails, UTypeOK, Leaves
  <1>2. FileOK'
    BY DEF RecordFails, UTypeOK, FileOK, Leaves
  <1>3. HistoryOK'
    BY HistoryGoes DEF RecordFails, UTypeOK, HistoryOK, Harms
  <1> QED BY <1>1, <1>2, <1>3, Frame DEF RecordFails, UTypeOK

LEMMA TidyType ==
  ASSUME UTypeOK, NEW r \in Requests, Tidy(r)
  PROVE  UTypeOK'
  <1>1. RequestsOK'
    BY RequestEnds DEF Tidy, UTypeOK, Leaves
  <1>2. FileOK'
    BY DEF Tidy, UTypeOK, FileOK, Leaves
  <1>3. DiskOK'
    BY DEF Tidy, UTypeOK, DiskOK, Folders
  <1>4. HistoryOK'
    BY HistoryGoes DEF Tidy, UTypeOK, HistoryOK, Harms
  <1> QED BY <1>1, <1>2, <1>3, <1>4, Frame DEF Tidy, UTypeOK

LEMMA DiesType ==
  ASSUME UTypeOK, NEW r \in Requests, Dies(r)
  PROVE  UTypeOK'
  <1>1. RequestsOK'
    BY RequestEnds DEF Dies, UTypeOK
  <1>2. HistoryOK'
    BY HistoryGoes DEF Dies, UTypeOK, HistoryOK, Harms, GivesUp
  <1> QED BY <1>1, <1>2, Frame DEF Dies, UTypeOK

LEMMA UnpointType ==
  ASSUME UTypeOK, NEW r \in Requests, Unpoint(r)
  PROVE  UTypeOK'
  <1>1. RequestsOK'
    BY RequestSteps DEF Unpoint, UTypeOK, RequestsOK, Steps, Fits,
                         HelperSteps, LockedSteps, JudgedSteps
  <1>2. DiskOK'
    BY DEF Unpoint, UTypeOK, DiskOK, Gone, Parts
  <1> QED BY <1>1, <1>2, Frame DEF Unpoint, UTypeOK

LEMMA PointType ==
  ASSUME UTypeOK, NEW r \in Requests, Point(r)
  PROVE  UTypeOK'
  <1>1. RequestsOK'
    BY RequestSteps DEF Point, UTypeOK, RequestsOK, Steps, Fits,
                         HelperSteps, LockedSteps, JudgedSteps
  <1>2. DiskOK'
    <2>1. /\ Target(r) \in Versions
          /\ \/ current' = [is |-> "link", ver |-> Target(r)]
             \/ current' = [is |-> dirs[Target(r)], ver |-> Target(r)] /\ dirs[Target(r)] # "none"
      BY TargetType DEF Point
    <2>2. dirs[Target(r)] \in Folders
      BY <2>1 DEF UTypeOK, DiskOK
    <2>3. Target(r) # 0
      BY <2>1, UpdateAssumption DEF Versions
    <2>4. current' \in [is : {"gone", "link", "bare", "torn", "whole"}, ver : Versions \cup {0}]
      BY <2>1, <2>2 DEF Folders
    <2>5. current'.is # "gone" /\ current'.ver # 0
      BY <2>1, <2>2, <2>3 DEF Folders
    <2> QED BY <2>4, <2>5 DEF Point, UTypeOK, DiskOK
  <1> QED BY <1>1, <1>2, Frame DEF Point, UTypeOK

LEMMA StopFailsType ==
  ASSUME UTypeOK, NEW r \in Requests, StopFails(r)
  PROVE  UTypeOK'
  <1>1. RequestsOK'
    BY RequestSteps, RequestEnds
    DEF StopFails, Leaves, UTypeOK, RequestsOK, Steps, Fits,
        HelperSteps, LockedSteps, JudgedSteps
  <1>2. FileOK'
    BY DEF StopFails, UTypeOK, FileOK, Leaves
  <1>3. HistoryOK'
    BY HistoryGoes DEF StopFails, UTypeOK, HistoryOK, Harms, GivesUp
  <1> QED BY <1>1, <1>2, <1>3, Frame DEF StopFails, UTypeOK


LEMMA CheckFailsType ==
  ASSUME UTypeOK, NEW c \in Checkers, CheckFails(c)
  PROVE  UTypeOK'
  <1>1. ChecksOK'
    BY CheckCloses, CheckEnds DEF CheckFails, UTypeOK
  <1>2. HistoryOK'
    BY HistoryGoes DEF CheckFails, UTypeOK, HistoryOK, Harms
  <1> QED BY <1>1, <1>2, Frame DEF CheckFails, UTypeOK

LEMMA RecordLoadType ==
  ASSUME UTypeOK, NEW r \in Requests, RecordLoad(r)
  PROVE  UTypeOK'
  <1>1. RequestsOK'
    <2>1. [job[r] EXCEPT !.mem = file] \in Job
      BY DEF UTypeOK, RequestsOK, FileOK, Job
    <2>2. Fits("saving", [job[r] EXCEPT !.mem = file])
      BY DEF RecordLoad, UTypeOK, RequestsOK, Job, Fits, HelperSteps, LockedSteps, JudgedSteps
    <2> QED BY <2>1, <2>2, RequestGoes DEF RecordLoad, UTypeOK, Steps, HelperSteps
  <1> QED BY <1>1, Frame DEF RecordLoad, UTypeOK

LEMMA HealthyType ==
  ASSUME UTypeOK, NEW r \in Requests, Healthy(r)
  PROVE  UTypeOK'
  <1>1. RequestsOK'
    <2>1. \A x \in {"ok", "health"} :
            /\ [job[r] EXCEPT !.verdict = x] \in Job
            /\ \A step \in {"recording", "failing"} : Fits(step, [job[r] EXCEPT !.verdict = x])
      BY DEF Healthy, UTypeOK, RequestsOK, Job, Fits, HelperSteps, LockedSteps, JudgedSteps
    <2> QED BY <2>1, RequestGoes DEF Healthy, UTypeOK, Steps, HelperSteps
  <1> QED BY <1>1, Frame DEF Healthy, UTypeOK

LEMMA StartFailsType ==
  ASSUME UTypeOK, NEW r \in Requests, StartFails(r)
  PROVE  UTypeOK'
  <1>1. CASE pc[r] = "pointed"
    <2>1. [job[r] EXCEPT !.verdict = "health"] \in Job
      BY DEF UTypeOK, RequestsOK, Job
    <2>2. Fits("failing", [job[r] EXCEPT !.verdict = "health"])
      BY <1>1 DEF UTypeOK, RequestsOK, Job, Fits, HelperSteps, LockedSteps, JudgedSteps
    <2>3. RequestsOK'
      BY <1>1, <2>1, <2>2, RequestGoes DEF StartFails, UTypeOK, Steps, HelperSteps
    <2> QED BY <2>3, Frame DEF StartFails, UTypeOK
  <1>2. CASE pc[r] = "reversed"
    <2>1. Fits("recording", job[r])
      BY <1>2 DEF UTypeOK, RequestsOK, Fits, HelperSteps, LockedSteps, JudgedSteps
    <2>2. RequestsOK'
      BY <1>2, <2>1, RequestSteps DEF StartFails, UTypeOK, Steps, HelperSteps
    <2> QED BY <2>2, Frame DEF StartFails, UTypeOK
  <1> QED BY <1>1, <1>2 DEF StartFails

LEMMA SwapFailsType ==
  ASSUME UTypeOK, NEW r \in Requests, SwapFails(r)
  PROVE  UTypeOK'
  <1>1. RequestsOK'
    <2>1. CASE /\ pc[r] \in {"stopped", "pointing"} /\ Goto(r, "back")
               /\ job' = [job EXCEPT ![r].verdict = "swap"]
      <3>1. [job[r] EXCEPT !.verdict = "swap"] \in Job
        BY DEF UTypeOK, RequestsOK, Job
      <3>2. Fits("back", [job[r] EXCEPT !.verdict = "swap"])
        BY <2>1 DEF UTypeOK, RequestsOK, Job, Fits, HelperSteps, LockedSteps, JudgedSteps
      <3> QED BY <2>1, <3>1, <3>2, RequestGoes DEF UTypeOK, Steps, HelperSteps
    <2>2. CASE pc[r] \in {"back", "reversing"} /\ Goto(r, "reversed") /\ UNCHANGED job
      <3>1. Fits("reversed", job[r])
        BY <2>2 DEF UTypeOK, RequestsOK, Fits, HelperSteps, LockedSteps, JudgedSteps
      <3> QED BY <2>2, <3>1, RequestSteps DEF UTypeOK, Steps, HelperSteps
    <2>3. CASE Leaves(r)
      BY <2>3, RequestEnds DEF Leaves, UTypeOK
    <2> QED BY <2>1, <2>2, <2>3 DEF SwapFails
  <1>2. FileOK'
    BY DEF SwapFails, Leaves, UTypeOK, FileOK
  <1>3. HistoryOK'
    BY HistoryGoes DEF SwapFails, UTypeOK, HistoryOK, Harms
  <1> QED BY <1>1, <1>2, <1>3, Frame DEF SwapFails, UTypeOK

LEMMA ChooseType ==
  ASSUME UTypeOK, NEW r \in Requests, NEW who \in {"daemon", "user"}, NEW running,
         Choose(r, who, running)
  PROVE  RequestsOK'
  <1>1. PICK v \in Versions : job' = [job EXCEPT ![r] = [NoJob EXCEPT !.by = who, !.ver = v]]
    BY StagedType DEF Choose
  <1>2. [NoJob EXCEPT !.by = who, !.ver = v] \in Job
    BY DEF NoJob, NoFile, Job, StateFile
  <1>3. v # 0
    BY UpdateAssumption DEF Versions
  <1>4. Fits("chosen", [NoJob EXCEPT !.by = who, !.ver = v])
    BY <1>3 DEF Fits, NoJob, HelperSteps, LockedSteps, JudgedSteps
  <1> QED BY <1>1, <1>2, <1>4, RequestGoes DEF Choose, UTypeOK, Steps

LEMMA LoopChoosesType ==
  ASSUME UTypeOK, NEW r \in Requests, LoopChooses(r)
  PROVE  UTypeOK'
  <1>1. RequestsOK'
    BY ChooseType DEF LoopChooses
  <1>2. DaemonOK'
    BY DEF LoopChooses, Choose, UTypeOK, DaemonOK
  <1> QED BY <1>1, <1>2, Frame DEF LoopChooses, Choose, UTypeOK

LEMMA UserChoosesType ==
  ASSUME UTypeOK, NEW r \in Requests, UserChooses(r)
  PROVE  UTypeOK'
  <1>1. RequestsOK'
    BY ChooseType DEF UserChooses
  <1>2. DaemonOK'
    <2>1. UNCHANGED <<daemon, safe>>
      BY DEF UserChooses, Choose
    <2>2. UNCHANGED applying \/ (daemon # 0 /\ applying' = TRUE)
      BY DEF UserChooses
    <2>3. CASE UNCHANGED applying
      BY <2>1, <2>3 DEF UTypeOK, DaemonOK
    <2>4. CASE daemon # 0 /\ applying' = TRUE
      BY <2>1, <2>4 DEF UTypeOK, DaemonOK
    <2> QED BY <2>2, <2>3, <2>4
  <1>3. UNCHANGED <<diskVars, file, lock, cpc, task, faults, harm, bad>>
    BY DEF UserChooses, Choose
  <1> QED BY <1>1, <1>2, <1>3, Frame DEF UTypeOK

LEMMA TakeType ==
  ASSUME UTypeOK, NEW r \in Requests, Take(r)
  PROVE  UTypeOK'
  <1>1. CASE Labelled(dirs[job[r].ver])
    <2>1. PICK here \in Here(Versions) :
            /\ job' = [job EXCEPT ![r].from = here]
            /\ \/ Goto(r, "keeping") /\ dirs' = [dirs EXCEPT ![here] = "bare"]
               \/ Goto(r, "kept") /\ UNCHANGED dirs
      BY <1>1 DEF Take
    <2>2. here \in Versions /\ here # 0
      BY HereType, UpdateAssumption DEF UTypeOK, Versions
    <2>3. [job[r] EXCEPT !.from = here] \in Job
      BY <2>2 DEF UTypeOK, RequestsOK, Job
    <2>4. \A step \in {"keeping", "kept"} : Fits(step, [job[r] EXCEPT !.from = here])
      BY <2>2 DEF Take, UTypeOK, RequestsOK, Job, Fits, HelperSteps, LockedSteps, JudgedSteps
    <2>5. RequestsOK'
      BY <2>1, <2>3, <2>4, RequestGoes DEF UTypeOK, Steps, HelperSteps
    <2>6. DiskOK'
      BY <2>1, <2>2 DEF Take, UTypeOK, DiskOK, Folders
    <2>7. FileOK'
      BY <1>1 DEF Take, UTypeOK, FileOK
    <2>8. HistoryOK'
      BY <1>1, HistoryGoes DEF Take, UTypeOK, HistoryOK, Harms
    <2> QED BY <2>5, <2>6, <2>7, <2>8, Frame DEF Take, UTypeOK
  <1>2. CASE ~Labelled(dirs[job[r].ver])
    <2>1. RequestsOK'
      BY <1>2, RequestEnds DEF Take, Leaves, UTypeOK
    <2>2. DiskOK'
      BY <1>2 DEF Take, UTypeOK, DiskOK
    <2>3. FileOK'
      BY <1>2 DEF Take, Leaves, UTypeOK, FileOK
    <2>4. HistoryOK'
      BY <1>2, HistoryGoes DEF Take, UTypeOK, HistoryOK, Harms, GivesUp
    <2> QED BY <2>1, <2>2, <2>3, <2>4, Frame DEF Take, UTypeOK
  <1> QED BY <1>1, <1>2

(* The daemon ends; so do its check and the request it is making. *)
LEMMA DaemonDownType ==
  ASSUME UTypeOK, NEW steps \in [Requests -> Steps], DaemonDown(steps), UNCHANGED safe,
         \A r \in Requests : Fits(steps[r], job[r])
  PROVE  DaemonOK' /\ RequestsOK' /\ ChecksOK'
  <1>1. DaemonOK'
    BY DEF DaemonDown, UTypeOK, DaemonOK
  <1>2. RequestsOK'
    <2>1. NoJob \in Job /\ Fits("off", NoJob) /\ "off" \in Steps
      BY DEF NoJob, Job, NoFile, StateFile, Fits, Steps, LockedSteps, JudgedSteps, HelperSteps
    <2>2. pc' \in [Requests -> Steps] /\ job' \in [Requests -> Job]
      BY <2>1 DEF DaemonDown, UTypeOK, RequestsOK
    <2>3. \A r \in Requests : Fits(pc[r], job[r])'
      BY <2>1 DEF DaemonDown, UTypeOK, RequestsOK, Fits
    <2> QED BY <2>2, <2>3 DEF RequestsOK
  <1>3. ChecksOK'
    <2>1. CASE daemon = 0
      BY <2>1 DEF DaemonDown, UTypeOK, ChecksOK
    <2>2. CASE daemon # 0
      BY <2>2, CheckEnds, UpdateAssumption DEF DaemonDown, UTypeOK, Goes
    <2> QED BY <2>1, <2>2
  <1> QED BY <1>1, <1>2, <1>3

LEMMA DaemonEndsType ==
  ASSUME UTypeOK, DaemonEnds
  PROVE  UTypeOK'
  <1>1. DaemonOK' /\ RequestsOK' /\ ChecksOK'
    BY DaemonDownType DEF DaemonEnds, UTypeOK, RequestsOK
  <1> QED BY <1>1, Frame DEF DaemonEnds, UTypeOK

LEMMA StopType ==
  ASSUME UTypeOK, NEW r \in Requests, Stop(r)
  PROVE  UTypeOK'
  <1>1. PICK step \in {"stopped", "back"} :
          /\ DaemonDown([pc EXCEPT ![r] = step])
          /\ Fits(step, job[r])
    BY DEF Stop, UTypeOK, RequestsOK, Fits, LockedSteps, JudgedSteps, HelperSteps
  <1>2. [pc EXCEPT ![r] = step] \in [Requests -> Steps]
    BY DEF UTypeOK, RequestsOK, Steps, HelperSteps
  <1>3. \A s \in Requests : Fits([pc EXCEPT ![r] = step][s], job[s])
    BY <1>1 DEF UTypeOK, RequestsOK
  <1>4. DaemonOK' /\ RequestsOK' /\ ChecksOK'
    BY <1>1, <1>2, <1>3, DaemonDownType DEF Stop
  <1> QED BY <1>4, Frame DEF Stop, UTypeOK

LEMMA CheckBeginType ==
  ASSUME UTypeOK, NEW c \in Checkers, CheckBegin(c)
  PROVE  UTypeOK'
  <1>1. ChecksOK'
    <2>1. PICK v \in Released, here \in Here(IF c = Daemon THEN {daemon} ELSE Versions) :
            Goes(c, "touching", [NoTask EXCEPT !.ver = v, !.newer = v > here, !.mem = file])
      BY DEF CheckBegin
    <2> DEFINE t == [NoTask EXCEPT !.ver = v, !.newer = v > here, !.mem = file]
    <2>2. v \in Versions /\ v # 0
      BY UpdateAssumption DEF Versions
    <2>3. here \in Versions
      BY HereType DEF CheckBegin, UTypeOK, DaemonOK
    <2>4. (v > here) \in BOOLEAN
      BY <2>2, <2>3, UpdateAssumption DEF Versions
    <2>5. \A newer \in BOOLEAN :
            LET begun == [NoTask EXCEPT !.ver = v, !.newer = newer, !.mem = file]
            IN  begun \in Task /\ begun.ver # 0
      BY <2>2 DEF NoTask, Task, UTypeOK, FileOK
    <2>6. t \in Task /\ t.ver # 0
      BY <2>4, <2>5, Zenon
    <2> QED BY <2>1, <2>6, CheckGoes DEF UTypeOK, CheckSteps
  <1> QED BY <1>1, Frame DEF CheckBegin, UTypeOK

(* A state file is written. *)
LEMMA WritesType ==
  ASSUME UTypeOK, NEW mem, NEW new \in StateFile, Writes(mem, new),
         lock' \in {"free", "held", "old"}
  PROVE  FileOK' /\ harm' \subseteq Harms
  BY DEF Writes, Harm, Harms, UTypeOK, FileOK, HistoryOK

LEMMA CheckSaveType ==
  ASSUME UTypeOK, NEW c \in Checkers, CheckSave(c)
  PROVE  UTypeOK'
  <1>1. task[c] \in Task /\ task[c].mem \in StateFile /\ task[c].ver \in Versions \cup {0}
    BY DEF UTypeOK, ChecksOK, Task
  <1>2. FileOK' /\ HistoryOK'
    <2>1. [task[c].mem EXCEPT !.staged = task[c].ver] \in StateFile
      BY <1>1 DEF StateFile
    <2>2. FileOK' /\ harm' \subseteq Harms
      BY <1>1, <2>1, WritesType DEF CheckSave, UTypeOK, FileOK
    <2> QED BY <2>2 DEF CheckSave, UTypeOK, HistoryOK
  <1>3. ChecksOK'
    <2>1. CASE cpc[c] = "touching" /\ Goes(c, "judging", [task[c] EXCEPT !.mem = NoFile])
      <3>1. NoFile \in StateFile
        BY DEF NoFile, StateFile
      <3>2. [task[c] EXCEPT !.mem = NoFile] \in Task /\ [task[c] EXCEPT !.mem = NoFile].ver # 0
        BY <2>1, <3>1 DEF UTypeOK, ChecksOK, Task
      <3> QED BY <2>1, <3>2, CheckGoes DEF UTypeOK, CheckSteps
    <2>2. CASE cpc[c] = "noting" /\ Goes(c, "closing", [task[c] EXCEPT !.mem = file'])
      <3>1. [task[c] EXCEPT !.mem = file'] \in Task /\ [task[c] EXCEPT !.mem = file'].ver # 0
        BY <2>2, <1>2 DEF UTypeOK, ChecksOK, Task, FileOK
      <3> QED BY <2>2, <3>1, CheckGoes DEF UTypeOK, CheckSteps
    <2>3. CASE Goes(c, "idle", NoTask)
      BY <2>3, CheckEnds DEF UTypeOK
    <2> QED BY <2>1, <2>2, <2>3 DEF CheckSave
  <1> QED BY <1>2, <1>3, Frame DEF CheckSave, UTypeOK

(* A .tmp folder is written: whose check it was is only recorded. *)
LEMMA SoiledType ==
  ASSUME ChecksOK, NEW v
  PROVE  /\ Soiled(v) \in [Checkers -> Task]
         /\ \A c \in Checkers : Soiled(v)[c].ver = task[c].ver
  BY DEF Soiled, ChecksOK, Task

LEMMA StageType ==
  ASSUME UTypeOK, NEW c \in Checkers, Stage(c)
  PROVE  UTypeOK'
  <1>1. ChecksOK'
    <2>1. PICK s \in [Checkers -> Task] :
            /\ task' = [s EXCEPT ![c].clean = TRUE]
            /\ \A d \in Checkers : s[d].ver = task[d].ver
      BY SoiledType DEF Stage, UTypeOK
    <2>2. task' \in [Checkers -> Task] /\ \A d \in Checkers : task'[d].ver = task[d].ver
      BY <2>1 DEF Task
    <2> QED BY <2>2 DEF Stage, UTypeOK, ChecksOK, CheckSteps
  <1>2. DiskOK'
    BY DEF Stage, UTypeOK, DiskOK, Folders
  <1>3. HistoryOK'
    BY HistoryGoes DEF Stage, UTypeOK, HistoryOK, Harms
  <1> QED BY <1>1, <1>2, <1>3, Frame DEF Stage, UTypeOK

LEMMA ClearType ==
  ASSUME UTypeOK, NEW c \in Checkers, Clear(c)
  PROVE  UTypeOK'
  <1>1. ChecksOK'
    <2>1. CASE Goes(c, "clearing", task[c])
      BY <2>1, CheckGoes DEF Clear, UTypeOK, ChecksOK, CheckSteps
    <2>2. CASE Closes(c)
      BY <2>2, CheckCloses DEF Clear, UTypeOK
    <2> QED BY <2>1, <2>2 DEF Clear
  <1>2. DiskOK'
    BY DEF Clear, UTypeOK, DiskOK, Folders, Parts
  <1>3. HistoryOK'
    BY HistoryGoes DEF Clear, UTypeOK, HistoryOK, Harms
  <1> QED BY <1>1, <1>2, <1>3, Frame DEF Clear, UTypeOK

LEMMA PlaceType ==
  ASSUME UTypeOK, NEW c \in Checkers, Place(c)
  PROVE  UTypeOK'
  <1>1. ChecksOK'
    <2>1. CASE Closes(c)
      BY <2>1, CheckCloses DEF Place, UTypeOK
    <2>2. CASE /\ task' = [Soiled(task[c].ver) EXCEPT ![c].mem = file]
               /\ cpc' = [cpc EXCEPT ![c] = "noting"]
      <3>1. task' \in [Checkers -> Task] /\ \A d \in Checkers : task'[d].ver = task[d].ver
        BY <2>2, SoiledType DEF UTypeOK, FileOK, Task
      <3> QED BY <2>2, <3>1 DEF Place, UTypeOK, ChecksOK, CheckSteps
    <2> QED BY <2>1, <2>2 DEF Place
  <1>2. DiskOK'
    BY DEF Place, UTypeOK, DiskOK, Folders, ChecksOK, Task
  <1> QED BY <1>1, <1>2, Frame DEF Place, UTypeOK

LEMMA RecordSaveType ==
  ASSUME UTypeOK, NEW r \in Requests, RecordSave(r)
  PROVE  UTypeOK'
  <1> DEFINE failed == IF job[r].verdict = "health" THEN {job[r].ver} ELSE {}
             new == [staged |-> IF job[r].verdict = "swap" THEN job[r].mem.staged ELSE 0,
                     failed |-> job[r].mem.failed \cup failed]
  <1>1. job[r].mem \in StateFile /\ failed \subseteq Versions
    BY DEF RecordSave, UTypeOK, RequestsOK, Job, Fits, HelperSteps, LockedSteps, JudgedSteps
  <1>2. new \in StateFile
    BY <1>1 DEF StateFile
  <1>3. Writes(job[r].mem, new) /\ bad' = bad \cup failed
    BY DEF RecordSave
  <1>4. FileOK' /\ HistoryOK'
    <2>1. FileOK' /\ harm' \subseteq Harms
      BY <1>2, <1>3, WritesType DEF RecordSave, UTypeOK, FileOK
    <2> QED BY <1>1, <1>3, <2>1 DEF RecordSave, UTypeOK, HistoryOK
  <1>5. RequestsOK'
    <2>1. [job[r] EXCEPT !.mem = NoFile] \in Job
      BY DEF UTypeOK, RequestsOK, Job, NoFile, StateFile
    <2>2. Fits("tidying", [job[r] EXCEPT !.mem = NoFile])
      BY DEF RecordSave, UTypeOK, RequestsOK, Job, Fits, HelperSteps, LockedSteps, JudgedSteps
    <2> QED BY <2>1, <2>2, RequestGoes DEF RecordSave, UTypeOK, Steps, HelperSteps
  <1> QED BY <1>4, <1>5, Frame DEF RecordSave, UTypeOK

-----------------------------------------------------------------------------
LEMMA InitType == Init => UTypeOK
  <1> SUFFICES ASSUME Init PROVE UTypeOK
    OBVIOUS
  <1>1. Installed \in Versions /\ Installed # 0
    BY UpdateAssumption DEF Versions
  <1>2. DiskOK
    BY <1>1 DEF Init, DiskOK, Folders
  <1>3. FileOK
    BY DEF Init, FileOK, NoFile, StateFile
  <1>4. DaemonOK
    BY DEF Init, DaemonOK
  <1>5. RequestsOK
    <2>1. NoJob \in Job /\ Fits("off", NoJob) /\ "off" \in Steps
      BY DEF NoJob, Job, NoFile, StateFile, Fits, Steps, LockedSteps, JudgedSteps, HelperSteps
    <2> QED BY <2>1 DEF Init, RequestsOK
  <1>6. ChecksOK
    <2>1. NoTask \in Task /\ NoTask.ver = 0
      BY DEF NoTask, Task, NoFile, StateFile
    <2> QED BY <2>1 DEF Init, ChecksOK
  <1>7. HistoryOK
    BY UpdateAssumption DEF Init, HistoryOK
  <1> QED BY <1>2, <1>3, <1>4, <1>5, <1>6, <1>7 DEF UTypeOK

LEMMA NextType == UTypeOK /\ [Next]_uvars => UTypeOK'
  <1> SUFFICES ASSUME UTypeOK, [Next]_uvars PROVE UTypeOK'
    OBVIOUS
  <1>1. CASE DaemonStarts \/ DaemonEnds \/ SafetyChanges \/ Age
    BY <1>1, DaemonStartsType, DaemonEndsType, SafetyChangesType, AgeType
  <1>2. CASE \E c \in Checkers : CheckBegin(c) \/ Check(c) \/ CheckFails(c)
    BY <1>2, CheckBeginType, CheckSaveType, StageType, LeaveType, ClearType, PlaceType,
       CheckFailsType DEF Check
  <1>3. CASE \E r \in Requests : LoopChooses(r) \/ UserChooses(r) \/ Copy(r) \/ SpawnFails(r)
    BY <1>3, LoopChoosesType, UserChoosesType, CopyType, SpawnFailsType
  <1>4. CASE \E r \in Requests : Spawn(r)
    BY <1>4, SpawnType
  <1>5. ASSUME NEW r \in Requests, Helper(r) PROVE UTypeOK'
    BY <1>5, RemoveStaleType, TakeType, TakeFailsType, KeepType, StopType, UnpointType,
       PointType, SwapFailsType, StartType, StartFailsType, HealthyType, RecordLoadType,
       RecordSaveType, TidyType DEF Helper
  <1>6. CASE \E r \in Requests : KeepFails(r) \/ StopFails(r) \/ RecordFails(r) \/ Dies(r)
    BY <1>6, KeepFailsType, StopFailsType, RecordFailsType, DiesType
  <1>7. CASE UNCHANGED uvars
    BY <1>7, Frame DEF uvars, UTypeOK, diskVars, daemonVars
  <1> QED BY <1>1, <1>2, <1>3, <1>4, <1>5, <1>6, <1>7 DEF Next

(* Everything is well typed, and a request or a check that is over leaves
   nothing behind: what update.rs, cli.rs and apply.rs keep while they run. *)
THEOREM TypeCorrect == USpec => []UTypeOK
  <1> QED BY InitType, NextType, PTL DEF USpec

-----------------------------------------------------------------------------
(* The lock file is there while a helper applies, and there is one such helper,
   until another has removed the lock: then it is gone, or a new one's. *)
Alone == \A r, s \in Applying : r = s
Locked == Applying # {} => lock = "held"
LockInv == "robbed" \in harm \/ (Alone /\ Locked)


(* A step of one request, which does not pass the lock with it. *)
LEMMA NobodyEnters ==
  ASSUME RequestsOK, NEW r \in Requests, NEW step, Goto(r, step),
         r \in Applying \/ step \notin LockedSteps
  PROVE  Applying' \subseteq Applying
  BY DEF RequestsOK, Goto, Applying

LEMMA LastLeaves ==
  ASSUME RequestsOK, Alone, NEW r \in Applying, Leaves(r)
  PROVE  Applying' = {}
  BY DEF RequestsOK, Alone, Applying, Leaves, Ends, Goto, LockedSteps, HelperSteps

LEMMA NobodyInside == ASSUME Applying' = {} PROVE LockInv'
  BY DEF LockInv, Alone, Locked

LEMMA LockKept ==
  ASSUME Alone, Locked, Applying' \subseteq Applying, UNCHANGED lock
  PROVE  LockInv'
  BY DEF LockInv, Alone, Locked

LEMMA HarmStays ==
  ASSUME Next
  PROVE  harm \subseteq harm'
  BY DEF Next, DaemonStarts, DaemonEnds, SafetyChanges, Age, CheckBegin, Check, CheckSave,
         Stage, Leave, Clear, Place, CheckFails, LoopChooses, UserChooses, Choose, Copy,
         SpawnFails, Spawn, Helper, RemoveStale, Take, TakeFails, Keep, KeepFails, Stop,
         StopFails, Unpoint, Point, SwapFails, Start, StartFails, Healthy, RecordLoad,
         RecordSave, RecordFails, Tidy, Dies, Harm, Writes

(* The daemon, and time: what the daemon ends was not past the lock. *)
LEMMA LockOutside ==
  ASSUME UTypeOK, Alone, Locked, DaemonStarts \/ DaemonEnds \/ SafetyChanges \/ Age
  PROVE  LockInv'
  <1>1. CASE DaemonStarts \/ SafetyChanges
    <2>1. UNCHANGED <<pc, lock>>
      BY <1>1 DEF DaemonStarts, SafetyChanges
    <2> QED BY <2>1, LockKept DEF Applying
  <1>2. CASE DaemonEnds
    <2>1. Applying' \subseteq Applying
      BY <1>2 DEF DaemonEnds, DaemonDown, UTypeOK, RequestsOK, Applying, LockedSteps, HelperSteps
    <2> QED BY <1>2, <2>1, LockKept DEF DaemonEnds
  <1>3. CASE Age
    BY <1>3, NobodyInside DEF Age, Applying
  <1> QED BY <1>1, <1>2, <1>3

LEMMA LockChecks ==
  ASSUME Alone, Locked, NEW c \in Checkers, CheckBegin(c) \/ Check(c) \/ CheckFails(c)
  PROVE  LockInv'
  <1>1. UNCHANGED <<pc, lock>>
    BY DEF CheckBegin, Check, CheckSave, Stage, Leave, Clear, Place, CheckFails
  <1> QED BY <1>1, LockKept DEF Applying

(* Before the lock. *)
LEMMA LockRequests ==
  ASSUME UTypeOK, Alone, Locked, NEW r \in Requests,
         LoopChooses(r) \/ UserChooses(r) \/ Copy(r) \/ SpawnFails(r) \/ Spawn(r) \/ TakeFails(r)
  PROVE  LockInv'
  <1>1. PICK step \in {"chosen", "copied", "off", "stale", "taking"} : Goto(r, step)
    BY DEF LoopChooses, UserChooses, Choose, Copy, SpawnFails, Spawn, TakeFails, Ends
  <1>2. UNCHANGED lock
    BY DEF LoopChooses, UserChooses, Choose, Copy, SpawnFails, Spawn, TakeFails
  <1>3. step \notin LockedSteps
    BY DEF LockedSteps, HelperSteps
  <1> QED BY <1>1, <1>2, <1>3, NobodyEnters, LockKept DEF UTypeOK

(* A helper that applies goes on, or leaves. *)
LEMMA LockGoesOn ==
  ASSUME UTypeOK, Alone, Locked, NEW r \in Applying, NEW step, Goto(r, step), UNCHANGED lock
  PROVE  LockInv'
  BY NobodyEnters, LockKept DEF UTypeOK, Applying

LEMMA LockInside ==
  ASSUME UTypeOK, Alone, Locked, NEW r \in Requests,
         \/ Keep(r) \/ KeepFails(r) \/ StopFails(r) \/ Unpoint(r) \/ Point(r) \/ SwapFails(r)
         \/ Start(r) \/ StartFails(r) \/ Healthy(r) \/ RecordLoad(r) \/ RecordSave(r)
         \/ RecordFails(r) \/ Tidy(r)
  PROVE  LockInv'
  <1>1. r \in Applying
    BY DEF Applying, LockedSteps, HelperSteps, Keep, KeepFails, StopFails, Unpoint, Point,
           SwapFails, Start, StartFails, Healthy, RecordLoad, RecordSave, RecordFails, Tidy
  <1>2. Leaves(r) \/ (UNCHANGED lock /\ \E step : Goto(r, step))
    BY DEF Keep, KeepFails, StopFails, Unpoint, Point, SwapFails, Start, StartFails,
           Healthy, RecordLoad, RecordSave, RecordFails, Tidy
  <1>3. CASE Leaves(r)
    BY <1>1, <1>3, LastLeaves, NobodyInside DEF UTypeOK
  <1>4. CASE UNCHANGED lock /\ \E step : Goto(r, step)
    BY <1>1, <1>4, LockGoesOn
  <1> QED BY <1>2, <1>3, <1>4

LEMMA LockStop ==
  ASSUME UTypeOK, Alone, Locked, NEW r \in Requests, Stop(r)
  PROVE  LockInv'
  <1>1. PICK step : DaemonDown([pc EXCEPT ![r] = step])
    BY DEF Stop
  <1>2. r \in Applying
    BY DEF Stop, Applying, LockedSteps, HelperSteps
  <1>3. \A s \in Requests : pc'[s] \in {"off", [pc EXCEPT ![r] = step][s]}
    BY <1>1 DEF DaemonDown
  <1>4. Applying' \subseteq Applying
    BY <1>2, <1>3 DEF UTypeOK, RequestsOK, Applying, LockedSteps, HelperSteps
  <1> QED BY <1>4, LockKept DEF Stop

LEMMA LockDies ==
  ASSUME UTypeOK, Alone, Locked, NEW r \in Requests, Dies(r)
  PROVE  LockInv'
  <1>1. Applying' \subseteq Applying
    BY NobodyEnters DEF Dies, Ends, UTypeOK, LockedSteps, HelperSteps
  <1> QED BY <1>1, LockKept DEF Dies

(* The lock: who takes it finds nobody inside, for it was free. *)
LEMMA LockTake ==
  ASSUME UTypeOK, Alone, Locked, NEW r \in Requests, Take(r)
  PROVE  LockInv'
  <1>1. Applying = {}
    BY DEF Take, Locked
  <1>2. PICK step : Goto(r, step) /\ (step = "off" \/ lock' = "held")
    BY DEF Take, Leaves, Ends
  <1>3. Applying' \subseteq {r}
    BY <1>1, <1>2 DEF Goto, UTypeOK, RequestsOK, Applying
  <1>4. step = "off" => Applying' = {}
    BY <1>2, <1>3 DEF Goto, UTypeOK, RequestsOK, Applying, LockedSteps, HelperSteps
  <1> QED BY <1>2, <1>3, <1>4 DEF LockInv, Alone, Locked

LEMMA LockRemoved ==
  ASSUME UTypeOK, NEW r \in Requests, RemoveStale(r)
  PROVE  LockInv'
  <1>1. CASE Applying = {}
    <2>1. Applying' \subseteq Applying
      BY NobodyEnters DEF RemoveStale, UTypeOK, LockedSteps, HelperSteps
    <2> QED BY <1>1, <2>1, NobodyInside
  <1>2. CASE Applying # {}
    BY <1>2 DEF RemoveStale, Harm, LockInv
  <1> QED BY <1>1, <1>2

LEMMA LockStep == UTypeOK /\ LockInv /\ [Next]_uvars => LockInv'
  <1> SUFFICES ASSUME UTypeOK, LockInv, [Next]_uvars PROVE LockInv'
    OBVIOUS
  <1>1. CASE UNCHANGED uvars
    BY <1>1 DEF uvars, LockInv, Alone, Locked, Applying
  <1>2. CASE Next /\ "robbed" \in harm
    BY <1>2, HarmStays DEF LockInv
  <1>3. CASE Next /\ "robbed" \notin harm
    <2>1. Alone /\ Locked
      BY <1>3 DEF LockInv
    <2>2. CASE DaemonStarts \/ DaemonEnds \/ SafetyChanges \/ Age
      BY <2>1, <2>2, LockOutside
    <2>3. CASE \E c \in Checkers : CheckBegin(c) \/ Check(c) \/ CheckFails(c)
      BY <2>1, <2>3, LockChecks
    <2>4. CASE \E r \in Requests : LoopChooses(r) \/ UserChooses(r) \/ Copy(r) \/ SpawnFails(r)
      BY <2>1, <2>4, LockRequests
    <2>5. CASE \E r \in Requests : Spawn(r)
      BY <2>1, <2>5, LockRequests
    <2>6. ASSUME NEW r \in Requests, Helper(r) PROVE LockInv'
      BY <2>1, <2>6, LockRequests, LockRemoved, LockTake, LockStop, LockInside DEF Helper
    <2>7. CASE \E r \in Requests : KeepFails(r) \/ StopFails(r) \/ RecordFails(r) \/ Dies(r)
      BY <2>1, <2>7, LockInside, LockDies
    <2> QED BY <1>3, <2>2, <2>3, <2>4, <2>5, <2>6, <2>7 DEF Next
  <1> QED BY <1>1, <1>2, <1>3

LEMMA LockInit == Init => LockInv
  BY DEF Init, LockInv, Alone, Locked, Applying, LockedSteps, HelperSteps

LEMMA AloneIsOne == LockInv => OneApply
  <1> SUFFICES ASSUME Alone, "robbed" \notin harm PROVE Cardinality(Applying) <= 1
    BY DEF LockInv, OneApply
  <1>1. CASE Applying = {}
    BY <1>1, FS_EmptySet
  <1>2. CASE Applying # {}
    <2>1. PICK r \in Applying : Applying = {r}
      BY <1>2 DEF Alone
    <2> QED BY <2>1, FS_Singleton
  <1> QED BY <1>1, <1>2

(* One helper applies at a time, however many are asked for, unless one of them
   has removed a lock it had looked at earlier (apply.rs, Lock::take). *)
THEOREM OneApplies == USpec => []OneApply
  <1> QED BY InitType, NextType, LockInit, LockStep, AloneIsOne, PTL DEF USpec
-----------------------------------------------------------------------------
(***************************************************************************)
(* What is current.  A failed version comes back only if a helper goes     *)
(* back to it, so what is proved is what a helper stands on: at every step *)
(* `current` is the version it leaves or the one it applies, the second    *)
(* newer than the first and neither known to be bad, and it can be read.   *)
(* That takes the state file: a version is chosen because nothing says     *)
(* that it failed, so every failure must be on record.                     *)
(***************************************************************************)
Sure == harm \cap {"cut", "robbed", "late", "lost", "replaced"} = {}

Swapping(r) == pc[r] \in {"pointing", "reversing"}

(* The version that is current while r does not swap it. *)
Stands(r) ==
  IF \/ pc[r] \in {"pointed", "up", "failing"}
     \/ pc[r] = "back" /\ job[r].verdict = "health"
     \/ job[r].verdict = "ok"
  THEN job[r].ver ELSE job[r].from

Recorded == bad \subseteq file.failed

AtRest == Applying = {} => Labelled(Files(current)) /\ current.ver \notin bad

AtWork(r) ==
  /\ job[r].from < job[r].ver /\ job[r].from \notin bad
  /\ pc[r] # "tidying" \/ job[r].verdict = "ok" => job[r].ver \notin bad
  /\ pc[r] = "tidying" /\ job[r].verdict = "health" => job[r].ver \in bad
  /\ pc[r] = "failing" => job[r].verdict = "health"
  /\ pc[r] \in {"back", "reversing", "reversed"} => job[r].verdict \in {"swap", "health"}
  /\ pc[r] = "keeping" => current.is # "link"
  /\ ~Swapping(r) => Labelled(Files(current)) /\ current.ver = Stands(r)
  /\ Swapping(r) => Labelled(dirs[Target(r)]) /\ current.ver \notin bad

OnRecord == Recorded /\ AtRest /\ \A r \in Applying : AtWork(r)

VersionInv == Sure => OnRecord

(* Nothing has happened yet, and one helper at most applies. *)
Steady == UTypeOK /\ Alone /\ Locked /\ Sure /\ OnRecord

-----------------------------------------------------------------------------
(* What the helper in its lock makes of a step. *)

LEMMA JobType ==
  ASSUME UTypeOK, NEW r \in Applying
  PROVE  /\ r \in Requests /\ pc[r] \in LockedSteps /\ job[r] \in Job
         /\ job[r].ver \in Versions /\ job[r].from \in Versions
         /\ job[r].verdict \in {"none", "ok", "swap", "health"}
         /\ pc[r] \in JudgedSteps <=> job[r].verdict # "none"
  BY DEF Applying, UTypeOK, RequestsOK, Fits, Job, LockedSteps, HelperSteps, JudgedSteps

LEMMA StaysInside ==
  ASSUME UTypeOK, Alone, NEW r \in Applying, NEW step \in LockedSteps, Goto(r, step)
  PROVE  Applying' = {r} /\ pc'[r] = step
  BY DEF Applying, Alone, Goto, UTypeOK, RequestsOK

LEMMA LeavesEmpty ==
  ASSUME UTypeOK, Alone, NEW r \in Applying, Ends(r)
  PROVE  Applying' = {}
  BY DEF Ends, Goto, Applying, Alone, UTypeOK, RequestsOK, LockedSteps, HelperSteps

(* A step outside the lock leaves the helper in it alone. *)
LEMMA OutsideStays ==
  ASSUME UTypeOK, NEW r \in Requests, r \notin Applying, NEW step, step \notin LockedSteps,
         Goto(r, step)
  PROVE  /\ Applying' = Applying
         /\ \A s \in Applying : pc'[s] = pc[s]
  BY DEF Applying, Goto, UTypeOK, RequestsOK

(* The daemon ends the requests it was making, none of which is past the lock. *)
LEMMA DownStays ==
  ASSUME UTypeOK, NEW r \in Requests, NEW step, DaemonDown([pc EXCEPT ![r] = step])
  PROVE  \A s \in Applying : job'[s] = job[s] /\ pc'[s] = [pc EXCEPT ![r] = step][s]
  BY DEF DaemonDown, Dropped, Applying, UTypeOK, RequestsOK, LockedSteps, HelperSteps

LEMMA DaemonEndsStays ==
  ASSUME UTypeOK, DaemonEnds
  PROVE  Applying' = Applying /\ \A s \in Applying : pc'[s] = pc[s] /\ job'[s] = job[s]
  <1>1. \A s \in Requests : IF s \in Dropped THEN pc'[s] = "off" ELSE pc'[s] = pc[s] /\ job'[s] = job[s]
    BY DEF DaemonEnds, DaemonDown, UTypeOK, RequestsOK
  <1>2. \A s \in Dropped : pc[s] \notin LockedSteps
    BY DEF Dropped, LockedSteps, HelperSteps
  <1>3. "off" \notin LockedSteps
    BY DEF LockedSteps, HelperSteps
  <1> QED BY <1>1, <1>2, <1>3 DEF Applying

LEMMA SureStays == ASSUME Next, Sure' PROVE Sure
  BY HarmStays DEF Sure

(* Nothing is written over a failure on record. *)
LEMMA WritesRecord ==
  ASSUME NEW mem, NEW new, Writes(mem, new), Sure'
  PROVE  file.failed \subseteq mem.failed /\ file' = new
  BY DEF Writes, Harm, Sure

-----------------------------------------------------------------------------
(* Steps that change nothing the helper stands on. *)
LEMMA Undisturbed ==
  ASSUME Steady, Applying' = Applying,
         \A s \in Applying : pc'[s] = pc[s] /\ job'[s] = job[s],
         UNCHANGED <<current, bad>>, file.failed \subseteq file'.failed,
         \A v \in Versions : /\ v = current.ver \/ v \in Uses(Applying)
                             /\ Labelled(dirs[v])
                             => Labelled(dirs'[v])
  PROVE  OnRecord'
  <1>1. Recorded'
    BY DEF Steady, OnRecord, Recorded
  <1>2. Labelled(Files(current)) => Labelled(Files(current)')
    <2>1. current.is = "link" => current.ver \in Versions
      BY DEF Steady, UTypeOK, DiskOK
    <2> QED BY <2>1 DEF Files
  <1>3. AtRest'
    BY <1>2 DEF Steady, OnRecord, AtRest
  <1>4. ASSUME NEW r \in Applying
        PROVE  AtWork(r)'
    <2>1. AtWork(r) /\ pc'[r] = pc[r] /\ job'[r] = job[r]
      BY <1>4 DEF Steady, OnRecord
    <2>2. Stands(r)' = Stands(r) /\ Swapping(r)' = Swapping(r) /\ Target(r)' = Target(r)
      BY <2>1 DEF Stands, Swapping, Target
    <2>3. Target(r) \in Versions /\ Target(r) \in Uses(Applying)
      BY JobType DEF Steady, Target, Uses
    <2>4. Swapping(r) => Labelled(dirs[Target(r)])'
      BY <2>1, <2>2, <2>3 DEF AtWork
    <2> QED BY <1>2, <2>1, <2>2, <2>4 DEF AtWork
  <1> QED BY <1>1, <1>3, <1>4 DEF OnRecord

LEMMA DaemonSure ==
  ASSUME Steady, DaemonStarts \/ DaemonEnds \/ SafetyChanges \/ Age
  PROVE  OnRecord'
  <1>1. UNCHANGED <<dirs, current, file, bad>>
    BY DEF DaemonStarts, DaemonEnds, SafetyChanges, Age, diskVars
  <1>2. Applying' = Applying /\ \A s \in Applying : pc'[s] = pc[s] /\ job'[s] = job[s]
    <2>1. CASE DaemonEnds
      BY <2>1, DaemonEndsStays DEF Steady
    <2>2. CASE UNCHANGED <<pc, job>>
      BY <2>2 DEF Applying
    <2> QED BY <2>1, <2>2 DEF DaemonStarts, SafetyChanges, Age
  <1> QED BY <1>1, <1>2, Undisturbed

LEMMA RequestsSure ==
  ASSUME Steady, NEW r \in Requests,
         \/ LoopChooses(r) \/ UserChooses(r) \/ Copy(r) \/ SpawnFails(r) \/ Spawn(r)
         \/ RemoveStale(r) \/ TakeFails(r)
  PROVE  OnRecord'
  <1>1. UNCHANGED <<dirs, current, file, bad>>
    BY DEF LoopChooses, UserChooses, Choose, Copy, SpawnFails, Spawn, RemoveStale, TakeFails,
           diskVars
  <1>2. PICK step \in {"chosen", "copied", "off", "stale", "taking"} : Goto(r, step)
    BY DEF LoopChooses, UserChooses, Choose, Copy, SpawnFails, Spawn, RemoveStale, TakeFails, Ends
  <1>3. r \notin Applying /\ step \notin LockedSteps
    BY DEF LoopChooses, UserChooses, Choose, Copy, SpawnFails, SpawnFailed, Spawn, RemoveStale,
           TakeFails, Applying, LockedSteps, HelperSteps
  <1>4. \A s \in Applying : job'[s] = job[s]
    <2>1. UNCHANGED job \/ (\E j : job' = [job EXCEPT ![r] = j])
      BY DEF LoopChooses, UserChooses, Choose, Copy, SpawnFails, Spawn, RemoveStale, TakeFails, Ends
    <2> QED BY <1>3, <2>1 DEF Steady, UTypeOK, RequestsOK, Applying
  <1>5. Applying' = Applying /\ \A s \in Applying : pc'[s] = pc[s]
    BY <1>2, <1>3, OutsideStays DEF Steady
  <1> QED BY <1>1, <1>4, <1>5, Undisturbed

LEMMA ChecksSure ==
  ASSUME Steady, Sure', NEW c \in Checkers, CheckBegin(c) \/ Check(c) \/ CheckFails(c)
  PROVE  OnRecord'
  <1>1. UNCHANGED <<pc, job, current, bad>>
    BY DEF CheckBegin, Check, CheckSave, Stage, Leave, Clear, Place, CheckFails, diskVars
  <1>2. Applying' = Applying
    BY <1>1 DEF Applying
  <1>3. CASE CheckBegin(c) \/ Stage(c) \/ Leave(c) \/ CheckFails(c)
    <2>1. UNCHANGED <<dirs, file>>
      BY <1>3 DEF CheckBegin, Stage, Leave, CheckFails, diskVars
    <2> QED BY <1>1, <1>2, <2>1, Undisturbed
  <1>4. CASE CheckSave(c)
    <2>1. PICK new : Writes(task[c].mem, new) /\ new.failed = task[c].mem.failed
      <3>1. task[c].mem \in StateFile
        BY DEF Steady, UTypeOK, ChecksOK, Task
      <3>2. [task[c].mem EXCEPT !.staged = task[c].ver].failed = task[c].mem.failed
        BY <3>1 DEF StateFile
      <3> QED BY <1>4, <3>2 DEF CheckSave
    <2>2. file.failed \subseteq file'.failed
      BY <2>1, WritesRecord
    <2>3. UNCHANGED dirs
      BY <1>4 DEF CheckSave, diskVars
    <2> QED BY <1>1, <1>2, <2>2, <2>3, Undisturbed
  <1>5. CASE Clear(c)
    <2>1. \A v \in Versions : v # task[c].ver => dirs'[v] = dirs[v]
      BY <1>5 DEF Clear, Steady, UTypeOK, DiskOK
    <2>2. \/ dirs[task[c].ver] = "none"
          \/ task[c].ver \notin Uses(Applying) \cup {file.staged, current.ver}
      BY <1>5 DEF Clear, Harm, Sure
    <2>3. UNCHANGED file
      BY <1>5 DEF Clear
    <2>4. ASSUME NEW v \in Versions, v = current.ver \/ v \in Uses(Applying), Labelled(dirs[v])
          PROVE  Labelled(dirs'[v])
      BY <2>1, <2>2, <2>4 DEF Labelled
    <2> QED BY <1>1, <1>2, <2>3, <2>4, Undisturbed
  <1>6. CASE Place(c)
    <2>1. \A v \in Versions : Labelled(dirs[v]) => dirs'[v] = dirs[v]
      BY <1>6 DEF Place, Steady, UTypeOK, DiskOK, Labelled
    <2>2. UNCHANGED file
      BY <1>6 DEF Place
    <2> QED BY <1>1, <1>2, <2>1, <2>2, Undisturbed
  <1> QED BY <1>3, <1>4, <1>5, <1>6 DEF Check

-----------------------------------------------------------------------------
(* Steps of the helper that applies: it goes on, or leaves. *)

LEMMA AtWorkIs ==
  ASSUME Steady, NEW r \in Applying
  PROVE  /\ AtWork(r) /\ Recorded /\ Applying = {r}
         /\ Swapping(r) => Target(r) \in {job[r].ver, job[r].from}
         /\ Stands(r) \in {job[r].ver, job[r].from} /\ Stands(r) \notin bad
  <1>1. AtWork(r) /\ Recorded /\ Applying = {r}
    BY DEF Steady, OnRecord, Alone
  <1>2. Swapping(r) => Target(r) \in {job[r].ver, job[r].from}
    BY DEF Swapping, Target
  <1>3. Stands(r) \in {job[r].ver, job[r].from} /\ Stands(r) \notin bad
    BY <1>1 DEF AtWork, Stands
  <1> QED BY <1>1, <1>2, <1>3

(* It leaves what it stands on. *)
LEMMA LeavesSure ==
  ASSUME Steady, NEW r \in Applying, Ends(r), ~Swapping(r), UNCHANGED <<current, bad, file>>,
         current.is = "link" => dirs'[current.ver] = dirs[current.ver]
  PROVE  OnRecord'
  <1>1. Applying' = {}
    BY LeavesEmpty DEF Steady
  <1>2. Labelled(Files(current))' /\ current'.ver \notin bad'
    BY AtWorkIs DEF AtWork, Files
  <1> QED BY <1>1, <1>2, AtWorkIs DEF OnRecord, Recorded, AtRest

LEMMA GoesOnSure ==
  ASSUME Steady, NEW r \in Applying, NEW step \in LockedSteps, pc'[r] = step, Applying' = {r},
         AtWork(r)', Recorded'
  PROVE  OnRecord'
  BY DEF OnRecord, AtRest

(* It goes on from where it stands, and what it has decided stays. *)
LEMMA GoesSure ==
  ASSUME Steady, NEW r \in Applying, NEW step \in LockedSteps, Goto(r, step),
         UNCHANGED <<current, bad, file, dirs>>,
         job'[r].ver = job[r].ver, job'[r].from = job[r].from,
         ~Swapping(r), step \notin {"pointing", "reversing", "keeping", "tidying"},
         pc[r] # "tidying", Stands(r)' = Stands(r),
         step = "failing" => job'[r].verdict = "health",
         step \in {"back", "reversed"} => job'[r].verdict \in {"swap", "health"}
  PROVE  OnRecord'
  <1>1. pc'[r] = step /\ Applying' = {r}
    BY StaysInside DEF Steady
  <1>2. AtWork(r)'
    BY <1>1, AtWorkIs DEF AtWork, Swapping, Files
  <1> QED BY <1>1, <1>2, GoesOnSure, AtWorkIs DEF Recorded

LEMMA TakeSure ==
  ASSUME Steady, Sure', NEW r \in Requests, Take(r)
  PROVE  OnRecord'
  <1>1. Applying = {} /\ Labelled(Files(current)) /\ current.ver \notin bad /\ Recorded
    BY DEF Take, Steady, Locked, OnRecord, AtRest
  <1>2. Here(Versions) = {current.ver}
    BY <1>1 DEF Here
  <1>3. UNCHANGED <<current, file, bad>>
    BY DEF Take
  <1>4. CASE ~Labelled(dirs[job[r].ver])
    <2>1. Ends(r) /\ UNCHANGED dirs
      BY <1>4 DEF Take, Leaves
    <2>2. Applying' = {}
      BY <1>1, <2>1 DEF Ends, Goto, Applying, Steady, UTypeOK, RequestsOK, LockedSteps, HelperSteps
    <2> QED BY <1>1, <1>3, <2>1, <2>2 DEF OnRecord, Recorded, AtRest, Files
  <1>5. CASE Labelled(dirs[job[r].ver])
    <2>1. PICK step \in {"keeping", "kept"} :
            /\ Goto(r, step) /\ job' = [job EXCEPT ![r].from = current.ver]
            /\ step = "keeping" =>
                 current.is # "link" /\ dirs' = [dirs EXCEPT ![current.ver] = "bare"]
            /\ step = "kept" => UNCHANGED dirs
      BY <1>2, <1>5 DEF Take
    <2>2. job[r].ver \in Staged(Versions)
      BY <1>5 DEF Take, Harm, Sure
    <2>3. job[r].ver > current.ver /\ job[r].ver \notin file.failed /\ job[r].ver \in Versions
      BY <1>2, <2>2 DEF Staged
    <2>4. job[r] \in Job /\ job[r].verdict = "none"
      BY DEF Take, Steady, UTypeOK, RequestsOK, Fits, Job, JudgedSteps
    <2>5. /\ job'[r].ver = job[r].ver /\ job'[r].from = current.ver
          /\ job'[r].verdict = "none"
      BY <2>1, <2>4 DEF Steady, UTypeOK, RequestsOK, Job
    <2>6. pc'[r] = step /\ Applying' = {r}
      BY <1>1, <2>1 DEF Goto, Applying, Steady, UTypeOK, RequestsOK, LockedSteps, HelperSteps
    <2>7. Files(current)' = Files(current)
      BY <1>3, <2>1 DEF Files
    <2>8. Stands(r)' = current.ver
      BY <2>1, <2>5, <2>6 DEF Stands
    <2>9. current.ver \in Versions \cup {0}
      BY DEF Steady, UTypeOK, DiskOK
    <2>10. job[r].ver \notin bad
      BY <1>1, <2>3 DEF Recorded
    <2>11. current.ver < job[r].ver
      BY <2>3, <2>9, UpdateAssumption DEF Versions
    <2>12. AtWork(r)'
      BY <1>1, <1>3, <2>1, <2>5, <2>6, <2>7, <2>8, <2>10, <2>11 DEF AtWork, Swapping
    <2>13. Recorded'
      BY <1>1, <1>3 DEF Recorded
    <2> QED BY <2>6, <2>12, <2>13 DEF OnRecord, AtRest
  <1> QED BY <1>4, <1>5

LEMMA KeepSure ==
  ASSUME Steady, NEW r \in Requests, Keep(r)
  PROVE  OnRecord'
  <1>1. r \in Applying /\ pc[r] = "keeping"
    BY DEF Keep, Applying, LockedSteps, HelperSteps
  <1>2. current.is # "link" /\ Goto(r, "kept") /\ UNCHANGED <<current, file, bad, job>>
    BY <1>1, AtWorkIs DEF Keep, AtWork
  <1>3. pc'[r] = "kept" /\ Applying' = {r}
    BY <1>1, <1>2, StaysInside DEF Steady, LockedSteps, HelperSteps
  <1>4. AtWork(r)'
    BY <1>1, <1>2, <1>3, AtWorkIs DEF AtWork, Swapping, Files, Stands
  <1> QED BY <1>1, <1>2, <1>3, <1>4, AtWorkIs DEF OnRecord, Recorded, AtRest

LEMMA KeepFailsSure ==
  ASSUME Steady, NEW r \in Requests, KeepFails(r)
  PROVE  OnRecord'
  <1>1. r \in Applying /\ pc[r] = "keeping"
    BY DEF KeepFails, Applying, LockedSteps, HelperSteps
  <1>2. current.is # "link"
    BY <1>1, AtWorkIs DEF AtWork
  <1> QED BY <1>1, <1>2, LeavesSure DEF KeepFails, Leaves, Swapping

LEMMA StopStays ==
  ASSUME Steady, NEW r \in Requests, Stop(r)
  PROVE  /\ r \in Applying /\ Applying' = {r} /\ job'[r] = job[r]
         /\ pc[r] \in {"kept", "failing"}
         /\ pc'[r] = IF pc[r] = "kept" THEN "stopped" ELSE "back"
         /\ UNCHANGED <<dirs, tmp, current, file, bad>>
  <1>1. PICK step \in {"stopped", "back"} :
          /\ DaemonDown([pc EXCEPT ![r] = step])
          /\ pc[r] = IF step = "stopped" THEN "kept" ELSE "failing"
    BY DEF Stop
  <1>2. r \in Applying
    BY <1>1 DEF Applying, LockedSteps, HelperSteps
  <1>3. pc'[r] = step /\ job'[r] = job[r]
    BY <1>1, <1>2, DownStays DEF Steady, UTypeOK, RequestsOK
  <1>4. Applying' = {r}
    <2>1. \A s \in Requests : pc'[s] \in {"off", [pc EXCEPT ![r] = step][s]}
      BY <1>1 DEF DaemonDown
    <2>2. \A s \in Requests : s # r => pc[s] \notin LockedSteps /\ pc'[s] \in {"off", pc[s]}
      BY <1>2, <2>1, AtWorkIs DEF Applying, Steady, UTypeOK, RequestsOK
    <2>3. step \in LockedSteps /\ "off" \notin LockedSteps
      BY DEF LockedSteps, HelperSteps
    <2> QED BY <1>2, <1>3, <2>2, <2>3 DEF Applying
  <1>5. UNCHANGED <<dirs, tmp, current, file, bad>>
    BY DEF Stop, diskVars
  <1> QED BY <1>1, <1>2, <1>3, <1>4, <1>5

LEMMA StopSure ==
  ASSUME Steady, NEW r \in Requests, Stop(r)
  PROVE  OnRecord'
  <1>1. /\ r \in Applying /\ Applying' = {r} /\ job'[r] = job[r]
        /\ <<pc[r], pc'[r]>> \in {<<"kept", "stopped">>, <<"failing", "back">>}
        /\ UNCHANGED <<dirs, current, file, bad>>
    BY StopStays
  <1>2. AtWork(r)'
    BY <1>1, AtWorkIs DEF AtWork, Swapping, Files, Stands
  <1> QED BY <1>1, <1>2, AtWorkIs DEF OnRecord, Recorded, AtRest

LEMMA StopFailsSure ==
  ASSUME Steady, NEW r \in Requests, StopFails(r)
  PROVE  OnRecord'
  <1>1. r \in Applying /\ pc[r] \in {"kept", "failing"} /\ UNCHANGED <<dirs, current, file, bad>>
    BY DEF StopFails, Applying, LockedSteps, HelperSteps, diskVars
  <1>2. CASE Ends(r)
    BY <1>1, <1>2, LeavesSure DEF Swapping
  <1>3. CASE pc[r] = "kept" /\ Goto(r, "stopped") /\ UNCHANGED job
    <2>1. pc'[r] = "stopped"
      BY <1>1, <1>3 DEF Goto, Steady, UTypeOK, RequestsOK
    <2>2. Stands(r)' = Stands(r)
      BY <1>3, <2>1 DEF Stands
    <2> QED BY <1>1, <1>3, <2>2, GoesSure DEF Swapping, LockedSteps, HelperSteps
  <1>4. CASE pc[r] = "failing" /\ Goto(r, "back") /\ UNCHANGED job
    <2>1. pc'[r] = "back" /\ job[r].verdict = "health"
      BY <1>1, <1>4, AtWorkIs DEF Goto, Steady, UTypeOK, RequestsOK, AtWork
    <2>2. Stands(r)' = Stands(r)
      BY <1>4, <2>1 DEF Stands
    <2> QED BY <1>1, <1>4, <2>1, <2>2, GoesSure DEF Swapping, LockedSteps, HelperSteps
  <1> QED BY <1>2, <1>3, <1>4 DEF StopFails, Leaves

LEMMA UnpointSure ==
  ASSUME Steady, NEW r \in Requests, Unpoint(r)
  PROVE  OnRecord'
  <1>1. /\ r \in Applying /\ pc[r] \in {"stopped", "back"} /\ Labelled(dirs[Target(r)])
        /\ UNCHANGED <<dirs, file, bad, job>>
    BY DEF Unpoint, Applying, LockedSteps, HelperSteps
  <1>2. PICK step \in {"pointing", "reversing"} :
          Goto(r, step) /\ (step = "pointing" <=> pc[r] = "stopped")
    BY <1>1 DEF Unpoint
  <1>3. pc'[r] = step /\ Applying' = {r}
    BY <1>1, <1>2, StaysInside DEF Steady, LockedSteps, HelperSteps
  <1>4. Target(r)' = Target(r)
    BY <1>1, <1>2, <1>3 DEF Target
  <1>5. current'.ver \notin bad
    <2>1. current'.ver \in {0, current.ver}
      BY DEF Unpoint, Gone, Steady, UTypeOK, DiskOK
    <2>2. 0 \notin bad
      BY UpdateAssumption DEF Steady, UTypeOK, HistoryOK, Versions
    <2>3. current.ver \notin bad
      BY <1>1, AtWorkIs DEF AtWork, Swapping
    <2> QED BY <2>1, <2>2, <2>3
  <1>6. AtWork(r)'
    BY <1>1, <1>2, <1>3, <1>4, <1>5, AtWorkIs DEF AtWork, Swapping
  <1> QED BY <1>1, <1>3, <1>6, AtWorkIs DEF OnRecord, Recorded, AtRest

LEMMA PointSure ==
  ASSUME Steady, NEW r \in Requests, Point(r)
  PROVE  OnRecord'
  <1>1. /\ r \in Applying /\ Swapping(r) /\ UNCHANGED <<dirs, file, bad, job>>
        /\ current'.ver = Target(r) /\ current'.is \in {"link", dirs[Target(r)]}
    BY DEF Point, Swapping, Applying, LockedSteps, HelperSteps
  <1>2. PICK step \in {"pointed", "reversed"} :
          Goto(r, step) /\ (step = "pointed" <=> pc[r] = "pointing")
    BY DEF Point
  <1>3. pc'[r] = step /\ Applying' = {r}
    BY <1>1, <1>2, StaysInside DEF Steady, LockedSteps, HelperSteps
  <1>4. Labelled(dirs[Target(r)])
    BY <1>1, AtWorkIs DEF AtWork
  <1>5. Labelled(Files(current))'
    BY <1>1, <1>4 DEF Files, Labelled
  <1>6. Stands(r)' = Target(r)
    BY <1>1, <1>2, <1>3, AtWorkIs DEF AtWork, Stands, Target, Swapping
  <1>7. AtWork(r)'
    BY <1>1, <1>2, <1>3, <1>5, <1>6, AtWorkIs DEF AtWork, Swapping
  <1> QED BY <1>1, <1>3, <1>7, AtWorkIs DEF OnRecord, Recorded, AtRest

LEMMA SwapFailsSure ==
  ASSUME Steady, Sure', NEW r \in Requests, SwapFails(r)
  PROVE  OnRecord'
  <1>1. /\ r \in Applying /\ pc[r] \in {"stopped", "back"}
        /\ UNCHANGED <<dirs, current, file, bad>>
    BY DEF SwapFails, Harm, Sure, Applying, LockedSteps, HelperSteps, diskVars
  <1>2. CASE Ends(r)
    BY <1>1, <1>2, LeavesSure DEF Swapping
  <1>3. CASE pc[r] = "stopped" /\ Goto(r, "back") /\ job' = [job EXCEPT ![r].verdict = "swap"]
    <2>1. pc'[r] = "back" /\ job[r].verdict = "none"
      BY <1>1, <1>3, JobType DEF Goto, Steady, UTypeOK, RequestsOK, JudgedSteps
    <2>2. job'[r].ver = job[r].ver /\ job'[r].from = job[r].from /\ job'[r].verdict = "swap"
      BY <1>3, JobType, <1>1 DEF Steady, UTypeOK, RequestsOK, Job
    <2>3. Stands(r)' = Stands(r)
      BY <1>3, <2>1, <2>2 DEF Stands
    <2> QED BY <1>1, <1>3, <2>2, <2>3, GoesSure DEF Swapping, LockedSteps, HelperSteps
  <1>4. CASE pc[r] = "back" /\ job[r].verdict = "swap" /\ Goto(r, "reversed") /\ UNCHANGED job
    <2>1. pc'[r] = "reversed"
      BY <1>1, <1>4 DEF Goto, Steady, UTypeOK, RequestsOK
    <2>2. Stands(r)' = Stands(r)
      BY <1>4, <2>1 DEF Stands
    <2> QED BY <1>1, <1>4, <2>2, GoesSure DEF Swapping, LockedSteps, HelperSteps
  <1> QED BY <1>1, <1>2, <1>3, <1>4 DEF SwapFails, Leaves

LEMMA StartSure ==
  ASSUME Steady, NEW r \in Requests, Start(r) \/ StartFails(r) \/ Healthy(r) \/ RecordLoad(r)
  PROVE  OnRecord'
  <1>1. /\ r \in Applying /\ pc[r] \in {"pointed", "reversed", "up", "recording"}
        /\ UNCHANGED <<dirs, current, file, bad>>
    BY DEF Start, StartFails, Healthy, RecordLoad, Applying, LockedSteps, HelperSteps, diskVars
  <1>2. job[r] \in Job /\ (pc[r] \in JudgedSteps <=> job[r].verdict # "none")
    BY <1>1, JobType DEF Steady
  <1>3. PICK step \in {"up", "recording", "failing", "saving"} :
          /\ Goto(r, step)
          /\ pc[r] = "pointed" => step \in {"up", "failing"}
          /\ pc[r] = "up" => step \in {"recording", "failing"}
          /\ pc[r] = "reversed" => step = "recording"
          /\ pc[r] = "recording" => step = "saving"
          /\ step = "failing" => job' = [job EXCEPT ![r].verdict = "health"]
          /\ pc[r] = "up" /\ step = "recording" => job' = [job EXCEPT ![r].verdict = "ok"]
          /\ step = "up" \/ pc[r] = "reversed" => UNCHANGED job
          /\ step = "saving" => job' = [job EXCEPT ![r].mem = file]
    BY <1>1 DEF Start, StartFails, Healthy, RecordLoad
  <1>4. pc'[r] = step
    BY <1>1, <1>3 DEF Goto, Steady, UTypeOK, RequestsOK
  <1>5. /\ job'[r].ver = job[r].ver /\ job'[r].from = job[r].from
        /\ step = "failing" => job'[r].verdict = "health"
        /\ pc[r] = "up" /\ step = "recording" => job'[r].verdict = "ok"
        /\ step \in {"up", "saving"} \/ pc[r] = "reversed" => job'[r].verdict = job[r].verdict
    BY <1>1, <1>2, <1>3 DEF Steady, UTypeOK, RequestsOK, Job
  <1>6. pc[r] = "reversed" => job[r].verdict \in {"swap", "health"}
    BY <1>1, AtWorkIs DEF AtWork
  <1>7. Stands(r)' = Stands(r)
    BY <1>1, <1>3, <1>4, <1>5, <1>6 DEF Stands
  <1> QED BY <1>1, <1>3, <1>5, <1>7, GoesSure DEF Swapping, LockedSteps, HelperSteps

LEMMA RecordSaveSure ==
  ASSUME Steady, Sure', NEW r \in Requests, RecordSave(r)
  PROVE  OnRecord'
  <1> DEFINE failed == IF job[r].verdict = "health" THEN {job[r].ver} ELSE {}
  <1>1. /\ r \in Applying /\ pc[r] = "saving" /\ Goto(r, "tidying")
        /\ bad' = bad \cup failed /\ UNCHANGED <<dirs, current>>
        /\ job' = [job EXCEPT ![r].mem = NoFile]
    BY DEF RecordSave, Applying, LockedSteps, HelperSteps, diskVars
  <1>2. pc'[r] = "tidying" /\ Applying' = {r}
    BY <1>1, StaysInside DEF Steady, LockedSteps, HelperSteps
  <1>3. /\ job'[r].ver = job[r].ver /\ job'[r].from = job[r].from
        /\ job'[r].verdict = job[r].verdict
    BY <1>1, JobType DEF Steady, UTypeOK, RequestsOK, Job
  <1>4. Recorded'
    <2>1. file.failed \subseteq job[r].mem.failed /\ file'.failed = job[r].mem.failed \cup failed
      BY WritesRecord DEF RecordSave
    <2> QED BY <1>1, <2>1, AtWorkIs DEF Recorded
  <1>5. Stands(r)' = Stands(r) /\ Files(current)' = Files(current)
    BY <1>1, <1>2, <1>3 DEF Stands, Files
  <1>6. job[r].from # job[r].ver
    BY <1>1, JobType, AtWorkIs, UpdateAssumption DEF Steady, AtWork, Versions
  <1>7. AtWork(r)'
    BY <1>1, <1>2, <1>3, <1>5, <1>6, AtWorkIs DEF AtWork, Swapping
  <1> QED BY <1>2, <1>4, <1>7 DEF OnRecord, AtRest

(* What tidying removes is never what is current. *)
LEMMA TidyKeeps ==
  ASSUME Steady, NEW r \in Requests, Tidy(r)
  PROVE  /\ r \in Applying /\ pc[r] = "tidying"
         /\ current.is = "link" => dirs'[current.ver] = dirs[current.ver]
  <1>1. r \in Applying /\ pc[r] = "tidying"
    BY DEF Tidy, Applying, LockedSteps, HelperSteps
  <1>2. current.ver = Stands(r)
    BY <1>1, AtWorkIs DEF AtWork, Swapping
  <1>3. current.ver \notin Outdated(r)
    <2>1. job[r].ver \in Nat /\ job[r].from \in Nat /\ job[r].from < job[r].ver
      BY <1>1, JobType, AtWorkIs, UpdateAssumption DEF Steady, AtWork, Versions
    <2>2. current.ver = IF job[r].verdict = "ok" THEN job[r].ver ELSE job[r].from
      BY <1>1, <1>2 DEF Stands
    <2> QED BY <2>1, <2>2 DEF Outdated
  <1>4. current.is = "link" => current.ver \in Versions
    BY DEF Steady, UTypeOK, DiskOK
  <1> QED BY <1>1, <1>3, <1>4 DEF Tidy

LEMMA TidySure ==
  ASSUME Steady, NEW r \in Requests, Tidy(r)
  PROVE  OnRecord'
  <1>1. r \in Applying /\ pc[r] = "tidying" /\ Ends(r) /\ UNCHANGED <<current, file, bad>>
    BY TidyKeeps DEF Tidy, Leaves
  <1> QED BY <1>1, TidyKeeps, LeavesSure DEF Swapping

LEMMA RecordFailsSure ==
  ASSUME Steady, NEW r \in Requests, RecordFails(r)
  PROVE  OnRecord'
  <1>1. r \in Applying /\ pc[r] = "saving" /\ Ends(r) /\ UNCHANGED <<dirs, current, file, bad>>
    BY DEF RecordFails, Leaves, Applying, LockedSteps, HelperSteps, diskVars
  <1> QED BY <1>1, LeavesSure DEF Swapping

LEMMA DiesSure ==
  ASSUME Steady, Sure', NEW r \in Requests, Dies(r)
  PROVE  OnRecord'
  <1>1. Ends(r) /\ UNCHANGED <<dirs, current, file, bad>>
    BY DEF Dies, diskVars
  <1>2. CASE r \in Applying
    <2>1. ~Swapping(r)
      BY DEF Dies, Harm, Sure, Swapping
    <2> QED BY <1>1, <1>2, <2>1, LeavesSure
  <1>3. CASE r \notin Applying
    <2>1. Goto(r, "off") /\ "off" \notin LockedSteps
      BY <1>1 DEF Ends, LockedSteps, HelperSteps
    <2>2. Applying' = Applying /\ \A s \in Applying : pc'[s] = pc[s]
      BY <1>3, <2>1, OutsideStays DEF Steady
    <2>3. \A s \in Applying : job'[s] = job[s]
      BY <1>1, <1>3 DEF Ends, Steady, UTypeOK, RequestsOK, Applying
    <2> QED BY <1>1, <2>2, <2>3, Undisturbed
  <1> QED BY <1>2, <1>3

LEMMA VersionStep == UTypeOK /\ LockInv /\ VersionInv /\ [Next]_uvars => VersionInv'
  <1> SUFFICES ASSUME UTypeOK, LockInv, VersionInv, [Next]_uvars, Sure' PROVE OnRecord'
    BY DEF VersionInv
  <1>1. CASE UNCHANGED uvars
    BY <1>1 DEF uvars, diskVars, VersionInv, Sure, OnRecord, Recorded, AtRest, AtWork, Applying,
                Files, Swapping, Stands, Target
  <1>2. CASE Next
    <2>1. Steady
      BY <1>2, SureStays DEF Steady, LockInv, VersionInv, Sure
    <2>2. ASSUME NEW r \in Requests, Helper(r) PROVE OnRecord'
      BY <2>1, <2>2, RequestsSure, TakeSure, KeepSure, StopSure, UnpointSure, PointSure,
         SwapFailsSure, StartSure, RecordSaveSure, TidySure DEF Helper
    <2>3. CASE \E r \in Requests : KeepFails(r) \/ StopFails(r) \/ RecordFails(r) \/ Dies(r)
      BY <2>1, <2>3, KeepFailsSure, StopFailsSure, RecordFailsSure, DiesSure
    <2> QED BY <1>2, <2>1, <2>2, <2>3, DaemonSure, ChecksSure, RequestsSure DEF Next
  <1> QED BY <1>1, <1>2

LEMMA VersionInit == Init => VersionInv
  <1> SUFFICES ASSUME Init PROVE OnRecord
    BY DEF VersionInv
  <1>1. Applying = {}
    BY DEF Init, Applying, LockedSteps, HelperSteps
  <1>2. Labelled(Files(current))
    BY UpdateAssumption DEF Init, Files, Labelled
  <1> QED BY <1>1, <1>2 DEF Init, OnRecord, Recorded, AtRest, NoFile

LEMMA NotBad == UTypeOK /\ VersionInv => FailedGone
  <1> SUFFICES ASSUME UTypeOK, OnRecord, Sure PROVE current.ver \notin bad
    BY DEF VersionInv, FailedGone, Sure
  <1>1. ASSUME NEW r \in Applying PROVE current.ver \notin bad
    BY <1>1 DEF OnRecord, AtWork, Stands
  <1> QED BY <1>1 DEF OnRecord, AtRest

-----------------------------------------------------------------------------
(***************************************************************************)
(* There is always a complete version to start.  Complete is what a check  *)
(* unpacked alone into a .tmp folder that it then put in its place; so the *)
(* folder a helper is sent to is complete unless its version is on record  *)
(* as failed or has been overtaken, and neither is ever chosen.            *)
(***************************************************************************)
Unharmed == harm \subseteq {"gaveup"}

RestWhole == Applying = {} => Files(current) = "whole"

WorkWhole(r) ==
  /\ ~Swapping(r) => Files(current) = "whole"
  /\ pc[r] \in {"keeping", "kept", "stopped", "pointing"} => dirs[job[r].ver] = "whole"
  /\ pc[r] \in {"kept", "stopped", "pointing", "pointed", "up", "failing", "back", "reversing"}
       => dirs[job[r].from] = "whole"

StandsWhole == RestWhole /\ \A r \in Applying : WorkWhole(r)

OneStaging == \A v \in Versions : \A c, d \in Staging(v) : c = d

Unpacked == \A c \in Checkers : /\ cpc[c] = "unzipping" => task[c].clean
                                /\ cpc[c] = "clearing" => tmp[task[c].ver] = "whole"

(* Older than, or the same as, what an update that is over has left. *)
Overtaken(v) == IF Applying = {} THEN v <= current.ver ELSE \A r \in Applying : v <= job[r].from

Trusted(v) == dirs[v] # "torn" \/ v \in file.failed \/ Overtaken(v)

StagedTrusted == /\ file.staged # 0 => Trusted(file.staged)
                 /\ \A c \in Checkers : cpc[c] = "noting" => Trusted(task[c].ver)

Whole == StandsWhole /\ OneStaging /\ Unpacked /\ StagedTrusted

WholeInv == Unharmed => Whole

Fine == Steady /\ Unharmed /\ Whole

LEMMA UnharmedStays == ASSUME Next, Unharmed' PROVE Unharmed
  BY HarmStays DEF Unharmed

LEMMA UnharmedSure == Unharmed => Sure /\ "robbed" \notin harm
  BY DEF Unharmed, Sure

-----------------------------------------------------------------------------
(* What a step may do with the helper in the lock. *)
Same == Applying' = Applying /\ \A s \in Applying : pc'[s] = pc[s] /\ job'[s] = job[s]

GoesOn(r) ==
  /\ r \in Applying /\ Applying = {r} /\ Applying' = {r}
  /\ job'[r].ver = job[r].ver /\ job'[r].from = job[r].from

Left(r) ==
  /\ r \in Applying /\ Applying = {r} /\ Applying' = {}
  /\ ~Swapping(r) /\ UNCHANGED current

Entered(r) ==
  /\ Applying = {} /\ Applying' = {r} /\ job'[r].from = current.ver /\ UNCHANGED current
  /\ job'[r].ver = job[r].ver

LEMMA DaemonMoves ==
  ASSUME Steady, DaemonStarts \/ DaemonEnds \/ SafetyChanges \/ Age
  PROVE  Same /\ UNCHANGED <<dirs, tmp, current, file, bad>>
  <1>1. UNCHANGED <<dirs, tmp, current, file, bad>>
    BY DEF DaemonStarts, DaemonEnds, SafetyChanges, Age, diskVars
  <1>2. CASE DaemonEnds
    BY <1>1, <1>2, DaemonEndsStays DEF Steady, Same
  <1>3. CASE UNCHANGED <<pc, job>>
    BY <1>1, <1>3 DEF Applying, Same
  <1> QED BY <1>2, <1>3 DEF DaemonStarts, SafetyChanges, Age

LEMMA CheckMoves ==
  ASSUME NEW c \in Checkers, CheckBegin(c) \/ Check(c) \/ CheckFails(c)
  PROVE  Same /\ UNCHANGED <<current, bad>>
  <1>1. UNCHANGED <<pc, job, current, bad>>
    BY DEF CheckBegin, Check, CheckSave, Stage, Leave, Clear, Place, CheckFails, diskVars
  <1> QED BY <1>1 DEF Same, Applying

LEMMA RequestMoves ==
  ASSUME Steady, NEW r \in Requests,
         \/ LoopChooses(r) \/ UserChooses(r) \/ Copy(r) \/ SpawnFails(r) \/ Spawn(r)
         \/ RemoveStale(r) \/ TakeFails(r) \/ (Dies(r) /\ r \notin Applying)
  PROVE  Same /\ UNCHANGED <<dirs, tmp, current, file, bad, cpc, task>>
  <1>1. UNCHANGED <<dirs, tmp, current, file, bad, cpc, task>>
    BY DEF LoopChooses, UserChooses, Choose, Copy, SpawnFails, Spawn, RemoveStale, TakeFails,
           Dies, diskVars
  <1>2. PICK step \in {"chosen", "copied", "off", "stale", "taking"} : Goto(r, step)
    BY DEF LoopChooses, UserChooses, Choose, Copy, SpawnFails, Spawn, RemoveStale, TakeFails,
           Dies, Ends
  <1>3. r \notin Applying /\ step \notin LockedSteps
    BY DEF LoopChooses, UserChooses, Choose, Copy, SpawnFails, SpawnFailed, Spawn, RemoveStale,
           TakeFails, Applying, LockedSteps, HelperSteps
  <1>4. \A s \in Applying : job'[s] = job[s]
    <2>1. UNCHANGED job \/ (\E j : job' = [job EXCEPT ![r] = j])
      BY DEF LoopChooses, UserChooses, Choose, Copy, SpawnFails, Spawn, RemoveStale, TakeFails,
             Dies, Ends
    <2> QED BY <1>3, <2>1 DEF Steady, UTypeOK, RequestsOK, Applying
  <1>5. Applying' = Applying /\ \A s \in Applying : pc'[s] = pc[s]
    BY <1>2, <1>3, OutsideStays DEF Steady
  <1> QED BY <1>1, <1>4, <1>5 DEF Same

LEMMA LeavesMoves ==
  ASSUME Steady, NEW r \in Applying, Ends(r), ~Swapping(r), UNCHANGED current
  PROVE  Left(r)
  BY LeavesEmpty, AtWorkIs DEF Steady, Left

LEMMA GoesMoves ==
  ASSUME Steady, NEW r \in Applying, NEW step \in LockedSteps, Goto(r, step),
         \/ UNCHANGED job
         \/ \E x \in {"ok", "swap", "health"} : job' = [job EXCEPT ![r].verdict = x]
         \/ \E m : job' = [job EXCEPT ![r].mem = m]
  PROVE  GoesOn(r) /\ pc'[r] = step
  <1>1. Applying = {r} /\ Applying' = {r} /\ pc'[r] = step
    BY AtWorkIs, StaysInside DEF Steady
  <1>2. job'[r].ver = job[r].ver /\ job'[r].from = job[r].from
    BY JobType DEF Steady, UTypeOK, RequestsOK, Job
  <1> QED BY <1>1, <1>2 DEF GoesOn

LEMMA StopMoves ==
  ASSUME Steady, NEW r \in Requests, Stop(r)
  PROVE  /\ GoesOn(r) /\ pc'[r] = IF pc[r] = "kept" THEN "stopped" ELSE "back"
         /\ pc[r] \in {"kept", "failing"} /\ UNCHANGED <<dirs, tmp, current, file, bad>>
  BY StopStays, AtWorkIs DEF GoesOn

(* The steps of an update that stays in its lock, by what they are for. *)
LEMMA InsideMoves ==
  ASSUME Steady, NEW r \in Requests,
         \/ Keep(r) \/ Unpoint(r) \/ Point(r) \/ Start(r) \/ StartFails(r) \/ Healthy(r)
         \/ RecordLoad(r) \/ RecordSave(r)
  PROVE  GoesOn(r) /\ UNCHANGED <<tmp, cpc, task>>
  <1>1. r \in Applying /\ UNCHANGED <<tmp, cpc, task>>
    BY DEF Keep, Unpoint, Point, Start, StartFails, Healthy, RecordLoad, RecordSave, Applying,
           LockedSteps, HelperSteps, diskVars
  <1>2. PICK step \in LockedSteps : Goto(r, step)
    BY DEF Keep, Unpoint, Point, Start, StartFails, Healthy, RecordLoad, RecordSave,
           LockedSteps, HelperSteps
  <1>3. \/ UNCHANGED job
        \/ \E x \in {"ok", "swap", "health"} : job' = [job EXCEPT ![r].verdict = x]
        \/ \E m : job' = [job EXCEPT ![r].mem = m]
    BY DEF Keep, Unpoint, Point, Start, StartFails, Healthy, RecordLoad, RecordSave
  <1> QED BY <1>1, <1>2, <1>3, GoesMoves

LEMMA EndMoves ==
  ASSUME Steady, Unharmed', NEW r \in Requests,
         RecordFails(r) \/ Tidy(r) \/ (Dies(r) /\ r \in Applying)
  PROVE  Left(r) /\ UNCHANGED <<tmp, cpc, task, file>>
  <1>1. /\ r \in Applying /\ Ends(r) /\ UNCHANGED <<tmp, cpc, task, file, current>>
        /\ ~Swapping(r)
    BY DEF RecordFails, Tidy, Dies, Leaves, Applying, LockedSteps, HelperSteps, diskVars, Harm,
           Unharmed, Swapping
  <1> QED BY <1>1, LeavesMoves

(* Two steps that may go on or leave; neither touches a folder. *)
LEMMA FailureMoves ==
  ASSUME Steady, Unharmed', NEW r \in Requests, StopFails(r) \/ SwapFails(r)
  PROVE  /\ UNCHANGED <<dirs, tmp, current, file, bad, cpc, task>> /\ ~Swapping(r)
         /\ \/ Left(r)
            \/ /\ GoesOn(r)
               /\ <<pc[r], pc'[r]>> \in {<<"kept", "stopped">>, <<"failing", "back">>,
                                         <<"stopped", "back">>, <<"back", "reversed">>}
  <1>1. /\ r \in Applying /\ ~Swapping(r)
        /\ UNCHANGED <<dirs, tmp, current, file, bad, cpc, task>>
    BY DEF StopFails, SwapFails, Harm, Unharmed, Swapping, Applying, LockedSteps, HelperSteps,
           diskVars
  <1>2. CASE Ends(r)
    BY <1>1, <1>2, LeavesMoves
  <1>3. ASSUME ~Ends(r)
        PROVE  /\ \/ UNCHANGED job
                  \/ \E x \in {"ok", "swap", "health"} : job' = [job EXCEPT ![r].verdict = x]
               /\ \E step \in {"stopped", "back", "reversed"} :
                    /\ Goto(r, step)
                    /\ <<pc[r], step>> \in {<<"kept", "stopped">>, <<"failing", "back">>,
                                            <<"stopped", "back">>, <<"back", "reversed">>}
    BY <1>1, <1>3 DEF StopFails, SwapFails, Leaves, Swapping
  <1> QED BY <1>1, <1>2, <1>3, GoesMoves DEF LockedSteps, HelperSteps

LEMMA TakeMoves ==
  ASSUME Fine, Unharmed', NEW r \in Requests, Take(r)
  PROVE  /\ UNCHANGED <<tmp, current, file, cpc, task>>
         /\ Applying = {} /\ Here(Versions) = {current.ver} /\ Files(current) = "whole"
         /\ \/ Same /\ UNCHANGED dirs
            \/ /\ Entered(r) /\ job[r].ver \in Staged(Versions)
               /\ \/ /\ pc'[r] = "keeping" /\ current.is # "link"
                     /\ dirs' = [dirs EXCEPT ![current.ver] = "bare"]
                  \/ pc'[r] = "kept" /\ UNCHANGED dirs /\ dirs[current.ver] = "whole"
  <1>1. Applying = {} /\ UNCHANGED <<tmp, current, file, cpc, task>>
    BY DEF Take, Fine, Steady, Locked
  <1>2. Files(current) = "whole"
    BY <1>1 DEF Fine, Whole, StandsWhole, RestWhole
  <1>3. Here(Versions) = {current.ver}
    BY <1>2 DEF Here, Labelled
  <1>4. CASE ~Labelled(dirs[job[r].ver])
    <2>1. Goto(r, "off") /\ UNCHANGED dirs
      BY <1>4 DEF Take, Leaves, Ends
    <2>2. Applying' = {}
      BY <1>1, <2>1 DEF Goto, Applying, Fine, Steady, UTypeOK, RequestsOK, LockedSteps, HelperSteps
    <2> QED BY <1>1, <1>2, <1>3, <2>1, <2>2 DEF Same
  <1>5. CASE Labelled(dirs[job[r].ver])
    <2>1. PICK step \in {"keeping", "kept"} :
            /\ Goto(r, step) /\ job' = [job EXCEPT ![r].from = current.ver]
            /\ step = "keeping" =>
                 current.is # "link" /\ dirs' = [dirs EXCEPT ![current.ver] = "bare"]
            /\ step = "kept" =>
                 UNCHANGED dirs /\ ~(dirs[current.ver] = "none" /\ current.is \notin {"link", "gone"})
      BY <1>3, <1>5 DEF Take
    <2>2. /\ job[r].ver \in Staged(Versions)
          /\ current.is # "link" => dirs[current.ver] \notin {"bare", "torn"}
      BY <1>3, <1>5 DEF Take, Harm, Unharmed
    <2>3. job'[r].from = current.ver /\ job'[r].ver = job[r].ver
      BY <2>1 DEF Fine, Steady, UTypeOK, RequestsOK, Job
    <2>4. pc'[r] = step /\ Applying' = {r}
      BY <1>1, <2>1 DEF Goto, Applying, Fine, Steady, UTypeOK, RequestsOK, LockedSteps, HelperSteps
    <2>5. step = "kept" => dirs[current.ver] = "whole"
      <3>1. current.is # "gone" /\ current.ver \in Versions
        BY <1>2 DEF Files, Fine, Steady, UTypeOK, DiskOK
      <3>2. dirs[current.ver] \in Folders
        BY <3>1 DEF Fine, Steady, UTypeOK, DiskOK
      <3> QED BY <1>2, <2>1, <2>2, <3>1, <3>2 DEF Files, Folders
    <2> QED BY <1>1, <1>2, <1>3, <2>1, <2>2, <2>3, <2>4, <2>5 DEF Entered
  <1> QED BY <1>4, <1>5

-----------------------------------------------------------------------------
(* Checks that unpack: one at a time into a folder, and it stays theirs. *)

LEMMA SoiledIs ==
  ASSUME ChecksOK, NEW v \in Versions, NEW d \in Checkers
  PROVE  /\ Soiled(v)[d].ver = task[d].ver
         /\ d \notin Staging(v) => Soiled(v)[d].clean = task[d].clean
  <1>1. task[d] \in Task
    BY DEF ChecksOK
  <1>2. Soiled(v)[d] = [task[d] EXCEPT !.clean = @ /\ d \notin Staging(v)]
    BY DEF Soiled
  <1>3. Soiled(v)[d].ver = task[d].ver
    BY <1>1, <1>2 DEF Task
  <1>4. Soiled(v)[d].clean = (task[d].clean /\ d \notin Staging(v))
    BY <1>1, <1>2 DEF Task
  <1>5. task[d].clean \in BOOLEAN
    BY <1>1 DEF Task
  <1> QED BY <1>3, <1>4, <1>5

(* A check that goes elsewhere than into a folder. *)
LEMMA UnpackGoes ==
  ASSUME UTypeOK, OneStaging, Unpacked, NEW c \in Checkers,
         NEW step \in {"idle", "touching", "judging", "closing"},
         cpc' = [cpc EXCEPT ![c] = step], \A d \in Checkers \ {c} : task'[d] = task[d],
         \A v \in Versions : tmp[v] = "whole" => tmp'[v] = "whole"
  PROVE  OneStaging' /\ Unpacked'
  <1>1. /\ cpc'[c] \notin {"unzipping", "clearing", "noting"}
        /\ \A d \in Checkers \ {c} : cpc'[d] = cpc[d]
    BY DEF UTypeOK, ChecksOK
  <1>2. \A v : Staging(v)' \subseteq Staging(v)
    BY <1>1 DEF Staging
  <1>3. \A d \in Checkers : cpc[d] # "idle" => task[d].ver \in Versions
    BY DEF UTypeOK, ChecksOK, Task
  <1> QED BY <1>1, <1>2, <1>3 DEF OneStaging, Unpacked

LEMMA UnpackKept ==
  ASSUME OneStaging, Unpacked, UNCHANGED <<tmp, cpc, task>>
  PROVE  OneStaging' /\ Unpacked'
  BY DEF OneStaging, Unpacked, Staging

LEMMA UnpackStage ==
  ASSUME Fine, Unharmed', NEW c \in Checkers, Stage(c)
  PROVE  OneStaging' /\ Unpacked'
  <1>1. PICK v \in Versions : v = task[c].ver /\ ChecksOK
    BY DEF Stage, Fine, Steady, UTypeOK, ChecksOK, Task
  <1>2. Staging(v) = {}
    BY <1>1 DEF Stage, Harm, Unharmed
  <1>3. cpc'[c] = "unzipping" /\ \A d \in Checkers \ {c} : cpc'[d] = cpc[d]
    BY <1>1 DEF Stage, ChecksOK
  <1>4. task' = [Soiled(v) EXCEPT ![c].clean = TRUE]
    BY <1>1 DEF Stage
  <1>5. Soiled(v) = [d \in Checkers |-> Soiled(v)[d]]
    BY DEF Soiled
  <1>6. \A d \in Checkers \ {c} : task'[d] = Soiled(v)[d]
    BY <1>4, <1>5
  <1>7. task'[c] = [Soiled(v)[c] EXCEPT !.clean = TRUE]
    BY <1>4, <1>5
  <1>8. Soiled(v)[c] = [task[c] EXCEPT !.clean = @ /\ c \notin Staging(v)]
    BY DEF Soiled
  <1>9. task[c] = [ver |-> task[c].ver, newer |-> task[c].newer, mem |-> task[c].mem,
                   clean |-> task[c].clean]
    BY <1>1 DEF ChecksOK, Task
  <1>10. task'[c].clean = TRUE /\ task'[c].ver = v
    BY <1>1, <1>7, <1>8, <1>9
  <1>11. \A d \in Checkers : task'[d].ver = task[d].ver
    BY <1>1, <1>6, <1>10, SoiledIs
  <1>12. \A d \in Checkers \ {c} : task'[d].clean = task[d].clean
    BY <1>1, <1>2, <1>6, SoiledIs
  <1>13. \A w : w # v => Staging(w)' = Staging(w)
    BY <1>1, <1>3, <1>11 DEF Staging
  <1>14. Staging(v)' \subseteq {c}
    BY <1>1, <1>2, <1>3, <1>11 DEF Staging
  <1>15. OneStaging'
    BY <1>13, <1>14 DEF OneStaging, Fine, Whole
  <1>16. ASSUME NEW d \in Checkers, cpc'[d] = "unzipping" PROVE task'[d].clean
    BY <1>3, <1>10, <1>12, <1>16 DEF Fine, Whole, Unpacked
  <1>17. ASSUME NEW d \in Checkers, cpc'[d] = "clearing" PROVE tmp'[task'[d].ver] = "whole"
    <2>1. d # c /\ cpc[d] = "clearing" /\ task'[d].ver = task[d].ver
      BY <1>3, <1>11, <1>17
    <2>2. task[d].ver # v
      BY <1>2, <2>1 DEF Staging
    <2>3. tmp' = [tmp EXCEPT ![v] = "torn"]
      BY <1>1 DEF Stage
    <2>4. tmp'[task[d].ver] = tmp[task[d].ver]
      BY <2>1, <2>2, <2>3 DEF Fine, Steady, UTypeOK, DiskOK, ChecksOK, Task
    <2> QED BY <2>1, <2>4 DEF Fine, Whole, Unpacked
  <1> QED BY <1>15, <1>16, <1>17 DEF Unpacked

LEMMA UnpackClear ==
  ASSUME Fine, NEW c \in Checkers, Clear(c)
  PROVE  OneStaging' /\ Unpacked'
  <1> DEFINE v == task[c].ver
  <1>1. v \in Versions /\ cpc[c] = "unzipping" /\ task[c].clean
    BY DEF Clear, Fine, Steady, UTypeOK, ChecksOK, Task, Whole, Unpacked
  <1>2. tmp' = [tmp EXCEPT ![v] = "whole"]
    BY <1>1 DEF Clear
  <1>3. tmp'[v] = "whole" /\ \A w \in Versions : tmp[w] = "whole" => tmp'[w] = "whole"
    BY <1>1, <1>2 DEF Fine, Steady, UTypeOK, DiskOK
  <1>4. CASE Closes(c)
    <2>1. /\ cpc' = [cpc EXCEPT ![c] = "closing"]
          /\ \A d \in Checkers \ {c} : task'[d] = task[d]
      BY <1>4 DEF Closes, Goes, Fine, Steady, UTypeOK, ChecksOK
    <2> QED BY <1>3, <2>1, UnpackGoes DEF Fine, Steady, Whole
  <1>5. CASE Goes(c, "clearing", task[c])
    <2>1. cpc'[c] = "clearing" /\ \A d \in Checkers \ {c} : cpc'[d] = cpc[d]
      BY <1>5 DEF Goes, Fine, Steady, UTypeOK, ChecksOK
    <2>2. \A d \in Checkers : task'[d] = task[d]
      BY <1>5 DEF Goes, Fine, Steady, UTypeOK, ChecksOK
    <2>3. \A w : Staging(w)' = Staging(w)
      BY <1>1, <2>1, <2>2 DEF Staging
    <2>4. OneStaging'
      BY <2>3 DEF OneStaging, Fine, Whole
    <2>5. \A d \in Checkers : cpc[d] # "idle" => task[d].ver \in Versions
      BY DEF Fine, Steady, UTypeOK, ChecksOK, Task
    <2>6. Unpacked'
      BY <1>3, <2>1, <2>2, <2>5 DEF Unpacked, Fine, Whole
    <2> QED BY <2>4, <2>6
  <1> QED BY <1>4, <1>5 DEF Clear

LEMMA UnpackPlace ==
  ASSUME Fine, NEW c \in Checkers, Place(c)
  PROVE  OneStaging' /\ Unpacked'
  <1> DEFINE v == task[c].ver
  <1>1. v \in Versions /\ ChecksOK /\ cpc[c] = "clearing"
    BY DEF Place, Fine, Steady, UTypeOK, ChecksOK, Task
  <1>2. CASE ~(dirs[v] = "none" /\ tmp[v] # "none")
    <2>1. Closes(c) /\ UNCHANGED tmp
      BY <1>2 DEF Place
    <2>2. /\ cpc' = [cpc EXCEPT ![c] = "closing"]
          /\ \A d \in Checkers \ {c} : task'[d] = task[d]
      BY <1>1, <2>1 DEF Closes, Goes, ChecksOK
    <2> QED BY <2>1, <2>2, UnpackGoes DEF Fine, Steady, Whole
  <1>3. CASE dirs[v] = "none" /\ tmp[v] # "none"
    <2>1. /\ tmp' = [tmp EXCEPT ![v] = "none"]
          /\ task' = [Soiled(v) EXCEPT ![c].mem = file]
          /\ cpc' = [cpc EXCEPT ![c] = "noting"]
      BY <1>3 DEF Place
    <2>2. cpc'[c] = "noting" /\ \A d \in Checkers \ {c} : cpc'[d] = cpc[d]
      BY <1>1, <2>1 DEF ChecksOK
    <2>3. c \in Staging(v) /\ \A d \in Staging(v) : d = c
      BY <1>1 DEF Staging, Fine, Whole, OneStaging
    <2>4. Soiled(v) = [d \in Checkers |-> Soiled(v)[d]]
      BY DEF Soiled
    <2>5. \A d \in Checkers \ {c} : task'[d] = Soiled(v)[d]
      BY <2>1, <2>4
    <2>6. task'[c] = [Soiled(v)[c] EXCEPT !.mem = file]
      BY <2>1, <2>4
    <2>7. task'[c].ver = Soiled(v)[c].ver
      <3>1. Soiled(v)[c] = [task[c] EXCEPT !.clean = @ /\ c \notin Staging(v)]
        BY DEF Soiled
      <3>2. task[c] = [ver |-> task[c].ver, newer |-> task[c].newer, mem |-> task[c].mem,
                       clean |-> task[c].clean]
        BY <1>1 DEF ChecksOK, Task
      <3> QED BY <2>6, <3>1, <3>2
    <2>8. \A d \in Checkers : task'[d].ver = task[d].ver
      BY <1>1, <2>5, <2>7, SoiledIs
    <2>9. \A d \in Checkers \ {c} : task'[d].clean = task[d].clean
      BY <1>1, <2>3, <2>5, SoiledIs
    <2>10. \A w : Staging(w)' = Staging(w)
      BY <1>1, <2>2, <2>8 DEF Staging
    <2>11. OneStaging'
      BY <2>10 DEF OneStaging, Fine, Whole
    <2>12. ASSUME NEW d \in Checkers, cpc'[d] = "unzipping" PROVE task'[d].clean
      BY <2>2, <2>9, <2>12 DEF Fine, Whole, Unpacked
    <2>13. ASSUME NEW d \in Checkers, cpc'[d] = "clearing" PROVE tmp'[task'[d].ver] = "whole"
      <3>1. d # c /\ cpc[d] = "clearing" /\ task'[d].ver = task[d].ver
        BY <2>2, <2>8, <2>13
      <3>2. task[d].ver # v
        BY <2>3, <3>1 DEF Staging
      <3>3. tmp'[task[d].ver] = tmp[task[d].ver]
        BY <2>1, <3>1, <3>2 DEF Fine, Steady, UTypeOK, DiskOK, ChecksOK, Task
      <3> QED BY <3>1, <3>3 DEF Fine, Whole, Unpacked
    <2> QED BY <2>11, <2>12, <2>13 DEF Unpacked
  <1> QED BY <1>2, <1>3

LEMMA UnpackCheck ==
  ASSUME Fine, Unharmed', NEW c \in Checkers, CheckBegin(c) \/ Check(c) \/ CheckFails(c)
  PROVE  OneStaging' /\ Unpacked'
  <1>1. CASE CheckBegin(c) \/ CheckSave(c) \/ Leave(c) \/ CheckFails(c)
    <2>1. PICK step \in {"idle", "touching", "judging", "closing"} : \E then : Goes(c, step, then)
      BY <1>1 DEF CheckBegin, CheckSave, Leave, CheckFails, Closes
    <2>2. UNCHANGED tmp
      BY <1>1 DEF CheckBegin, CheckSave, Leave, CheckFails, diskVars
    <2>3. /\ cpc' = [cpc EXCEPT ![c] = step]
          /\ \A d \in Checkers \ {c} : task'[d] = task[d]
      BY <2>1 DEF Goes, Fine, Steady, UTypeOK, ChecksOK
    <2> QED BY <2>2, <2>3, UnpackGoes DEF Fine, Steady, Whole
  <1> QED BY <1>1, UnpackStage, UnpackClear, UnpackPlace DEF Check

LEMMA UnpackDown ==
  ASSUME Fine, NEW steps, DaemonDown(steps), UNCHANGED tmp
  PROVE  OneStaging' /\ Unpacked'
  <1>1. CASE daemon = 0
    BY <1>1, UnpackKept DEF DaemonDown, Fine, Whole
  <1>2. CASE daemon # 0
    <2>1. Daemon \in Checkers
      BY UpdateAssumption
    <2>2. /\ cpc' = [cpc EXCEPT ![Daemon] = "idle"]
          /\ \A d \in Checkers \ {Daemon} : task'[d] = task[d]
      BY <1>2 DEF DaemonDown, Fine, Steady, UTypeOK, ChecksOK
    <2> QED BY <2>1, <2>2, UnpackGoes DEF Fine, Steady, Whole
  <1> QED BY <1>1, <1>2

LEMMA UnpackStep ==
  ASSUME Fine, Unharmed', Next
  PROVE  OneStaging' /\ Unpacked'
  <1>1. CASE DaemonEnds
    BY <1>1, UnpackDown DEF DaemonEnds, diskVars
  <1>2. ASSUME NEW r \in Requests, Stop(r) PROVE OneStaging' /\ Unpacked'
    BY <1>2, UnpackDown DEF Stop, diskVars
  <1>3. CASE DaemonStarts \/ SafetyChanges \/ Age
    BY <1>3, UnpackKept DEF DaemonStarts, SafetyChanges, Age, diskVars, Fine, Whole
  <1>4. ASSUME NEW r \in Requests,
               \/ LoopChooses(r) \/ UserChooses(r) \/ Copy(r) \/ SpawnFails(r) \/ Spawn(r)
               \/ RemoveStale(r) \/ TakeFails(r)
        PROVE  OneStaging' /\ Unpacked'
    BY <1>4, RequestMoves, UnpackKept DEF Fine, Whole
  <1>5. ASSUME NEW r \in Requests,
               \/ Take(r) \/ Keep(r) \/ Unpoint(r) \/ Point(r) \/ SwapFails(r) \/ Start(r)
               \/ StartFails(r) \/ Healthy(r) \/ RecordLoad(r) \/ RecordSave(r) \/ Tidy(r)
               \/ KeepFails(r) \/ StopFails(r) \/ RecordFails(r) \/ Dies(r)
        PROVE  OneStaging' /\ Unpacked'
    <2>1. UNCHANGED <<tmp, cpc, task>>
      BY <1>5 DEF Take, Keep, Unpoint, Point, SwapFails, Start, StartFails, Healthy, RecordLoad,
                  RecordSave, Tidy, KeepFails, StopFails, RecordFails, Dies, diskVars
    <2> QED BY <2>1, UnpackKept DEF Fine, Whole
  <1> QED BY <1>1, <1>2, <1>3, <1>4, <1>5, UnpackCheck DEF Next, Helper

-----------------------------------------------------------------------------
(* The folders a helper relies on stay complete. *)

LEMMA WorkIs ==
  ASSUME Fine, NEW r \in Applying
  PROVE  WorkWhole(r) /\ AtWork(r)
  BY DEF Fine, Whole, StandsWhole, Steady, OnRecord

LEMMA FoldersKept ==
  ASSUME Fine, Same, UNCHANGED current,
         \A v \in Versions : /\ v = current.ver \/ v \in Uses(Applying)
                             /\ dirs[v] = "whole"
                             => dirs'[v] = "whole"
  PROVE  StandsWhole'
  <1>1. Files(current) = "whole" => Files(current)' = "whole"
    <2>1. current.is = "link" => current.ver \in Versions
      BY DEF Fine, Steady, UTypeOK, DiskOK
    <2> QED BY <2>1 DEF Files
  <1>2. RestWhole'
    BY <1>1 DEF Fine, Whole, StandsWhole, RestWhole, Same
  <1>3. ASSUME NEW r \in Applying PROVE WorkWhole(r)'
    <2>1. pc'[r] = pc[r] /\ job'[r] = job[r] /\ (Swapping(r)' <=> Swapping(r))
      BY DEF Same, Swapping
    <2>2. /\ job[r].ver \in Versions /\ job[r].ver \in Uses(Applying)
          /\ job[r].from \in Versions /\ job[r].from \in Uses(Applying)
      BY JobType DEF Uses, Fine, Steady
    <2> QED BY <1>1, <2>1, <2>2, WorkIs DEF WorkWhole
  <1> QED BY <1>2, <1>3 DEF StandsWhole, Same

(* It leaves, and what it stood on stays current. *)
LEMMA FoldersLeft ==
  ASSUME Fine, NEW r \in Requests, Left(r),
         current.is = "link" => dirs'[current.ver] = dirs[current.ver]
  PROVE  StandsWhole'
  <1>1. Files(current) = "whole"
    BY WorkIs DEF Left, WorkWhole
  <1> QED BY <1>1 DEF Left, Files, StandsWhole, RestWhole

(* It goes on without a change on the disk. *)
Goings == {<<"kept", "stopped">>, <<"stopped", "back">>, <<"pointed", "up">>,
           <<"pointed", "failing">>, <<"up", "failing">>, <<"up", "recording">>,
           <<"failing", "back">>, <<"back", "reversed">>, <<"reversed", "recording">>,
           <<"recording", "saving">>, <<"saving", "tidying">>}

LEMMA FoldersGoOn ==
  ASSUME Fine, NEW r \in Requests, GoesOn(r), UNCHANGED <<dirs, current>>,
         <<pc[r], pc'[r]>> \in Goings
  PROVE  StandsWhole'
  <1>1. WorkWhole(r)
    BY WorkIs DEF GoesOn
  <1>2. ~Swapping(r) /\ ~Swapping(r)' /\ Files(current)' = Files(current)
    BY DEF Goings, Swapping, Files
  <1>3. WorkWhole(r)'
    BY <1>1, <1>2 DEF WorkWhole, Goings, GoesOn
  <1> QED BY <1>3 DEF StandsWhole, RestWhole, GoesOn

LEMMA FoldersTake ==
  ASSUME Fine, Unharmed', NEW r \in Requests, Take(r)
  PROVE  StandsWhole'
  <1>1. CASE Same /\ UNCHANGED dirs
    BY <1>1, TakeMoves, FoldersKept
  <1>2. CASE ~(Same /\ UNCHANGED dirs)
    <2>1. /\ Entered(r) /\ job[r].ver \in Staged(Versions) /\ UNCHANGED <<current, file>>
          /\ Files(current) = "whole" /\ Applying = {} /\ Here(Versions) = {current.ver}
          /\ \/ /\ pc'[r] = "keeping" /\ current.is # "link"
                /\ dirs' = [dirs EXCEPT ![current.ver] = "bare"]
             \/ pc'[r] = "kept" /\ UNCHANGED dirs /\ dirs[current.ver] = "whole"
      BY <1>2, TakeMoves
    <2>2. PICK v \in Versions : /\ v = job[r].ver /\ file.staged = v /\ v > current.ver
                                /\ v \notin file.failed /\ Labelled(dirs[v])
      BY <2>1 DEF Staged
    <2>3. v \in Nat /\ current.ver \in Nat
      BY UpdateAssumption DEF Versions, Fine, Steady, UTypeOK, DiskOK
    <2>4. ~Overtaken(v)
      BY <2>1, <2>2, <2>3 DEF Overtaken
    <2>5. Trusted(v)
      BY <2>2, <2>3, UpdateAssumption DEF Fine, Whole, StagedTrusted, Versions
    <2>6. dirs[v] = "whole"
      BY <2>2, <2>4, <2>5 DEF Trusted, Labelled
    <2>7. dirs'[v] = "whole"
      BY <2>1, <2>2, <2>3, <2>6 DEF Fine, Steady, UTypeOK, DiskOK
    <2>8. Files(current)' = "whole"
      BY <2>1 DEF Files
    <2>9. pc'[r] = "kept" => dirs'[job'[r].from] = "whole"
      BY <2>1 DEF Entered
    <2>10. dirs'[job'[r].ver] = "whole"
      BY <2>1, <2>2, <2>7 DEF Entered
    <2>11. WorkWhole(r)'
      BY <2>1, <2>8, <2>9, <2>10 DEF WorkWhole
    <2> QED BY <2>1, <2>11 DEF StandsWhole, RestWhole, Entered
  <1> QED BY <1>1, <1>2

LEMMA KeepMakes ==
  ASSUME Fine, NEW r \in Requests, Keep(r)
  PROVE  /\ r \in Applying /\ pc[r] = "keeping" /\ pc'[r] = "kept" /\ current.is # "link"
         /\ UNCHANGED <<current, file, bad>>
         /\ dirs' = [dirs EXCEPT ![job[r].from] = "whole"]
  <1>1. r \in Applying /\ pc[r] = "keeping" /\ pc'[r] = "kept" /\ UNCHANGED <<current, file, bad>>
    BY DEF Keep, Goto, Applying, LockedSteps, HelperSteps, Fine, Steady, UTypeOK, RequestsOK
  <1>2. WorkWhole(r) /\ AtWork(r)
    BY <1>1, WorkIs
  <1>3. job[r].verdict = "none"
    BY <1>1, JobType DEF JudgedSteps, Fine, Steady
  <1>4. current.is # "link" /\ current.ver = job[r].from /\ Files(current) = "whole"
    BY <1>1, <1>2, <1>3 DEF AtWork, WorkWhole, Swapping, Stands
  <1>5. dirs' = [dirs EXCEPT ![job[r].from] = "whole"]
    BY <1>4 DEF Keep
  <1> QED BY <1>1, <1>4, <1>5

LEMMA FoldersSwap ==
  ASSUME Fine, NEW r \in Requests, Keep(r) \/ Unpoint(r) \/ Point(r)
  PROVE  StandsWhole'
  <1>1. GoesOn(r) /\ WorkWhole(r) /\ AtWork(r)
    BY InsideMoves, WorkIs DEF GoesOn, Fine
  <1>2. job[r].ver \in Versions /\ job[r].from \in Versions /\ job[r].from # job[r].ver
    <2>1. job[r].ver \in Versions /\ job[r].from \in Versions
      BY <1>1, JobType DEF GoesOn, Fine, Steady
    <2> QED BY <1>1, <2>1, UpdateAssumption DEF AtWork, Versions
  <1>3. CASE Keep(r)
    <2>1. /\ pc[r] = "keeping" /\ pc'[r] = "kept" /\ current.is # "link" /\ UNCHANGED current
          /\ dirs' = [dirs EXCEPT ![job[r].from] = "whole"]
      BY <1>3, KeepMakes
    <2>2. dirs'[job[r].from] = "whole" /\ dirs'[job[r].ver] = dirs[job[r].ver]
      BY <1>2, <2>1 DEF Fine, Steady, UTypeOK, DiskOK
    <2>3. Files(current)' = Files(current)
      BY <2>1 DEF Files
    <2>4. WorkWhole(r)'
      BY <1>1, <2>1, <2>2, <2>3 DEF WorkWhole, Swapping, GoesOn
    <2> QED BY <1>1, <2>4 DEF StandsWhole, RestWhole, GoesOn
  <1>4. CASE Unpoint(r)
    <2>1. /\ <<pc[r], pc'[r]>> \in {<<"stopped", "pointing">>, <<"back", "reversing">>}
          /\ UNCHANGED dirs
      BY <1>4 DEF Unpoint, Goto, Fine, Steady, UTypeOK, RequestsOK
    <2>2. WorkWhole(r)'
      BY <1>1, <2>1 DEF WorkWhole, Swapping, GoesOn
    <2> QED BY <1>1, <2>2 DEF StandsWhole, RestWhole, GoesOn
  <1>5. CASE Point(r)
    <2>1. /\ <<pc[r], pc'[r]>> \in {<<"pointing", "pointed">>, <<"reversing", "reversed">>}
          /\ UNCHANGED dirs
      BY <1>5 DEF Point, Goto, Fine, Steady, UTypeOK, RequestsOK
    <2>2. dirs[Target(r)] = "whole"
      BY <1>1, <2>1 DEF WorkWhole, Target
    <2>3. Files(current)' = "whole"
      BY <1>5, <2>1, <2>2 DEF Point, Files
    <2>4. WorkWhole(r)'
      BY <1>1, <2>1, <2>3 DEF WorkWhole, GoesOn
    <2> QED BY <1>1, <2>4 DEF StandsWhole, RestWhole, GoesOn
  <1> QED BY <1>3, <1>4, <1>5

LEMMA FoldersWork ==
  ASSUME Fine, NEW r \in Requests,
         Start(r) \/ StartFails(r) \/ Healthy(r) \/ RecordLoad(r) \/ RecordSave(r)
  PROVE  StandsWhole'
  <1>1. GoesOn(r) /\ UNCHANGED <<dirs, current>>
    BY InsideMoves DEF Fine, Start, StartFails, Healthy, RecordLoad, RecordSave, diskVars
  <1>2. <<pc[r], pc'[r]>> \in Goings
    BY DEF Start, StartFails, Healthy, RecordLoad, RecordSave, Goto, Goings, Fine, Steady,
           UTypeOK, RequestsOK
  <1> QED BY <1>1, <1>2, FoldersGoOn

LEMMA FoldersFail ==
  ASSUME Fine, Unharmed', NEW r \in Requests, Stop(r) \/ StopFails(r) \/ SwapFails(r)
  PROVE  StandsWhole'
  <1>1. CASE Stop(r)
    <2>1. GoesOn(r) /\ UNCHANGED <<dirs, current>> /\ <<pc[r], pc'[r]>> \in Goings
      BY <1>1, StopMoves DEF Fine, Goings
    <2> QED BY <2>1, FoldersGoOn
  <1>2. CASE StopFails(r) \/ SwapFails(r)
    <2>1. UNCHANGED <<dirs, current>> /\ (Left(r) \/ (GoesOn(r) /\ <<pc[r], pc'[r]>> \in Goings))
      BY <1>2, FailureMoves DEF Fine, Goings
    <2> QED BY <2>1, FoldersGoOn, FoldersLeft
  <1> QED BY <1>1, <1>2

LEMMA FoldersEnd ==
  ASSUME Fine, Unharmed', NEW r \in Requests,
         RecordFails(r) \/ Tidy(r) \/ (Dies(r) /\ r \in Applying)
  PROVE  StandsWhole'
  <1>1. Left(r)
    BY EndMoves DEF Fine
  <1>2. current.is = "link" => dirs'[current.ver] = dirs[current.ver]
    BY TidyKeeps DEF Fine, RecordFails, Dies, diskVars
  <1> QED BY <1>1, <1>2, FoldersLeft

(* A check clears a folder that nothing rests on, and fills one that is not there. *)
LEMMA ClearFolders ==
  ASSUME Fine, Unharmed', NEW c \in Checkers, Clear(c)
  PROVE  /\ \/ UNCHANGED dirs
            \/ task[c].ver \notin Uses(Applying) \cup {file.staged, current.ver}
         /\ \A v \in Versions \ {task[c].ver} : dirs'[v] = dirs[v]
  <1>1. \A v \in Versions \ {task[c].ver} : dirs'[v] = dirs[v]
    BY DEF Clear, Fine, Steady, UTypeOK, DiskOK
  <1>2. CASE dirs[task[c].ver] = "none"
    <2>1. dirs' = [dirs EXCEPT ![task[c].ver] = "none"]
      BY <1>2 DEF Clear
    <2> QED BY <1>1, <1>2, <2>1 DEF Fine, Steady, UTypeOK, DiskOK
  <1>3. CASE dirs[task[c].ver] # "none"
    <2>1. task[c].ver \notin Uses(Applying) \cup {file.staged, current.ver}
      BY <1>3 DEF Clear, Harm, Unharmed
    <2> QED BY <1>1, <2>1
  <1> QED BY <1>2, <1>3

LEMMA PlaceFolders ==
  ASSUME Fine, NEW c \in Checkers, Place(c)
  PROVE  \/ UNCHANGED dirs /\ cpc'[c] # "noting"
         \/ /\ dirs[task[c].ver] = "none" /\ dirs'[task[c].ver] = "whole"
            /\ task'[c].ver = task[c].ver
            /\ \A v \in Versions \ {task[c].ver} : dirs'[v] = dirs[v]
  <1>1. cpc[c] = "clearing" /\ task[c].ver \in Versions /\ tmp[task[c].ver] = "whole"
    BY DEF Place, Fine, Steady, Whole, Unpacked, UTypeOK, ChecksOK, Task
  <1>2. CASE dirs[task[c].ver] # "none"
    BY <1>2 DEF Place, Closes, Goes, Fine, Steady, UTypeOK, ChecksOK
  <1>3. CASE dirs[task[c].ver] = "none"
    <2>1. /\ dirs' = [dirs EXCEPT ![task[c].ver] = "whole"]
          /\ task' = [Soiled(task[c].ver) EXCEPT ![c].mem = file]
      BY <1>1, <1>3 DEF Place
    <2>2. /\ dirs'[task[c].ver] = "whole"
          /\ \A v \in Versions \ {task[c].ver} : dirs'[v] = dirs[v]
      BY <1>1, <2>1 DEF Fine, Steady, UTypeOK, DiskOK
    <2>3. task'[c] = [Soiled(task[c].ver)[c] EXCEPT !.mem = file]
      BY <2>1 DEF Soiled
    <2>4. /\ Soiled(task[c].ver)[c] = [task[c] EXCEPT !.clean = @ /\ c \notin Staging(task[c].ver)]
          /\ task[c] = [ver |-> task[c].ver, newer |-> task[c].newer, mem |-> task[c].mem,
                        clean |-> task[c].clean]
      BY DEF Soiled, Fine, Steady, UTypeOK, ChecksOK, Task
    <2>5. task'[c].ver = task[c].ver
      BY <2>3, <2>4
    <2> QED BY <1>3, <2>2, <2>5
  <1> QED BY <1>2, <1>3

LEMMA FoldersCheck ==
  ASSUME Fine, Unharmed', NEW c \in Checkers, CheckBegin(c) \/ Check(c) \/ CheckFails(c)
  PROVE  StandsWhole'
  <1>1. ASSUME NEW v \in Versions, v = current.ver \/ v \in Uses(Applying), dirs[v] = "whole"
        PROVE  dirs'[v] = "whole"
    <2>1. CASE CheckBegin(c) \/ CheckSave(c) \/ Stage(c) \/ Leave(c) \/ CheckFails(c)
      BY <1>1, <2>1 DEF CheckBegin, CheckSave, Stage, Leave, CheckFails, diskVars
    <2>2. CASE Clear(c)
      BY <1>1, <2>2, ClearFolders
    <2>3. CASE Place(c)
      BY <1>1, <2>3, PlaceFolders
    <2> QED BY <2>1, <2>2, <2>3 DEF Check
  <1> QED BY <1>1, CheckMoves, FoldersKept

LEMMA FoldersStep ==
  ASSUME Fine, Unharmed', Next
  PROVE  StandsWhole'
  <1>1. CASE DaemonStarts \/ DaemonEnds \/ SafetyChanges \/ Age
    BY <1>1, DaemonMoves, FoldersKept DEF Fine
  <1>2. ASSUME NEW r \in Requests,
               \/ LoopChooses(r) \/ UserChooses(r) \/ Copy(r) \/ SpawnFails(r) \/ Spawn(r)
               \/ RemoveStale(r) \/ TakeFails(r) \/ (Dies(r) /\ r \notin Applying)
        PROVE  StandsWhole'
    <2>1. Same /\ UNCHANGED <<dirs, current>>
      BY <1>2, RequestMoves DEF Fine
    <2> QED BY <2>1, FoldersKept
  <1>3. ASSUME NEW r \in Requests, KeepFails(r) PROVE FALSE
    BY <1>3 DEF KeepFails, Harm, Unharmed
  <1> QED BY <1>1, <1>2, <1>3, FoldersCheck, FoldersTake, FoldersSwap, FoldersWork, FoldersFail,
             FoldersEnd DEF Next, Helper

-----------------------------------------------------------------------------
(* What is staged stays worth trusting. *)

Moves == (Same /\ UNCHANGED current) \/ \E r \in Requests : GoesOn(r) \/ Left(r) \/ Entered(r)

LEMMA OvertakenStays ==
  ASSUME Fine, Moves, NEW v \in Versions, Overtaken(v)
  PROVE  Overtaken(v)'
  <1>1. v \in Nat /\ current.ver \in Nat
    BY UpdateAssumption DEF Versions, Fine, Steady, UTypeOK, DiskOK
  <1>2. CASE Same /\ UNCHANGED current
    BY <1>2 DEF Same, Overtaken
  <1>3. ASSUME NEW r \in Requests, GoesOn(r) \/ Left(r) PROVE Overtaken(v)'
    <2>1. r \in Applying /\ Applying = {r} /\ v <= job[r].from
      BY <1>3 DEF GoesOn, Left, Overtaken
    <2>2. CASE GoesOn(r)
      BY <2>1, <2>2 DEF GoesOn, Overtaken
    <2>3. CASE Left(r)
      <3>1. job[r].ver \in Nat /\ job[r].from \in Nat
        BY <2>1, JobType, UpdateAssumption DEF Fine, Steady, Versions
      <3>2. job[r].from < job[r].ver /\ current.ver \in {job[r].ver, job[r].from}
        BY <2>1, <2>3, WorkIs, AtWorkIs DEF AtWork, Left, Fine
      <3>3. v <= current.ver
        BY <1>1, <2>1, <3>1, <3>2
      <3> QED BY <2>3, <3>3 DEF Left, Overtaken
    <2> QED BY <1>3, <2>2, <2>3
  <1>4. ASSUME NEW r \in Requests, Entered(r) PROVE Overtaken(v)'
    BY <1>4 DEF Entered, Overtaken
  <1> QED BY <1>2, <1>3, <1>4 DEF Moves

LEMMA TrustStays ==
  ASSUME Fine, Moves, NEW v \in Versions, Trusted(v), file.failed \subseteq file'.failed,
         dirs'[v] = "torn" => dirs[v] = "torn"
  PROVE  Trusted(v)'
  BY OvertakenStays DEF Trusted

(* A step that places no version. *)
LEMMA TrustKept ==
  ASSUME Fine, Moves, file.failed \subseteq file'.failed, file'.staged \in {0, file.staged},
         \A c \in Checkers : cpc'[c] = "noting" => /\ cpc[c] = "noting"
                                                   /\ task'[c].ver = task[c].ver,
         \A v \in Versions : dirs'[v] = "torn" => dirs[v] = "torn" \/ Trusted(v)'
  PROVE  StagedTrusted'
  <1>1. \A v \in Versions : Trusted(v) => Trusted(v)'
    BY TrustStays DEF Trusted
  <1>2. file.staged \in Versions \cup {0}
    BY DEF Fine, Steady, UTypeOK, FileOK, StateFile
  <1>3. \A c \in Checkers : cpc[c] = "noting" => task[c].ver \in Versions
    BY DEF Fine, Steady, UTypeOK, ChecksOK, Task
  <1> QED BY <1>1, <1>2, <1>3 DEF StagedTrusted, Fine, Whole

LEMMA TrustDisk ==
  ASSUME Fine, Moves, UNCHANGED <<file, cpc, task>>,
         \A v \in Versions : dirs'[v] = "torn" => dirs[v] = "torn" \/ Trusted(v)'
  PROVE  StagedTrusted'
  BY TrustKept

LEMMA TrustDown ==
  ASSUME Fine, Moves, UNCHANGED <<file, dirs>>, NEW steps, DaemonDown(steps)
  PROVE  StagedTrusted'
  <1>1. \A c \in Checkers : cpc'[c] = "noting" => cpc[c] = "noting" /\ task'[c].ver = task[c].ver
    <2>1. Daemon \in Checkers
      BY UpdateAssumption
    <2>2. \A c \in Checkers : \/ cpc'[c] = "idle"
                              \/ cpc'[c] = cpc[c] /\ task'[c] = task[c]
      BY <2>1 DEF DaemonDown, Fine, Steady, UTypeOK, ChecksOK
    <2> QED BY <2>2
  <1> QED BY <1>1, TrustKept

LEMMA TrustNote ==
  ASSUME Fine, Unharmed', NEW c \in Checkers, CheckSave(c)
  PROVE  StagedTrusted'
  <1>1. Moves /\ UNCHANGED dirs
    BY CheckMoves DEF Check, CheckSave, Moves, diskVars
  <1>2. Unharmed' => Sure'
    BY DEF Unharmed, Sure
  <1>3. task[c].mem \in StateFile /\ task[c].ver \in Versions
    BY DEF CheckSave, Fine, Steady, UTypeOK, ChecksOK, Task
  <1>4. \A d \in Checkers : cpc'[d] = "noting" => cpc[d] = "noting" /\ task'[d].ver = task[d].ver
    <2>1. PICK step \in {"judging", "closing", "idle"} : \E then : Goes(c, step, then)
      BY DEF CheckSave
    <2> QED BY <2>1 DEF Goes, Fine, Steady, UTypeOK, ChecksOK
  <1>5. CASE cpc[c] # "noting"
    <2>1. Writes(task[c].mem, task[c].mem)
      BY <1>5 DEF CheckSave
    <2>2. file.failed \subseteq file'.failed /\ file'.staged \in {0, file.staged}
      BY <2>1 DEF Writes, Harm, Unharmed
    <2> QED BY <1>1, <1>4, <2>2, TrustKept
  <1>6. CASE cpc[c] = "noting"
    <2>1. Writes(task[c].mem, [task[c].mem EXCEPT !.staged = task[c].ver])
      BY <1>6 DEF CheckSave
    <2>2. file' = [task[c].mem EXCEPT !.staged = task[c].ver] /\ file.failed \subseteq task[c].mem.failed
      BY <1>2, <2>1, WritesRecord
    <2>3. file.failed \subseteq file'.failed /\ file'.staged = task[c].ver
      BY <1>3, <2>2 DEF StateFile
    <2>4. \A v \in Versions : Trusted(v) => Trusted(v)'
      BY <1>1, <2>3, TrustStays
    <2>5. \A d \in Checkers : cpc[d] = "noting" => task[d].ver \in Versions /\ Trusted(task[d].ver)
      BY DEF Fine, Steady, UTypeOK, ChecksOK, Task, Whole, StagedTrusted
    <2>6. \A d \in Checkers : cpc'[d] = "noting" => Trusted(task[d].ver)'
      BY <1>4, <2>4, <2>5 DEF Trusted, Overtaken
    <2>7. PICK v \in Versions : v = task[c].ver
      BY <1>3
    <2>8. Trusted(v)'
      BY <1>6, <2>4, <2>5, <2>7
    <2>9. Trusted(file.staged)'
      BY <2>3, <2>7, <2>8 DEF Trusted, Overtaken
    <2> QED BY <2>6, <2>9 DEF StagedTrusted
  <1> QED BY <1>5, <1>6

(* A check leaves what another has found alone. *)
LEMMA OthersStay ==
  ASSUME ChecksOK, NEW c \in Checkers, CheckBegin(c) \/ Check(c) \/ CheckFails(c),
         NEW d \in Checkers \ {c}
  PROVE  cpc'[d] = cpc[d] /\ task'[d].ver = task[d].ver
  <1>1. CASE Stage(c) \/ (Place(c) /\ ~Closes(c))
    <2>1. PICK v : \/ task' = [Soiled(v) EXCEPT ![c].clean = TRUE]
                   \/ task' = [Soiled(v) EXCEPT ![c].mem = file]
      BY <1>1 DEF Stage, Place
    <2>2. task'[d] = Soiled(v)[d] /\ Soiled(v)[d] = [task[d] EXCEPT !.clean = @ /\ d \notin Staging(v)]
      BY <2>1 DEF Soiled
    <2>3. task[d] = [ver |-> task[d].ver, newer |-> task[d].newer, mem |-> task[d].mem,
                     clean |-> task[d].clean]
      BY DEF ChecksOK, Task
    <2>4. task'[d].ver = task[d].ver
      BY <2>2, <2>3
    <2>5. cpc'[d] = cpc[d]
      BY <1>1 DEF Stage, Place, ChecksOK
    <2> QED BY <2>4, <2>5
  <1>2. CASE ~(Stage(c) \/ (Place(c) /\ ~Closes(c)))
    <2>1. \E step, then : Goes(c, step, then)
      BY <1>2 DEF CheckBegin, Check, CheckSave, Leave, Clear, CheckFails, Closes
    <2> QED BY <2>1 DEF Goes, ChecksOK
  <1> QED BY <1>1, <1>2

LEMMA TrustCheck ==
  ASSUME Fine, Unharmed', NEW c \in Checkers, CheckBegin(c) \/ Check(c) \/ CheckFails(c)
  PROVE  StagedTrusted'
  <1>1. Moves
    BY CheckMoves DEF Moves
  <1>2. \A d \in Checkers \ {c} : cpc'[d] = cpc[d] /\ task'[d].ver = task[d].ver
    BY OthersStay DEF Fine, Steady, UTypeOK
  <1>3. \A d \in Checkers : cpc[d] # "idle" => task[d].ver \in Versions
    BY DEF Fine, Steady, UTypeOK, ChecksOK, Task
  <1>4. CASE CheckSave(c)
    BY <1>4, TrustNote
  <1>5. CASE Place(c) /\ cpc'[c] = "noting"
    <2>1. UNCHANGED file /\ cpc[c] # "idle"
      BY <1>5 DEF Place
    <2>2. PICK v \in Versions : /\ v = task[c].ver /\ v = task'[c].ver /\ dirs'[v] = "whole"
                                /\ \A w \in Versions \ {v} : dirs'[w] = dirs[w]
      BY <1>3, <1>5, <2>1, PlaceFolders
    <2>3. \A w \in Versions : Trusted(w) => Trusted(w)'
      BY <1>1, <2>1, <2>2, TrustStays
    <2>4. Trusted(v)'
      BY <2>2 DEF Trusted
    <2>5. ASSUME NEW d \in Checkers, cpc'[d] = "noting" PROVE Trusted(task[d].ver)'
      <3>1. PICK w \in Versions : w = task[d].ver /\ w = task'[d].ver
        BY <1>2, <1>3, <1>5, <2>2, <2>5
      <3>2. Trusted(w)'
        <4>1. CASE d = c
          BY <2>2, <2>4, <3>1, <4>1
        <4>2. CASE d # c
          BY <1>2, <2>3, <2>5, <3>1, <4>2 DEF Fine, Whole, StagedTrusted
        <4> QED BY <4>1, <4>2
      <3> QED BY <3>1, <3>2 DEF Trusted, Overtaken
    <2>6. ASSUME file.staged # 0 PROVE Trusted(file.staged)'
      <3>1. PICK w \in Versions : w = file.staged /\ Trusted(w)
        BY <2>6 DEF Fine, Steady, UTypeOK, FileOK, StateFile, Whole, StagedTrusted
      <3> QED BY <2>1, <2>3, <3>1 DEF Trusted, Overtaken
    <2> QED BY <2>1, <2>5, <2>6 DEF StagedTrusted
  <1>6. CASE Clear(c)
    <2>1. UNCHANGED file /\ cpc[c] = "unzipping" /\ cpc'[c] # "noting"
      BY <1>6 DEF Clear, Closes, Goes, Fine, Steady, UTypeOK, ChecksOK
    <2>2. PICK v \in Versions : /\ v = task[c].ver
                                /\ v = file.staged => UNCHANGED dirs
                                /\ \A w \in Versions \ {v} : dirs'[w] = dirs[w]
      BY <1>3, <1>6, <2>1, ClearFolders
    <2>3. \A w \in Versions \ {v} : Trusted(w) => Trusted(w)'
      BY <1>1, <2>1, <2>2, TrustStays
    <2>4. ASSUME NEW d \in Checkers, cpc'[d] = "noting" PROVE Trusted(task[d].ver)'
      <3>1. d # c /\ cpc[d] = "noting"
        BY <1>2, <2>1, <2>4
      <3>2. task[d].ver # v
        BY <2>1, <2>2, <3>1 DEF Staging, Fine, Whole, OneStaging
      <3>3. PICK w \in Versions \ {v} : w = task[d].ver /\ w = task'[d].ver /\ Trusted(w)
        BY <1>2, <1>3, <3>1, <3>2 DEF Fine, Whole, StagedTrusted
      <3> QED BY <2>3, <3>3 DEF Trusted, Overtaken
    <2>5. ASSUME file.staged # 0 PROVE Trusted(file.staged)'
      <3>1. PICK w \in Versions : w = file.staged /\ Trusted(w)
        BY <2>5 DEF Fine, Steady, UTypeOK, FileOK, StateFile, Whole, StagedTrusted
      <3>2. Trusted(w)'
        <4>1. CASE UNCHANGED dirs
          BY <1>1, <2>1, <3>1, <4>1, TrustStays
        <4>2. CASE w # v
          BY <2>3, <3>1, <4>2
        <4> QED BY <2>2, <3>1, <4>1, <4>2
      <3> QED BY <2>1, <3>1, <3>2 DEF Trusted, Overtaken
    <2> QED BY <2>1, <2>4, <2>5 DEF StagedTrusted
  <1>7. CASE CheckBegin(c) \/ Stage(c) \/ Leave(c) \/ CheckFails(c) \/ (Place(c) /\ cpc'[c] # "noting")
    <2>1. UNCHANGED <<dirs, file>> /\ cpc'[c] # "noting"
      BY <1>7 DEF CheckBegin, Stage, Leave, CheckFails, Place, Closes, Goes, diskVars, Fine, Steady,
                  UTypeOK, ChecksOK
    <2> QED BY <1>1, <1>2, <2>1, TrustKept
  <1> QED BY <1>4, <1>5, <1>6, <1>7 DEF Check

LEMMA TrustTidy ==
  ASSUME Fine, Unharmed', NEW r \in Requests, Tidy(r)
  PROVE  StagedTrusted'
  <1>1. Left(r) /\ UNCHANGED <<cpc, task, file>>
    BY EndMoves DEF Fine
  <1>2. Moves
    BY <1>1 DEF Moves
  <1>3. r \in Applying /\ AtWork(r) /\ bad \subseteq file.failed /\ pc[r] = "tidying"
    BY TidyKeeps, WorkIs, AtWorkIs DEF Fine, Recorded
  <1>4. ASSUME NEW v \in Versions, dirs'[v] = "torn", dirs[v] # "torn"
        PROVE  v \in file'.failed \/ Overtaken(v)
    <2>1. v \in Outdated(r)
      BY <1>4 DEF Tidy
    <2>2. CASE job[r].verdict = "health"
      BY <1>1, <1>3, <2>1, <2>2 DEF AtWork, Outdated
    <2>3. CASE job[r].verdict = "ok"
      <3>1. v < job[r].from /\ v \in Nat /\ job[r].from \in Nat
        BY <1>3, <2>1, <2>3, JobType, UpdateAssumption DEF Outdated, Versions, Fine, Steady
      <3>2. v <= job[r].from
        BY <3>1
      <3> QED BY <1>1, <3>2 DEF Overtaken, Left
    <2> QED BY <2>1, <2>2, <2>3 DEF Outdated
  <1>5. \A v \in Versions : dirs'[v] = "torn" => dirs[v] = "torn" \/ Trusted(v)'
    BY <1>2, <1>4, OvertakenStays DEF Trusted
  <1> QED BY <1>1, <1>2, <1>5, TrustDisk

LEMMA TrustSave ==
  ASSUME Fine, Unharmed', NEW r \in Requests, RecordSave(r)
  PROVE  StagedTrusted'
  <1>1. Moves /\ UNCHANGED <<dirs, cpc, task>>
    BY InsideMoves DEF Fine, Moves, RecordSave, diskVars
  <1>2. PICK failed : Writes(job[r].mem, [staged |-> IF job[r].verdict = "swap" THEN job[r].mem.staged ELSE 0,
                                          failed |-> job[r].mem.failed \cup failed])
    BY DEF RecordSave
  <1>3. file.failed \subseteq file'.failed /\ file'.staged \in {0, file.staged}
    BY <1>2 DEF Writes, Harm, Unharmed
  <1> QED BY <1>1, <1>3, TrustKept

LEMMA TrustStep ==
  ASSUME Fine, Unharmed', Next
  PROVE  StagedTrusted'
  <1>1. CASE DaemonStarts \/ DaemonEnds \/ SafetyChanges \/ Age
    <2>1. Moves /\ UNCHANGED <<dirs, file>>
      BY <1>1, DaemonMoves DEF Fine, Moves
    <2>2. CASE DaemonEnds
      BY <2>1, <2>2, TrustDown DEF DaemonEnds
    <2>3. CASE UNCHANGED <<cpc, task>>
      BY <2>1, <2>3, TrustDisk
    <2> QED BY <1>1, <2>2, <2>3 DEF DaemonStarts, SafetyChanges, Age
  <1>2. ASSUME NEW r \in Requests,
               \/ LoopChooses(r) \/ UserChooses(r) \/ Copy(r) \/ SpawnFails(r) \/ Spawn(r)
               \/ RemoveStale(r) \/ TakeFails(r) \/ (Dies(r) /\ r \notin Applying)
        PROVE  StagedTrusted'
    <2>1. Same /\ UNCHANGED <<dirs, current, file, cpc, task>>
      BY <1>2, RequestMoves DEF Fine
    <2> QED BY <2>1, TrustDisk DEF Moves
  <1>3. ASSUME NEW r \in Requests, Take(r) PROVE StagedTrusted'
    <2>1. Moves /\ UNCHANGED <<file, cpc, task>>
      BY <1>3, TakeMoves DEF Moves
    <2>2. \A v \in Versions : dirs'[v] = "torn" => dirs[v] = "torn"
      BY <1>3, TakeMoves DEF Fine, Steady, UTypeOK, DiskOK
    <2> QED BY <2>1, <2>2, TrustDisk
  <1>4. ASSUME NEW r \in Requests, Keep(r) PROVE StagedTrusted'
    <2>1. Moves /\ UNCHANGED <<file, cpc, task>>
      BY <1>4, InsideMoves, KeepMakes DEF Moves, Fine
    <2>2. \A v \in Versions : dirs'[v] = "torn" => dirs[v] = "torn"
      BY <1>4, KeepMakes DEF Fine, Steady, UTypeOK, DiskOK
    <2> QED BY <2>1, <2>2, TrustDisk
  <1>5. ASSUME NEW r \in Requests,
               Unpoint(r) \/ Point(r) \/ Start(r) \/ StartFails(r) \/ Healthy(r) \/ RecordLoad(r)
        PROVE  StagedTrusted'
    <2>1. Moves /\ UNCHANGED <<cpc, task>>
      BY <1>5, InsideMoves DEF Moves, Fine
    <2>2. UNCHANGED <<dirs, file>>
      BY <1>5 DEF Unpoint, Point, Start, StartFails, Healthy, RecordLoad, diskVars
    <2> QED BY <2>1, <2>2, TrustDisk
  <1>6. ASSUME NEW r \in Requests, Stop(r) PROVE StagedTrusted'
    <2>1. Moves /\ UNCHANGED <<dirs, file>>
      BY <1>6, StopMoves DEF Moves, Fine
    <2> QED BY <1>6, <2>1, TrustDown DEF Stop
  <1>7. ASSUME NEW r \in Requests, StopFails(r) \/ SwapFails(r) PROVE StagedTrusted'
    <2>1. Moves /\ UNCHANGED <<dirs, file, cpc, task>>
      BY <1>7, FailureMoves DEF Moves, Fine
    <2> QED BY <2>1, TrustDisk
  <1>8. ASSUME NEW r \in Requests, RecordFails(r) \/ (Dies(r) /\ r \in Applying)
        PROVE  StagedTrusted'
    <2>1. Moves /\ UNCHANGED <<file, cpc, task>>
      BY <1>8, EndMoves DEF Moves, Fine
    <2>2. UNCHANGED dirs
      BY <1>8 DEF RecordFails, Dies, diskVars
    <2> QED BY <2>1, <2>2, TrustDisk
  <1>9. ASSUME NEW r \in Requests, KeepFails(r) PROVE FALSE
    BY <1>9 DEF KeepFails, Harm, Unharmed
  <1> QED BY <1>1, <1>2, <1>3, <1>4, <1>5, <1>6, <1>7, <1>8, <1>9, TrustCheck, TrustTidy,
             TrustSave DEF Next, Helper

-----------------------------------------------------------------------------
LEMMA WholeInit == Init => WholeInv
  <1> SUFFICES ASSUME Init PROVE Whole
    BY DEF WholeInv
  <1>1. Applying = {}
    BY DEF Init, Applying, LockedSteps, HelperSteps
  <1>2. Files(current) = "whole"
    BY UpdateAssumption DEF Init, Files
  <1>3. \A c \in Checkers : cpc[c] = "idle"
    BY DEF Init
  <1>4. file.staged = 0
    BY DEF Init, NoFile
  <1>5. OneStaging /\ Unpacked /\ StagedTrusted
    BY <1>3, <1>4 DEF OneStaging, Staging, Unpacked, StagedTrusted
  <1> QED BY <1>1, <1>2, <1>5 DEF Whole, StandsWhole, RestWhole

LEMMA WholeStep == UTypeOK /\ LockInv /\ VersionInv /\ WholeInv /\ [Next]_uvars => WholeInv'
  <1> SUFFICES ASSUME UTypeOK, LockInv, VersionInv, WholeInv, [Next]_uvars, Unharmed' PROVE Whole'
    BY DEF WholeInv
  <1>1. CASE UNCHANGED uvars
    <2>1. Applying' = Applying
      BY <1>1 DEF uvars, Applying
    <2>2. StandsWhole'
      BY <1>1, <2>1 DEF uvars, diskVars, WholeInv, Unharmed, Whole, StandsWhole, RestWhole,
                        WorkWhole, Files, Swapping
    <2>3. OneStaging' /\ Unpacked'
      BY <1>1, UnpackKept DEF uvars, diskVars, WholeInv, Unharmed, Whole
    <2>4. StagedTrusted'
      BY <1>1, <2>1 DEF uvars, diskVars, WholeInv, Unharmed, Whole, StagedTrusted, Trusted, Overtaken
    <2> QED BY <2>2, <2>3, <2>4 DEF Whole
  <1>2. CASE Next
    <2>1. Unharmed
      BY <1>2, UnharmedStays
    <2>2. Fine
      BY <2>1, UnharmedSure DEF Fine, Steady, LockInv, VersionInv, WholeInv
    <2> QED BY <1>2, <2>2, UnpackStep, FoldersStep, TrustStep DEF Whole
  <1> QED BY <1>1, <1>2

LEMMA CanStart == UTypeOK /\ VersionInv /\ WholeInv => Startable
  <1> SUFFICES ASSUME UTypeOK, WholeInv,
                      harm \cap {"cut", "halfcopy", "overlap", "replaced", "robbed", "tidied", "late",
                                 "lost"} = {}
               PROVE  Files(current) = "whole" \/ \E r \in Requests : Swapping(r)
    BY DEF Startable, Swapping
  <1>1. Whole
    BY DEF WholeInv, Unharmed, UTypeOK, HistoryOK, Harms
  <1> QED BY <1>1 DEF Whole, StandsWhole, RestWhole, WorkWhole, Applying

-----------------------------------------------------------------------------
(* FailedGone: a version that failed its health check is never what runs next,
   but for what the code has no answer to (mod.rs:322). *)
THEOREM FailedNeverNext == USpec => []FailedGone
  <1>1. Init => UTypeOK /\ LockInv /\ VersionInv
    BY InitType, LockInit, VersionInit
  <1>2. UTypeOK /\ LockInv /\ VersionInv /\ [Next]_uvars => (UTypeOK /\ LockInv /\ VersionInv)'
    BY NextType, LockStep, VersionStep
  <1> QED BY <1>1, <1>2, NotBad, PTL DEF USpec

(* Whatever ends where, there is a complete version to start, and not one that
   failed its health check (updater/apply.rs:44, mod.rs:322). *)
THEOREM SomethingGood == USpec => []SomethingGoodToStart
  <1> DEFINE Inv == UTypeOK /\ LockInv /\ VersionInv /\ WholeInv
  <1>1. Init => Inv
    BY InitType, LockInit, VersionInit, WholeInit
  <1>2. Inv /\ [Next]_uvars => Inv'
    BY NextType, LockStep, VersionStep, WholeStep
  <1>3. Inv => SomethingGoodToStart
    BY NotBad, CanStart DEF SomethingGoodToStart
  <1> QED BY <1>1, <1>2, <1>3, PTL DEF USpec
=============================================================================
