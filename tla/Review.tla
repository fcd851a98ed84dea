------------------------------- MODULE Review -------------------------------
(* `wtd review`: the reviewer of a worktree, a process per run.  A run       *)
(* stages its inputs and its reports in a scratch folder, shows `reviewing`, *)
(* runs two passes of claude, merges what it learned into the repository's   *)
(* ledger and moves the reports into the worktree.  A run whose account is   *)
(* out of usage asks the daemon to run it again after the reset.             *)
(*                                                                           *)
(* The texts of prompts and reports are left out; a report or a ledger       *)
(* section is the run that wrote it.  All the worktrees are of one           *)
(* repository, so the runs share one ledger (and the lessons file, which is  *)
(* merged in the same way).                                                  *)
EXTENDS Status, FiniteSets

CONSTANTS Runs,         \* review processes, each of which runs once
          Trees,
          Unset,
          MaxMinute,    \* bound: how far the clock goes
          MaxHooks,     \* bound: events of the worktrees' agents
          MaxStops      \* bound: kills of a run, stops of the daemon and ledgers not read

ASSUME RAssumption == Unset \notin Runs \cup Trees \cup Nat /\ IsFiniteSet(Runs)
                      /\ {MaxMinute, MaxHooks, MaxStops} \subseteq Nat

VARIABLES pc, wt, dir,  \* [run -> where it is, its worktree, its folder's name]
          marks,        \* [run -> it is to show `reviewing`]
          out,          \* [run -> the ledger it is about to write]
          cur,          \* [worktree -> status]
          scratch,      \* {[wt, dir, review, delta]}: the staging folders
          reports,      \* {[wt, dir, review]}: the folders in the worktrees
          ledger,       \* the sections of the repository's ledger
          jobs, saved,  \* [worktree -> when its retry is due]: the daemon's, and in store.json
          due,          \* worktrees whose retry was taken and not started yet
          looping,      \* "up" | "down"
          minute,
          shared,       \* history: [wt, dir] of folders a run found already staged
          merged, crossed,   \* history: every section merged; two merges overlapped
          unread,       \* history: sections of a ledger that a merge could not read
          killed,       \* history: worktrees whose `reviewing` a killed run left
          promised,     \* history: worktrees whose last word was "the daemon will retry"
          lost,         \* history: those whose retry ended with the daemon or had no log
          hooks, stops

run == <<pc, wt, dir, marks, out>>
queue == <<jobs, saved, due, looping, promised, lost>>
ghosts == <<shared, merged, crossed, unread, killed>>
rvars == <<run, cur, scratch, reports, ledger, queue, minute, ghosts, hooks, stops>>

NoJobs == [w \in Trees |-> Unset]

RInit == /\ pc = [r \in Runs |-> "new"] /\ wt = [r \in Runs |-> Unset]
         /\ dir = [r \in Runs |-> Unset] /\ marks = [r \in Runs |-> FALSE]
         /\ out = [r \in Runs |-> {}]
         /\ cur = [w \in Trees |-> StatusDefault]
         /\ scratch = {} /\ reports = {} /\ ledger = {}
         /\ jobs = NoJobs /\ saved = NoJobs /\ due = {} /\ looping = "up"
         /\ minute = 0
         /\ shared = {} /\ merged = {} /\ crossed = FALSE /\ unread = {} /\ killed = {}
         /\ promised = {} /\ lost = {}
         /\ hooks = 0 /\ stops = 0

-----------------------------------------------------------------------------
(* The staging folder of a run, if it stands.                                *)
At(S, w, d) == {f \in S : f.wt = w /\ f.dir = d}
Mine(r) == At(scratch, wt[r], dir[r])
Staged(r, field) == UNION {f[field] : f \in Mine(r)}

(* What a file of the run's folder gets: claude makes the folders it needs.  *)
WriteReports(r, review, delta) ==
         (scratch \ Mine(r)) \cup {[wt |-> wt[r], dir |-> dir[r],
                                    review |-> IF review THEN {r} ELSE Staged(r, "review"),
                                    delta |-> Staged(r, "delta") \cup IF delta THEN {r} ELSE {}]}

Report(w, word) == cur' = [cur EXCEPT ![w] = Apply(@, Event(word))]

(* Whatever way a run returns, the status it showed is taken back.           *)
Over(r) == /\ pc' = [pc EXCEPT ![r] = "over"]
           /\ IF marks[r] THEN Report(wt[r], "reviewed") ELSE UNCHANGED cur
           /\ UNCHANGED <<wt, dir, marks, out>>

Goto(r, label) == /\ pc' = [pc EXCEPT ![r] = label]
                  /\ UNCHANGED <<wt, dir, marks, out>>

(* Plausible bug: the folder is named for the minute and nothing else.       *)
StampMinute(w) == <<minute, 1>>

(* The folder is named for the minute; a number is added while the worktree  *)
(* holds reports of that name.                                               *)
Stamp(w) == <<minute, CHOOSE k \in 1..(Cardinality(Runs) + 1) :
                        /\ At(reports, w, <<minute, k>>) = {}
                        /\ \A j \in 1..(k - 1) : At(reports, w, <<minute, j>>) # {}>>

Prepare(r, w) ==
  /\ pc[r] = "new"
  /\ pc' = [pc EXCEPT ![r] = "prepared"]
  /\ wt' = [wt EXCEPT ![r] = w] /\ dir' = [dir EXCEPT ![r] = Stamp(w)]
  /\ IF At(scratch, w, Stamp(w)) = {}
     THEN /\ scratch' = scratch \cup {[wt |-> w, dir |-> Stamp(w), review |-> {}, delta |-> {}]}
          /\ UNCHANGED shared
     ELSE /\ shared' = shared \cup {[wt |-> w, dir |-> Stamp(w)]}
          /\ UNCHANGED scratch
  /\ UNCHANGED <<marks, out, cur, reports, ledger, minute, merged, crossed, unread, killed, hooks, stops>>

BeginReview(r, w) == Prepare(r, w) /\ UNCHANGED queue

(* No changes against the base: the scratch folder goes again.               *)
Nothing(r) ==
  /\ pc[r] = "prepared"
  /\ scratch' = scratch \ Mine(r)
  /\ Goto(r, "over")
  /\ UNCHANGED <<cur, reports, ledger, queue, minute, ghosts, hooks, stops>>

(* An interactive review: the reports stay where they were staged.           *)
Interactive(r) ==
  /\ pc[r] = "prepared"
  /\ scratch' = WriteReports(r, TRUE, FALSE)
  /\ Goto(r, "over")
  /\ UNCHANGED <<cur, reports, ledger, queue, minute, ghosts, hooks, stops>>

(* The worktree shows `reviewing`, unless it is done.                        *)
Mark(r) ==
  LET shown == cur[wt[r]].status # "done" IN
  /\ pc[r] = "prepared"
  /\ pc' = [pc EXCEPT ![r] = "first"]
  /\ marks' = [marks EXCEPT ![r] = shown]
  /\ IF shown THEN Report(wt[r], "reviewing") ELSE UNCHANGED cur
  /\ UNCHANGED <<wt, dir, out, scratch, reports, ledger, queue, minute, ghosts, hooks, stops>>

(* A pass opens its stream file in the scratch folder before claude runs.    *)
OpensReports(r, from, to) ==
  /\ pc[r] = from
  /\ IF Mine(r) = {} THEN Over(r) ELSE Goto(r, to) /\ UNCHANGED cur
  /\ UNCHANGED <<scratch, reports, ledger, queue, minute, ghosts, hooks, stops>>

Open(r) == OpensReports(r, "first", "pass1") \/ OpensReports(r, "second", "pass2")

(* Pass 1: claude writes the report and perhaps sections for the ledger, or  *)
(* runs out of usage, with or without a report.                              *)
Pass1(r, review, delta, limit) ==
  LET after == WriteReports(r, review, delta)
      there == \E f \in after : f.wt = wt[r] /\ f.dir = dir[r] /\ f.review # {}
  IN
  /\ pc[r] = "pass1" /\ (delta => review)
  /\ scratch' = IF review THEN after ELSE scratch
  /\ \/ there /\ Goto(r, "second")
     \/ ~there /\ limit /\ Goto(r, "limited")
     \/ (limit => there) /\ Goto(r, "merge")
  /\ UNCHANGED <<cur, reports, ledger, queue, minute, ghosts, hooks, stops>>

(* Pass 2 edits the report in place, and may correct the ledger.             *)
Pass2(r, delta) ==
  /\ pc[r] = "pass2"
  /\ scratch' = IF delta THEN WriteReports(r, FALSE, TRUE) ELSE scratch
  /\ Goto(r, "merge")
  /\ UNCHANGED <<cur, reports, ledger, queue, minute, ghosts, hooks, stops>>

(* JOB_SCHEDULE: one retry per worktree, the last one asked for.             *)
ScheduleUnsaved(w, at) ==
  jobs' = [jobs EXCEPT ![w] = at] /\ promised' = promised \cup {w} /\ lost' = lost \ {w}
  /\ UNCHANGED saved

Schedule(w, at) == /\ jobs' = [jobs EXCEPT ![w] = at] /\ saved' = jobs'
                   /\ promised' = promised \cup {w} /\ lost' = lost \ {w}

(* Plausible bug: the early return leaves before the status is taken back.   *)
LimitedShown(r) ==
  /\ pc[r] = "limited"
  /\ UNCHANGED queue
  /\ scratch' = scratch \ Mine(r)
  /\ Goto(r, "over") /\ UNCHANGED cur
  /\ UNCHANGED <<reports, ledger, minute, ghosts, hooks, stops>>

(* A retry is queued if the reset is known and the daemon runs.              *)
schedule_retry(w) ==
  \/ looping = "up" /\ minute < MaxMinute /\ Schedule(w, minute + 1) /\ UNCHANGED <<due, looping>>
  \/ UNCHANGED queue

(* Out of usage and no report: nothing is kept of this run.                  *)
Limited(r) ==
  /\ pc[r] = "limited"
  /\ schedule_retry(wt[r])
  /\ scratch' = scratch \ Mine(r)
  /\ Over(r)
  /\ UNCHANGED <<reports, ledger, minute, ghosts, hooks, stops>>

(* The ledger is read and merged, then written as a whole.  One that cannot  *)
(* be read is taken for a new one, and what was in it is gone.               *)
MergedOver(old, delta) == delta

MergeDelta(old, delta) == old \cup delta

MergeRead(r) ==
  LET delta == Staged(r, "delta") IN
  /\ pc[r] = "merge"
  /\ IF delta = {} THEN Goto(r, "publish") /\ UNCHANGED <<crossed, unread, stops>>
     ELSE /\ pc' = [pc EXCEPT ![r] = "write"]
          /\ \/ /\ out' = [out EXCEPT ![r] = MergeDelta(ledger, delta)]
                /\ UNCHANGED <<unread, stops>>
             \/ /\ out' = [out EXCEPT ![r] = MergeDelta({}, delta)]
                /\ unread' = unread \cup ledger
                /\ stops < MaxStops /\ stops' = stops + 1
          /\ crossed' = (crossed \/ \E o \in Runs : pc[o] = "write")
          /\ UNCHANGED <<wt, dir, marks>>
  /\ UNCHANGED <<cur, scratch, reports, ledger, queue, minute, shared, merged, killed, hooks>>

MergeWrite(r) ==
  /\ pc[r] = "write"
  /\ ledger' = out[r] /\ merged' = merged \cup out[r]
  /\ Goto(r, "publish")
  /\ UNCHANGED <<cur, scratch, reports, queue, minute, shared, crossed, unread, killed, hooks, stops>>

(* JOB_CANCEL.                                                               *)
Cancel(w) == /\ jobs' = [jobs EXCEPT ![w] = Unset] /\ saved' = jobs'
             /\ promised' = promised \ {w} /\ UNCHANGED lost

(* There is a report: no retry is needed; asked only of a daemon that runs.  *)
cancel_retry(w) ==
  IF looping = "up" THEN Cancel(w) /\ UNCHANGED <<due, looping>> ELSE UNCHANGED queue

(* The reports are moved into the worktree, over those of the same name.     *)
Publish(r) ==
  LET here == At(reports, wt[r], dir[r])
      review == IF Staged(r, "review") # {} THEN Staged(r, "review") ELSE UNION {f.review : f \in here}
  IN
  /\ pc[r] = "publish"
  /\ reports' = (reports \ here) \cup {[wt |-> wt[r], dir |-> dir[r], review |-> review]}
  /\ IF review # {} THEN cancel_retry(wt[r]) ELSE UNCHANGED queue
  /\ scratch' = scratch \ Mine(r)
  /\ Over(r)
  /\ UNCHANGED <<ledger, minute, ghosts, hooks, stops>>

(* The process is killed: nothing is taken back.                             *)
KillRun(r) ==
  /\ pc[r] \notin {"new", "over"} /\ stops < MaxStops /\ stops' = stops + 1
  /\ Goto(r, "over")
  /\ killed' = killed \cup IF marks[r] THEN {wt[r]} ELSE {}
  /\ UNCHANGED <<cur, scratch, reports, ledger, queue, minute, shared, merged, crossed, unread, hooks>>

-----------------------------------------------------------------------------
(* The daemon's jobs loop.  What is due is taken out and saved, then started *)
(* one by one.                                                               *)
TakeUnsaved ==
  LET now == {w \in Trees : jobs[w] # Unset /\ jobs[w] <= minute} IN
  /\ looping = "up" /\ due = {} /\ now # {}
  /\ jobs' = [w \in Trees |-> IF w \in now THEN Unset ELSE jobs[w]]
  /\ due' = now
  /\ UNCHANGED <<run, cur, scratch, reports, ledger, saved, looping, promised, lost, minute, ghosts, hooks, stops>>

Take ==
  LET now == {w \in Trees : jobs[w] # Unset /\ jobs[w] <= minute} IN
  /\ looping = "up" /\ due = {} /\ now # {}
  /\ jobs' = [w \in Trees |-> IF w \in now THEN Unset ELSE jobs[w]]
  /\ saved' = jobs'
  /\ due' = now
  /\ UNCHANGED <<run, cur, scratch, reports, ledger, looping, promised, lost, minute, ghosts, hooks, stops>>

(* A retry starts as a run of its own, unless its log cannot be opened.  (An *)
(* instance whose runs are used up starts one that is not looked at.)  One   *)
(* that was asked for since is still to come.                                *)
StartJob(w) ==
  /\ w \in due
  /\ due' = due \ {w}
  /\ \/ /\ promised' = (IF jobs[w] = Unset THEN promised \ {w} ELSE promised)
        /\ UNCHANGED lost
        /\ \/ \E r \in Runs : Prepare(r, w)
           \/ /\ \A r \in Runs : pc[r] # "new"
              /\ UNCHANGED <<run, cur, scratch, reports, ledger, minute, ghosts, hooks, stops>>
     \/ /\ lost' = lost \cup {w} /\ stops < MaxStops /\ stops' = stops + 1
        /\ UNCHANGED <<run, cur, scratch, reports, ledger, promised, minute, ghosts, hooks>>
  /\ UNCHANGED <<jobs, saved, looping>>

(* The daemon stops: what it had taken and not started is gone.              *)
Stop == /\ looping = "up" /\ stops < MaxStops /\ stops' = stops + 1
        /\ looping' = "down"
        /\ jobs' = NoJobs /\ due' = {} /\ lost' = lost \cup due
        /\ UNCHANGED <<run, cur, scratch, reports, ledger, saved, promised, minute, ghosts, hooks>>

StartDaemon == /\ looping = "down" /\ looping' = "up"
         /\ jobs' = saved
         /\ UNCHANGED <<run, cur, scratch, reports, ledger, saved, due, promised, lost, minute, ghosts, hooks, stops>>

MinutePasses == /\ minute < MaxMinute /\ minute' = minute + 1
                /\ UNCHANGED <<run, cur, scratch, reports, ledger, queue, ghosts, hooks, stops>>

(* The agent of the worktree works on, or marks it.                          *)
Agent(w, word) == /\ hooks < MaxHooks /\ hooks' = hooks + 1
                  /\ Report(w, word)
                  /\ UNCHANGED <<run, scratch, reports, ledger, queue, minute, ghosts, stops>>

-----------------------------------------------------------------------------
RNext == \/ \E r \in Runs :
              \/ \E w \in Trees : BeginReview(r, w)
              \/ Nothing(r) \/ Interactive(r) \/ Mark(r) \/ Open(r) \/ Limited(r)
              \/ \E review, delta, limit \in BOOLEAN : Pass1(r, review, delta, limit)
              \/ \E delta \in BOOLEAN : Pass2(r, delta)
              \/ MergeRead(r) \/ MergeWrite(r) \/ Publish(r) \/ KillRun(r)
         \/ Take \/ Stop \/ StartDaemon \/ MinutePasses
         \/ \E w \in Trees : StartJob(w) \/ \E word \in {"working", "stop", "done"} : Agent(w, word)

RSpec == RInit /\ [][RNext]_rvars

(* The daemon's loop turns and time passes.                                  *)
RFairSpec == RSpec /\ WF_rvars(Take) /\ WF_rvars(MinutePasses) /\ \A w \in Trees : WF_rvars(StartJob(w))

-----------------------------------------------------------------------------
(* A run that began has a worktree and a folder; what is staged or published *)
(* is a run's, and what is due was taken while the daemon ran.               *)
Steps == {"new", "prepared", "first", "pass1", "second", "pass2", "limited", "merge", "write",
          "publish", "over"}
Dirs == (0..MaxMinute) \X (1..(Cardinality(Runs) + 1))

ReviewTypeOK ==
  /\ pc \in [Runs -> Steps] /\ marks \in [Runs -> BOOLEAN] /\ out \in [Runs -> SUBSET Runs]
  /\ \A r \in Runs : IF pc[r] = "new" THEN wt[r] = Unset /\ dir[r] = Unset
                      ELSE wt[r] \in Trees /\ dir[r] \in Dirs
  /\ cur \in [Trees -> StatusStates]
  /\ \A f \in scratch : f.wt \in Trees /\ f.dir \in Dirs /\ f.review \cup f.delta \subseteq Runs
  /\ \A f \in reports : f.wt \in Trees /\ f.dir \in Dirs /\ f.review \subseteq Runs
  /\ ledger \cup merged \cup unread \subseteq Runs
  /\ {jobs, saved} \subseteq [Trees -> (0..MaxMinute) \cup {Unset}]
  /\ looping \in {"up", "down"} /\ (looping = "down" => jobs = NoJobs /\ due = {})
  /\ due \cup killed \cup promised \cup lost \subseteq Trees
  /\ minute \in 0..MaxMinute /\ hooks \in 0..MaxHooks /\ stops \in 0..MaxStops
  /\ crossed \in BOOLEAN /\ \A s \in shared : s.wt \in Trees /\ s.dir \in Dirs

(* `reviewing` is the reviewer's: it is shown only while a run shows it, or  *)
(* after one was killed.                                                     *)
ReviewingEnds == \A w \in Trees \ killed :
                   cur[w].status = "reviewing" =>
                     \E r \in Runs : wt[r] = w /\ marks[r] /\ pc[r] # "over"

(* Reports once moved into a worktree are there for good: no later run puts  *)
(* its own in their place, unless it was begun in the same minute, while the *)
(* folder was staged.                                                        *)
ReportsKept == [][\A f \in reports : f \in reports' \/ [wt |-> f.wt, dir |-> f.dir] \in shared]_rvars

(* "The rest kept": a section merged into the ledger stays, unless two runs  *)
(* merged at once or a run could not read the ledger it was in.              *)
SectionsKept == crossed \/ merged \ unread \subseteq ledger

(* No retry is pending that was started already, or that a report made       *)
(* needless.                                                                 *)
RetryWanted == \A w \in Trees : jobs[w] # Unset => w \in promised

(* A review the daemon said it would run again is run again, or a report     *)
(* makes that needless, unless the daemon stopped between taking the job and *)
(* starting it, or its log could not be opened.                              *)
Retried == <>[](looping = "up") =>
             \A w \in Trees : []<>(w \notin promised \/ w \in lost)

(* "per-run dirs: staging under .wtd/reviews/.scratch": no two runs at work  *)
(* share one.                                                                *)
PerRunDirs == \A r, o \in Runs : r # o /\ {pc[r], pc[o]} \cap {"new", "over"} = {} =>
                                   wt[r] # wt[o] \/ dir[r] # dir[o]

(* What a run leaves behind, whatever else runs, is killed or is retried:    *)
(* no status nobody clears, no report or ledger section written over, no     *)
(* retry nobody wants (review.rs).                                           *)
ReviewsKept == [](ReviewTypeOK /\ ReviewingEnds /\ SectionsKept /\ RetryWanted) /\ ReportsKept
=============================================================================
