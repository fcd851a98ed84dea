------------------------------ MODULE Updater ------------------------------
(***************************************************************************)
(* Automatic updates of an installed build: updater/mod.rs, fetch.rs,      *)
(* apply.rs, cli.rs, daemon/update.rs and program.rs.  A check downloads a *)
(* newer version and stages it as a folder; a request judges that now is a *)
(* safe moment and starts the helper, a process of its own, which stops    *)
(* the daemon, re-points `current`, starts the daemon from there, and      *)
(* points it back if the new version does not come up.                     *)
(*                                                                         *)
(* Checks and helpers share the folders, a lock file and a state file that *)
(* each of them loads, changes and saves.  Everything may end at any step: *)
(* the daemon is stopped or crashes, a helper dies.                        *)
(*                                                                         *)
(* A version is a positive number, 0 is none.  Left out: the tray, which a *)
(* helper stops and starts like the daemon; the VS Code extension, whose   *)
(* installation may fail without consequence; the fields of the state file *)
(* that are only shown.                                                    *)
(***************************************************************************)
EXTENDS Naturals, FiniteSets

CONSTANTS Newest,     \* versions are 1..Newest
          Installed,  \* the version that is there at first
          Released,   \* what a check may find to be the latest
          Requests,   \* requests to apply, each with the helper it starts
          Checkers,   \* processes that check: the daemon, and others beside it
          Daemon,     \* the daemon among them
          MaxFaults   \* bound: helpers that die, file operations that fail

Versions == 1..Newest

ASSUME UpdateAssumption ==
  /\ Newest \in Nat /\ MaxFaults \in Nat
  /\ Installed \in Versions /\ Released \subseteq Versions
  /\ Daemon \in Checkers

VARIABLES
  dirs,      \* the folder versions\<v> of each version
  tmp,       \* the folder versions\<v>.tmp of each version
  current,   \* current\: a link to a version's folder, or a plain copy of one
  file,      \* update-state.json: staged and failed
  lock,      \* update.lock: "free", "held", or "old" (for more than 600 s)
  daemon,    \* the version of the running daemon, 0 when none runs
  applying,  \* Live.applying in the daemon
  safe,      \* safe_to_apply: settings and hosted sessions allow an update now
  pc,        \* what each request, then its helper, does next
  job,       \* what each of them has decided, read and found
  cpc,       \* what each check does next
  task,      \* what each of them has read
  faults,    \* helpers that died, file operations that failed
  harm,      \* history: what has happened that the code has no answer to
  bad        \* history: versions recorded as failed

diskVars == <<dirs, tmp, current>>
daemonVars == <<daemon, applying, safe>>
uvars == <<dirs, tmp, current, file, lock, daemon, applying, safe, pc, job, cpc, task,
           faults, harm, bad>>

(* A folder is missing, complete, or holds a part of its files: with
   version.txt among them ("torn") or without ("bare"). *)
Folders == {"none", "bare", "torn", "whole"}

Labelled(folder) == folder \in {"torn", "whole"}   \* read_version finds a version

(* What a removal that fails half way may leave of a folder. *)
Parts(folder) == IF Labelled(folder) THEN {"bare", "torn"} ELSE {"bare"}

Files(cur) == IF cur.is = "link" THEN dirs[cur.ver] ELSE cur.is

Gone == [is |-> "gone", ver |-> 0]

StateFile == [staged : Versions \cup {0}, failed : SUBSET Versions]

NoFile == [staged |-> 0, failed |-> {}]

(* by: the daemon or another process; ver: the version to apply; from: the
   version the helper leaves; verdict: how it fared; mem: the state file as
   it has loaded it. *)
NoJob == [by |-> "user", ver |-> 0, from |-> 0, verdict |-> "none", mem |-> NoFile]

(* ver: the version a check has found; newer: than what was current then; mem:
   the state file as loaded; clean: nobody else has touched its .tmp folder. *)
NoTask == [ver |-> 0, newer |-> FALSE, mem |-> NoFile, clean |-> FALSE]

HelperSteps == {"stale", "taking", "keeping", "kept", "stopped", "pointing", "pointed", "up",
                "failing", "back", "reversing", "reversed", "recording", "saving", "tidying"}
LockedSteps == HelperSteps \ {"stale", "taking"}
JudgedSteps == {"failing", "back", "reversing", "reversed", "recording", "saving", "tidying"}
CheckSteps == {"touching", "judging", "unzipping", "clearing", "noting", "closing"}

Helpers == {r \in Requests : pc[r] \in HelperSteps}
Applying == {r \in Requests : pc[r] \in LockedSteps}

(* current_version, or else the version of the program that asks. *)
Here(running) == IF Labelled(Files(current)) THEN {current.ver} ELSE running

(* Layout::staged. *)
Staged(running) ==
  {v \in Versions : /\ file.staged = v /\ \E here \in Here(running) : v > here
                    /\ v \notin file.failed /\ Labelled(dirs[v])}

(* The versions that these helpers rely on. *)
Uses(rs) == {v \in Versions : \E r \in rs : v \in {job[r].ver, job[r].from}}

Harm(kinds) == harm' = harm \cup kinds

(* State::save of what was loaded as mem: what others have recorded since is
   undone. *)
Writes(mem, new) ==
  /\ file' = new
  /\ Harm(IF file.failed \subseteq mem.failed /\ mem.staged \in {0, file.staged}
          THEN {} ELSE {"lost"})

Fault == faults < MaxFaults /\ faults' = faults + 1

-----------------------------------------------------------------------------
(* The daemon.  Ending it ends its check and the request it is making. *)

(* It runs from current\, if what it needs is there. *)
DaemonUp ==
  /\ daemon = 0 /\ Files(current) \in {"bare", "torn", "whole"}
  /\ daemon' = current.ver

Dropped == {r \in Requests : job[r].by = "daemon" /\ pc[r] \in {"chosen", "copied"}}

DaemonDown(steps) ==
  /\ daemon' = 0 /\ applying' = FALSE
  /\ pc' = [r \in Requests |-> IF r \in Dropped THEN "off" ELSE steps[r]]
  /\ job' = [r \in Requests |-> IF r \in Dropped THEN NoJob ELSE job[r]]
  /\ IF daemon = 0 THEN UNCHANGED <<cpc, task>>
     ELSE cpc' = [cpc EXCEPT ![Daemon] = "idle"] /\ task' = [task EXCEPT ![Daemon] = NoTask]

DaemonStarts ==
  /\ DaemonUp
  /\ UNCHANGED <<diskVars, file, lock, applying, safe, pc, job, cpc, task, faults, harm, bad>>

DaemonEnds ==
  /\ daemon # 0
  /\ DaemonDown(pc)
  /\ UNCHANGED <<diskVars, file, lock, safe, faults, harm, bad>>

(* Sessions open and close, the user changes the settings. *)
SafetyChanges ==
  /\ safe' = ~safe
  /\ UNCHANGED <<diskVars, file, lock, daemon, applying, pc, job, cpc, task, faults, harm, bad>>

-----------------------------------------------------------------------------
(* check_and_stage.  It updates the state file when it knows the latest
   version, when it has staged it, and at the end; each time it loads the file
   in the step before the one that saves it. *)

Goes(c, step, then) == cpc' = [cpc EXCEPT ![c] = step] /\ task' = [task EXCEPT ![c] = then]

Closes(c) == Goes(c, "closing", [task[c] EXCEPT !.mem = file])

(* The daemon checks one at a time (`checking`), another process only when it
   finds no daemon. *)
CheckBegin(c) ==
  /\ cpc[c] = "idle" /\ (daemon # 0 <=> c = Daemon)
  /\ \E v \in Released, here \in Here(IF c = Daemon THEN {daemon} ELSE Versions) :
       Goes(c, "touching", [NoTask EXCEPT !.ver = v, !.newer = v > here, !.mem = file])
  /\ UNCHANGED <<diskVars, file, lock, daemonVars, pc, job, faults, harm, bad>>

CheckSave(c) ==
  /\ \/ /\ cpc[c] = "touching"   \* last_check, latest, notes_url
        /\ Writes(task[c].mem, task[c].mem)
        /\ Goes(c, "judging", [task[c] EXCEPT !.mem = NoFile])
     \/ /\ cpc[c] = "noting"     \* staged
        /\ Writes(task[c].mem, [task[c].mem EXCEPT !.staged = task[c].ver])
        /\ Goes(c, "closing", [task[c] EXCEPT !.mem = file'])
     \/ /\ cpc[c] = "closing"    \* error
        /\ Writes(task[c].mem, task[c].mem)
        /\ Goes(c, "idle", NoTask)
  /\ UNCHANGED <<diskVars, lock, daemonVars, pc, job, faults, bad>>

Staging(v) == {c \in Checkers : task[c].ver = v /\ cpc[c] \in {"unzipping", "clearing", "noting"}}

Soiled(v) == [c \in Checkers |-> [task[c] EXCEPT !.clean = @ /\ c \notin Staging(v)]]

(* stage, once the download is there and its hash is right: a .tmp folder left
   by an earlier attempt makes way, also one that another check writes to. *)
Stage(c) ==
  /\ cpc[c] = "judging"
  /\ LET v == task[c].ver IN
     /\ task[c].newer /\ v \notin file.failed
     /\ v \notin Staged(IF c = Daemon THEN {daemon} ELSE Versions)
     /\ tmp' = [tmp EXCEPT ![v] = "torn"]
     /\ task' = [Soiled(v) EXCEPT ![c].clean = TRUE]
     /\ Harm(IF Staging(v) = {} THEN {} ELSE {"overlap"})
  /\ cpc' = [cpc EXCEPT ![c] = "unzipping"]
  /\ UNCHANGED <<dirs, current, file, lock, daemonVars, pc, job, faults, bad>>

(* Nothing to stage, or nothing that could be downloaded. *)
Leave(c) ==
  /\ cpc[c] = "judging"
  /\ Closes(c)
  /\ UNCHANGED <<diskVars, file, lock, daemonVars, pc, job, faults, harm, bad>>

(* The end of unzip and check_payload; then the folder that is to be replaced
   is removed, which fails half way if a program in it runs. *)
Clear(c) ==
  /\ cpc[c] = "unzipping"
  /\ LET v == task[c].ver IN
     /\ tmp' = [tmp EXCEPT ![v] = IF task[c].clean THEN "whole" ELSE
                                  IF @ = "none" THEN "torn" ELSE @]
     /\ \/ dirs' = [dirs EXCEPT ![v] = "none"] /\ Goes(c, "clearing", task[c])
        \/ /\ dirs[v] # "none"
           /\ \E part \in Parts(dirs[v]) : dirs' = [dirs EXCEPT ![v] = part]
           /\ Closes(c)
     /\ Harm(IF dirs[v] # "none" /\ v \in Uses(Applying) \cup {file.staged, current.ver}
             THEN {"replaced"} ELSE {})
  /\ UNCHANGED <<current, file, lock, daemonVars, pc, job, faults, bad>>

Place(c) ==
  /\ cpc[c] = "clearing"
  /\ LET v == task[c].ver IN
     IF dirs[v] = "none" /\ tmp[v] # "none"
     THEN /\ dirs' = [dirs EXCEPT ![v] = tmp[v]]
          /\ tmp' = [tmp EXCEPT ![v] = "none"]
          /\ task' = [Soiled(v) EXCEPT ![c].mem = file]
          /\ cpc' = [cpc EXCEPT ![c] = "noting"]
     ELSE Closes(c) /\ UNCHANGED <<dirs, tmp>>
  /\ UNCHANGED <<current, file, lock, daemonVars, pc, job, faults, harm, bad>>

(* A save, a download or an unpacking that fails; the last save may fail unheard. *)
CheckFails(c) ==
  /\ Fault
  /\ \/ cpc[c] \in {"touching", "unzipping", "noting"} /\ Closes(c)
     \/ cpc[c] = "closing" /\ Goes(c, "idle", NoTask)
  /\ UNCHANGED <<diskVars, file, lock, daemonVars, pc, job, harm, bad>>

Check(c) == CheckSave(c) \/ Stage(c) \/ Leave(c) \/ Clear(c) \/ Place(c)

-----------------------------------------------------------------------------
(* Requests: update_loop, apply_now, `wtd update --apply-now`, the tray at its
   start.  The version is chosen from the state file, then the program copies
   itself to update-helper.exe, which fails while a helper runs, and starts it. *)

Goto(r, step) == pc' = [pc EXCEPT ![r] = step]

Ends(r) == Goto(r, "off") /\ job' = [job EXCEPT ![r] = NoJob]

Choose(r, who, running) ==
  /\ pc[r] = "off"
  /\ \E v \in Staged(running) : job' = [job EXCEPT ![r] = [NoJob EXCEPT !.by = who, !.ver = v]]
  /\ Goto(r, "chosen")
  /\ UNCHANGED <<diskVars, file, lock, daemon, safe, cpc, task, faults, harm, bad>>

LoopChooses(r) ==
  /\ daemon # 0 /\ safe /\ ~applying
  /\ Choose(r, "daemon", {daemon})
  /\ applying' = TRUE

(* Confirmed by the user, or in another process that has found it safe. *)
UserChooses(r) ==
  \/ daemon # 0 /\ ~applying /\ Choose(r, "daemon", {daemon}) /\ applying' = TRUE
  \/ Choose(r, "user", Versions) /\ UNCHANGED applying

Copy(r) ==
  /\ pc[r] = "chosen" /\ Helpers = {}
  /\ Goto(r, "copied")
  /\ UNCHANGED <<diskVars, file, lock, daemonVars, job, cpc, task, faults, harm, bad>>

SpawnFailed(r) ==
  \/ pc[r] = "chosen" /\ Helpers # {} /\ UNCHANGED faults
  \/ pc[r] \in {"chosen", "copied"} /\ Fault

\* mutant: the daemon goes on as if the helper had been started
SpawnFailsUnnoticed(r) ==
  /\ SpawnFailed(r) /\ Ends(r)
  /\ UNCHANGED <<diskVars, file, lock, daemonVars, cpc, task, harm, bad>>

SpawnFails(r) ==
  /\ SpawnFailed(r) /\ Ends(r)
  /\ applying' = (applying /\ job[r].by # "daemon")
  /\ UNCHANGED <<diskVars, file, lock, daemon, safe, cpc, task, harm, bad>>

-----------------------------------------------------------------------------
(* The helper: Lock::take first. *)

Spawn(r) ==
  /\ pc[r] = "copied"
  /\ Goto(r, IF lock = "old" THEN "stale" ELSE "taking")
  /\ UNCHANGED <<diskVars, file, lock, daemonVars, job, cpc, task, faults, harm, bad>>

RemoveStale(r) ==
  /\ pc[r] = "stale"
  /\ Goto(r, "taking")
  /\ lock' = "free"
  /\ Harm(IF Applying = {} THEN {} ELSE {"robbed"})
  /\ UNCHANGED <<diskVars, file, daemonVars, job, cpc, task, faults, bad>>

(* A helper that ends without having stopped the daemon: the daemon goes on
   saying that it is applying. *)
GivesUp(r) == IF job[r].by = "daemon" /\ applying THEN {"gaveup"} ELSE {}

TakeFails(r) ==
  /\ pc[r] = "taking" /\ lock # "free"
  /\ Ends(r)
  /\ Harm(GivesUp(r))
  /\ UNCHANGED <<diskVars, file, lock, daemonVars, cpc, task, faults, bad>>

(* Ten minutes pass, more than a helper that lives needs. *)
Age ==
  /\ lock = "held" /\ Applying = {} /\ lock' = "old"
  /\ UNCHANGED <<diskVars, file, daemonVars, pc, job, cpc, task, faults, harm, bad>>

-----------------------------------------------------------------------------
(* apply.  Leaving it drops the lock, whoever's it is by now. *)

Leaves(r) == Ends(r) /\ lock' = "free"

\* mutant: applies although the lock is held
TakeAnyway(r) ==
  /\ pc[r] = "taking" /\ Labelled(dirs[job[r].ver])
  /\ Goto(r, "kept") /\ lock' = "held"
  /\ job' = [job EXCEPT ![r].from = CHOOSE here \in Here(Versions) : TRUE]
  /\ UNCHANGED <<diskVars, file, daemonVars, cpc, task, faults, harm, bad>>

(* The lock, then what is current and what is to be applied: it need no longer
   be what is staged. *)
Take(r) ==
  /\ pc[r] = "taking" /\ lock = "free"
  /\ IF ~Labelled(dirs[job[r].ver])
     THEN Leaves(r) /\ Harm(GivesUp(r)) /\ UNCHANGED dirs
     ELSE /\ \E here \in Here(Versions) :
               /\ job' = [job EXCEPT ![r].from = here]
               /\ IF dirs[here] = "none" /\ current.is \notin {"link", "gone"}
                  THEN Goto(r, "keeping") /\ dirs' = [dirs EXCEPT ![here] = "bare"]
                  ELSE Goto(r, "kept") /\ UNCHANGED dirs
          /\ lock' = "held"
          /\ Harm((IF job[r].ver \in Staged(Versions) THEN {} ELSE {"late"}) \cup
                  (IF current.is # "link" /\ \E here \in Here(Versions) :
                        dirs[here] \in {"bare", "torn"}
                   THEN {"halfcopy"} ELSE {}))
  /\ UNCHANGED <<tmp, current, file, daemonVars, cpc, task, faults, bad>>

(* keep_current: copy_tree.  Another version's files do not make this one. *)
Keep(r) ==
  /\ pc[r] = "keeping" /\ current.is # "gone"
  /\ LET v == job[r].from IN
     dirs' = [dirs EXCEPT ![v] = IF current.ver = v THEN Files(current) ELSE "bare"]
  /\ Goto(r, "kept")
  /\ UNCHANGED <<tmp, current, file, lock, daemonVars, job, cpc, task, faults, harm, bad>>

KeepFails(r) ==
  /\ pc[r] = "keeping" /\ (Fault \/ (current.is = "gone" /\ UNCHANGED faults))
  /\ \E part \in {"bare", "torn"} : dirs' = [dirs EXCEPT ![job[r].from] = part]
  /\ Leaves(r)
  /\ Harm({"halfcopy"} \cup GivesUp(r))
  /\ UNCHANGED <<tmp, current, file, daemonVars, cpc, task, bad>>

(* host.stop, before the swap and before a swap back. *)
Stop(r) ==
  /\ \/ pc[r] = "kept" /\ DaemonDown([pc EXCEPT ![r] = "stopped"])
     \/ pc[r] = "failing" /\ DaemonDown([pc EXCEPT ![r] = "back"])
  /\ UNCHANGED <<diskVars, file, lock, safe, faults, harm, bad>>

(* It fails, which is ignored before a swap back, or the daemon does not end
   within 15 s. *)
StopFails(r) ==
  /\ Fault
  /\ \/ pc[r] = "kept" /\ Leaves(r) /\ Harm(GivesUp(r))
     \/ pc[r] = "kept" /\ Goto(r, "stopped") /\ UNCHANGED <<job, lock, harm>>
     \/ pc[r] = "failing" /\ Goto(r, "back") /\ UNCHANGED <<job, lock, harm>>
  /\ UNCHANGED <<diskVars, file, daemonVars, cpc, task, bad>>

(* swap_current(ver); swap_current(from) if that failed or the new version is
   not healthy. *)
Target(r) == IF pc[r] \in {"stopped", "pointing"} THEN job[r].ver ELSE job[r].from

(* point_current removes the link that is there, or as much of a plain copy
   as it can. *)
Unpoint(r) ==
  /\ pc[r] \in {"stopped", "back"} /\ Labelled(dirs[Target(r)])
  /\ Goto(r, IF pc[r] = "stopped" THEN "pointing" ELSE "reversing")
  /\ \/ current' = Gone
     \/ /\ current.is \notin {"link", "gone"}
        /\ \E part \in Parts(current.is) : current' = [current EXCEPT !.is = part]
  /\ UNCHANGED <<dirs, tmp, file, lock, daemonVars, job, cpc, task, faults, harm, bad>>

Point(r) ==
  /\ pc[r] \in {"pointing", "reversing"}
  /\ Goto(r, IF pc[r] = "pointing" THEN "pointed" ELSE "reversed")
  /\ LET v == Target(r) IN
     \/ current' = [is |-> "link", ver |-> v] /\ current.is = "gone"
     \/ current' = [is |-> dirs[v], ver |-> v] /\ dirs[v] # "none"
  /\ UNCHANGED <<dirs, tmp, file, lock, daemonVars, job, cpc, task, faults, harm, bad>>

(* A folder that does not hold the version it should, or a failing call on
   the way.  After a health check that failed, the error ends the helper. *)
SwapFails(r) ==
  /\ \/ /\ pc[r] \in {"stopped", "back"} /\ UNCHANGED harm
        /\ Fault \/ (~Labelled(dirs[Target(r)]) /\ UNCHANGED faults)
     \/ pc[r] \in {"pointing", "reversing"} /\ Fault /\ Harm({"cut"})
  /\ \/ /\ pc[r] \in {"stopped", "pointing"}
        /\ Goto(r, "back")
        /\ job' = [job EXCEPT ![r].verdict = "swap"]
        /\ UNCHANGED lock
     \/ /\ pc[r] \in {"back", "reversing"} /\ job[r].verdict = "swap"
        /\ Goto(r, "reversed")
        /\ UNCHANGED <<lock, job>>
     \/ /\ pc[r] \in {"back", "reversing"} /\ job[r].verdict = "health"
        /\ Leaves(r)
  /\ UNCHANGED <<diskVars, file, daemonVars, cpc, task, bad>>

(* host.start: the daemon from current\, unless one is up. *)
Start(r) ==
  /\ pc[r] \in {"pointed", "reversed"}
  /\ DaemonUp \/ (daemon # 0 /\ UNCHANGED daemon)
  /\ Goto(r, IF pc[r] = "pointed" THEN "up" ELSE "recording")
  /\ UNCHANGED <<diskVars, file, lock, applying, safe, job, cpc, task, faults, harm, bad>>

\* mutant: a start that fails is no reason to roll back
StartFailsUnheard(r) ==
  /\ pc[r] \in {"pointed", "reversed"} /\ Files(current) # "whole"
  /\ Goto(r, IF pc[r] = "pointed" THEN "failing" ELSE "recording")
  /\ UNCHANGED <<diskVars, file, lock, daemonVars, job, cpc, task, faults, harm, bad>>

(* A failed health check, or ignored after a swap back. *)
StartFails(r) ==
  /\ pc[r] \in {"pointed", "reversed"} /\ Files(current) # "whole"
  /\ \/ /\ pc[r] = "pointed" /\ Goto(r, "failing")
        /\ job' = [job EXCEPT ![r].verdict = "health"]
     \/ pc[r] = "reversed" /\ Goto(r, "recording") /\ UNCHANGED job
  /\ UNCHANGED <<diskVars, file, lock, daemonVars, cpc, task, faults, harm, bad>>

(* The daemon that answers is the new version, and in time. *)
Healthy(r) ==
  /\ pc[r] = "up"
  /\ \/ /\ daemon = job[r].ver /\ Goto(r, "recording")
        /\ job' = [job EXCEPT ![r].verdict = "ok"]
     \/ /\ Goto(r, "failing")
        /\ job' = [job EXCEPT ![r].verdict = "health"]
  /\ UNCHANGED <<diskVars, file, lock, daemonVars, cpc, task, faults, harm, bad>>

(* record. *)
RecordLoad(r) ==
  /\ pc[r] = "recording"
  /\ job' = [job EXCEPT ![r].mem = file]
  /\ Goto(r, "saving")
  /\ UNCHANGED <<diskVars, file, lock, daemonVars, cpc, task, faults, harm, bad>>

\* mutant: records a failed health check as if the swap had failed
RecordSaveNoFailure(r) ==
  /\ pc[r] = "saving"
  /\ Writes(job[r].mem, [job[r].mem EXCEPT !.staged = IF job[r].verdict = "ok" THEN 0 ELSE @])
  /\ bad' = bad \cup (IF job[r].verdict = "health" THEN {job[r].ver} ELSE {})
  /\ Goto(r, "tidying")
  /\ job' = [job EXCEPT ![r].mem = NoFile]
  /\ UNCHANGED <<diskVars, lock, daemonVars, cpc, task, faults>>

RecordSave(r) ==
  /\ pc[r] = "saving"
  /\ LET failed == IF job[r].verdict = "health" THEN {job[r].ver} ELSE {}
         mem == job[r].mem
     IN /\ Writes(mem, [staged |-> IF job[r].verdict = "swap" THEN mem.staged ELSE 0,
                        failed |-> mem.failed \cup failed])
        /\ bad' = bad \cup failed
  /\ Goto(r, "tidying")
  /\ job' = [job EXCEPT ![r].mem = NoFile]
  /\ UNCHANGED <<diskVars, lock, daemonVars, cpc, task, faults>>

RecordFails(r) ==
  /\ pc[r] = "saving" /\ Fault
  /\ Leaves(r)
  /\ UNCHANGED <<diskVars, file, daemonVars, cpc, task, harm, bad>>

\* mutant: removes what is not newer than the version applied
OutdatedApplied(r) == IF job[r].verdict = "ok" THEN {v \in Versions : v <= job[r].ver} ELSE {}

(* tidy removes what is older than the version left; a rollback, the version
   that failed. *)
Outdated(r) == CASE job[r].verdict = "ok"     -> {v \in Versions : v < job[r].from}
                 [] job[r].verdict = "health" -> {job[r].ver}
                 [] OTHER                     -> {}

(* A program that runs from a folder keeps some of it. *)
Tidy(r) ==
  /\ pc[r] = "tidying"
  /\ LET old == {v \in Outdated(r) : dirs[v] # "none"} IN
     /\ \E left \in [old -> {"none", "bare", "torn"}] :
          /\ \A v \in old : left[v] \in {"none"} \cup Parts(dirs[v])
          /\ dirs' = [v \in Versions |-> IF v \in old THEN left[v] ELSE dirs[v]]
     /\ Harm(IF Uses(Applying \ {r}) \cap old = {} THEN {} ELSE {"tidied"})
  /\ Leaves(r)
  /\ UNCHANGED <<tmp, current, file, daemonVars, cpc, task, faults, bad>>

(* A helper dies; its lock stays. *)
Dies(r) ==
  /\ r \in Helpers /\ Fault
  /\ Ends(r)
  /\ Harm(GivesUp(r) \cup (IF pc[r] \in {"pointing", "reversing"} THEN {"cut"} ELSE {})
                     \cup (IF pc[r] = "keeping" THEN {"halfcopy"} ELSE {}))
  /\ UNCHANGED <<diskVars, file, lock, daemonVars, cpc, task, bad>>

Helper(r) ==
  \/ RemoveStale(r) \/ Take(r) \/ TakeFails(r) \/ Keep(r) \/ Stop(r)
  \/ Unpoint(r) \/ Point(r) \/ SwapFails(r) \/ Start(r) \/ StartFails(r) \/ Healthy(r)
  \/ RecordLoad(r) \/ RecordSave(r) \/ Tidy(r)

-----------------------------------------------------------------------------
Init ==
  /\ \/ /\ current = [is |-> "link", ver |-> Installed]
        /\ dirs = [v \in Versions |-> IF v = Installed THEN "whole" ELSE "none"]
     \/ /\ current = [is |-> "whole", ver |-> Installed]   \* laid down by an installer
        /\ dirs = [v \in Versions |-> "none"]
  /\ tmp = [v \in Versions |-> "none"]
  /\ file = NoFile /\ lock = "free"
  /\ daemon = 0 /\ applying = FALSE /\ safe \in BOOLEAN
  /\ pc = [r \in Requests |-> "off"] /\ job = [r \in Requests |-> NoJob]
  /\ cpc = [c \in Checkers |-> "idle"] /\ task = [c \in Checkers |-> NoTask]
  /\ faults = 0 /\ harm = {} /\ bad = {}

Next ==
  \/ DaemonStarts \/ DaemonEnds \/ SafetyChanges \/ Age
  \/ \E c \in Checkers : CheckBegin(c) \/ Check(c) \/ CheckFails(c)
  \/ \E r \in Requests : LoopChooses(r) \/ UserChooses(r) \/ Copy(r) \/ SpawnFails(r)
  \/ \E r \in Requests : Spawn(r)
  \/ \E r \in Requests : Helper(r) \/ KeepFails(r) \/ StopFails(r) \/ RecordFails(r) \/ Dies(r)

(* The loop looks again every minute, a request that was made and a helper go
   on, and time passes.  Nobody is assumed to start a daemon, to check or to ask. *)
Fairness ==
  /\ WF_uvars(\E r \in Requests : LoopChooses(r))
  /\ \A r \in Requests : WF_uvars(Copy(r) \/ SpawnFails(r) \/ Spawn(r) \/ Helper(r))
  /\ WF_uvars(Age)

USpec == Init /\ [][Next]_uvars /\ Fairness

-----------------------------------------------------------------------------
Harms == {"lost", "overlap", "replaced", "cut", "halfcopy", "gaveup", "robbed", "tidied", "late"}

DiskOK ==
  /\ dirs \in [Versions -> Folders] /\ tmp \in [Versions -> Folders]
  /\ current \in [is : {"gone", "link", "bare", "torn", "whole"}, ver : Versions \cup {0}]
  /\ current.is = "gone" <=> current.ver = 0

FileOK == file \in StateFile /\ lock \in {"free", "held", "old"}

DaemonOK ==
  /\ daemon \in Versions \cup {0} /\ applying \in BOOLEAN /\ safe \in BOOLEAN
  /\ applying => daemon # 0

Steps == {"off", "chosen", "copied"} \cup HelperSteps

Job == [by : {"daemon", "user"}, ver : Versions \cup {0}, from : Versions \cup {0},
        verdict : {"none", "ok", "swap", "health"}, mem : StateFile]

Fits(step, j) == /\ step = "off" <=> j.ver = 0
                 /\ step \in LockedSteps <=> j.from # 0
                 /\ step \in JudgedSteps <=> j.verdict # "none"

RequestsOK == /\ pc \in [Requests -> Steps] /\ job \in [Requests -> Job]
              /\ \A r \in Requests : Fits(pc[r], job[r])

Task == [ver : Versions \cup {0}, newer : BOOLEAN, mem : StateFile, clean : BOOLEAN]

ChecksOK == /\ cpc \in [Checkers -> {"idle"} \cup CheckSteps] /\ task \in [Checkers -> Task]
            /\ \A c \in Checkers : cpc[c] = "idle" <=> task[c].ver = 0

HistoryOK == faults \in 0..MaxFaults /\ bad \subseteq Versions /\ harm \subseteq Harms

(* Everything is well typed; a helper that goes back or records has a verdict,
   and a request or a check that is over leaves nothing behind (apply.rs:73-95). *)
UTypeOK == DiskOK /\ FileOK /\ DaemonOK /\ RequestsOK /\ ChecksOK /\ HistoryOK

(* Whatever ends where, current is complete or a helper is re-pointing it, but
   for these: a helper that ended while it re-pointed (`cut`); a copy kept to
   go back to that was cut short (`halfcopy`); two checks that unpacked into one
   folder (`overlap`); a folder that a check put anew though it was current,
   staged or a helper was at it (`replaced`), or that a helper removed under
   another (`tidied`); two helpers at work, for a lock that was removed
   (`robbed`); a version applied after it ceased to be staged (`late`), or again
   because the record of its failure was overwritten (`lost`).
   updater/apply.rs:44, fetch.rs:207, program.rs:117. *)
Startable ==
  \/ Files(current) = "whole"
  \/ \E r \in Requests : pc[r] \in {"pointing", "reversing"}
  \/ harm \cap {"cut", "halfcopy", "overlap", "replaced", "robbed", "tidied", "late", "lost"} # {}

(* One apply at a time (apply.rs:162), unless a helper has removed a lock that
   was no longer the stale one it had looked at. *)
OneApply == Cardinality(Applying) <= 1 \/ "robbed" \in harm

(* A version that failed its health check is never what runs next (mod.rs:322):
   the swap back was not cut short, no second helper overtook the record, no
   older copy of the state file was written over it, and no check replaced the
   folder that is current, for then a helper goes back to its own version. *)
FailedGone == current.ver \notin bad \/ harm \cap {"cut", "robbed", "late", "lost", "replaced"} # {}

(* An update that waits, in a daemon that only helpers end, is applied, given
   up or overtaken, or it ceases to be safe: no lock that was left behind, no
   helper that died, no state file a crash left stands in its way for good.
   What does is a helper that gave up and left the daemon `applying`. *)
Waiting(v) == v \in Staged(Versions)

Resolved ==
  <>[](daemon # 0 \/ Applying # {}) =>
    \A v \in Versions : []<>(~Waiting(v) \/ ~safe \/ harm # {})

(* Whatever ends where, there is a complete version to start, and not one that
   failed its health check (updater/apply.rs:44, mod.rs:322). *)
SomethingGoodToStart == UTypeOK /\ Startable /\ FailedGone
=============================================================================
