---------------------------- MODULE StatusFiles ----------------------------
(***************************************************************************)
(* How one worktree's status is really kept: three files and a mirror,     *)
(* read and rewritten one file at a time by short-lived `wtd hook`         *)
(* processes that know nothing of each other (hook.rs, statusfile.rs), and *)
(* the daemon's view of it, fed by the hooks' notices and by rescans       *)
(* (daemon/mod.rs).                                                        *)
(*                                                                         *)
(* Claude Code runs one hook process per tool call, so parallel calls, an  *)
(* `agent done` typed by the user, the reviewer and the daemon's own       *)
(* session-exit handler all overlap; stopping a session ends its job, and  *)
(* with it a hook that is half way through its writes.                     *)
(***************************************************************************)
EXTENDS Status, FiniteSets

CONSTANTS Hooks,      \* hook processes that may run at the same time
          Reports,    \* the events they report
          MaxEvents,  \* bound: hook processes started
          MaxKills    \* bound: hook processes killed half way

ASSUME FilesAssumption ==
  Reports \subseteq Events /\ MaxEvents \in Nat /\ MaxKills \in Nat

VARIABLES
  file,      \* .claude-status
  resume,    \* .claude-status.resume
  limit,     \* .claude-status.limit
  mirror,    \* .wtd/state/status/<key>
  hook,      \* hook[h]: where process h is and what it has read and computed
  started,   \* hook processes started so far
  kills,     \* hook processes killed so far
  notices,   \* HOOK lines on their own connections, in no order
  view,      \* the status in the daemon's fleet map
  scan,      \* the status a running rescan has read, or "idle"
  latest,    \* history: the last event whose result is in the files
  mark       \* history: the milestone of the last mark, revert or source edit

filesVars == <<file, resume, limit, mirror>>
daemonVars == <<notices, view, scan>>
fvars == <<file, resume, limit, mirror, hook, started, kills, notices, view,
           scan, latest, mark>>

Phases == {"idle", "read_limit", "read_file", "read_resume", "write_resume",
           "write_limit", "write_file", "write_mirror", "notify"}

OnDisk == [status |-> file, stash |-> resume, resets_at |-> limit]

Idle == [pc |-> "idle", ev |-> Event("sync"), old |-> StatusDefault, new |-> StatusDefault]

FInit ==
  /\ file = "none" /\ resume = "none" /\ limit = UnknownReset /\ mirror = "none"
  /\ hook = [h \in Hooks |-> Idle]
  /\ started = 0 /\ kills = 0
  /\ notices = {} /\ view = "none" /\ scan = "idle"
  /\ latest = Event("sync") /\ mark = "none"

-----------------------------------------------------------------------------
(* A hook process: read three files, apply, rewrite what differs, notify.  *)

Start(h, ev) ==
  /\ hook[h].pc = "idle" /\ started < MaxEvents
  /\ hook' = [hook EXCEPT ![h] = [Idle EXCEPT !.pc = "read_limit", !.ev = ev]]
  /\ started' = started + 1
  /\ UNCHANGED <<filesVars, daemonVars, kills, latest, mark>>

(***************************************************************************)
(* std::fs::write empties a file before it fills it, and an empty file     *)
(* reads as "nothing there": what a reader may find while process h is     *)
(* rewriting a file, and what h leaves behind if it is killed meanwhile.   *)
(***************************************************************************)
RewritesFile(h) == hook[h].pc = "write_file" /\ hook[h].new.status # hook[h].old.status
RewritesResume(h) == hook[h].pc = "write_resume" /\ hook[h].new.stash \notin {hook[h].old.stash, "none"}
RewritesLimit(h) ==
  hook[h].pc = "write_limit" /\ hook[h].new.resets_at \notin {hook[h].old.resets_at, UnknownReset}

Found(content, nothing, rewritten) == IF rewritten THEN {content, nothing} ELSE {content}

FoundFile == Found(file, "none", \E h \in Hooks : RewritesFile(h))
FoundResume == Found(resume, "none", \E h \in Hooks : RewritesResume(h))
FoundLimit == Found(limit, UnknownReset, \E h \in Hooks : RewritesLimit(h))

(* statusfile::read: the limit, then the status, then the stash. *)
ReadLimit(h) ==
  /\ hook[h].pc = "read_limit"
  /\ \E v \in FoundLimit :
       hook' = [hook EXCEPT ![h].pc = "read_file", ![h].old.resets_at = v]
  /\ UNCHANGED <<filesVars, daemonVars, started, kills, latest, mark>>

ReadFile(h) ==
  /\ hook[h].pc = "read_file"
  /\ \E v \in FoundFile :
       hook' = [hook EXCEPT ![h].pc = "read_resume", ![h].old.status = v]
  /\ UNCHANGED <<filesVars, daemonVars, started, kills, latest, mark>>

MarkOf(ev, new) == IF ev.word \in MarkWords THEN Milestone(new) ELSE mark

ReadResume(h) ==
  /\ hook[h].pc = "read_resume"
  /\ \E v \in FoundResume :
       LET old == [hook[h].old EXCEPT !.stash = v]
           new == Apply(old, hook[h].ev) IN
       /\ hook' = [hook EXCEPT ![h].pc = IF new = old THEN "notify" ELSE "write_resume",
                               ![h].old = old, ![h].new = new]
       /\ mark' = IF new = old THEN MarkOf(hook[h].ev, new) ELSE mark
  /\ UNCHANGED <<filesVars, daemonVars, started, kills, latest>>

(* statusfile::write: only what differs from what was read. *)
\* mutant: the stash is left behind when it should be removed
WriteResumeNeverRemoves(h) ==
  LET p == hook[h] IN
  /\ p.pc = "write_resume"
  /\ resume' = IF p.new.stash # "none" THEN p.new.stash ELSE resume
  /\ hook' = [hook EXCEPT ![h].pc = "write_limit"]
  /\ UNCHANGED <<file, limit, mirror, daemonVars, started, kills, latest, mark>>

WriteResume(h) ==
  LET p == hook[h] IN
  /\ p.pc = "write_resume"
  /\ resume' = IF p.new.stash # p.old.stash THEN p.new.stash ELSE resume
  /\ hook' = [hook EXCEPT ![h].pc = "write_limit"]
  /\ UNCHANGED <<file, limit, mirror, daemonVars, started, kills, latest, mark>>

\* mutant: a reset time is written but never removed
WriteLimitNeverRemoves(h) ==
  LET p == hook[h] IN
  /\ p.pc = "write_limit"
  /\ limit' = IF p.new.resets_at # UnknownReset THEN p.new.resets_at ELSE limit
  /\ hook' = [hook EXCEPT ![h].pc = "write_file"]
  /\ UNCHANGED <<file, resume, mirror, daemonVars, started, kills, latest, mark>>

WriteLimit(h) ==
  LET p == hook[h] IN
  /\ p.pc = "write_limit"
  /\ limit' = IF p.new.resets_at # p.old.resets_at THEN p.new.resets_at ELSE limit
  /\ hook' = [hook EXCEPT ![h].pc = "write_file"]
  /\ UNCHANGED <<file, resume, mirror, daemonVars, started, kills, latest, mark>>

WriteFile(h) ==
  LET p == hook[h] IN
  /\ p.pc = "write_file"
  /\ file' = IF p.new.status # p.old.status THEN p.new.status ELSE file
  /\ hook' = [hook EXCEPT ![h].pc = "write_mirror"]
  /\ latest' = p.ev
  /\ mark' = MarkOf(p.ev, p.new)
  /\ UNCHANGED <<resume, limit, mirror, daemonVars, started, kills>>

\* mutant: the mirror is written only for a status that has a milestone
WriteMirrorMilestonesOnly(h) ==
  LET p == hook[h] IN
  /\ p.pc = "write_mirror"
  /\ mirror' = IF p.new.status \in Milestones THEN p.new.status ELSE mirror
  /\ hook' = [hook EXCEPT ![h].pc = "notify"]
  /\ UNCHANGED <<file, resume, limit, daemonVars, started, kills, latest, mark>>

WriteMirror(h) ==
  LET p == hook[h] IN
  /\ p.pc = "write_mirror"
  /\ mirror' = IF p.new.status # p.old.status THEN p.new.status ELSE mirror
  /\ hook' = [hook EXCEPT ![h].pc = "notify"]
  /\ UNCHANGED <<file, resume, limit, daemonVars, started, kills, latest, mark>>

(* The ping is best effort: a daemon that is down or busy never gets it. *)
Notify(h) ==
  /\ hook[h].pc = "notify"
  /\ \/ notices' = notices \cup {[by |-> h, status |-> hook[h].new.status]}
     \/ notices' = notices
  /\ hook' = [hook EXCEPT ![h] = Idle]
  /\ UNCHANGED <<filesVars, view, scan, started, kills, latest, mark>>

(* host.rs `exited` takes the same steps inside the daemon, and puts what it
   computed in the fleet map itself. *)
Exited(h) ==
  /\ hook[h].pc = "notify" /\ hook[h].ev.word = "sessionend"
  /\ view' = hook[h].new.status
  /\ hook' = [hook EXCEPT ![h] = Idle]
  /\ UNCHANGED <<filesVars, notices, scan, started, kills, latest, mark>>

Kill(h) ==
  /\ hook[h].pc # "idle" /\ kills < MaxKills
  /\ file' \in Found(file, "none", RewritesFile(h))
  /\ resume' \in Found(resume, "none", RewritesResume(h))
  /\ limit' \in Found(limit, UnknownReset, RewritesLimit(h))
  /\ hook' = [hook EXCEPT ![h] = Idle]
  /\ kills' = kills + 1
  /\ UNCHANGED <<mirror, daemonVars, started, latest, mark>>

HookStep(h) ==
  \/ ReadLimit(h) \/ ReadFile(h) \/ ReadResume(h)
  \/ WriteResume(h) \/ WriteLimit(h) \/ WriteFile(h) \/ WriteMirror(h)
  \/ Notify(h) \/ Exited(h)

-----------------------------------------------------------------------------
(* The daemon. *)

HandleHook(m) ==
  /\ m \in notices
  /\ notices' = notices \ {m}
  /\ view' = m.status
  /\ UNCHANGED <<filesVars, hook, scan, started, kills, latest, mark>>

(* A rescan reads the files before it takes the lock, and merges after. *)
ScanRead ==
  /\ scan = "idle"
  /\ scan' \in FoundFile
  /\ UNCHANGED <<filesVars, hook, notices, view, started, kills, latest, mark>>

\* mutant: the merge keeps the old status, as it keeps git and liveness
ScanApplyKeepsStatus ==
  /\ scan # "idle"
  /\ scan' = "idle"
  /\ UNCHANGED <<filesVars, hook, notices, view, started, kills, latest, mark>>

ScanApply ==
  /\ scan # "idle"
  /\ view' = scan
  /\ scan' = "idle"
  /\ UNCHANGED <<filesVars, hook, notices, started, kills, latest, mark>>

(* Every hook runs to its end. *)
Unkilled ==
  \/ \E h \in Hooks : (\E ev \in Reports : Start(h, ev)) \/ HookStep(h)
  \/ \E m \in notices : HandleHook(m)
  \/ ScanRead \/ ScanApply

FNext == Unkilled \/ \E h \in Hooks : Kill(h)

(* A started hook runs on, a delivered line is handled, and the daemon
   rescans periodically (SCAN_EVERY). *)
Fairness ==
  /\ \A h \in Hooks : WF_fvars(HookStep(h))
  /\ WF_fvars(\E m \in notices : HandleHook(m))
  /\ WF_fvars(ScanRead) /\ WF_fvars(ScanApply)

FSpec == FInit /\ [][FNext]_fvars /\ Fairness

UnkilledSpec == FInit /\ [][Unkilled]_fvars /\ Fairness

-----------------------------------------------------------------------------
(* Whatever the interleaving, no file ever holds what its reader would not
   take for its own kind, and a hook computes from a well-typed state. *)
FTypeOK ==
  /\ OnDisk \in StatusStates /\ mirror \in Statuses
  /\ \A h \in Hooks : /\ hook[h].pc \in Phases /\ hook[h].ev \in Events
                      /\ hook[h].old \in StatusStates /\ hook[h].new \in StatusStates
  /\ started \in 0..MaxEvents /\ kills \in 0..MaxKills
  /\ notices \subseteq [by : Hooks, status : Statuses]
  /\ view \in Statuses /\ scan \in Statuses \cup {"idle"}
  /\ latest \in Events /\ mark \in Milestones \cup {"none"}

Quiet == \A h \in Hooks : hook[h].pc = "idle"

(***************************************************************************)
(* "`pr` and `done` are sticky milestones ... a read-only turn restores    *)
(* it, and a real source edit drops it" (status.rs:5-6): when no hook is   *)
(* running, the milestone on disk is the one last marked.                  *)
(***************************************************************************)
MarkKept == Quiet => Milestone(OnDisk) = mark

(* The mirror "so one folder watch sees every change" (statusfile.rs:4), and
   the only status of a worktree in a stopped distro (scan.rs:45), is the
   status file's. *)
MirrorFresh == Quiet => mirror = file

(***************************************************************************)
(* "Files stay authoritative" (statusfile.rs:5): lost, late and reordered  *)
(* notices and stale rescans notwithstanding, once the hooks are done the  *)
(* daemon comes to show, and goes on showing, the status in the file,      *)
(* which never holds anything else than a status.                          *)
(***************************************************************************)
ViewConverges == []FTypeOK /\ <>[](view = file)

(***************************************************************************)
(* One hook process at a time, none killed, implements the status machine: *)
(* an event takes effect when the status file is written, the last of the  *)
(* three files; until then the state is what the process read.             *)
(***************************************************************************)
Writing(h) == hook[h].pc \in {"write_resume", "write_limit", "write_file"}

Settled == IF \E h \in Hooks : Writing(h)
             THEN hook[CHOOSE h \in Hooks : Writing(h)].old
             ELSE OnDisk

Machine == INSTANCE StatusMachine WITH cur <- Settled, last <- latest

SerialMachine == Machine!Spec
=============================================================================
