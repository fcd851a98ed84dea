----------------------------- MODULE Worktrees -----------------------------
(* The worktree commands: `agent <slug> <name>` (create, reopen, start the   *)
(* session), `agent rm`, `archive` and `account switch`, on Windows and      *)
(* inside WSL distros.  Every command is a process of its own, the daemon's  *)
(* remove and archive handlers run beside them, and nothing locks the        *)
(* folders, the registry of WSL worktrees or the files of `.wtd/state`.      *)
(*                                                                           *)
(* A branch is checked out once per repository, so `at` has one place per    *)
(* platform and id.  What a worktree leaves in `.wtd/state` is kept as the   *)
(* generation (`gen`, counted from 1) of the checkout that wrote it, 0 when  *)
(* the file is absent.  The id of Claude's conversation is a fresh uuid each *)
(* time one is minted: the one on record is the last of `minted`.  Names,    *)
(* refs, paths and templates are abstract; the ids are worktrees of          *)
(* repositories (planning agents and delegators are plain folders that stay  *)
(* on Windows and are never archived).                                       *)
EXTENDS Naturals, FiniteSets

CONSTANTS Ids,         \* worktrees, `<slug>/<name>`
          Distros,     \* WSL distros
          Windows,     \* the other platform
          Procs,       \* processes that run commands
          NoJob, NoEntry,
          MaxCommands  \* bound: commands ever started

ASSUME WAssumption == Windows \notin Distros /\ MaxCommands \in Nat

VARIABLES at,        \* [platform -> [id -> "none" | "active" | "archived"]]
          reg,       \* wsl-worktrees.json: [id -> entry]
          left,      \* [id -> [kind of state -> generation that wrote it]]
          gen,       \* [id -> generation of its latest checkout]
          minted,    \* [id -> Claude's conversations begun under that id]
          seeded,    \* checkouts that got their CLAUDE.md
          opened,    \* checkouts an agent session was started in
          job,       \* [process -> its command]
          commands,  \* commands started so far
          lost,      \* history: ids whose entry another command's save undid
          cut,       \* history: ids of commands that ended half way
          unseeded,  \* history: ids of launches that failed at seeding
          crossed,   \* history: ids two commands worked on at once
          twin       \* history: ids that lived on two platforms at once

world == <<at, reg, left, gen, minted, seeded, opened>>
past  == <<lost, cut, unseeded, crossed, twin>>
wvars == <<at, reg, left, gen, minted, seeded, opened, job, commands,
           lost, cut, unseeded, crossed, twin>>

Platforms == {Windows} \cup Distros
Places    == {"none", "active", "archived"}
Forgotten == {"conversation", "codex", "account", "status", "preview"}
Kinds     == Forgotten \cup {"brief", "ticket"}
Entry     == [distro : Distros, archived : BOOLEAN]
Steps     == {"checkout", "reopen", "allowed", "add", "load", "save", "seed", "session",
              "move", "unmirror", "remove", "forget"}
Job       == [id : Ids, on : Platforms, pc : Steps, next : {"allowed", "seed", "unmirror", "forget", "done"},
              created : BOOLEAN, entry : Entry \cup {NoEntry},
              copy : [Ids -> Entry \cup {NoEntry}]]

ASSUME NothingAssumption == NoEntry \notin Entry /\ NoJob \notin Job

WInit == /\ at = [p \in Platforms |-> [i \in Ids |-> "none"]]
         /\ reg = [i \in Ids |-> NoEntry]
         /\ left = [i \in Ids |-> [k \in Kinds |-> 0]]
         /\ gen = [i \in Ids |-> 0] /\ minted = [i \in Ids |-> 0]
         /\ seeded = {} /\ opened = {}
         /\ job = [p \in Procs |-> NoJob]
         /\ commands = 0
         /\ lost = {} /\ cut = {} /\ unseeded = {} /\ crossed = {} /\ twin = {}

Working(i) == \E p \in Procs : job[p] # NoJob /\ job[p].id = i

(* A command starts: its job, and the ids another command already works on. *)
Starts(p, i, on, pc) ==
  /\ job[p] = NoJob /\ commands < MaxCommands
  /\ job' = [job EXCEPT ![p] = [id |-> i, on |-> on, pc |-> pc, next |-> "done",
                                created |-> FALSE, entry |-> NoEntry, copy |-> reg]]
  /\ commands' = commands + 1
  /\ crossed' = IF Working(i) THEN crossed \cup {i} ELSE crossed
  /\ UNCHANGED <<world, lost, cut, unseeded, twin>>

Goes(p, pc) == job' = [job EXCEPT ![p].pc = pc]
Ends(p)     == job' = [job EXCEPT ![p] = NoJob]

(* The id gets an active checkout on a platform; a new one begins a          *)
(* generation.  An id that also has a checkout elsewhere has a twin.         *)
Checked(i, on, new) ==
  /\ at' = [at EXCEPT ![on][i] = "active"]
  /\ gen' = IF new THEN [gen EXCEPT ![i] = @ + 1] ELSE gen
  /\ twin' = IF \E p \in Platforms \ {on} : at[p][i] # "none"
             THEN twin \cup {i} ELSE twin

-----------------------------------------------------------------------------
(* Plausible bugs of the code.                                               *)

(* choose looks for a Windows folder only.                                   *)
WindowsOnly(i) == IF at[Windows][i] = "active" THEN {Windows} ELSE {}

(* archive keeps the entry as it was.                                        *)
MoveUnrecorded(p) ==
  /\ job[p] # NoJob /\ job[p].pc = "move" /\ job[p].on # Windows
  /\ at' = [at EXCEPT ![job[p].on][job[p].id] = "archived"]
  /\ Ends(p)
  /\ UNCHANGED <<reg, left, gen, minted, seeded, opened, commands, past>>

(* The template is copied only into a checkout the command created, in WSL   *)
(* too: a killed launch is never repaired.                                   *)
SeedCreated(p) ==
  /\ job[p] # NoJob /\ job[p].pc = "seed" /\ job[p].on # Windows
  /\ seeded' = IF job[p].created THEN seeded \cup {<<job[p].on, job[p].id>>} ELSE seeded
  /\ Goes(p, "session")
  /\ UNCHANGED <<at, reg, left, gen, minted, opened, commands, past>>

(* The session ids survive the worktree.                                     *)
ForgetLess(p) ==
  LET i == job[p].id IN
  /\ job[p] # NoJob /\ job[p].pc = "forget"
  /\ left' = [left EXCEPT ![i].account = 0, ![i].status = 0, ![i].preview = 0]
  /\ Ends(p)
  /\ UNCHANGED <<at, reg, gen, minted, seeded, opened, commands, past>>

(* Every session begins a conversation of its own.                           *)
MintsAlways(i) == TRUE

(* A session that takes a brief records a conversation, whichever agent runs.*)
RecordedForAny(i, codex) ==
  /\ left' = [left EXCEPT ![i].account = gen[i], ![i].brief = 0, ![i].status = gen[i],
                          ![i].codex = IF codex THEN gen[i] ELSE @, ![i].conversation = gen[i]]
  /\ minted' = [minted EXCEPT ![i] = @ + 1]
-----------------------------------------------------------------------------
(* `agent <slug> <name>`: the platform it already lives on, else the one     *)
(* asked for or configured; asking for another one is refused.               *)
ExistingPlatform(i) == IF at[Windows][i] = "active" THEN {Windows}
                       ELSE IF reg[i] # NoEntry THEN {reg[i].distro}
                       ELSE {}

Open(p, i, on) ==
  /\ ExistingPlatform(i) \subseteq {on}
  /\ Starts(p, i, on, IF on = Windows THEN "checkout" ELSE "reopen")

(* Windows: an archived checkout moves back, a missing one is added.         *)
Checkout(p) ==
  LET i == job[p].id
      new == at[Windows][i] = "none"
  IN /\ job[p] # NoJob /\ job[p].pc = "checkout"
     /\ Checked(i, Windows, new)
     /\ job' = [job EXCEPT ![p].pc = "seed", ![p].created = new]
     /\ UNCHANGED <<reg, left, minted, seeded, opened, commands, lost, cut, unseeded, crossed>>

(* WSL: an entry that is archived is moved back inside its distro first.     *)
Reopen(p) ==
  LET i == job[p].id IN
  /\ job[p] # NoJob /\ job[p].pc = "reopen"
  /\ IF reg[i] # NoEntry /\ reg[i].archived
     THEN LET d == reg[i].distro IN
          IF at[d][i] = "archived"
          THEN /\ Checked(i, d, FALSE)
               /\ job' = [job EXCEPT ![p].pc = "load", ![p].next = "allowed",
                                     ![p].entry = [distro |-> d, archived |-> FALSE]]
          ELSE Ends(p) /\ UNCHANGED <<at, gen, twin>>
     ELSE Goes(p, "allowed") /\ UNCHANGED <<at, gen, twin>>
  /\ UNCHANGED <<reg, left, minted, seeded, opened, commands, lost, cut, unseeded, crossed>>

(* `create` refuses an id with an active Windows folder or an entry of       *)
(* another distro; the clone and the checkout come after that look.          *)
Allowed(p) ==
  LET i == job[p].id IN
  /\ job[p] # NoJob /\ job[p].pc = "allowed"
  /\ IF \/ at[Windows][i] = "active"
        \/ reg[i] # NoEntry /\ reg[i].distro # job[p].on
     THEN Ends(p)
     ELSE Goes(p, "add")
  /\ UNCHANGED <<world, commands, past>>

(* CREATE_WORKTREE: an existing checkout is taken, a branch checked out at   *)
(* its archive place is git's error.                                         *)
AddWorktree(p) ==
  LET i == job[p].id
      on == job[p].on
      new == at[on][i] = "none"
  IN /\ job[p] # NoJob /\ job[p].pc = "add"
     /\ IF at[on][i] = "archived"
        THEN Ends(p) /\ UNCHANGED <<at, gen, twin>>
        ELSE /\ Checked(i, on, new)
             /\ job' = [job EXCEPT ![p].pc = "load", ![p].next = "seed", ![p].created = new,
                                   ![p].entry = [distro |-> on, archived |-> FALSE]]
     /\ UNCHANGED <<reg, left, minted, seeded, opened, commands, lost, cut, unseeded, crossed>>

(* `upsert` and `unregister`: the registry is read ...                       *)
Load(p) == /\ job[p] # NoJob /\ job[p].pc = "load"
           /\ job' = [job EXCEPT ![p].pc = "save", ![p].copy = reg]
           /\ UNCHANGED <<world, commands, past>>

(* ... and written back whole, with what the command changed.  An id that    *)
(* is not in the copy needs no unregistering.                                *)
Save(p) ==
  LET i == job[p].id
      new == [job[p].copy EXCEPT ![i] = job[p].entry]
  IN /\ job[p] # NoJob /\ job[p].pc = "save"
     /\ reg' = IF job[p].entry = NoEntry /\ job[p].copy[i] = NoEntry THEN reg ELSE new
     /\ lost' = lost \cup {x \in Ids \ {i} : reg'[x] # reg[x]}
     /\ Goes(p, job[p].next)
     /\ UNCHANGED <<at, left, gen, minted, seeded, opened, commands, cut, unseeded, crossed, twin>>

(* Windows: the template goes into the folder this command created.  The     *)
(* plan preview and a ticket link come with every launch.                    *)
SeedState(i) == \E ticket \in {0, gen[i]} :
                  left' = [left EXCEPT ![i].preview = IF @ = 0 THEN gen[i] ELSE @,
                                       ![i].ticket = IF ticket = 0 THEN @ ELSE ticket]

Seed(p) == /\ job[p] # NoJob /\ job[p].pc = "seed" /\ job[p].on = Windows
           /\ seeded' = IF job[p].created THEN seeded \cup {<<Windows, job[p].id>>} ELSE seeded
           /\ SeedState(job[p].id)
           /\ Goes(p, "session")
           /\ UNCHANGED <<at, reg, gen, minted, opened, commands, past>>

(* WSL: CLAUDE.md is copied whenever it is absent.                           *)
SeedWsl(p) == /\ job[p] # NoJob /\ job[p].pc = "seed" /\ job[p].on # Windows
              /\ seeded' = seeded \cup {<<job[p].on, job[p].id>>}
              /\ SeedState(job[p].id)
              /\ Goes(p, "session")
              /\ UNCHANGED <<at, reg, gen, minted, opened, commands, past>>

(* A pending brief starts a new conversation with Claude; without one the    *)
(* recorded conversation goes on, and the first session records one.         *)
Mints(i) == left[i].brief # 0 \/ left[i].conversation = 0

(* The brief is taken whichever agent starts; Codex has a mark of its own    *)
(* and leaves Claude's record alone.                                         *)
Recorded(i, codex) ==
  /\ left' = [left EXCEPT ![i].account = gen[i], ![i].brief = 0, ![i].status = gen[i],
                          ![i].codex = IF codex THEN gen[i] ELSE @,
                          ![i].conversation = IF ~codex /\ Mints(i) THEN gen[i] ELSE @]
  /\ minted' = [minted EXCEPT ![i] = IF ~codex /\ Mints(i) THEN @ + 1 ELSE @]

(* The account is recorded and, unless `--no-claude`, the session starts in  *)
(* the checkout; the agent's hook writes the status.  An error may end it    *)
(* when the brief has been taken.                                            *)
Session(p) ==
  LET i == job[p].id
      on == job[p].on
  IN /\ job[p] # NoJob /\ job[p].pc = "session"
     /\ \/ left' = [left EXCEPT ![i].account = gen[i]] /\ UNCHANGED <<minted, opened>>
        \/ /\ at[on][i] = "active"
           /\ left' = [left EXCEPT ![i].account = gen[i], ![i].brief = 0]
           /\ UNCHANGED <<minted, opened>>
        \/ /\ at[on][i] = "active"
           /\ \E codex \in BOOLEAN : Recorded(i, codex)
           /\ opened' = opened \cup {<<on, i>>}
     /\ Ends(p)
     /\ UNCHANGED <<at, reg, gen, seeded, commands, past>>

-----------------------------------------------------------------------------
(* `archive <slug> <name>`: the active WSL entry's distro, else Windows.     *)
Archive(p, i) ==
  IF reg[i] # NoEntry /\ ~reg[i].archived
  THEN Starts(p, i, reg[i].distro, "move")
  ELSE /\ at[Windows][i] = "active"
       /\ Starts(p, i, Windows, "move")

(* Windows: the checkout moves and the status mirror is forgotten.           *)
Move(p) ==
  LET i == job[p].id IN
  /\ job[p] # NoJob /\ job[p].pc = "move" /\ job[p].on = Windows
  /\ IF at[Windows][i] # "active" THEN UNCHANGED <<at, left>>
     ELSE /\ at' = [at EXCEPT ![Windows][i] = "archived"]
          /\ left' = [left EXCEPT ![i].status = 0]
  /\ Ends(p)
  /\ UNCHANGED <<reg, gen, minted, seeded, opened, commands, past>>

(* WSL: the registry is written between the two.                             *)
MoveWsl(p) ==
  LET i == job[p].id
      on == job[p].on
  IN /\ job[p] # NoJob /\ job[p].pc = "move" /\ on # Windows
     /\ IF at[on][i] # "active" THEN Ends(p) /\ UNCHANGED at
        ELSE /\ at' = [at EXCEPT ![on][i] = "archived"]
             /\ job' = [job EXCEPT ![p].pc = "load", ![p].next = "unmirror",
                                   ![p].entry = [distro |-> on, archived |-> TRUE]]
     /\ UNCHANGED <<reg, left, gen, minted, seeded, opened, commands, past>>

Unmirror(p) == /\ job[p] # NoJob /\ job[p].pc = "unmirror"
               /\ left' = [left EXCEPT ![job[p].id].status = 0]
               /\ Ends(p)
               /\ UNCHANGED <<at, reg, gen, minted, seeded, opened, commands, past>>

(* `agent rm <slug> <name>`: the registered WSL worktree, archived or not,   *)
(* else the active Windows folder.                                           *)
Remove(p, i) ==
  Starts(p, i, IF reg[i] # NoEntry THEN reg[i].distro ELSE Windows, "remove")

(* The checkout at one place goes; one that is not there is only pruned from *)
(* git's list.                                                               *)
Gone(i, on, place) == IF at[on][i] = place
                      THEN /\ at' = [at EXCEPT ![on][i] = "none"]
                           /\ seeded' = seeded \ {<<on, i>>}
                           /\ opened' = opened \ {<<on, i>>}
                      ELSE UNCHANGED <<at, seeded, opened>>

(* Windows: only an active checkout, never the archived one.                 *)
Delete(p) == /\ job[p] # NoJob /\ job[p].pc = "remove" /\ job[p].on = Windows
             /\ Gone(job[p].id, Windows, "active")
             /\ Goes(p, "forget")
             /\ UNCHANGED <<reg, left, gen, minted, commands, past>>

(* WSL: whichever the entry found at the start names.                        *)
DeleteWsl(p) ==
  LET i == job[p].id
      found == job[p].copy[i]
  IN /\ job[p] # NoJob /\ job[p].pc = "remove" /\ job[p].on # Windows
     /\ Gone(i, found.distro, IF found.archived THEN "archived" ELSE "active")
     /\ job' = [job EXCEPT ![p].pc = "load", ![p].next = "forget"]
     /\ UNCHANGED <<reg, left, gen, minted, commands, past>>

(* forget_worktree_state.                                                    *)
Forget(p) ==
  LET i == job[p].id IN
  /\ job[p] # NoJob /\ job[p].pc = "forget"
  /\ left' = [left EXCEPT ![i] = [k \in Kinds |-> IF k \in Forgotten THEN 0 ELSE @[k]]]
  /\ Ends(p)
  /\ UNCHANGED <<at, reg, gen, minted, seeded, opened, commands, past>>

(* `account switch`: between Claude logins the transcript is carried over;   *)
(* else a brief waits for the next launch.                                   *)
Switch(p, i, carried) ==
  /\ job[p] = NoJob /\ commands < MaxCommands
  /\ \E on \in Platforms : at[on][i] = "active"
  /\ carried => left[i].conversation # 0 /\ at[Windows][i] = "active"
  /\ left' = [left EXCEPT ![i].brief = IF carried THEN 0 ELSE gen[i], ![i].account = gen[i]]
  /\ commands' = commands + 1
  /\ UNCHANGED <<at, reg, gen, minted, seeded, opened, job, past>>

-----------------------------------------------------------------------------
(* git refuses (uncommitted changes, a locked folder, no network), the       *)
(* question is answered with no, or the login is gone: nothing changed.  A   *)
(* launch can also fail at a file of its checkout, or at the login, which a  *)
(* launch in WSL looks up after it has made the checkout.                    *)
Fails(p) ==
  /\ job[p] # NoJob
  /\ job[p].pc \in {"checkout", "reopen", "allowed", "add", "move", "remove", "seed", "session"}
  /\ Ends(p)
  /\ unseeded' = IF job[p].pc = "seed" THEN unseeded \cup {job[p].id} ELSE unseeded
  /\ UNCHANGED <<world, commands, lost, cut, crossed, twin>>

(* The process is killed between two steps, or the registry cannot be        *)
(* written.                                                                  *)
Kill(p) == /\ job[p] # NoJob
           /\ Ends(p)
           /\ cut' = cut \cup {job[p].id}
           /\ UNCHANGED <<world, commands, lost, unseeded, crossed, twin>>

(* wsl-worktrees.json is no longer a list of entries: every command reads it *)
(* as empty, and the next save writes over it.                               *)
Garbled ==
  /\ commands < MaxCommands /\ commands' = commands + 1
  /\ reg' = [i \in Ids |-> NoEntry]
  /\ lost' = lost \cup {i \in Ids : reg[i] # NoEntry}
  /\ UNCHANGED <<at, left, gen, minted, seeded, opened, job, cut, unseeded, crossed, twin>>

WNext == \/ Garbled
         \/ \E p \in Procs :
           \/ \E i \in Ids : \/ \E on \in Platforms : Open(p, i, on)
                             \/ Archive(p, i)
                             \/ Remove(p, i)
                             \/ \E carried \in BOOLEAN : Switch(p, i, carried)
           \/ Checkout(p) \/ Reopen(p) \/ Allowed(p) \/ AddWorktree(p)
           \/ Load(p) \/ Save(p) \/ Seed(p) \/ SeedWsl(p) \/ Session(p)
           \/ Move(p) \/ MoveWsl(p) \/ Unmirror(p)
           \/ Delete(p) \/ DeleteWsl(p) \/ Forget(p)
           \/ Fails(p) \/ Kill(p)

WSpec == WInit /\ [][WNext]_wvars

-----------------------------------------------------------------------------
(* A command that writes the registry has a step after it; only one that     *)
(* works on a distro clones or reopens there.                                *)
Fits(j) == /\ j.pc \in {"load", "save"} => j.next # "done"
           /\ j.pc = "checkout" => j.on = Windows
           /\ j.pc \in {"reopen", "allowed", "add"} \/ j.next \in {"allowed", "seed"}
                => j.on \in Distros

PlacesOK == /\ at \in [Platforms -> [Ids -> Places]]
            /\ reg \in [Ids -> Entry \cup {NoEntry}]
            /\ seeded \cup opened \subseteq Platforms \X Ids

StateOK == /\ gen \in [Ids -> Nat] /\ minted \in [Ids -> Nat]
           /\ left \in [Ids -> [Kinds -> Nat]]
           /\ \A i \in Ids, k \in Kinds : left[i][k] <= gen[i]

JobsOK == /\ job \in [Procs -> Job \cup {NoJob}]
          /\ \A p \in Procs : job[p] # NoJob => Fits(job[p])
          /\ commands \in 0..MaxCommands

(* What is left of a worktree was written by a checkout there has been, the  *)
(* registry names distros only, and every command can take its next step.    *)
WTypeOK == PlacesOK /\ StateOK /\ JobsOK
           /\ lost \cup cut \cup unseeded \cup crossed \cup twin \subseteq Ids

(* A command on the id ended half way, another command worked on it at the   *)
(* same time, or its entry was lost with the registry or by another          *)
(* command's save: nothing in the code repairs what that leaves behind.      *)
Excused(i) == i \in lost \cup cut \cup crossed

(* "One branch gets one worktree" (platforms.rs): no sequence of launches,   *)
(* archives and removals gives an id two active checkouts, one platform's    *)
(* archive and another's launch included.                                    *)
OneActive == \A i \in Ids : ~Excused(i) =>
               Cardinality({p \in Platforms : at[p][i] = "active"}) <= 1

(* The registry names exactly the checkouts that exist in the distros, with  *)
(* their place, whenever no command is at work on the id.                    *)
Registered == \A i \in Ids : ~Excused(i) /\ ~Working(i) => \A d \in Distros :
                at[d][i] = IF reg[i] = NoEntry \/ reg[i].distro # d THEN "none"
                           ELSE IF reg[i].archived THEN "archived" ELSE "active"

(* A session starts in a checkout that got its CLAUDE.md.  In WSL the next   *)
(* launch repairs one that was killed or failed; on Windows it does not.     *)
SeededWhenOpened ==
  \A on \in Platforms, i \in Ids :
    <<on, i>> \in opened /\ i \notin crossed /\ (on = Windows => i \notin cut \cup unseeded)
      => <<on, i>> \in seeded

(* What forget_worktree_state names belongs to the checkout that exists: a   *)
(* worktree created under a used name inherits no conversation, account,     *)
(* status or preview.                                                        *)
NotInherited == \A i \in Ids : ~Excused(i) /\ i \notin twin =>
                  \A k \in Forgotten :
                    /\ left[i][k] \in {0, gen[i]}
                    /\ (\A p \in Platforms : at[p][i] = "none") /\ ~Working(i) => left[i][k] = 0

(* "Reopening a worktree continues its conversation" (agent.rs:246): the     *)
(* recorded id of an active worktree is replaced only by a Claude session    *)
(* that takes a waiting brief, and is never forgotten.                       *)
Begins(i) == left[i].brief # 0 /\ left'[i].brief = 0 /\ left'[i].codex = left[i].codex
             /\ minted'[i] = minted[i] + 1

ConversationKept ==
  [][\A i \in Ids :
       (/\ ~Excused(i) /\ i \notin twin
        /\ \E p \in Platforms : at[p][i] = "active"
        /\ left[i].conversation # 0)
       => \/ left'[i].conversation = left[i].conversation /\ minted'[i] = minted[i]
          \/ Begins(i) /\ left'[i].conversation = gen[i]]_wvars

(* "Everything a worktree leaves in `.wtd/state`" is forgotten with it.      *)
NothingInherited == \A i \in Ids : ~Excused(i) /\ i \notin twin =>
                      \A k \in Kinds : left[i][k] \in {0, gen[i]}

(* What is on disk, in the registry and under `.wtd/state` agrees, whatever  *)
(* the order of commands (platforms.rs, wsl_backend/mod.rs, wt.rs).          *)
CheckoutsTrue == WTypeOK /\ OneActive /\ Registered /\ SeededWhenOpened /\ NotInherited
=============================================================================
