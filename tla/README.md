# Verification of worktree-dev

TLA+ models of `wtd`, the Windows daemon and command-line tool that runs a
fleet of coding agents, each in a git worktree of its own: modules translated
from the Rust sources under `src/wtd`, TLC runs that check them on small
instances, and TLAPS proofs of what must hold for every instance.

It covers every component that keeps state: the daemon (fleet, sessions,
messages, git, usage, metrics, updates), the files that separate processes
share with it (statuses, reminders, worktrees, reviews, presets, settings), and
the clients whose state can go wrong while the daemon's changes (tray, form,
terminal interface). What is left out is listed with its reason in section 5.

## 1. The system

One *daemon* (`wtd daemon run`, two runtime threads) holds the fleet in memory
behind a single mutex and serves line-delimited JSON over a named pipe.
Everything else is a short- or long-lived process that connects to it: hooks
that Claude Code runs on every prompt, tool call and turn end; terminals that
attach to hosted sessions; `wtd run` wrappers around terminal sessions; the
tray and its flyout, the TUI and the VS Code extension, which subscribe to
pushes; and commands the user types. Several of them also read and write the
same files as the daemon, without locks.

| Component (sources in `crates/wtd/src` unless noted) | State | Operations | What is hard |
|---|---|---|---|
| Status machine (`wtd-core/status.rs`) | status, stashed milestone, reset time | one event: prompt, tool, edit, stop, limit, mark, review, session end | sequences of events nobody wrote down; milestones must survive turns |
| Status files and hooks (`hook.rs`, `statusfile.rs`) | three files and a mirror per worktree | read, apply, rewrite, notify | hooks overlap, are killed half way, notices are lost or late |
| Agent messages (`daemon/messages.rs`) | the queue | send, decide, decide many, deliver_next, expire | several calls of deliver_next; approval is the only way to a session |
| Daemon store (`daemon/store.rs`) | `store.json` | load, save, trim, next id | saves and loads that fail, crashes between steps |
| Message delivery (`messages.rs`, `daemon/mod.rs` HOOK, `daemon/host.rs`) | the shown status, sessions, timers, typing threads | HOOK, rescan, session start and end, paste | the shown status is a guess about the agent; calls that are never made |
| Hosted sessions (`daemon/host.rs`, `pty.rs`, `attach.rs`) | sessions, consoles, attached terminals | spawn, attach, exit, stop, shutdown | find-then-spawn, an exit that comes before the insert |
| Terminal sessions (`run.rs`, `client.rs`) | one registration per connection | register, lose, retry every 3 s | the daemon restarts; nobody knows the session meanwhile |
| Fleet map and dispatch (`daemon/mod.rs`, `scan.rs`) | worktrees, revision, subscribers, watchers | rescan, remove, archive, subscribe | results applied after the lock was released; a subscriber that lags |
| Git status scheduling (`daemon/mod.rs`, `git.rs`, `watch.rs`) | due times, running set, two slots | schedule, run, done, sweep | debounce against longest delay; a slot is needed to make progress |
| Scheduled jobs (`daemon/mod.rs`) | jobs in the store | schedule, cancel, run | removed and saved before they run |
| Groups and parents (`daemon/mod.rs`) | groups, membership, parents in the store | create, delete, reorder, assign | membership that outlives its worktree |
| Updater (`updater/*`, `daemon/update.rs`, `program.rs`) | versions, `current`, state file, lock, `applying` | check, stage, apply, roll back | a crash anywhere; three programs that write one state file |
| Worktree commands (`agent.rs`, `wt.rs`, `new.rs`, `paths.rs`) | folders and branches | open, remove, archive, restore | a folder that is in use; git that fails half way |
| Reviewer (`review.rs`, `guard.rs`) | reports, ledger, lessons | two passes, merge, retry | two reviews merge one ledger |
| Handoff and proposals (`handoff.rs`, `proposal.rs`, `custom.rs`, `mcp.rs`) | proposal files, preset layers | create, accept, reject | load, check and write without a lock |
| WSL worktrees (`wsl_backend/*`) | `wsl-worktrees.json` | upsert, unregister, launch | read-modify-write by several processes |
| Plan reminders, tickets (`nudge.rs`, `ticket.rs`) | one small file each | step, sync | parallel hooks |
| Usage, limits, platforms (`daemon/usage.rs`, `limit.rs`, `platforms.rs`) | caches | fetch, back off, expire | a stale answer used as a fresh one |
| Settings and setup (`setup/*`, `codex.rs`, `guard.rs`) | settings of Claude and Codex, commands, start at logon, the preflight stamp | install, repair, uninstall, wire a distro, launch; preflight, `agent pr` | steps that fail, are skipped or killed on files the user edits too |
| User interface (`tray.rs`, `flyout.rs`, `flyout_new.rs`, `tui/*`) | a form, a mirror of the fleet, a focus, an index into a list | show, create, attach, quit, reload | answers that come after the form, the session or the row they were for |
| Scripts and extension | none of their own | | the same status rules, in shell |

How they interact. A hook rewrites the status files, then sends one HOOK line
on a connection of its own; the daemon shows the status it names, schedules a
git status and, when it is `input`, calls `deliver_next`. Rescans, every ten
seconds and on demand, read the same files before they take the lock and then
merge, so they can put back an older status. A hosted session's exit callback
applies `SessionEnd` to the files from inside the daemon. Messages, groups,
parents and jobs share one store with one id counter, so each of their saves
writes all of them and trims the closed messages. `deliver_next` joins the
queue, the sessions and the shown status.

What makes the core correct:

- *status*: milestones are sticky, a reset time does not outlive its limit, and
  a limit holds until a prompt or a tool call; on disk, the milestone is the
  one last marked, the mirror follows the file, and the daemon comes to show
  what the files say;
- *messages*: nothing is typed that the user did not approve in these words,
  nothing twice, nothing is forgotten while open, and what is in memory is on
  disk;
- *delivery*: one message per turn, between turns, and none waits for ever;
- *sessions*: a worktree is shown as live exactly while it is, has one hosted
  agent, and an ended session is heard of and forgotten;
- *git status*: one run per worktree, none forgotten, and none put off for ever
  by the events that ask for it;
- *updates*: whatever ends or fails where, a complete version is current; one
  update is applied at a time; a version that failed does not run again; an
  update that waits is not forgotten;
- *fleet*: what is shown is what the store and the disk say, and every client
  comes to see it; a name used again inherits nothing;
- *worktrees*: a branch has one active checkout, registered where it is, seeded
  before an agent starts in it, and keeps its conversation;
- *reviews, presets, setup*: nothing of the user's, of the repository's or of
  another run's is written over, and what was promised is done;
- *clients*: a result reaches the form or session it is of, and what is shown in
  the end is what there is.

## 2. The modules

| Module | Models | With |
|---|---|---|
| `Status` | `status.rs`: `TurnStep`, `TurnEnd`, `Transition`, `Apply` | extended by the modules that keep a status |
| `StatusMachine` | the state machine of one worktree, one event per step: what status.rs promises | `StatusFiles` refines it; `StatusMachineProofs` |
| `StatusFiles` | `hook.rs`, `statusfile.rs`: hook processes, file by file; kills; notices; rescans | `StatusMachineProofs` |
| `MessageApproval` | what messages promise, with no store, fleet or session: the abstract specification | `MessageStore` refines it |
| `MessageStore` | `messages.rs` and `store.rs`, with everything the daemon may do around them | `Delivery` refines it; `MessageStoreProofs` |
| `Delivery` | the queue composed with the agent, its hooks, notices, rescans and sessions | `MessageStoreProofs` |
| `HostSessions` | `host.rs`, the session handlers of `mod.rs`, `run.rs` and the clients | `HostSessionsProofs` |
| `Console` | the size of one hosted console: `host.rs` `attach`, `pty.rs`, `attach.rs`, `tui/session.rs` | `HostSessionsProofs` |
| `GitSchedule` | `schedule_git`, `git_loop`, `git_done`, `watch.rs` | `GitScheduleProofs` |
| `Fleet` | the fleet map of `mod.rs` with `scan.rs`, `store.rs`, `model.rs`, `protocol.rs` | |
| `Usage`, `Metrics` | `usage.rs` and `usage_loop`; `metrics_loop` and its subscribers | |
| `Updater` | `updater/mod.rs`, `fetch.rs` `stage`, `apply.rs`, `cli.rs`, `daemon/update.rs`, `program.rs` `point_current` | `UpdaterProofs` |
| `Worktrees` | `agent.rs`, `wt.rs`, `platforms.rs`, `wsl_backend/*` | `WorktreeProofs` |
| `Review`, `Guard` | `review.rs` with the daemon's jobs; `guard.rs` | `GitScheduleProofs` (`Review`), `AgentProofs` (`Guard`) |
| `Presets` | `custom.rs`, `proposal.rs` | `WorktreeProofs` |
| `Nudge` | `nudge.rs` | `AgentProofs` |
| `Setup` | `setup/merge.rs` as functions; `setup/mod.rs`, `setup/wsl.rs`, `codex.rs` | |
| `NewSession`, `Tray` | `flyout.rs` and `flyout_new.rs`; `tray.rs` with the daemon's watchdog | `InterfaceProofs` |
| `Tui`, `Changes` | `tui/mod.rs`, `tui/session.rs`; its pane of changes | `InterfaceProofs` (`Tui`) |
| `MC*` | small instances for TLC, some of several components | |

### Status, StatusMachine

`Apply(cur, ev)` is `status::apply`; a state is the record of the three files.
An event is its word and, for a limit hit, the reset time its message names.
Whether a path counts as a source edit is the only fact about it that the code
uses, so an edit is `edit` or `scratch`. Nothing bounds the machine: its whole
state space is checked.

### StatusFiles

Each `wtd hook` process is a program counter with what it has read (`old`) and
computed (`new`); one action per file access, in the order of
`statusfile::read` (limit, status, stash) and `write` (stash, limit, status,
mirror; each only if it differs from what was read). `std::fs::write` empties a
file before it fills it: a reader may find "nothing" while a file is being
rewritten (`Found*`), and a process killed at that moment leaves it so
(`Kill`). A notice may be lost, and notices arrive in no order. `ScanRead` and
`ScanApply` are the two halves of a rescan. `host.rs` `exited` takes the same
steps inside the daemon. `mark` and `latest` are history: the milestone last
marked, and the event last written.

Removing a file is one step; only rewriting one has a moment in between.

### MessageApproval, MessageStore

The queue is a function from ids to messages. Each handler is one action
because it holds the lock until it has saved; `deliver_next`, which a decision
calls after it has released the lock, is owed in `calls` and taken by
`DeliverNext`. `Save` is `Store::save`: it trims the closed messages, in memory
too, then writes the file or fails, which the callers only log. `Restart` is a
crash or a shutdown, at any moment, followed by `Store::load` and the first
rescan; a load can fail, with the file kept in place (any read error) or moved
aside (parse error). `faults` counts what fails.

The message's `nth` is history: it tells a message from an earlier one whose id
a lost store handed out again. `approved` remembers the user's decisions with
the words they were about.

What the rest of the daemon does is left as open as it can be: `Rescan` may
find any fleet and any statuses; sessions open and close at will; a hook
reports anything. `Delivery` then shows that the real handlers stay inside
(`QueueUndisturbed`, a part of `DeliveryOrderly`).

### Delivery

One target worktree with one hosted session, which opens once and ends once.
The agent is idle or in a turn; `Hook` applies an event to the files and sends a
notice on a connection of its own, which may be lost (hook.rs:104 drops the
error) and which is handled in no order; `HandleNotice` is the HOOK handler, `DeliverStep` is a call of
`deliver_next`, `PasteLands` the typing thread: a prompt if the agent is
between turns, one more instruction if it is not, nothing if the session is
gone. Other sessions of the same worktree (`wtd run`, reviews) come and go;
`deliver_next` may pick one of them, because it looks at the first session it
finds in a hash map. A hook applies its event in one step here: `StatusFiles`
shows that hooks which do not overlap behave so.

History: `since` counts the messages handed over in this turn; `late`, `marked`,
`lost` and `rewound` say whether ever a hook ran while an earlier notice was
unhandled, a mark was made, a notice was lost, a rescan changed what was shown
(one that finds what is shown changes nothing). `unheard` is about the last turn
only: its end did not come through, because its notice was lost or told of a
milestone, because a status from before it was shown after it, or because the call
it led to passed the hosted session over. The next turn clears it, and so does an
`input` notice that is handled.

Left out of `Delivery`, and in `MessageStore`: crashes, failing saves, expiry,
denials. Left out of both: usage limits inside a turn (they do not end it),
review status of the target (its `reviewing` is a status like `working`
to `deliver_next`).

### HostSessions

A terminal's connection has a handler (`pc`), which goes through `host.rs`
`open` and `attach` step by step: `Find` under the lock, `Start` (the process
runs from here on) without it, `Insert` under it again, `Subscribe` to the
console's events. A console has a phase: its process ends, its waiter thread
tells the terminals that are attached (`Tell`), then takes the lock and drops
the session (`Exited`). The two meet in any order, so a process may end before
it is registered. `wtd run` sessions are registered while their connection
lives (`Register`, `Gone`) and register again when the daemon is back. `Down`
is the daemon's exit 200 ms after `Shutdown`, or a crash; the job objects of its
consoles end what runs in them. `live` is what the fleet map shows;
`Rescan` changes the fleet at any time.

`late`, `hasty`, `overlap` and `settled` are history: terminals that subscribed
after the exit was told, consoles whose end was handled before they were
registered, worktrees two spawns were starting a session for, and what ran when
shutdown was asked. The status files at a session's end are in `StatusFiles`,
its queued messages in `Delivery`.

### GitSchedule

Time is counted in passes of `git_loop`, and an entry's `due` and `first` are
relative to the present, so that time needs no bound: what is overdue is 0, and
what lies further back than the longest delay is not told apart.
`Debounced` is the debounced half of `schedule_git`. A pass (`Pass`) takes the
due local worktrees that the free slots suffice for, in any order (a hash
map's), and all due worktrees in WSL, one batch for each distro; until each
batch has its slot (`Batch`) the loop makes no further pass. `Done` is
`git_done`, which for a batch comes worktree by worktree. A change of a file is
noticed or not (WSL worktrees are not watched). `calm` says that
nothing happens in any worktree any more, and that git does not fail.

`unseen`, `missed`, `burst` and `denied` are history: worktrees whose shown git
state is not the present one, changes while they were being read, the age of
the oldest event no run has been due for, and which worktrees were due at a
pass that had no slot for them.

### Updater

A check (`cpc`) and a request with the helper it starts (`pc`) go through
`check_and_stage` and `apply` step by step: a step is one access to a folder,
to `current`, to the lock or to the state file, so a check, a helper, another
helper and the daemon interleave between any two. A folder is missing,
complete, or holds a part of its files, with or without `version.txt`, which is
all that `read_version` looks at. `current` is a junction or a plain copy, as an
installer leaves it and as `point_current` makes it when it cannot make a
junction. `State::update` is a load and a later save. The daemon, its check and
the request it is making end at any moment; a helper dies, and file operations
fail, within `MaxFaults`. A check beside the daemon's is that of `wtd update` run
when there was no daemon. `safe` is `safe_to_apply`.

`harm` is history: which of nine things have happened that the code has no
answer to. The properties hold but for these, each with those it can be broken
by:

| Kind | What has happened |
|---|---|
| `lost` | a save of the state file has undone what another process recorded after the load (mod.rs:345) |
| `overlap` | two checks have unpacked into one `.tmp` folder (fetch.rs:193) |
| `replaced` | a check has replaced a folder that was current, staged, or that a helper was using (fetch.rs:208) |
| `cut` | a helper has ended, or a call has failed, between the old `current` and the new (program.rs:130) |
| `halfcopy` | the copy of the version left was cut short, and is later taken for complete (apply.rs:132) |
| `gaveup` | a helper has ended without stopping the daemon, which goes on saying that it is applying (update.rs:118) |
| `robbed` | a helper has removed a lock that was no longer the stale one (apply.rs:171) |
| `tidied` | a helper has removed a folder another helper was using |
| `late` | a helper has applied a version that had ceased to be staged between the request and the lock |

`bad` is history too: the versions recorded as failed. That `replaced` can bring
one of them back was found by the proof: a check that replaces the folder which
is current changes what a helper takes for the version it comes from, and goes
back to. Two versions are too few for it, four show it.

Left out: the tray, which a helper stops and starts like the daemon; the VS Code
extension, whose installation may fail without consequence; downloading, which
yields the payload or fails; signatures.

### Fleet

The daemon's map of worktrees (`known`), the groups and parents of its store,
and one subscriber. A rescan reads the disk without the lock and merges under
it, so the 10 s loop and a handler's rescan are two processes (`loop`, `call`)
whose reading and merging interleave with everything else. Removing a worktree
drops its watcher, deletes the folder and then, under the lock again, its parent;
archiving drops the watcher and moves the folder; a rescan under way may open
another watcher in between. A directory that cannot be read hides its worktrees
from a rescan (`Hidden`, scan.rs:14 and 65): the merge drops them, with their
watchers and titles, until the next rescan. A distro that has stopped hides its
files; their status then comes from the mirror. Every change is pushed into a ring of `Cap`
pushes; a subscriber that is further behind gets a new snapshot
(`Lag`) and then the pushes still in the ring.

`strayed` is history: worktrees that went, or got a parent, behind the
daemon's back (git in a terminal; a request that crosses a removal).
`FleetTrue` says what a client shows, what groups and parents refer to, and that
titles stay when a distro stops. `Converges` says that a daemon which stays up
ends up with the disk's worktrees and with a watcher on each Windows one.
Left out: the revision number, which pushes carry in the order they have here.

### NewSession

The flyout's form. Its repositories, branches, issues and creates are asked for
on threads and come back as results that name a repository or an id, never the
form that asked (`bg`). A select is a native menu: a message loop of its own,
in which results are handled while the choices shown stay those of when it was
dropped (`menu`). The form is hidden, left, reopened and turned to another
repository meanwhile. `told`, `abandoned` and `crossed` are history: where an
error was shown, that a form was left while its create ran, that a list of
repositories reached another form than the one that asked. Without the first
two nothing is unlocked, closed or shown by a result but its own form; with
them it can be, and the model has both.

### Tray

Two tray processes, each with the states of its main thread from the mutex to
the end of the message loop; the daemon's watchdog and the update helper, which
look and act in separate steps; the registry's word for the sign-in; and the
thread that mirrors the daemon's sessions into the window through two queues.
A tray is killed, hung up by a sign-out, quit and started by hand. The user's
word on the sign-in is two accesses of the registry, the flag and the Run entry
(`SetLogon`, `RunEntry`), and so is an install's: it looks at the flag
(`Refresh`) and writes the entry later, when the user may have said "off".
`ordered`, `early` and `overtaken` are history: a quit was handled, the watchdog
had decided before, and the last "off" met a write of the entry that was already
on its way, or was cut short. Without such a write "off" stays off.

### Worktrees

A command (`agent`, `agent rm`, `archive`, `account switch`, the daemon's own
removal) is a process with a program counter that may be killed between any two
steps; the folders, the registry of WSL worktrees and the files of
`.wtd/state` are written without a lock. What a worktree leaves there is the
generation of the checkout that wrote it, so that inheriting it can be told.
The id of Claude's conversation is a fresh uuid each time one is minted
(agent.rs:250), so `minted` counts them: the id on record is the last one, and
another one minted for the same checkout is another conversation. A session is
Claude's or Codex's. Both take a waiting brief, but only Claude's mints an id;
Codex's keeps a mark of its own (agent.rs:594). A launch may also fail after the
checkout was made: at a file of it, at the login, or when the brief has
been taken and no session started (agent.rs:466, 475, 589).

`lost`, `cut`, `unseeded`, `crossed` and `twin` are history: ids whose entry was
lost with a registry that is no longer JSON (`Garbled`: every command reads it as
empty and the next save writes over it) or by another's save, whose command
was killed, whose launch failed at seeding, on which two commands worked at once,
and that lived on two platforms. The code repairs none of these but an unseeded
checkout in WSL, so the properties are about the other ids, in a model where they
all happen. Not modelled is a registry that one command cannot read and the next
can: where `Garbled` loses entries, it can also leave one of a worktree that is gone.

### Review

A run stages its inputs in a scratch folder named by the minute, marks the
worktree, runs two passes, reads and writes the repository's ledger in two
steps, and moves its reports. A ledger that cannot be read is taken for a new one
(review.rs:573), and what was in it is gone. A limit makes it ask the daemon for a
retry; the daemon takes due jobs, saves, and starts them later. `shared`, `merged`,
`crossed`, `unread`, `killed`, `promised` and `lost` are history. Reports are never
replaced unless two runs of one worktree began in one minute and shared a
folder; sections stay unless two merges crossed or the ledger they were in could
not be read; `reviewing` ends with its run
unless the run was killed (nothing clears it then); a promised retry is made
unless the daemon stopped between taking and starting it, or could not open its
log. A retry that starts is promised no more, unless another run asked for one
between its taking and its start: the run's clock is too short for that, and the
theorem covers it.

### Guard

`preflight` and `agent pr` in one worktree whose agent edits, commits and pushes
while they run, and whose settings the user changes. A tree is a model value;
`good` says which trees each list of commands passes. Where `git status` fails
there are no changes to see (guard.rs:109), so the check for a clean worktree and
the gate may pass one that is not (`Clean`, `GateBlind`). `moved`, `sound` and
`blind` are history: the worktree or the settings changed under a command; the
stamp it trusted is of a clean tree that stayed so while the commands ran; its
gate did not see the changes there were.

### Setup

`Setup` has the edits of a Claude settings file as functions, and runs the
commands as lists of steps in the code's order; a step is done, fails, is
skipped or is the last one before a kill, and the user edits or damages the
files in between. A settings file that is there and cannot be read, on Windows or
in the distro, is taken for an empty one (`Misread`; mod.rs:391, wsl.rs `load_json`).
What the user wants kept (`wanted`) and what nothing is asked of any more
(`excused`) are history: `cut`, a setup was cut off with the damaged file in
the backup's place; `misread`, one took a file it could not read for empty;
`left`, an uninstall left something or ran beside another;
`codex`, two writers of Codex's files overlapped or one was cut off.

### Presets

Items come from three layers. What stands at an item's place in the worktree is
the copy made last, named by its layer (`old` when the layer's item has changed
since), and what lies beside it: a skill is a folder, and `copy_tree`
(custom.rs:99) overlays it, so that files which the copied layer does not have
stay (`rest`); a file is replaced. An apply copies, drops what an earlier
one listed, writes the manifest, the texts and the hooks, each a step; layers,
worktree, settings and git's index change meanwhile, and applies are killed. A proposal is loaded, written into its layer
and saved in three steps. `disturbed`, `orphans` and `overlap` are history:
applies that did not run alone and undisturbed, items copied by an apply that
was cut off before it listed them or that overlapped another, proposals two
deciders worked on at once. The settings are, for each hook, how often it stands
in them, which of them we merged, and whether they are JSON: if not, they are
taken for `{}` (custom.rs:313) and written over, but only when there is a hook to
merge (`Written`). So `CopiesCurrent` says that a given item's copy is its layer's
and that nothing lies beside a file, and `HooksOnce` keeps the user's hooks only of
settings that could be parsed.

### Console

`Pty::resize` records the size under one lock and resizes the pseudo console under
none, so a resize is two calls; each terminal has a task that reads its frames
and one that repaints when it lost output, and all of them resize. `crossed` and
`alone` are history: a resize had another under way; no other task resized since
this frame was read. `owner` is the terminal used last. `Short` is the size a
repaint passes through: any function of the size.

### Tui and Changes

The interface's thread handles keys and takes up results; other threads mirror the
roster, wait for starts and relay a session, and the agents end, start elsewhere
and lose the daemon under it. Keys go to a form that is open, but a paste goes to
the session in front whenever the main pane has the focus (mod.rs:222), under a
form too (`PastedTo`). `eyes`, `stolen` and `covered` are history: the agent the
user expects the keys to reach, that a session came up since he looked, and that
one came up under the form that is open, which is the only way a paste with a form
open reaches an agent. In `Changes` the list of commits, the index into it and the
files shown are read at different moments, each by a call of git of its own, which
shows nothing when it fails; `shifted` is history: the list was read anew under an
index that stayed, so that it names another commit.

### Nudge

Hooks of tool calls that edit a file read the reminder state, step it, empty and fill
its file, and print. `together` and `back` are history: hooks ran at the
same time; sessions that had another one in the worktree in between.

### Usage and Metrics

A round asks for each account in turn and takes its answer later, with logins
changing in between; a question that fails falls back to the last answer or to
the statusline's file; a logged-out `~/.codex` is not listed at all. A worktree of each account becomes limited, with or
without a reset of its own. In `Metrics` clients subscribe, register sessions
and go, and a measurement counts the sessions before it is pushed.

## 3. The runs

A run of several components puts them beside each other with a variable `part`
that says which one this behaviour is about. It is chosen in the initial state
and never changes; the others stay as they began, with one initial state of
theirs, because they share no state with it here. Fairness is that of each
module, of its part only (`WF(part = x /\ A)`), so nothing is owed by a part that
sleeps. Such a run explores the sum of its components, not their product.
A property named for a whole component is the conjunction of its named parts,
which its module states one by one.

| Run | Question | Instance |
|---|---|---|
| `status_files_serial` | Do hooks that run one at a time implement `StatusMachine`, keep the mark and the mirror? | one process at a time, three in a row, all events |
| `reports` | With overlapping and killed hooks, lost and reordered notices, are the files readable and does the daemon's view converge to them? Do reviews keep what others wrote, and are promised retries made? | two hooks, one kill; two runs, two worktrees of one repository, one retry, one kill or daemon stop |
| `messages` | Is nothing unapproved delivered, also after a failed save or load? While none has failed: does the queue implement `MessageApproval`, is memory on disk, is a message handed over once? | two worktrees, one removable, one session, two messages, one closed message kept, one fault |
| `delivery` | Does the whole path keep to `MessageStore`, deliver one message per turn, between turns, and every one in the end? | two messages, one other session, two notices under way, and of prompts, marks, rescans and lost notices any two |
| `sessions` | Is a worktree live exactly while it is, with one hosted agent, none forgotten and none left behind? Is input typed at the typist's size, and does the console get it in the end? | two terminals, one worktree, an agent's console, a review's, one `wtd run`, one end of the daemon; two terminals of two sizes |
| `daemon` | One git run a worktree, none forgotten, none too late, shown in the end? Is an update that waits resolved? Do usage, resets and metrics come to be shown? | a local worktree and one in WSL, one slot, delays 1 and 2, sweep 3; one request, two checks, one fault; an account of each provider; three clients |
| `install` | Is a complete version current, one helper applying, no failed version back? Does nothing name a program that is gone, do the user's settings survive? | versions 1 (installed) and 2 (released), two requests, the daemon's check, one fault; two setups, one edit, one crash |
| `agent` | Are the status rules consistent under any sequence of events? Do reminders come once and in time? Does `agent pr` mark only what passed? | every event, two reset times; two hooks, two sessions, five calls; one command, two trees, two lists of commands |
| `worktree` | Do folders, registry and state files agree, is a conversation replaced only from a brief? Do presets change only what they may? | two processes, three commands, two ids, one distro; a skill and a file, two appliers, three applies, two deciders, two changes, one cut |
| `desktop` | Do a form, its lists and its create belong together? Does the tray obey and come back? | two forms, five acts, two repositories; two trays, one fault, three acts |
| `screen` | Does the fleet's map agree with store and disk, and a client with it? Do keys reach who they are for, is what is shown the case in the end? | a Windows worktree, a delegator, one in WSL, two statuses, two groups, a ring of two; two worktrees, one start, one stop; three commits, two calls of git that fail |
| `store_overwritten` | Is a store that could not be read kept? (It is not.) | as `messages` |

The instances are small where nothing more can be told apart.

- `messages`, `delivery`: two worktrees suffice because an operation reads the
  messages of one sender or one target; two messages and `KeepClosed = 1` are the
  fewest with which one closed message pushes out another, or an open one if the
  trim were wrong; one session id suffices because a message is handed to one.
  A second fault adds nothing a first one cannot lose. `MaxCalls` bounds the
  calls that timers and hooks owe, not those that decisions owe. With two
  notices under way a turn can be shorter than the handling of its start.
- `StatusFiles`: two processes are the fewest that interleave, and three
  serial ones reach every state that matters for the milestone.
- `HostSessions`: two terminals are the fewest whose spawns overlap, and each
  console is used once, so that two suffice for a second agent beside the first.
- `GitSchedule`: one slot is contended by two worktrees; the delays keep the
  order of the real ones (2 s, 10 s, 300 s) and are as short as it allows.
- `Updater`: two versions are enough for an update, its rollback and its
  repetition; two requests are the fewest whose helpers meet. `install` looks at
  what follows one kind of `harm` (`FewHarms`), so that it shows which kinds
  break which property; in `daemon` the constraint `NoHarm` stops at the first,
  because `Resolved` asks for nothing after it.
- `Fleet`: the three ids are of the three kinds the code distinguishes; two
  groups can be reordered; a client that is three pushes behind a ring of two has
  lagged. With two statuses what is shown can differ from the disk; the worktrees
  begin idle, and only the one in WSL has a title, the only case in which the
  code keeps one. Requests and rescans that find a directory unreadable share
  one bound. In the same run the interface is told to open one of the worktrees,
  which are alike, or none. `Console`, `Nudge`, `Guard`, `Review`, `Presets`, `Worktrees` and
  `Setup`: two processes are the fewest that interleave, and a third one
  would find what one of them left. `StaleEvery = 2` is the least with which an edit
  can fail to be counted and the reminder still come late.
- `Changes`: two commits listed and a third one made shift an index from one
  to another; two calls that fail are the list and the files of one look.
- `Presets`: a skill, which is overlaid, and a file, which is replaced, are the two
  kinds of copy there are. Two changes are the fewest that leave another layer's
  files in a folder that the next apply should no longer fill.

Symmetry is used where a run has no liveness property: over ids, processes,
trees and requests, none of which the modules choose among.

CHECK_DEADLOCK is off where bounds end the behaviour: every hook has run, every
id has been handed out, every act is spent.

Liveness is stated as `[]<>` or `<>[]`. Where the code promises that a condition
passes (`P ~> ~P`: a form is unlocked, an ended session is shown as ended), that is
exactly `[]<>~P`, which is what the modules say.

### What the code does not keep

`store_overwritten` checks a sentence of the documentation and finds it violated:
an unreadable store is kept for inspection (store.rs:55), but any read error
yields an empty store, which the next save writes over the old one.

Other counterexamples can be reproduced beside the runs:

| Config, property | Sentence | Why |
|---|---|---|
| `MCStatusFilesOverlap.cfg` of `MCStatusFiles`, `MarkKept` | milestones are sticky (status.rs:5) | two hooks read, apply and write the same files (hook.rs:95) |
| `MCDeliveryMarked.cfg` of `MCDelivery`, `NeverMidTurn` | never mid-turn (messages.rs:3) | after `agent done` a running turn is shown as a milestone (messages.rs:146) |
| `FleetNested.cfg` of `Fleet`, `NestedWhenAsked` | the roster nests a worktree under the delegator that started it (model.rs:125) | the child is looked for in its Windows folder (mod.rs:928, 929), where a worktree in WSL is not |
| `WorktreesInherited.cfg` of `Worktrees`, `NothingInherited` | everything a worktree leaves in `.wtd/state` is forgotten (wt.rs:42) | the brief and the ticket are not among what wt.rs:43 lists |

The modules also state, unchecked, what comments promise without exception, next to
the property that holds with it: `InputAlwaysClaims` (host.rs:165, against
pty.rs:236), `DiffOfSelected` (tui/mod.rs:55, against 287), `CodexAlwaysKept`
(codex.rs:5, against 30, 76 and 143), `Restorable` (setup/mod.rs:408),
`PrPassed` (guard.rs:14), `OncePerSession` (nudge.rs:4), `PerRunDirs`
(review.rs:381), `EndsAsked` (tray.rs:403).

What else the documentation says and the code does not quite do is an exception
in a property that holds:

- `ReviewSurvives`: a review survives agent turns (status.rs:7), but a turn end
  restores a stashed milestone before it looks for a review.
- `OnePerTurn`: a second message waits for the next turn end (messages.rs:155),
  but a rescan can put back the status from before the hand-over.
- `EventuallyDelivered`: deliver_next is called on the target's turn ending
  (messages.rs:142), but the notice of the end may be lost, and a rescan, which
  then shows `input`, calls nobody (daemon/mod.rs:680); a turn over a `pr` or
  `done` worktree restores the milestone and reports no `input`; and a call may
  find a terminal session first. The message then waits until a later turn ends
  (`unheard`). What it does not excuse is anything before the last turn: after
  losses, marks and rescans the next turn that is heard of delivers.
- `OneAgent`: a worktree has one hosted session (host.rs:79), but two spawns
  that overlap both look before either has registered.
- `NoGhosts`: what `find` returns is live (host.rs:74), but a process that ends
  before it is registered stays registered for good: it is shown as live, every
  later spawn attaches to it, and shutdown asks about it.
- `EndHeard`: a terminal is attached until the session ends (host.rs:163), but
  one that subscribes after the exit was told waits until it is closed.
- `Startable`, `FailedGone`, `OneApply`, `Resolved`: what fails its health check
  is never retried (mod.rs:322), there is one apply at a time (apply.rs:162), and
  there is something to roll back to (apply.rs:128), but for the kinds of `harm`
  each names.
- `LongestDelay`: never longer than the longest delay (mod.rs:39), but up to one
  debounce delay more when a sweep was about to come, and any time when events
  go on and the loop finds no slot.
- `ReviewingEnds`: a killed reviewer leaves `reviewing` behind. `Retried`: a
  daemon that ends between taking a due job and starting it has neither.
- `KeysWhereMeant`: a start that is taken up brings its session to the front and
  takes the focus, also while the user types into another, and under an open form,
  where what is pasted then reaches it (tui/mod.rs:222).
- `LogonOff`: installs do not undo the user's "off" (tray.rs:524), but one that had
  looked at the flag before writes the Run entry after it.
- `SectionsKept`, `SettingsKept`, `HooksOnce`: a file that cannot be read or
  parsed is taken for an empty one and replaced (review.rs:573, setup/mod.rs:391,
  custom.rs:313).
- `CopiesCurrent`: a later layer's item replaces an earlier one (custom.rs:2) and
  stale copies are removed (custom.rs:30), but a skill that another layer overrides,
  or a new version of it, is laid over the old files, of which those it does not
  have stay (custom.rs:99).
- `MarkedPassed`: `agent pr` refuses unless the tree is clean (guard.rs:15), but it
  counts as clean when `git status` fails (guard.rs:109).
- `ScreenSettles`: a connection cut in the middle of a frame ends the relay
  without telling the interface, which goes on showing the session.

### Seen while modelling

No property is about these; a reader of the code may want to know them.

- Worktrees: a launch that fails between taking the brief and starting a session
  has lost the brief (agent.rs:589). `agent rm` of an id archived on Windows only forgets its state,
  while in WSL it removes the archived checkout. Ids `a-b/c` and `a/b-c` share
  one key in `.wtd/state`, and so do an archived Windows worktree and its active
  WSL twin. An account switch of a WSL worktree carries the conversation from
  the Windows path. The retry of a review whose worktree was removed creates
  its `.claude` folder again (daemon/mod.rs:1007).
- Tray: `tray --quit` while the tray has crashed records no quit; the update
  helper waits for the window, not for the mutex; the status read before
  SUBSCRIBE can miss a push.
- Setup: uninstalling does not undo `--wsl`; an empty settings.json is taken for
  `{}` and overwrites the backup; installing replaces the user's statusline; a
  `hooks.json` of Codex that is not JSON is overwritten; a daemon that hosts
  sessions stays when its program files go.
- Presets: rejecting a proposal does not look at its state; accepting one
  overwrites a file changed since; an item that is disabled takes the user's
  untracked item of that name with it; git's `info/exclude` is rewritten without
  a lock. When `git ls-files`
  fails nothing counts as tracked (custom.rs:160): the apply then writes over
  tracked files and drops disabled ones, which `TrackedKept` excuses.
- Terminal interface: the highlight is an index into rows that are sorted anew;
  what is typed just as a session ends is taken for commands on the roster.
- Usage: a Claude account keeps its numbers after a logout and a Codex account
  does not; after another login a failed answer shows the former user's numbers
  under the new address. A second SUBSCRIBE with another wish on one connection
  would unbalance `metrics_subs`; no client sends one.

### Fairness

All of it is weak fairness of single steps that nothing disables for good.

- `StatusFiles`: a hook that runs goes on (it is a process doing file access),
  a notice that has been delivered is handled, and the daemon rescans again and
  again (`SCAN_EVERY`). Notices need not be delivered.
- `Delivery`: a turn ends, a paste that has been started lands, a notice that
  was not lost is handled, a session's ten-second timer fires, a task that waits for the lock
  gets it, a rescan that has read applies.
- `HostSessions`: the handler of a connection goes on, so does a waiter thread,
  a client that has heard the exit leaves, `wtd run` registers while it lives.
  `Console`: terminals poll their window, the daemon's tasks go on.
- `GitSchedule`: time passes, the timer of the loop fires, git ends, and a batch
  gets a free slot (tokio's semaphore is fair). `Usage`, `Metrics`: their timers
  fire, threads end, rescans come. `Fleet`: the loop rescans, a rescan, a move and
  a request that have begun go on, a client reads.
- `Updater`: the loop looks every minute, a request that was made and a helper
  that lives go on, and a lock that nobody holds gets old.
- `Review`: the jobs loop turns and time passes; no run is owed.
- `NewSession`: threads end and the message loop handles what they post, in a
  native menu too. `Tray`: threads and commands go on, the watchdog's timer fires.
- `Tui`: the loop and the threads go on. `Changes`: the pane is reloaded every
  three seconds while it is shown.

Nobody is assumed to prompt, approve, mark, open, type, stop or end a session,
restart a daemon, check for or ask for an update, or commit; and no rescan is
assumed to happen in `Delivery`.

## 4. What is proved

`StatusMachineProofs`, for every set of reset times:

- `TypeCorrect`, `Consistency`: `Spec => []TypeOK` and `Spec => []Consistent`.
  `Consistent` is inductive together with `TypeOK`; `ApplyType` and
  `ApplyConsistent` are the facts about one event.
- `MilestonesAreSticky`: `Spec => MilestoneSticky`. It needs `Consistent`:
  were a stash possible beneath `done`, a turn end would swap milestones.
- `LimitsHold`: `Spec => LimitHolds`.
- `SerialHooksImplement`: `UnkilledSpec => SerialMachine`, for one hook process at
  a time, which the assumption `Hooks = {h}` says, and however many of them run.
  A hook has its event from its start and writes what `Apply` makes of what it
  read; the files are the machine's state before its first write and after its
  last, so that its last write is the machine's step. That it reads what is there
  needs that no other hook is half-way, and that none was killed.
- `SerialHooksKeepTheMark`: under the same assumption `MarkKept` and
  `MirrorFresh`. `FilesTyped` (`FSpec => []FTypeOK`) is for any number of hooks,
  overlapping and killed.

`MessageStoreProofs`, for every set of worktrees and sessions, every limit, and
any number of failed saves, failed loads, crashes and restarts:

- `TypeCorrect`: `MSpec => []MTypeOK`, among it that no message has an id yet
  to be handed out, in memory and in the file.
- `NothingUnapprovedDelivered`: `MSpec => []NothingUnapproved`. The property
  speaks of the threads about to type. It is not inductive: what they type
  comes from the queue, and the queue of a restarted daemon from a file that
  may be older. `ApprovalInv` adds that whatever is queued in memory and in
  `store.json` was approved in its present words; history `approved` only
  grows, so an older file is no less approved. `SaveApproved` is the step
  through `Save`, shared by all handlers.
- `Durability`: `MSpec => []Durable`, and `HandedOnce`: `MSpec => AtMostOnce`.
  Both follow from `OnceInv`, which claims three things while no save has
  failed: the file is the memory, no two messages share a number, and no open
  message has been handed over. Each needs the others: a restart keeps what
  is in the file, so the file must not be older; closing the message handed
  over must not leave another with its number open. A failed save ends the
  claim for good, because `faults` never decreases.
- `ApprovalsKept`: `MSpec => Approvals`, the refinement of `MessageApproval`. While
  no save and no load has failed, every operation, rescan and restart is one of its
  steps or leaves every phase as it is. It needs `OnceInv`: numbers identify
  messages, and a restart finds in the file what was in memory.
- `OrderlyDelivery`: `DSpec => DeliveryOrderly`. Its first half is a refinement,
  `QueueIsUndisturbed`: every step of the composed path is a step of
  `MessageStore` or leaves its variables alone. `Delivery` shows every status
  there is (`Shown = Statuses`), which the status word of a rescan must be among.
- `OneMessagePerTurn`: `DSpec => []OnePerTurn`, and the second half of
  `DeliveryOrderly`, `HandedBetweenTurns`. `Heard` says how far the daemon's word
  for the target may differ from what the agent does while nothing has disturbed
  it (no mark, no lost or overtaken notice, no rescan that changed what is
  shown): by the notice under way, and only in the safe direction. A turn the daemon
  has not heard of has its notice under way, and after a hand-over the target
  counts as working until the end of a turn has been heard.

`HostSessionsProofs`, for any number of terminals, worktrees, consoles, `wtd
run` sessions and restarts:

- `TypeCorrect`: `HSpec => []HTypeOK`, with what a handler holds at each step.
- `LivenessShown`: `HSpec => []LiveMatches`. `RefreshMatches` is the one fact it
  needs: refreshing the one worktree whose sessions changed makes all of the
  fleet right again.
- `OneAgentEach` and `EndedForgotten`: `OneAgent` and `NoGhosts`. `AgentInv`
  says where a running console of a worktree can be: registered, or held by
  the one handler between `Start` and `Insert`; so a second `Find` either
  sees the first console or meets its handler, which is what `overlap` records.
- `InputClaimsConsole`: `CSpec => InputClaims`, for any terminals, sizes and number of
  calls and pastes. `ConsoleInv`: while no two resizes have crossed, at most one
  task is resizing, and if it has recorded a size it is about to apply that one;
  else the console has the size on record. So input behind its claim finds the
  size applied just before, its terminal's own.

`GitScheduleProofs`, for any worktrees, distros, slots and delays, and the reviewer:

- `TypeCorrect`; `OneRunEach`: `OneRun`, inductive with the types: a pass takes
  only what is not running, and a batch is disjoint from what is being read.
- `NoneForgotten` (with `OneRun`: what leaves `git_running` is put back into
  `git_due`), and `NoticedIsDueSoon`.
- `DelayBounded`: `LongestDelay`. `DelayInv` bounds how long ago an entry's
  burst began: not longer than the longest delay, and less than that once the
  loop has passed or while it waits, because what was due by then has been taken
  or denied. It needs `DueSoon`, without which an event could replace the entry
  of a burst as if it were a sweep's.
- `ReviewsAreKept`: `RSpec => ReviewsKept`, for any number of runs, worktrees, kills
  and restarts of the daemon. `PlacesInv`: a run at work whose folder was
  not there already has it staged, to itself, and no reports have its name, so
  that what it moves replaces nothing; `StampFree` shows that there always is such a
  name, because there are not more reports than runs. `LedgerInv`: while no two
  merges overlapped at most one run is about to write, and it writes all that
  could be read. `JobsInv`: what is saved is what is pending while the daemon runs, and is
  wanted also while it does not, or a restart would bring a retry back.

`UpdaterProofs`, for any versions, requests, checks and number of faults:

- `TypeCorrect`: `USpec => []UTypeOK`. Each part of `UTypeOK` (the folders, the
  state file and lock, the daemon, the requests, the checks, the history) is
  disturbed by some actions only; `Frame` settles the others. `Fits` ties what
  a helper has decided to where it is: a verdict exactly from the first failure
  or the health check on, a version to go back to exactly behind the lock.
- `OneApplies`: `USpec => []OneApply`. `LockInv`: until a lock was removed from
  under a helper, at most one is behind the lock, and the lock file is there
  while one is. The second is what makes the first inductive: who takes the
  lock finds it free, so nobody is inside; and only the one inside, by leaving,
  frees it.
- `SomethingGood`: `USpec => []SomethingGoodToStart`. `FailedGone` and
  `Startable` need different histories, so they have an invariant each.
  `VersionInv`, while nothing `FailedGone` names has happened: what is recorded
  as failed is in the state file or held by the helper about to write it; the
  label of a complete folder is its version; the version a helper goes to is not
  bad, and the one it comes from is current until it swaps. `WholeInv`, while
  nothing but `gaveup` has happened: what is current is complete except while the
  one helper in the lock swaps, and then the two folders it swaps between are; a
  check unpacks alone; and a staged version has a complete folder unless it is on
  record as failed or an update has overtaken it, and neither is chosen.

`AgentProofs`, for any number of processes and sessions, and any bounds:

- `PrMarkedPassed`: `GSpec => PrGate`. `GInv` says what each process of the
  guardrails knows at its step (`Knows`): its commands passed on the tree it
  began with, the worktree was clean unless the gate could not see it, the head was
  pushed; all of it while the worktree and the settings are as they were when it
  began, which is what `moved` records. `StampTrue`, that a stamp in the file is of a tree that
  passed, is what lets a process trust one of another's.
- `RemindersAreRight`: `NudgeSpec => []RemindersRight`. While no two hooks have
  run at once, the counter in the state file is the number of edits since the
  last reminder modulo `StaleEvery` (`Stands`), or the one hook under way is
  about to make it so (`UnderWay`); a session that was told is on record as
  warned until another one takes the file over. `"none"` is no session.

`InterfaceProofs`, for any repositories, sessions, worktrees and trays:

- `FormBelongsTogether` and `ResultsCloseTheirForm`: `NSpec => []FormTrue` and
  `NSpec => ClosedByItsOwn`. `FormInv` adds who is waited for: a locked form has
  its one create under way and no other form has, and until a list of
  repositories crossed over to another form, what a form has chosen, and what a
  menu that is down can still choose, is of the form's repository.
- `KeysReachWhatIsSeen`: `TuiSpec => []KeysWhereMeant`, inductive with
  `TuiTypeOK`, what the mirror of the agents and the relayed session say of
  each other, and for pastes (`PasteOK`) that a form opens only where no session is
  in front with the focus, so that one which gets there came up under it.
- `TheUsersWordHolds`: `TSpec => []TrayObeys`. After a quit is handled nothing that
  could bring a window up is on its way: the record says `quit`, the watchdog
  has not decided to spawn, and no tray is between its start and its window
  (`QuitLasts`). That needs `OneTray`: at most one process is past the mutex.

`WorktreeProofs`, for any ids, distros, items, proposals, processes and bounds:

- `CheckoutsAreTrue`: `WSpec => []CheckoutsTrue`. The property says nothing of the
  registry while a command is at work, so `IInv` says it for each step of a
  command. `PlaceInv`: between commands the registry names what is there; a
  command that has changed what is there holds the entry it is about to write
  (`Pending`), and any other finds what its step needs (`Ready`), because no
  second one works on its id and another's save that undoes an entry is on record.
  `SeedInv`: a Windows checkout without its CLAUDE.md is that of a command about
  to seed it. `LeftInv`: what is left in `.wtd/state` is of the present checkout,
  or of one whose removal is still to forget it.
- `ConversationIsKept`: `WSpec => ConversationKept`. A new uuid is minted by
  `Session` alone, and there only if Claude takes a brief or nothing is on record;
  the record is erased by `Forget` alone, and `Ready` says that a command
  gets there with the worktree gone. So an active worktree's id on record changes
  with a brief that was taken, and with nothing else.
- `PresetsAreKept`: `PresetsSpec => PresetsKept`, all of what `Presets` promises.
  `CopiesCurrent` and `HooksOnce` speak of the last step of an apply only;
  `AloneInv` says what an undisturbed one relies on before: that it is the
  only one, at each step which copies are already as they should be, and that it
  read the settings as they are. `TreeOK` adds that nothing lies beside a file.
  `ListedInv` says why the rest is then absent: a copy is tracked, listed, about to
  be listed, or on record as nobody's (`orphans`). `HooksInv`: a hook of the layers
  stands in the settings only as one of those we merged. `DecidedInv`: what a
  decider is about to write is still proposed and is decided by it alone, unless
  two decisions overlapped.

Some theorems state a whole component's safety as the runs check it, among them
`StatusIsKept` (`Spec => StatusKept`), `SessionsAsTheyAre`
(`HSpec => []SessionsTrue`) and `ScheduleIsKept` (`GSpec => []ScheduleKept`), which
put together the theorems of their module. `ReviewsSurvive`
(`Spec => ReviewSurvives`) is one of their parts. Each invariant of the runs is
stated by a theorem.

Assumptions are those of the modules, which TLC evaluates on every run: naturals
are naturals and bounds are not negative; what stands for nothing (`None`, `NoEntry`,
`NoJob`, `"none"`) is not one of the things it stands beside; what is installed
or released is a version; the daemon is one of those that check; the statuses
shown are statuses; at least one message may be pending; a form has a name to
choose; Windows is no distro; a session has one worktree and a worktree at most
one distro; what a repaint passes through is a size; the runs of the reviewer are
finitely many; and the debounce delay is positive and not longer than the longest
delay. `SerialHooksKeepTheMark` and `SerialHooksImplement` assume one hook
process besides, because their property is about hooks that do not overlap.

Only model-checked: `SessionsFollowed` with `AskedFirst`, and `Fleet`, `Setup`,
`Changes`, `Usage` and `Metrics`. Liveness is beyond the prover and stays
with TLC; so do properties that hold an action property and a liveness property
in one conjunction, such as `FormReleased` and `SessionsFollowed`.

## 5. What is left

Next, in this order: theorems about the components that are only model-checked,
`SetupKept`, `FleetTrue` and `AskedFirst`; then
larger modules could be composed where they share state after all (a retry of `Review` in a worktree that `Worktrees` removes; a
restart in `Delivery`).

Not modelled: drawing, layout and Win32 wrappers; the settings page and its
validation; translating paths, building command lines, parsing git, issues and
usage answers; prompts, diffs and cost tables of a review; `ticket.rs` and
`handoff.rs`, each of which writes one file; `mcp.rs`, which translates tool
calls into requests; signatures and downloads of an update; how `program.rs`
lays down a development build; the Unix scripts (the same status rules, in
shell) and the VS Code extension, which shows what the daemon pushes. None of
these keeps state that another step depends on in more than one way.

## 6. Working with the project

`tlc -config X.cfg M` checks a run; `tlapm M.tla` a proof module. Definitions
whose comment says "mutant" are bugs that the runs must notice, one for each
checked property; nothing else uses them. `PROJECT.json` lists components,
runs, hazards, theorems, and for each definition the lines it models.
