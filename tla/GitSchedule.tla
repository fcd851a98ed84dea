----------------------------- MODULE GitSchedule -----------------------------
(***************************************************************************)
(* When the daemon runs `git status` (daemon/mod.rs schedule_git, git_loop,*)
(* git_done; daemon/watch.rs): after activity in a worktree once it is     *)
(* quiet or the longest delay has passed, and in a sweep from time to time *)
(* - one run per worktree, and as many at once as there are slots.  The    *)
(* due worktrees of one WSL distro are one batch in one slot, and the loop *)
(* waits for that slot before it goes on.                                  *)
(*                                                                         *)
(* Time is counted in passes of the loop, and every time is relative to    *)
(* the present.  What lies too far back to matter is not told apart, so    *)
(* the state space is finite and nothing bounds it.                        *)
(***************************************************************************)
EXTENDS Integers, FiniteSets, Functions

CONSTANTS Worktrees,
          Distros,
          Distro,      \* the distro of each worktree that is in one
          Slots,
          Debounce, MaxDelay,
          Sweeps       \* how long after a run the next sweep comes

ASSUME GitAssumption ==
  /\ Distro \in [DOMAIN Distro -> Distros] /\ DOMAIN Distro \subseteq Worktrees
  /\ Debounce \in Nat \ {0} /\ MaxDelay \in Nat /\ Debounce <= MaxDelay
  /\ Sweeps \subseteq Nat

VARIABLES
  fleet,       \* the worktrees the daemon knows
  git_due,     \* for those that wait: when they are due, when the burst began
  git_running,
  slots,       \* the worktrees whose git process each slot runs
  batches,     \* batches that wait for a slot, and the loop with them
  passed,      \* whether the loop's timer has fired in this unit of time
  calm,        \* nothing happens in any worktree any more
  unseen,      \* history: worktrees whose shown git state is not the present one
  missed,      \* history: those that changed while a run was reading them
  burst,       \* history: time since the first event no run has been due for
  denied       \* history: those a pass found due when no slot was free for them

gvars == <<fleet, git_due, git_running, slots, batches, passed, calm, unseen, missed, burst, denied>>

Local == Worktrees \ DOMAIN Distro

Reading == UNION {slots[k] : k \in Slots}

Free == {k \in Slots : slots[k] = {}}

Put(f, ws, x) == [w \in DOMAIN f \cup ws |-> IF w \in ws THEN x ELSE f[w]]

Drop(f, ws) == Restrict(f, DOMAIN f \ ws)

Earlier(a, b) == IF a < b THEN a ELSE b

Later(a, b) == IF a > b THEN a ELSE b

-----------------------------------------------------------------------------
(* schedule_git. *)

Now == [due |-> 0, first |-> 0]

Entry(w) == IF w \in DOMAIN git_due THEN git_due[w] ELSE Now

\* mutant: every event starts the delay again
DebouncedAlways(w) == [due |-> Debounce, first |-> 0]

\* mutant: the later of quiet and the longest delay
DebouncedLater(w) ==
  IF Entry(w).due > Debounce \/ Entry(w).first + MaxDelay < 0
    THEN [due |-> Debounce, first |-> 0]
    ELSE [Entry(w) EXCEPT !.due = Later(Debounce, Entry(w).first + MaxDelay)]

(* A sweep's entry or one of a burst that has lasted too long starts afresh. *)
Debounced(w) ==
  IF Entry(w).due > Debounce \/ Entry(w).first + MaxDelay < 0
    THEN [due |-> Debounce, first |-> 0]
    ELSE [Entry(w) EXCEPT !.due = Earlier(Debounce, Entry(w).first + MaxDelay)]

Noticed(ws) == burst' = Put(burst, ws \ DOMAIN burst, 0)

(* A hook's notice, a file event, the end of a session. *)
Activity(w) ==
  /\ ~calm
  /\ git_due' = Put(git_due, {w}, Debounced(w))
  /\ Noticed({w})
  /\ UNCHANGED <<fleet, git_running, slots, batches, passed, calm, unseen, missed, denied>>

(* A file changes; the watcher of a worktree without one, or which is not
   in the fleet, schedules nothing. *)
Change(w) ==
  /\ ~calm /\ w \in fleet
  /\ unseen' = unseen \cup {w} /\ missed' = missed \cup ({w} \cap Reading)
  /\ \/ git_due' = Put(git_due, {w}, Debounced(w)) /\ Noticed({w})
     \/ UNCHANGED <<git_due, burst>>
  /\ UNCHANGED <<fleet, git_running, slots, batches, passed, calm, denied>>

(* REFRESH of one worktree or of all: not debounced, and the burst begins
   again. *)
Refresh(ws) ==
  /\ ~calm
  /\ git_due' = Put(git_due, ws, Now)
  /\ burst' = Put(burst, ws, 0) /\ denied' = denied \ ws
  /\ UNCHANGED <<fleet, git_running, slots, batches, passed, calm, unseen, missed>>

\* mutant: a new worktree is left to the sweeps
RescanUnscheduled(fl) ==
  /\ ~calm /\ fleet' = fl
  /\ git_due' = Drop(git_due, fleet \ fl)
  /\ burst' = Drop(burst, fleet \ fl) /\ denied' = denied \ (fleet \ fl)
  /\ unseen' = (unseen \cap fl) \cup (fl \ fleet)
  /\ missed' = missed \cup ((fl \ fleet) \cap Reading)
  /\ UNCHANGED <<git_running, slots, batches, passed, calm>>

(* rescan, as far as git goes: worktrees come and go, also while they are
   being read. *)
Rescan(fl) ==
  /\ ~calm /\ fleet' = fl
  /\ git_due' = Put(Drop(git_due, fleet \ fl), fl \ fleet, Now)
  /\ burst' = Put(Drop(burst, fleet \ fl), fl \ fleet, 0)
  /\ denied' = denied \ ((fleet \ fl) \cup (fl \ fleet))
  /\ unseen' = (unseen \cap fl) \cup (fl \ fleet)
  /\ missed' = missed \cup ((fl \ fleet) \cap Reading)
  /\ UNCHANGED <<git_running, slots, batches, passed, calm>>

-----------------------------------------------------------------------------
(* git_loop. *)

\* mutant: does not look whether the worktree is being read
DueAnyway == {w \in DOMAIN git_due : git_due[w].due = 0}

Due == {w \in DOMAIN git_due : git_due[w].due = 0 /\ w \notin git_running}

(* One pass: the local worktrees of at take the free slots, in any order,
   until there are none, and every due worktree of a distro joins its batch. *)
Pass(at) ==
  /\ ~passed /\ batches = {} /\ passed' = TRUE
  /\ LET local == Due \cap fleet \cap Local
         wsl   == (Due \cap fleet) \ Local
         taken == DOMAIN at
     IN /\ taken \subseteq local /\ (taken = local \/ Cardinality(taken) = Cardinality(Free))
        /\ slots' = [k \in Slots |-> slots[k] \cup {w \in taken : at[w] = k}]
        /\ batches' = {{w \in wsl : Distro[w] = d} : d \in Distros} \ {{}}
        /\ git_running' = git_running \cup taken \cup wsl
        /\ git_due' = Drop(git_due, taken \cup wsl \cup (Due \ fleet))
        /\ burst' = Drop(burst, taken \cup wsl \cup (Due \ fleet))
        /\ denied' = (denied \cup {w \in DOMAIN git_due : git_due[w].due = 0})
                       \ (taken \cup wsl \cup (Due \ fleet))
  /\ UNCHANGED <<fleet, calm, unseen, missed>>

Assignments == UNION {Injection(ws, Free) : ws \in SUBSET (Due \cap fleet \cap Local)}

(* A batch gets its slot. *)
Batch(b, k) ==
  /\ b \in batches /\ k \in Free
  /\ batches' = batches \ {b} /\ slots' = [slots EXCEPT ![k] = b]
  /\ UNCHANGED <<fleet, git_due, git_running, passed, calm, unseen, missed, burst, denied>>

\* mutant: the sweep replaces what was scheduled meanwhile
DoneReschedules(k, w, ok, sweep) ==
  /\ w \in slots[k] /\ slots' = [slots EXCEPT ![k] = @ \ {w}]
  /\ git_running' = git_running \ {w} /\ missed' = missed \ {w}
  /\ unseen' = IF ok /\ w \notin missed THEN unseen \ {w} ELSE unseen
  /\ git_due' = IF w \in fleet THEN Put(git_due, {w}, [due |-> sweep, first |-> sweep]) ELSE git_due
  /\ UNCHANGED <<fleet, batches, passed, calm, burst, denied>>

\* mutant: no sweep
DoneForGood(k, w, ok, sweep) ==
  /\ ok \/ ~calm
  /\ w \in slots[k] /\ slots' = [slots EXCEPT ![k] = @ \ {w}]
  /\ git_running' = git_running \ {w} /\ missed' = missed \ {w}
  /\ unseen' = IF ok /\ w \notin missed THEN unseen \ {w} ELSE unseen
  /\ UNCHANGED <<fleet, git_due, batches, passed, calm, burst, denied>>

(* git_done: the result, if there is one, is shown; the next sweep is due
   unless something sooner was scheduled. *)
Done(k, w, ok, sweep) ==
  /\ ok \/ ~calm
  /\ w \in slots[k] /\ slots' = [slots EXCEPT ![k] = @ \ {w}]
  /\ git_running' = git_running \ {w} /\ missed' = missed \ {w}
  /\ unseen' = IF ok /\ w \notin missed THEN unseen \ {w} ELSE unseen
  /\ git_due' = IF w \in fleet \ DOMAIN git_due
                  THEN Put(git_due, {w}, [due |-> sweep, first |-> sweep]) ELSE git_due
  /\ UNCHANGED <<fleet, batches, passed, calm, burst, denied>>

-----------------------------------------------------------------------------
(* One unit of time, in which the loop has made its pass or waits. *)

Longest == MaxDelay + Debounce + 1

Tick ==
  /\ passed \/ batches # {}
  /\ passed' = FALSE
  /\ git_due' = [w \in DOMAIN git_due |->
                   [due   |-> Later(0, git_due[w].due - 1),
                    first |-> Later(-MaxDelay - 1, git_due[w].first - 1)]]
  /\ burst' = [w \in DOMAIN burst |-> Earlier(Longest + 1, burst[w] + 1)]
  /\ denied' = IF batches = {} THEN denied
               ELSE denied \cup {w \in DOMAIN git_due : 0 \in {git_due[w].due, git_due'[w].due}}
  /\ UNCHANGED <<fleet, git_running, slots, batches, calm, unseen, missed>>

Calm == ~calm /\ calm' = TRUE /\ UNCHANGED <<fleet, git_due, git_running, slots, batches, passed,
                                             unseen, missed, burst, denied>>

None == [w \in {} |-> 0]

GInit ==
  /\ fleet = {} /\ git_due = None /\ git_running = {} /\ slots = [k \in Slots |-> {}]
  /\ batches = {} /\ passed = FALSE /\ calm = FALSE
  /\ unseen = {} /\ missed = {} /\ burst = None /\ denied = {}

Passing == \E at \in Assignments : Pass(at)

GNext ==
  \/ \E w \in Worktrees : Activity(w) \/ Change(w)
  \/ \E ws \in {{w} : w \in Worktrees} \cup {fleet} : Refresh(ws)
  \/ \E fl \in SUBSET Worktrees : Rescan(fl)
  \/ Passing
  \/ \E b \in SUBSET Worktrees, k \in Slots : Batch(b, k)
  \/ \E k \in Slots, w \in Worktrees, ok \in BOOLEAN, sweep \in Sweeps : Done(k, w, ok, sweep)
  \/ Tick \/ Calm

(* Time passes, the loop's timer fires, a free slot goes to a batch that
   waits, and git ends. *)
GFairness ==
  /\ WF_gvars(Tick) /\ WF_gvars(Passing)
  /\ WF_gvars(\E b \in batches, k \in Slots : Batch(b, k))
  /\ \A k \in Slots : WF_gvars(\E w \in Worktrees, ok \in BOOLEAN, sweep \in Sweeps : Done(k, w, ok, sweep))

GSpec == GInit /\ [][GNext]_gvars /\ GFairness

-----------------------------------------------------------------------------
EntryOK(e) == /\ e \in [due : Nat, first : Int]
              /\ e.first <= e.due /\ e.due <= Later(0, e.first + MaxDelay)

GTypeOK ==
  /\ fleet \subseteq Worktrees /\ git_running \subseteq Worktrees
  /\ DOMAIN git_due \subseteq Worktrees
  /\ \A w \in DOMAIN git_due : EntryOK(git_due[w])
  /\ slots \in [Slots -> SUBSET Worktrees] /\ batches \subseteq SUBSET Worktrees
  /\ passed \in BOOLEAN /\ calm \in BOOLEAN
  /\ unseen \cup missed \cup denied \subseteq Worktrees
  /\ DOMAIN burst \subseteq Worktrees /\ \A w \in DOMAIN burst : burst[w] \in Nat

(***************************************************************************)
(* "debounced, per worktree, at most 2 at a time" (mod.rs:4): no two git   *)
(* processes read one worktree, and what counts as running is what a slot  *)
(* runs or a batch that waits holds - an id left over would never be       *)
(* looked at again, whatever happens in the worktree.                      *)
(***************************************************************************)
OneRun ==
  /\ \A j, k \in Slots : j # k => slots[j] \cap slots[k] = {}
  /\ \A b \in batches : b \cap Reading = {}
  /\ \A b, c \in batches : b # c => b \cap c = {}
  /\ git_running = Reading \cup UNION batches

(***************************************************************************)
(* "these sweeps are only a backstop" (mod.rs:41), but they are one: every *)
(* worktree of the fleet is due some time or being read, however often it  *)
(* came and went while it was.                                             *)
(***************************************************************************)
NeverForgotten == fleet \subseteq DOMAIN git_due \cup git_running

(***************************************************************************)
(* "wait this long for quiet before `git status`" (mod.rs:37): an event    *)
(* that no run has been due for since makes its worktree due within the    *)
(* debounce delay, and neither a sweep's later entry nor the end of a run  *)
(* that had begun before puts it off.                                      *)
(***************************************************************************)
DueSoon == \A w \in DOMAIN burst : w \in DOMAIN git_due /\ git_due[w].due <= Debounce

(***************************************************************************)
(* "but never longer than this after the first event of a burst"           *)
(* (mod.rs:39): events keep no worktree from its run for longer, if a pass *)
(* of the loop finds a slot for it when it is due, and up to one debounce  *)
(* delay more when a sweep was about to come.                              *)
(***************************************************************************)
LongestDelay == \A w \in DOMAIN burst : w \in denied \/ burst[w] <= MaxDelay + Debounce

(***************************************************************************)
(* Once nothing happens any more and git does not fail, each worktree      *)
(* comes to be shown as it is, also if no watcher told of its change.      *)
(***************************************************************************)
ShownInTheEnd == []<>(calm => unseen = {})

(***************************************************************************)
(* The schedule of the git refreshes (mod.rs:36-41, git_loop): one run at  *)
(* a time for a worktree, none forgotten, each soon enough.                *)
(***************************************************************************)
ScheduleKept == GTypeOK /\ OneRun /\ NeverForgotten /\ DueSoon /\ LongestDelay
=============================================================================
