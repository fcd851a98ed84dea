-------------------------- MODULE GitScheduleProofs --------------------------
(***************************************************************************)
(* What schedule_git, git_loop and git_done keep for any number of         *)
(* worktrees, distros and slots and any delays: one run per worktree, no   *)
(* worktree forgotten, what was noticed due soon, and the longest delay.   *)
(* And what the runs of the reviewer, which the daemon schedules again,    *)
(* leave behind, for any number of runs and worktrees.                     *)
(***************************************************************************)
EXTENDS GitSchedule, Review, FiniteSetTheorems, TLAPS

(* What an event makes of a worktree's entry. *)
LEMMA DebouncedEntry ==
  ASSUME GTypeOK, NEW w \in Worktrees
  PROVE  /\ EntryOK(Debounced(w)) /\ Debounced(w).due <= Debounce
         /\ Debounced(w).first <= Debounce
         /\ \/ Debounced(w).first = 0
            \/ w \in DOMAIN git_due /\ Debounced(w).first = git_due[w].first
  <1>1. EntryOK(Entry(w))
    BY GitAssumption DEF GTypeOK, EntryOK, Entry, Now, Later
  <1>2. CASE Entry(w).due > Debounce \/ Entry(w).first + MaxDelay < 0
    BY <1>2, GitAssumption DEF Debounced, EntryOK, Later
  <1>3. CASE ~(Entry(w).due > Debounce \/ Entry(w).first + MaxDelay < 0)
    <2> DEFINE soon == Earlier(Debounce, Entry(w).first + MaxDelay)
    <2>1. Entry(w).due \in Nat /\ Entry(w).first \in Int
          /\ Entry(w) = [due |-> Entry(w).due, first |-> Entry(w).first]
      BY <1>1 DEF EntryOK
    <2>2. Debounced(w) = [Entry(w) EXCEPT !.due = soon]
      BY <1>3 DEF Debounced
    <2>3. Debounced(w) = [due |-> soon, first |-> Entry(w).first]
      BY <2>1, <2>2
    <2>4. /\ soon \in Nat /\ soon <= Debounce /\ soon <= Entry(w).first + MaxDelay
          /\ Entry(w).first <= soon /\ Entry(w).first <= Debounce
      BY <1>1, <1>3, <2>1, GitAssumption DEF Earlier, EntryOK, Later
    <2>5. \/ Entry(w).first = 0
          \/ w \in DOMAIN git_due /\ Entry(w).first = git_due[w].first
      BY DEF Entry, Now
    <2> QED
      BY <2>1, <2>3, <2>4, <2>5, GitAssumption DEF EntryOK, Later
  <1> QED
    BY <1>2, <1>3

LEMMA NowEntry == EntryOK(Now)
  BY GitAssumption DEF EntryOK, Now, Later

LEMMA InitGit == GInit => GTypeOK
  BY DEF GInit, None, GTypeOK, EntryOK

(* Putting a good entry, or dropping some, keeps all of them good. *)
LEMMA PutEntries ==
  ASSUME \A w \in DOMAIN git_due : EntryOK(git_due[w]), DOMAIN git_due \subseteq Worktrees,
         NEW ws \in SUBSET Worktrees, NEW gone, NEW e, EntryOK(e)
  PROVE  /\ \A w \in DOMAIN Put(Drop(git_due, gone), ws, e) : EntryOK(Put(Drop(git_due, gone), ws, e)[w])
         /\ DOMAIN Put(Drop(git_due, gone), ws, e) \subseteq Worktrees
         /\ \A w \in DOMAIN Put(git_due, ws, e) : EntryOK(Put(git_due, ws, e)[w])
         /\ DOMAIN Put(git_due, ws, e) \subseteq Worktrees
         /\ \A w \in DOMAIN Drop(git_due, gone) : EntryOK(Drop(git_due, gone)[w])
         /\ DOMAIN Drop(git_due, gone) \subseteq Worktrees
  BY DEF Put, Drop, Restrict

LEMMA PutBurst ==
  ASSUME \A w \in DOMAIN burst : burst[w] \in Nat, DOMAIN burst \subseteq Worktrees,
         NEW ws \in SUBSET Worktrees, NEW gone
  PROVE  /\ \A w \in DOMAIN Put(Drop(burst, gone), ws, 0) : Put(Drop(burst, gone), ws, 0)[w] \in Nat
         /\ DOMAIN Put(Drop(burst, gone), ws, 0) \subseteq Worktrees
         /\ \A w \in DOMAIN Put(burst, ws, 0) : Put(burst, ws, 0)[w] \in Nat
         /\ DOMAIN Put(burst, ws, 0) \subseteq Worktrees
         /\ \A w \in DOMAIN Drop(burst, gone) : Drop(burst, gone)[w] \in Nat
         /\ DOMAIN Drop(burst, gone) \subseteq Worktrees
  BY DEF Put, Drop, Restrict

-----------------------------------------------------------------------------
(* Each action preserves the types. *)
LEMMA EventType ==
  ASSUME GTypeOK, NEW w \in Worktrees, Activity(w) \/ Change(w)
  PROVE  GTypeOK'
  <1>1. EntryOK(Debounced(w))
    BY DebouncedEntry
  <1>2. /\ \A v \in DOMAIN Put(git_due, {w}, Debounced(w)) : EntryOK(Put(git_due, {w}, Debounced(w))[v])
        /\ DOMAIN Put(git_due, {w}, Debounced(w)) \subseteq Worktrees
    BY <1>1, PutEntries, {w} \in SUBSET Worktrees DEF GTypeOK
  <1>3. /\ \A v \in DOMAIN Put(burst, {w} \ DOMAIN burst, 0) : Put(burst, {w} \ DOMAIN burst, 0)[v] \in Nat
        /\ DOMAIN Put(burst, {w} \ DOMAIN burst, 0) \subseteq Worktrees
    BY PutBurst, {w} \ DOMAIN burst \in SUBSET Worktrees DEF GTypeOK
  <1>4. CASE Activity(w)
    BY <1>2, <1>3, <1>4 DEF Activity, Noticed, GTypeOK
  <1>5. CASE Change(w)
    BY <1>2, <1>3, <1>5 DEF Change, Noticed, GTypeOK
  <1> QED
    BY <1>4, <1>5

LEMMA RefreshType ==
  ASSUME GTypeOK, NEW ws \in SUBSET Worktrees, Refresh(ws)
  PROVE  GTypeOK'
  BY NowEntry, PutEntries, PutBurst DEF Refresh, GTypeOK

LEMMA RescanType ==
  ASSUME GTypeOK, NEW fl \in SUBSET Worktrees, Rescan(fl)
  PROVE  GTypeOK'
  <1>1. /\ \A v \in DOMAIN git_due' : EntryOK(git_due'[v])
        /\ DOMAIN git_due' \subseteq Worktrees
    BY NowEntry, PutEntries, fl \ fleet \in SUBSET Worktrees DEF Rescan, GTypeOK
  <1>2. /\ \A v \in DOMAIN burst' : burst'[v] \in Nat
        /\ DOMAIN burst' \subseteq Worktrees
    BY PutBurst, fl \ fleet \in SUBSET Worktrees DEF Rescan, GTypeOK
  <1> QED
    BY <1>1, <1>2 DEF Rescan, GTypeOK

LEMMA PassType ==
  ASSUME GTypeOK, NEW at \in Assignments, Pass(at)
  PROVE  GTypeOK'
  <1>1. DOMAIN at \subseteq Worktrees
    BY DEF Assignments, Injection, GTypeOK
  <1>2. /\ \A w \in DOMAIN git_due' : EntryOK(git_due'[w])
        /\ DOMAIN git_due' \subseteq Worktrees
    BY DEF Pass, Drop, Restrict, GTypeOK
  <1>3. /\ \A w \in DOMAIN burst' : burst'[w] \in Nat
        /\ DOMAIN burst' \subseteq Worktrees
    BY DEF Pass, Drop, Restrict, GTypeOK
  <1>4. slots' \in [Slots -> SUBSET Worktrees]
    BY <1>1 DEF Pass, GTypeOK
  <1>5. batches' \subseteq SUBSET Worktrees
    BY DEF Pass, GTypeOK
  <1> QED
    BY <1>1, <1>2, <1>3, <1>4, <1>5 DEF Pass, GTypeOK

LEMMA RunType ==
  ASSUME GTypeOK, NEW k \in Slots,
         \/ \E b \in SUBSET Worktrees : Batch(b, k)
         \/ \E w \in Worktrees, ok \in BOOLEAN, sweep \in Sweeps : Done(k, w, ok, sweep)
  PROVE  GTypeOK'
  <1>1. ASSUME NEW b \in SUBSET Worktrees, Batch(b, k)
        PROVE  GTypeOK'
    BY <1>1 DEF Batch, GTypeOK
  <1>2. ASSUME NEW w \in Worktrees, NEW ok \in BOOLEAN, NEW sweep \in Sweeps, Done(k, w, ok, sweep)
        PROVE  GTypeOK'
    <2>1. EntryOK([due |-> sweep, first |-> sweep])
      BY GitAssumption DEF EntryOK, Later
    <2>2. /\ \A v \in DOMAIN git_due' : EntryOK(git_due'[v])
          /\ DOMAIN git_due' \subseteq Worktrees
      <3> DEFINE e == [due |-> sweep, first |-> sweep]
      <3>1. /\ \A v \in DOMAIN Put(git_due, {w}, e) : EntryOK(Put(git_due, {w}, e)[v])
            /\ DOMAIN Put(git_due, {w}, e) \subseteq Worktrees
        BY <2>1 DEF GTypeOK, Put
      <3>2. git_due' = Put(git_due, {w}, e) \/ git_due' = git_due
        BY <1>2 DEF Done
      <3> QED
        BY <3>1, <3>2 DEF GTypeOK
    <2> QED
      BY <1>2, <2>2 DEF Done, GTypeOK
  <1> QED
    BY <1>1, <1>2

(* A unit of time leaves an entry good: it comes nearer or is overdue. *)
LEMMA LaterEntry ==
  ASSUME NEW e, EntryOK(e)
  PROVE  LET f == [due |-> Later(0, e.due - 1), first |-> Later(-MaxDelay - 1, e.first - 1)]
         IN  EntryOK(f)
  BY GitAssumption DEF EntryOK, Later

LEMMA TickType ==
  ASSUME GTypeOK, Tick
  PROVE  GTypeOK'
  <1>1. \A w \in DOMAIN git_due' : EntryOK(git_due'[w])
    BY LaterEntry DEF Tick, GTypeOK
  <1>2. \A w \in DOMAIN burst' : burst'[w] \in Nat
    BY GitAssumption DEF Tick, GTypeOK, Earlier, Longest
  <1> QED
    BY <1>1, <1>2 DEF Tick, GTypeOK

LEMMA StepGit == GTypeOK /\ [GNext]_gvars => GTypeOK'
  <1> SUFFICES ASSUME GTypeOK, [GNext]_gvars
               PROVE  GTypeOK'
    OBVIOUS
  <1>1. CASE \E w \in Worktrees : Activity(w) \/ Change(w)
    BY <1>1, EventType
  <1>2. CASE \E ws \in {{w} : w \in Worktrees} \cup {fleet} : Refresh(ws)
    BY <1>2, RefreshType DEF GTypeOK
  <1>3. CASE \E fl \in SUBSET Worktrees : Rescan(fl)
    BY <1>3, RescanType
  <1>4. CASE Passing
    BY <1>4, PassType DEF Passing
  <1>5. CASE \E b \in SUBSET Worktrees, k \in Slots : Batch(b, k)
    BY <1>5, RunType
  <1>6. CASE \E k \in Slots, w \in Worktrees, ok \in BOOLEAN, sweep \in Sweeps : Done(k, w, ok, sweep)
    BY <1>6, RunType
  <1>7. CASE Tick
    BY <1>7, TickType
  <1>8. CASE Calm \/ UNCHANGED gvars
    BY <1>8 DEF Calm, gvars, GTypeOK
  <1> QED
    BY <1>1, <1>2, <1>3, <1>4, <1>5, <1>6, <1>7, <1>8 DEF GNext

(* Every entry is between now and the longest delay, and everything else is
   of its type. *)
THEOREM TypeCorrect == GSpec => []GTypeOK
  BY InitGit, StepGit, PTL DEF GSpec

-----------------------------------------------------------------------------
(* The local worktrees of a pass are due, each gets one free slot. *)
LEMMA Assigned ==
  ASSUME NEW at \in Assignments
  PROVE  /\ DOMAIN at \subseteq Due \cap fleet \cap Local
         /\ \A w \in DOMAIN at : at[w] \in Free
         /\ \A v, w \in DOMAIN at : at[v] = at[w] => v = w
  BY DEF Assignments, Injection, IsInjective

LEMMA PassRuns ==
  ASSUME GTypeOK, OneRun, NEW at \in Assignments, Pass(at)
  PROVE  OneRun'
  <1> DEFINE taken == DOMAIN at
             wsl   == (Due \cap fleet) \ Local
             batch(d) == {w \in wsl : Distro[w] = d}
  <1>1. /\ taken \subseteq Due \cap fleet \cap Local
        /\ \A w \in taken : at[w] \in Free
    BY Assigned
  <1>2. /\ batches = {} /\ batches' = {batch(d) : d \in Distros} \ {{}}
        /\ slots' = [k \in Slots |-> slots[k] \cup {w \in taken : at[w] = k}]
        /\ git_running' = git_running \cup taken \cup wsl
    BY DEF Pass
  <1>3. git_running = Reading /\ \A w \in taken \cup wsl : w \notin Reading
    BY <1>1, <1>2 DEF OneRun, Due
  <1>4. \A k \in Slots : slots'[k] \subseteq slots[k] \cup taken
    BY <1>2
  <1>5. Reading' = Reading \cup taken
    BY <1>1, <1>2 DEF Reading, Free
  <1>6. UNION batches' = wsl
    <2>1. \A w \in wsl : Distro[w] \in Distros
      BY GitAssumption DEF Local, GTypeOK
    <2>2. ASSUME NEW w \in wsl
          PROVE  w \in UNION batches'
      <3>1. batch(Distro[w]) \in batches'
        BY <1>2, <2>1
      <3> QED
        BY <3>1
    <2>3. ASSUME NEW b \in batches'
          PROVE  b \subseteq wsl
      <3>1. PICK d \in Distros : b = batch(d)
        BY <1>2
      <3> QED
        BY <3>1
    <2> QED
      BY <2>2, <2>3
  <1>7. \A j, k \in Slots : j # k => slots'[j] \cap slots'[k] = {}
    <2> SUFFICES ASSUME NEW j \in Slots, NEW k \in Slots, j # k, NEW w \in slots'[j], w \in slots'[k]
                 PROVE  FALSE
      OBVIOUS
    <2>1. CASE w \in taken
      BY <1>2, <1>3, <2>1 DEF Reading
    <2>2. CASE w \notin taken
      BY <1>2, <2>2 DEF OneRun
    <2> QED
      BY <2>1, <2>2
  <1>8. \A b \in batches' : b \cap Reading' = {}
    BY <1>1, <1>2, <1>3, <1>5
  <1>9. ASSUME NEW b \in batches', NEW c \in batches', b # c
        PROVE  b \cap c = {}
    <2>1. PICK d \in Distros : b = batch(d)
      BY <1>2
    <2>2. PICK e \in Distros : c = batch(e)
      BY <1>2
    <2>3. d # e
      BY <1>9, <2>1, <2>2
    <2> QED
      BY <2>1, <2>2, <2>3
  <1> QED
    BY <1>2, <1>3, <1>5, <1>6, <1>7, <1>8, <1>9 DEF OneRun

LEMMA BatchRuns ==
  ASSUME GTypeOK, OneRun, NEW b, NEW k \in Slots, Batch(b, k)
  PROVE  OneRun'
  <1>1. /\ b \in batches /\ batches' = batches \ {b} /\ slots[k] = {}
        /\ slots' = [slots EXCEPT ![k] = b] /\ git_running' = git_running
    BY DEF Batch, Free
  <1>2. slots'[k] = b /\ \A j \in Slots \ {k} : slots'[j] = slots[j]
    BY <1>1 DEF GTypeOK
  <1>3. Reading' = Reading \cup b
    BY <1>1, <1>2 DEF Reading
  <1>4. \A j \in Slots \ {k} : slots'[j] \cap b = {}
    BY <1>1, <1>2 DEF OneRun, Reading
  <1>5. \A i, j \in Slots : i # j => slots'[i] \cap slots'[j] = {}
    BY <1>2, <1>4 DEF OneRun
  <1>6. \A c \in batches' : c \cap Reading' = {}
    BY <1>1, <1>3 DEF OneRun
  <1>7. git_running' = Reading' \cup UNION batches'
    BY <1>1, <1>3 DEF OneRun
  <1> QED
    BY <1>1, <1>5, <1>6, <1>7 DEF OneRun

LEMMA DoneRuns ==
  ASSUME GTypeOK, OneRun, NEW k \in Slots, NEW w \in Worktrees, NEW ok \in BOOLEAN,
         NEW sweep \in Sweeps, Done(k, w, ok, sweep)
  PROVE  OneRun'
  <1>1. /\ w \in slots[k] /\ slots' = [slots EXCEPT ![k] = @ \ {w}]
        /\ git_running' = git_running \ {w} /\ batches' = batches
    BY DEF Done
  <1>2. slots'[k] = slots[k] \ {w} /\ \A j \in Slots \ {k} : slots'[j] = slots[j]
    BY <1>1 DEF GTypeOK
  <1>3. \A j \in Slots \ {k} : w \notin slots[j]
    BY <1>1 DEF OneRun
  <1>4. Reading' = Reading \ {w}
    BY <1>2, <1>3 DEF Reading
  <1>5. \A b \in batches : w \notin b
    BY <1>1 DEF OneRun, Reading
  <1>6. git_running' = Reading' \cup UNION batches'
    BY <1>1, <1>4, <1>5 DEF OneRun
  <1>7. \A i, j \in Slots : i # j => slots'[i] \cap slots'[j] = {}
    BY <1>2 DEF OneRun
  <1> QED
    BY <1>1, <1>4, <1>6, <1>7 DEF OneRun

LEMMA StepRuns == GTypeOK /\ OneRun /\ [GNext]_gvars => OneRun'
  <1> SUFFICES ASSUME GTypeOK, OneRun, [GNext]_gvars
               PROVE  OneRun'
    OBVIOUS
  <1>1. CASE UNCHANGED <<slots, batches, git_running>>
    BY <1>1 DEF OneRun, Reading
  <1>2. CASE Passing
    BY <1>2, PassRuns DEF Passing
  <1>3. CASE \E b \in SUBSET Worktrees, k \in Slots : Batch(b, k)
    BY <1>3, BatchRuns
  <1>4. CASE \E k \in Slots, w \in Worktrees, ok \in BOOLEAN, sweep \in Sweeps : Done(k, w, ok, sweep)
    BY <1>4, DoneRuns
  <1> QED
    BY <1>1, <1>2, <1>3, <1>4
    DEF GNext, Activity, Change, Refresh, Rescan, Tick, Calm, gvars

(* No two git processes read one worktree, and git_running holds exactly
   those that are read or are about to be. *)
THEOREM OneRunEach == GSpec => []OneRun
  <1>1. GInit => OneRun
    BY DEF GInit, OneRun, Reading
  <1> QED
    BY <1>1, StepRuns, TypeCorrect, PTL DEF GSpec

-----------------------------------------------------------------------------
LEMMA StepForgets == GTypeOK /\ OneRun /\ NeverForgotten /\ [GNext]_gvars => NeverForgotten'
  <1> SUFFICES ASSUME GTypeOK, OneRun, NeverForgotten, [GNext]_gvars
               PROVE  NeverForgotten'
    OBVIOUS
  <1>1. CASE \E w \in Worktrees : Activity(w) \/ Change(w)
    BY <1>1 DEF Activity, Change, NeverForgotten, Put, Drop, Restrict
  <1>2. CASE \E ws \in {{w} : w \in Worktrees} \cup {fleet} : Refresh(ws)
    BY <1>2 DEF Refresh, NeverForgotten, Put, Drop, Restrict
  <1>3. ASSUME NEW fl \in SUBSET Worktrees, Rescan(fl)
        PROVE  NeverForgotten'
    <2>1. DOMAIN git_due' = (DOMAIN git_due \ (fleet \ fl)) \cup (fl \ fleet)
      BY <1>3 DEF Rescan, Put, Drop, Restrict
    <2> QED
      BY <1>3, <2>1 DEF Rescan, NeverForgotten
  <1>4. ASSUME NEW at \in Assignments, Pass(at)
        PROVE  NeverForgotten'
    <2> DEFINE wsl == (Due \cap fleet) \ Local
    <2>1. DOMAIN git_due' = DOMAIN git_due \ (DOMAIN at \cup wsl \cup (Due \ fleet))
      BY <1>4 DEF Pass, Put, Drop, Restrict
    <2>2. git_running' = git_running \cup DOMAIN at \cup wsl /\ fleet' = fleet
      BY <1>4 DEF Pass
    <2> QED
      BY <2>1, <2>2 DEF NeverForgotten
  <1>5. CASE \E b \in SUBSET Worktrees, k \in Slots : Batch(b, k)
    BY <1>5 DEF Batch, NeverForgotten
  <1>6. ASSUME NEW k \in Slots, NEW w \in Worktrees, NEW ok \in BOOLEAN, NEW sweep \in Sweeps,
               Done(k, w, ok, sweep)
        PROVE  NeverForgotten'
    <2>1. /\ DOMAIN git_due \subseteq DOMAIN git_due'
          /\ w \in fleet => w \in DOMAIN git_due'
          /\ fleet' = fleet /\ git_running' = git_running \ {w}
      <3>1. CASE w \in fleet \ DOMAIN git_due
        BY <1>6, <3>1 DEF Done, Put
      <3>2. CASE w \notin fleet \ DOMAIN git_due
        BY <1>6, <3>2 DEF Done
      <3> QED
        BY <3>1, <3>2
    <2> QED
      BY <2>1 DEF NeverForgotten
  <1>7. CASE Tick
    BY <1>7 DEF Tick, NeverForgotten
  <1>8. CASE Calm \/ UNCHANGED gvars
    BY <1>8 DEF Calm, gvars, NeverForgotten
  <1> QED
    BY <1>1, <1>2, <1>3, <1>4, <1>5, <1>6, <1>7, <1>8 DEF GNext, Passing

(* Every worktree of the fleet has its next run scheduled or is being read. *)
THEOREM NoneForgotten == GSpec => []NeverForgotten
  <1>1. GInit => NeverForgotten
    BY DEF GInit, NeverForgotten
  <1> QED
    BY <1>1, StepForgets, TypeCorrect, OneRunEach, PTL DEF GSpec

-----------------------------------------------------------------------------
LEMMA StepDue == GTypeOK /\ DueSoon /\ [GNext]_gvars => DueSoon'
  <1> SUFFICES ASSUME GTypeOK, DueSoon, [GNext]_gvars, NEW v \in DOMAIN burst'
               PROVE  v \in DOMAIN git_due' /\ git_due'[v].due <= Debounce
    BY DEF DueSoon
  <1>a. v \in DOMAIN burst => v \in DOMAIN git_due /\ git_due[v].due <= Debounce
    BY DEF DueSoon
  <1>1. ASSUME NEW w \in Worktrees, Activity(w) \/ Change(w)
        PROVE  v \in DOMAIN git_due' /\ git_due'[v].due <= Debounce
    <2>1. CASE git_due' = Put(git_due, {w}, Debounced(w)) /\ Noticed({w})
      <3>1. DOMAIN git_due' = DOMAIN git_due \cup {w} /\ v \in DOMAIN burst \cup {w}
        BY <2>1 DEF Noticed, Put, Drop, Restrict
      <3>2. CASE v = w
        BY <2>1, <3>1, <3>2, DebouncedEntry DEF Put, Drop, Restrict
      <3>3. CASE v # w
        BY <1>a, <2>1, <3>1, <3>3 DEF Put, Drop, Restrict
      <3> QED
        BY <3>2, <3>3
    <2>2. CASE UNCHANGED <<git_due, burst>>
      BY <1>a, <2>2
    <2> QED
      BY <1>1, <2>1, <2>2 DEF Activity, Change
  <1>2. ASSUME NEW ws \in {{w} : w \in Worktrees} \cup {fleet}, Refresh(ws)
        PROVE  v \in DOMAIN git_due' /\ git_due'[v].due <= Debounce
    <2>1. git_due' = Put(git_due, ws, Now) /\ v \in DOMAIN burst \cup ws
      BY <1>2 DEF Refresh, Put, Drop, Restrict
    <2>2. CASE v \in ws
      BY <2>1, <2>2, GitAssumption DEF Now, Put, Drop, Restrict
    <2>3. CASE v \notin ws
      BY <1>a, <2>1, <2>3 DEF Put, Drop, Restrict
    <2> QED
      BY <2>2, <2>3
  <1>3. ASSUME NEW fl \in SUBSET Worktrees, Rescan(fl)
        PROVE  v \in DOMAIN git_due' /\ git_due'[v].due <= Debounce
    <2> DEFINE kept == Drop(git_due, fleet \ fl)
    <2>1. /\ git_due' = Put(kept, fl \ fleet, Now)
          /\ v \in (DOMAIN burst \ (fleet \ fl)) \cup (fl \ fleet)
      BY <1>3 DEF Rescan, Put, Drop, Restrict
    <2>2. CASE v \in fl \ fleet
      BY <2>1, <2>2, GitAssumption DEF Now, Put, Drop, Restrict
    <2>3. CASE v \notin fl \ fleet
      <3>1. v \in DOMAIN kept /\ kept[v] = git_due[v]
        BY <1>a, <2>1, <2>3 DEF Put, Drop, Restrict
      <3> QED
        BY <1>a, <2>1, <2>3, <3>1 DEF Put, Drop, Restrict
    <2> QED
      BY <2>2, <2>3
  <1>4. ASSUME NEW at \in Assignments, Pass(at)
        PROVE  v \in DOMAIN git_due' /\ git_due'[v].due <= Debounce
    BY <1>a, <1>4 DEF Pass, Put, Drop, Restrict
  <1>5. CASE \E b \in SUBSET Worktrees, k \in Slots : Batch(b, k)
    BY <1>a, <1>5 DEF Batch
  <1>6. ASSUME NEW k \in Slots, NEW w \in Worktrees, NEW ok \in BOOLEAN, NEW sweep \in Sweeps,
               Done(k, w, ok, sweep)
        PROVE  v \in DOMAIN git_due' /\ git_due'[v].due <= Debounce
    <2>1. v \in DOMAIN burst /\ v \in DOMAIN git_due
      BY <1>a, <1>6 DEF Done
    <2>2. CASE w \in fleet \ DOMAIN git_due
      BY <1>a, <1>6, <2>1, <2>2 DEF Done, Put, Drop, Restrict
    <2>3. CASE w \notin fleet \ DOMAIN git_due
      BY <1>a, <1>6, <2>1, <2>3 DEF Done
    <2> QED
      BY <2>2, <2>3
  <1>7. CASE Tick
    BY <1>a, <1>7, GitAssumption DEF Tick, Later, GTypeOK, EntryOK
  <1>8. CASE Calm \/ UNCHANGED gvars
    BY <1>a, <1>8 DEF Calm, gvars
  <1> QED
    BY <1>1, <1>2, <1>3, <1>4, <1>5, <1>6, <1>7, <1>8 DEF GNext, Passing

(* What was noticed is due within the debounce delay. *)
THEOREM NoticedIsDueSoon == GSpec => []DueSoon
  <1>1. GInit => DueSoon
    BY DEF GInit, None, DueSoon
  <1> QED
    BY <1>1, StepDue, TypeCorrect, PTL DEF GSpec

-----------------------------------------------------------------------------
(***************************************************************************)
(* The longest delay is kept because of where bursts are said to begin.    *)
(* An entry that was due when the loop had no slot is out of account; of   *)
(* the others none began longer ago than the longest delay, and less long  *)
(* ago once the loop has passed or while it waits, since what is due then  *)
(* is taken or denied.  A burst's entry begins at most one debounce delay  *)
(* after the burst itself: that of a sweep to come soon is kept.           *)
(***************************************************************************)
BeganAfter(w, delay) == git_due[w].first >= -delay

EntriesInTime ==
  \A w \in DOMAIN git_due \ denied :
    /\ BeganAfter(w, MaxDelay)
    /\ passed \/ batches # {} => BeganAfter(w, MaxDelay - 1)

BurstsBegun == \A w \in DOMAIN burst \ denied : burst[w] + git_due[w].first <= Debounce

DelayInv == EntriesInTime /\ BurstsBegun

LEMMA DelaySuffices == GTypeOK /\ DueSoon /\ DelayInv => LongestDelay
  BY GitAssumption
  DEF GTypeOK, EntryOK, DueSoon, DelayInv, EntriesInTime, BurstsBegun, BeganAfter, LongestDelay

(* An event keeps its worktree's entry in time, and a burst that it begins. *)
LEMMA EventInTime ==
  ASSUME GTypeOK, DueSoon, DelayInv, NEW w \in Worktrees, Activity(w) \/ Change(w)
  PROVE  DelayInv'
  <1>1. /\ passed' = passed /\ batches' = batches /\ denied' = denied
        /\ \/ git_due' = Put(git_due, {w}, Debounced(w)) /\ burst' = Put(burst, {w} \ DOMAIN burst, 0)
           \/ UNCHANGED <<git_due, burst>>
    BY DEF Activity, Change, Noticed
  <1>2. CASE UNCHANGED <<git_due, burst>>
    BY <1>1, <1>2 DEF DelayInv, EntriesInTime, BurstsBegun, BeganAfter
  <1>3. CASE git_due' = Put(git_due, {w}, Debounced(w)) /\ burst' = Put(burst, {w} \ DOMAIN burst, 0)
    <2> DEFINE e == Debounced(w)
    <2>1. /\ e.first \in Int /\ e.first <= Debounce
          /\ \/ e.first = 0
             \/ w \in DOMAIN git_due /\ e.first = git_due[w].first
      BY DebouncedEntry DEF EntryOK
    <2>2. /\ DOMAIN git_due' = DOMAIN git_due \cup {w} /\ git_due'[w] = e
          /\ \A v \in DOMAIN git_due \ {w} : git_due'[v] = git_due[v]
      BY <1>3 DEF Put
    <2>3. /\ DOMAIN burst' = DOMAIN burst \cup {w}
          /\ \A v \in DOMAIN burst : burst'[v] = burst[v]
          /\ w \notin DOMAIN burst => burst'[w] = 0
      BY <1>3 DEF Put
    <2>4. EntriesInTime'
      <3> SUFFICES ASSUME NEW v \in DOMAIN git_due' \ denied'
                   PROVE  /\ git_due'[v].first >= -MaxDelay
                          /\ passed' \/ batches' # {} => git_due'[v].first >= -(MaxDelay - 1)
        BY DEF EntriesInTime, BeganAfter
      <3>1. CASE v = w /\ e.first = 0
        BY <2>2, <3>1, GitAssumption
      <3>2. CASE v \in DOMAIN git_due /\ git_due'[v].first = git_due[v].first
        BY <1>1, <3>2 DEF DelayInv, EntriesInTime, BeganAfter
      <3> QED
        BY <2>1, <2>2, <3>1, <3>2
    <2>5. BurstsBegun'
      <3> SUFFICES ASSUME NEW v \in DOMAIN burst' \ denied'
                   PROVE  burst'[v] + git_due'[v].first <= Debounce
        BY DEF BurstsBegun
      <3>1. CASE v \notin DOMAIN burst
        BY <2>1, <2>2, <2>3, <3>1
      <3>2. CASE v \in DOMAIN burst /\ v # w
        BY <1>1, <2>2, <2>3, <3>2 DEF DelayInv, BurstsBegun, DueSoon
      <3>3. CASE v \in DOMAIN burst /\ v = w
        <4>1. git_due[w].first \in Int /\ burst[w] \in Nat /\ burst[w] + git_due[w].first <= Debounce
          BY <1>1, <3>3 DEF DelayInv, BurstsBegun, DueSoon, GTypeOK, EntryOK
        <4>2. git_due[w].due <= Debounce /\ git_due[w].first >= -MaxDelay /\ git_due[w].due \in Nat
          BY <1>1, <3>3 DEF DelayInv, EntriesInTime, BeganAfter, DueSoon, GTypeOK, EntryOK
        <4>3. Debounced(w) = [git_due[w] EXCEPT !.due = Earlier(Debounce, git_due[w].first + MaxDelay)]
          BY <3>3, <4>1, <4>2, GitAssumption DEF Debounced, Entry, DueSoon
        <4>4. git_due[w] = [due |-> git_due[w].due, first |-> git_due[w].first]
          BY <3>3 DEF GTypeOK, EntryOK, DueSoon
        <4>5. e.first = git_due[w].first
          BY <4>3, <4>4
        <4> QED
          BY <2>2, <2>3, <3>3, <4>1, <4>5
      <3> QED
        BY <3>1, <3>2, <3>3
    <2> QED
      BY <2>4, <2>5 DEF DelayInv
  <1> QED
    BY <1>1, <1>2, <1>3

(* Entries that are put anew begin now, with their bursts; the others stay. *)
LEMMA AnewInTime ==
  ASSUME GTypeOK, DueSoon, DelayInv, passed' = passed, batches' = batches,
         NEW ws, NEW gone,
         \A v \in DOMAIN git_due' : \/ v \in ws /\ git_due'[v].first = 0
                                  \/ /\ v \in DOMAIN git_due \ gone /\ v \notin ws
                                     /\ git_due'[v] = git_due[v],
         \A v \in DOMAIN burst' : \/ v \in ws /\ burst'[v] = 0 /\ git_due'[v].first = 0
                                \/ /\ v \in DOMAIN burst \ gone /\ v \notin ws
                                   /\ burst'[v] = burst[v] /\ git_due'[v] = git_due[v],
         denied \subseteq denied' \cup ws \cup gone
  PROVE  DelayInv'
  <1>1. EntriesInTime'
    BY GitAssumption DEF DelayInv, EntriesInTime, BeganAfter
  <1>2. BurstsBegun'
    BY GitAssumption DEF DelayInv, BurstsBegun
  <1> QED
    BY <1>1, <1>2 DEF DelayInv

LEMMA RefreshInTime ==
  ASSUME GTypeOK, DueSoon, DelayInv, NEW ws \in SUBSET Worktrees, Refresh(ws)
  PROVE  DelayInv'
  <1>1. /\ passed' = passed /\ batches' = batches /\ denied' = denied \ ws
        /\ git_due' = Put(git_due, ws, Now) /\ burst' = Put(burst, ws, 0)
    BY DEF Refresh
  <1>2. \A v \in DOMAIN git_due' : \/ v \in ws /\ git_due'[v].first = 0
                                 \/ /\ v \in DOMAIN git_due \ {} /\ v \notin ws
                                    /\ git_due'[v] = git_due[v]
    BY <1>1 DEF Put, Now
  <1>3. \A v \in DOMAIN burst' : \/ v \in ws /\ burst'[v] = 0 /\ git_due'[v].first = 0
                               \/ /\ v \in DOMAIN burst \ {} /\ v \notin ws
                                  /\ burst'[v] = burst[v] /\ git_due'[v] = git_due[v]
    BY <1>1 DEF Put, Now, DueSoon
  <1> QED
    BY <1>1, <1>2, <1>3, AnewInTime

LEMMA RescanInTime ==
  ASSUME GTypeOK, DueSoon, DelayInv, NEW fl \in SUBSET Worktrees, Rescan(fl)
  PROVE  DelayInv'
  <1> DEFINE gone == fleet \ fl
             new == fl \ fleet
  <1>1. /\ passed' = passed /\ batches' = batches /\ denied' = denied \ (gone \cup new)
        /\ git_due' = Put(Drop(git_due, gone), new, Now) /\ burst' = Put(Drop(burst, gone), new, 0)
    BY DEF Rescan
  <1>2. \A v \in DOMAIN git_due' : \/ v \in new /\ git_due'[v].first = 0
                                 \/ /\ v \in DOMAIN git_due \ gone /\ v \notin new
                                    /\ git_due'[v] = git_due[v]
    BY <1>1 DEF Put, Drop, Restrict, Now
  <1>3. \A v \in DOMAIN burst' : \/ v \in new /\ burst'[v] = 0 /\ git_due'[v].first = 0
                               \/ /\ v \in DOMAIN burst \ gone /\ v \notin new
                                  /\ burst'[v] = burst[v] /\ git_due'[v] = git_due[v]
    BY <1>1 DEF Put, Drop, Restrict, Now, DueSoon
  <1> QED
    BY <1>1, <1>2, <1>3, AnewInTime

LEMMA PassInTime ==
  ASSUME GTypeOK, DueSoon, DelayInv, NEW at \in Assignments, Pass(at)
  PROVE  DelayInv'
  <1> DEFINE gone == DOMAIN at \cup ((Due \cap fleet) \ Local) \cup (Due \ fleet)
  <1>1. /\ passed' = TRUE /\ git_due' = Drop(git_due, gone) /\ burst' = Drop(burst, gone)
        /\ denied' = (denied \cup {w \in DOMAIN git_due : git_due[w].due = 0}) \ gone
    BY DEF Pass
  <1>2. /\ DOMAIN git_due' = DOMAIN git_due \ gone /\ DOMAIN burst' = DOMAIN burst \ gone
        /\ \A v \in DOMAIN git_due' : git_due'[v] = git_due[v]
        /\ \A v \in DOMAIN burst' : burst'[v] = burst[v]
    BY <1>1 DEF Drop, Restrict
  <1>3. ASSUME NEW v \in DOMAIN git_due' \ denied'
        PROVE  git_due'[v].first >= -MaxDelay /\ git_due'[v].first >= -(MaxDelay - 1)
    <2>1. v \in DOMAIN git_due \ denied /\ git_due[v].due # 0 /\ git_due'[v] = git_due[v]
      BY <1>1, <1>2
    <2> QED
      BY <2>1, GitAssumption DEF GTypeOK, EntryOK, Later
  <1>4. EntriesInTime'
    BY <1>3 DEF EntriesInTime, BeganAfter
  <1>5. BurstsBegun'
    BY <1>1, <1>2 DEF DelayInv, BurstsBegun, DueSoon
  <1> QED
    BY <1>4, <1>5 DEF DelayInv

LEMMA DoneInTime ==
  ASSUME GTypeOK, DueSoon, DelayInv, NEW k \in Slots, NEW w \in Worktrees, NEW ok \in BOOLEAN,
         NEW sweep \in Sweeps, Done(k, w, ok, sweep)
  PROVE  DelayInv'
  <1>1. passed' = passed /\ batches' = batches /\ denied' = denied /\ burst' = burst
    BY DEF Done
  <1>2. CASE git_due' = git_due
    BY <1>1, <1>2 DEF DelayInv, EntriesInTime, BurstsBegun, BeganAfter
  <1>3. CASE w \in fleet \ DOMAIN git_due
    <2>1. /\ DOMAIN git_due' = DOMAIN git_due \cup {w} /\ git_due'[w].first = sweep
          /\ \A v \in DOMAIN git_due : git_due'[v] = git_due[v]
      BY <1>3 DEF Done, Put
    <2>2. EntriesInTime'
      BY <1>1, <2>1, GitAssumption DEF DelayInv, EntriesInTime, BeganAfter
    <2>3. BurstsBegun'
      BY <1>1, <2>1 DEF DelayInv, BurstsBegun, DueSoon
    <2> QED
      BY <2>2, <2>3 DEF DelayInv
  <1> QED
    BY <1>2, <1>3 DEF Done

LEMMA TickInTime ==
  ASSUME GTypeOK, DueSoon, DelayInv, Tick
  PROVE  DelayInv'
  <1>1. /\ passed \/ batches # {}
        /\ passed' = FALSE /\ batches' = batches /\ DOMAIN git_due' = DOMAIN git_due
        /\ DOMAIN burst' = DOMAIN burst /\ denied \subseteq denied'
        /\ batches # {} => \A v \in DOMAIN git_due \ denied' : git_due'[v].due # 0
    BY DEF Tick
  <1>2. ASSUME NEW v \in DOMAIN git_due \ denied'
        PROVE  /\ git_due'[v].first = git_due[v].first - 1
               /\ git_due'[v].first >= -MaxDelay
               /\ batches # {} => git_due'[v].first >= -(MaxDelay - 1)
    <2>1. /\ git_due[v].first \in Int /\ git_due[v].due \in Nat
          /\ git_due[v].first >= -(MaxDelay - 1)
          /\ git_due[v].due <= Later(0, git_due[v].first + MaxDelay)
      BY <1>1 DEF DelayInv, EntriesInTime, BeganAfter, GTypeOK, EntryOK
    <2>2. /\ git_due'[v].first = Later(-MaxDelay - 1, git_due[v].first - 1)
          /\ git_due'[v].due = Later(0, git_due[v].due - 1)
      BY DEF Tick
    <2>3. git_due'[v].first = git_due[v].first - 1 /\ git_due'[v].first >= -MaxDelay
      BY <2>1, <2>2, GitAssumption DEF Later
    <2>4. ASSUME batches # {}
          PROVE  git_due'[v].first >= -(MaxDelay - 1)
      <3>1. git_due'[v].due # 0
        BY <1>1, <2>4
      <3> QED
        BY <2>1, <2>2, <2>3, <3>1, GitAssumption DEF Later
    <2> QED
      BY <2>3, <2>4
  <1>3. EntriesInTime'
    BY <1>1, <1>2 DEF EntriesInTime, BeganAfter
  <1>4. ASSUME NEW v \in DOMAIN burst' \ denied'
        PROVE  burst'[v] + git_due'[v].first <= Debounce
    <2>1. /\ v \in DOMAIN burst \ denied /\ v \in DOMAIN git_due \ denied'
          /\ burst[v] \in Nat /\ git_due[v].first \in Int
      BY <1>1, <1>4 DEF DueSoon, GTypeOK, EntryOK
    <2>2. burst[v] + git_due[v].first <= Debounce
      BY <2>1 DEF DelayInv, BurstsBegun
    <2>3. burst'[v] = Earlier(Longest + 1, burst[v] + 1)
      BY <2>1 DEF Tick
    <2> QED
      BY <1>2, <2>1, <2>2, <2>3, GitAssumption DEF Earlier, Longest
  <1> QED
    BY <1>3, <1>4 DEF DelayInv, BurstsBegun

LEMMA StepInTime == GTypeOK /\ DueSoon /\ DelayInv /\ [GNext]_gvars => DelayInv'
  <1> SUFFICES ASSUME GTypeOK, DueSoon, DelayInv, [GNext]_gvars
               PROVE  DelayInv'
    OBVIOUS
  <1>1. CASE \E w \in Worktrees : Activity(w) \/ Change(w)
    BY <1>1, EventInTime
  <1>2. CASE \E ws \in {{w} : w \in Worktrees} \cup {fleet} : Refresh(ws)
    BY <1>2, RefreshInTime DEF GTypeOK
  <1>3. CASE \E fl \in SUBSET Worktrees : Rescan(fl)
    BY <1>3, RescanInTime
  <1>4. CASE Passing
    BY <1>4, PassInTime DEF Passing
  <1>5. CASE \E b \in SUBSET Worktrees, k \in Slots : Batch(b, k)
    BY <1>5 DEF Batch, DelayInv, EntriesInTime, BurstsBegun, BeganAfter
  <1>6. CASE \E k \in Slots, w \in Worktrees, ok \in BOOLEAN, sweep \in Sweeps : Done(k, w, ok, sweep)
    BY <1>6, DoneInTime
  <1>7. CASE Tick
    BY <1>7, TickInTime
  <1>8. CASE Calm \/ UNCHANGED gvars
    BY <1>8 DEF Calm, gvars, DelayInv, EntriesInTime, BurstsBegun, BeganAfter
  <1> QED
    BY <1>1, <1>2, <1>3, <1>4, <1>5, <1>6, <1>7, <1>8 DEF GNext

(* No worktree that the loop had a slot for waits longer than the longest
   delay and one debounce delay, whatever happens in it. *)
THEOREM DelayBounded == GSpec => []LongestDelay
  <1>1. GInit => DelayInv
    BY DEF GInit, None, DelayInv, EntriesInTime, BurstsBegun
  <1> QED
    BY <1>1, StepInTime, DelaySuffices, TypeCorrect, NoticedIsDueSoon, PTL DEF GSpec

(* All of it together: the schedule of git_loop, for any number of worktrees,
   distros and slots and any delays. *)
THEOREM ScheduleIsKept == GSpec => []ScheduleKept
  BY TypeCorrect, OneRunEach, NoneForgotten, NoticedIsDueSoon, DelayBounded, PTL
     DEF ScheduleKept

-----------------------------------------------------------------------------
(* The reviewer                                                              *)

AtWork(r) == pc[r] \notin {"new", "over"}
Place(r) == [wt |-> wt[r], dir |-> dir[r]]

(* What ReviewTypeOK says of the runs.                                       *)
RunsOK ==
  /\ pc \in [Runs -> Steps] /\ marks \in [Runs -> BOOLEAN] /\ out \in [Runs -> SUBSET Runs]
  /\ DOMAIN wt = Runs /\ DOMAIN dir = Runs
  /\ \A r \in Runs : IF pc[r] = "new" THEN wt[r] = Unset /\ dir[r] = Unset
                      ELSE wt[r] \in Trees /\ dir[r] \in Dirs
  /\ \A r \in Runs : marks[r] => pc[r] \notin {"new", "prepared"}

(* ... of what they write,                                                   *)
FoldersOK ==
  /\ \A f \in scratch : f.wt \in Trees /\ f.dir \in Dirs /\ f.review \cup f.delta \subseteq Runs
  /\ \A f \in reports : f.wt \in Trees /\ f.dir \in Dirs /\ f.review \subseteq Runs
  /\ \A s \in shared : s.wt \in Trees /\ s.dir \in Dirs

(* ... and of the daemon's jobs.                                             *)
JobsOK ==
  /\ {jobs, saved} \subseteq [Trees -> (0..MaxMinute) \cup {Unset}]
  /\ looping \in {"up", "down"} /\ (looping = "down" => jobs = NoJobs /\ due = {})
  /\ due \cup promised \cup lost \subseteq Trees
  /\ minute \in 0..MaxMinute

RestOK == /\ killed \subseteq Trees /\ crossed \in BOOLEAN
          /\ hooks \in 0..MaxHooks /\ stops \in 0..MaxStops

(* A folder of reports was moved by a run that is over; and a run at work    *)
(* whose folder was not there already has it staged, to itself, with no      *)
(* reports of that name.                                                     *)
PlacesInv ==
  /\ \A f \in reports : \E r \in Runs : pc[r] = "over" /\ wt[r] = f.wt /\ dir[r] = f.dir
  /\ \A r \in Runs : AtWork(r) /\ Place(r) \notin shared =>
       /\ Mine(r) # {} /\ At(reports, wt[r], dir[r]) = {}
       /\ \A o \in Runs \ {r} : AtWork(o) => Place(o) # Place(r)

StatusInv == cur \in [Trees -> StatusStates] /\ ReviewingEnds

(* While no two merges overlapped at most one run is about to write the      *)
(* ledger, and it writes all that could be read of it.                       *)
LedgerInv ==
  /\ ledger \cup merged \cup unread \subseteq Runs
  /\ ~crossed =>
       /\ merged \ unread \subseteq ledger
       /\ \A r \in Runs : pc[r] = "write" =>
            ledger \ unread \subseteq out[r] /\ \A o \in Runs \ {r} : pc[o] # "write"

(* What is saved is what is pending while the daemon runs, and is wanted     *)
(* while it does not.                                                        *)
JobsInv == /\ looping = "up" => saved = jobs
           /\ \A w \in Trees : saved[w] # Unset => w \in promised

RInv == RunsOK /\ FoldersOK /\ JobsOK /\ RestOK /\ PlacesInv /\ StatusInv /\ LedgerInv /\ JobsInv

LEMMA RInvImplies == RInv => ReviewTypeOK /\ ReviewingEnds /\ SectionsKept /\ RetryWanted
  <1> SUFFICES ASSUME RInv PROVE ReviewTypeOK /\ ReviewingEnds /\ SectionsKept /\ RetryWanted
    OBVIOUS
  <1>1. ReviewTypeOK
    BY DEF RInv, ReviewTypeOK, RunsOK, FoldersOK, JobsOK, RestOK, StatusInv, LedgerInv
  <1>2. ReviewingEnds /\ SectionsKept
    BY DEF RInv, StatusInv, LedgerInv, SectionsKept, RestOK
  <1>3. RetryWanted
    BY DEF RInv, JobsOK, JobsInv, RetryWanted, NoJobs
  <1> QED
    BY <1>1, <1>2, <1>3

-----------------------------------------------------------------------------
(* The folder's name                                                         *)

(* A run finds a name for its folder: there are not more reports than runs.  *)
LEMMA StampFree ==
  ASSUME RInv, NEW w \in Trees
  PROVE  Stamp(w) \in Dirs /\ At(reports, w, Stamp(w)) = {}
  <1> DEFINE N == Cardinality(Runs) + 1
             taken(k) == At(reports, w, <<minute, k>>) # {}
  <1>1. IsFiniteSet(Runs) /\ Cardinality(Runs) \in Nat /\ N \in Nat
    BY RAssumption, FS_CardinalityType
  <1>2. \E k \in 1..N : ~taken(k)
    <2> SUFFICES ASSUME \A k \in 1..N : taken(k) PROVE FALSE
      OBVIOUS
    <2>1. ASSUME NEW k \in 1..N PROVE \E r \in Runs : dir[r] = <<minute, k>>
      <3>1. PICK f \in reports : f.wt = w /\ f.dir = <<minute, k>>
        BY DEF At
      <3> QED
        BY <3>1 DEF RInv, PlacesInv
    <2> DEFINE of == [k \in 1..N |-> CHOOSE r \in Runs : dir[r] = <<minute, k>>]
    <2>2. \A k \in 1..N : of[k] \in Runs /\ dir[of[k]] = <<minute, k>>
      BY <2>1
    <2>3. of \in Injection(1..N, Runs)
      <3>1. of \in [1..N -> Runs]
        BY <2>2
      <3>2. ASSUME NEW a \in 1..N, NEW b \in 1..N, of[a] = of[b] PROVE a = b
        <4>1. <<minute, a>> = <<minute, b>>
          BY <2>2, <3>2
        <4> QED
          BY <4>1
      <3> HIDE DEF of
      <3> QED
        BY <3>1, <3>2 DEF Injection, IsInjective
    <2> HIDE DEF of
    <2>4. Cardinality(1..N) <= Cardinality(Runs)
      BY <1>1, <2>3, FS_Injection
    <2>5. Cardinality(1..N) = N
      BY <1>1, FS_Interval
    <2> QED
      BY <1>1, <2>4, <2>5
  <1>3. \E k \in 1..N : ~taken(k) /\ \A j \in 1..(k - 1) : taken(j)
    <2> SUFFICES ASSUME \A k \in 1..N : ~taken(k) => \E j \in 1..(k - 1) : ~taken(j)
                 PROVE  FALSE
      OBVIOUS
    <2> HIDE DEF taken
    <2> DEFINE C == {k \in 0..N : \A j \in 1..k : taken(j)}
               next == [k \in C |-> k + 1]
    <2>1. 0 \in C
      BY <1>1
    <2>2. ASSUME NEW k \in C PROVE k + 1 \in C /\ k + 1 # 0
      <3>1. k \in 0..N /\ \A j \in 1..k : taken(j)
        OBVIOUS
      <3>2. k # N
        BY <1>2, <3>1
      <3>3. k + 1 \in 1..N
        BY <1>1, <3>1, <3>2
      <3>4. taken(k + 1)
        BY <1>1, <3>1, <3>3
      <3>5. \A j \in 1..(k + 1) : j \in 1..k \/ j = k + 1
        BY <3>1
      <3> QED
        BY <1>1, <3>1, <3>3, <3>4, <3>5
    <2>3. IsFiniteSet(C)
      <3>1. IsFiniteSet(0..N)
        BY <1>1, FS_Interval
      <3> QED
        BY <3>1, FS_Subset
    <2>4. C \ {0} \in SUBSET C /\ C \ {0} # C
      BY <2>1
    <2>5. next \in Injection(C, C \ {0})
      <3>1. C \subseteq Int
        BY <1>1
      <3> HIDE DEF C
      <3>2. next \in [C -> C \ {0}]
        BY <2>2
      <3>3. \A a, b \in C : next[a] = next[b] => a = b
        BY <3>1
      <3> HIDE DEF next
      <3> QED
        BY <3>2, <3>3 DEF Injection, IsInjective
    <2> HIDE DEF C, next
    <2>6. IsFiniteSet(C \ {0}) /\ Cardinality(C \ {0}) <= Cardinality(C)
          /\ Cardinality(C \ {0}) # Cardinality(C)
      BY <2>3, <2>4, FS_Subset
    <2>7. Cardinality(C) <= Cardinality(C \ {0})
      BY <2>5, <2>6, FS_Injection
    <2>8. Cardinality(C) \in Nat /\ Cardinality(C \ {0}) \in Nat
      BY <2>3, <2>6, FS_CardinalityType
    <2> QED
      BY <2>6, <2>7, <2>8
  <1> DEFINE k == CHOOSE i \in 1..N : ~taken(i) /\ \A j \in 1..(i - 1) : taken(j)
  <1>4. k \in 1..N /\ ~taken(k)
    BY <1>3
  <1>5. Stamp(w) = <<minute, k>>
    BY DEF Stamp
  <1> HIDE DEF k
  <1>6. minute \in 0..MaxMinute
    BY DEF RInv, JobsOK
  <1> QED
    BY <1>4, <1>5, <1>6 DEF Dirs

-----------------------------------------------------------------------------
(* What the steps share                                                      *)

(* Only the reviewer's word shows `reviewing`, and its last word takes it    *)
(* back.                                                                     *)
LEMMA WordsShow ==
  ASSUME NEW s \in StatusStates,
         NEW word \in {"reviewing", "reviewed", "working", "stop", "done"}
  PROVE  /\ Apply(s, Event(word)) \in StatusStates
         /\ Apply(s, Event(word)).status = "reviewing" =>
              word = "reviewing" \/ (word # "reviewed" /\ s.status = "reviewing")
  <1>1. /\ s.status \in Statuses
        /\ s.stash \in Milestones \cup {"none"}
        /\ s.resets_at \in ResetTimes \cup {UnknownReset}
    BY DEF StatusStates
  <1> DEFINE t == Transition(s.status, s.stash, word)
  <1>2. t[1] \in Statuses /\ t[2] \in Milestones \cup {"none"}
    BY <1>1 DEF Transition, TurnStep, TurnEnd, Statuses, Milestones
  <1>3. t[1] = "reviewing" => word = "reviewing" \/ (word # "reviewed" /\ s.status = "reviewing")
    BY <1>1 DEF Transition, TurnStep, TurnEnd, Statuses, Milestones
  <1> HIDE DEF t
  <1>4. Event(word).word = word /\ UnknownReset \in ResetTimes \cup {UnknownReset}
    BY DEF Event
  <1>5. /\ Apply(s, Event(word)).status = t[1] /\ Apply(s, Event(word)).stash = t[2]
        /\ Apply(s, Event(word)).resets_at \in ResetTimes \cup {UnknownReset}
        /\ Apply(s, Event(word)) = [status |-> Apply(s, Event(word)).status,
                                    stash |-> Apply(s, Event(word)).stash,
                                    resets_at |-> Apply(s, Event(word)).resets_at]
    BY <1>1, <1>4 DEF Apply, t, Event
  <1> QED
    BY <1>2, <1>3, <1>5 DEF StatusStates

(* A run at work goes on, or is over.                                        *)
LEMMA RunGoes ==
  ASSUME RInv, NEW r \in Runs, AtWork(r), NEW l \in Steps \ {"new", "prepared"},
         pc' = [pc EXCEPT ![r] = l], UNCHANGED <<wt, dir, marks, out>>
  PROVE  RunsOK'
  BY DEF RInv, RunsOK, AtWork

(* Its folder stays its own: it writes there, or is over and removes it.     *)
LEMMA PlacesKept ==
  ASSUME RInv, NEW r \in Runs, AtWork(r), NEW l \in Steps \ {"new"},
         pc' = [pc EXCEPT ![r] = l], UNCHANGED <<wt, dir, reports, shared>>,
         \/ scratch' = scratch
         \/ l = "over" /\ scratch' = scratch \ Mine(r)
         \/ \E review, delta \in BOOLEAN : scratch' = WriteReports(r, review, delta)
  PROVE  PlacesInv'
  <1>1. \A f \in reports' : \E q \in Runs : pc'[q] = "over" /\ wt'[q] = f.wt /\ dir'[q] = f.dir
    BY DEF RInv, PlacesInv, RunsOK, AtWork
  <1>2. ASSUME NEW q \in Runs, AtWork(q)', Place(q)' \notin shared'
        PROVE  /\ Mine(q)' # {} /\ At(reports, wt[q], dir[q])' = {}
               /\ \A o \in Runs \ {q} : AtWork(o)' => Place(o)' # Place(q)'
    <2>1. AtWork(q) /\ Place(q) \notin shared
      BY <1>2 DEF RInv, RunsOK, AtWork, Place
    <2>2. /\ Mine(q) # {} /\ At(reports, wt[q], dir[q]) = {}
          /\ \A o \in Runs \ {q} : AtWork(o) => Place(o) # Place(q)
      BY <2>1 DEF RInv, PlacesInv
    <2>3. \A o \in Runs : AtWork(o)' => AtWork(o) /\ Place(o)' = Place(o)
      BY DEF RInv, RunsOK, AtWork, Place
    <2>4. At(scratch', wt[q], dir[q]) # {}
      <3>1. CASE scratch' = scratch
        BY <2>2, <3>1 DEF Mine
      <3>2. CASE l = "over" /\ scratch' = scratch \ Mine(r)
        <4>1. q # r
          BY <1>2, <3>2 DEF RInv, RunsOK, AtWork
        <4>2. Place(r) # Place(q)
          BY <2>2, <4>1
        <4>3. wt[r] # wt[q] \/ dir[r] # dir[q]
          BY <4>2 DEF Place
        <4> QED
          BY <2>2, <3>2, <4>3 DEF Mine, At
      <3>3. CASE \E review, delta \in BOOLEAN : scratch' = WriteReports(r, review, delta)
        <4>1. scratch \ Mine(r) \subseteq scratch'
              /\ \E f \in scratch' : f.wt = wt[r] /\ f.dir = dir[r]
          <5>1. PICK review, delta \in BOOLEAN : scratch' = WriteReports(r, review, delta)
            BY <3>3
          <5> DEFINE said == IF review THEN {r} ELSE Staged(r, "review")
                     learned == Staged(r, "delta") \cup IF delta THEN {r} ELSE {}
                     new == [wt |-> wt[r], dir |-> dir[r], review |-> said, delta |-> learned]
          <5>2. scratch' = (scratch \ Mine(r)) \cup {new}
            BY <5>1 DEF WriteReports
          <5> HIDE DEF said, learned
          <5>3. new.wt = wt[r] /\ new.dir = dir[r]
            OBVIOUS
          <5> QED
            BY <5>2, <5>3
        <4>2. CASE q = r
          BY <4>1, <4>2 DEF At
        <4>3. CASE q # r
          <5>1. Place(r) # Place(q)
            BY <2>2, <4>3
          <5>2. wt[r] # wt[q] \/ dir[r] # dir[q]
            BY <5>1 DEF Place
          <5> QED
            BY <2>2, <4>1, <5>2 DEF Mine, At
        <4> QED
          BY <4>2, <4>3
      <3> QED
        BY <3>1, <3>2, <3>3
    <2>5. Mine(q)' # {} /\ At(reports, wt[q], dir[q])' = {}
      BY <2>2, <2>4 DEF Mine, At
    <2>6. \A o \in Runs \ {q} : AtWork(o)' => Place(o)' # Place(q)'
      BY <1>2, <2>2, <2>3
    <2> QED
      BY <2>5, <2>6
  <1> QED
    BY <1>1, <1>2 DEF PlacesInv

(* What a run has staged, and what it writes, is of runs.                    *)
LEMMA FoldersWritten ==
  ASSUME RInv, NEW r \in Runs, AtWork(r), NEW review \in BOOLEAN, NEW delta \in BOOLEAN
  PROVE  \A f \in WriteReports(r, review, delta) :
           f.wt \in Trees /\ f.dir \in Dirs /\ f.review \cup f.delta \subseteq Runs
  BY DEF RInv, RunsOK, FoldersOK, AtWork, WriteReports, Staged, Mine, At

LEMMA StagedRuns ==
  ASSUME RInv, NEW r \in Runs
  PROVE  Staged(r, "review") \subseteq Runs /\ Staged(r, "delta") \subseteq Runs
  BY DEF RInv, FoldersOK, Staged, Mine, At

(* A run that goes on keeps `reviewing` right.                               *)
LEMMA StatusGoes ==
  ASSUME RInv, NEW r \in Runs, AtWork(r), NEW l \in Steps \ {"new"},
         l = "over" => ~marks[r],
         pc' = [pc EXCEPT ![r] = l], UNCHANGED <<wt, marks, cur, killed>>
  PROVE  StatusInv'
  BY DEF RInv, RunsOK, StatusInv, ReviewingEnds

(* ... and one that is over.                                                 *)
LEMMA StatusOver ==
  ASSUME RInv, NEW r \in Runs, AtWork(r), Over(r), UNCHANGED killed
  PROVE  StatusInv'
  <1>1. CASE ~marks[r]
    BY <1>1, StatusGoes DEF Over, Steps
  <1>2. CASE marks[r]
    <2>1. wt[r] \in Trees /\ cur[wt[r]] \in StatusStates
      BY DEF RInv, RunsOK, StatusInv, AtWork
    <2>2. cur' = [cur EXCEPT ![wt[r]] = Apply(@, Event("reviewed"))]
      BY <1>2 DEF Over, Report
    <2>3. /\ Apply(cur[wt[r]], Event("reviewed")) \in StatusStates
          /\ Apply(cur[wt[r]], Event("reviewed")).status # "reviewing"
      BY <2>1, WordsShow
    <2>4. cur' \in [Trees -> StatusStates] /\ cur'[wt[r]].status # "reviewing"
          /\ \A w \in Trees \ {wt[r]} : cur'[w] = cur[w]
      BY <2>1, <2>2, <2>3 DEF RInv, StatusInv
    <2>5. ASSUME NEW w \in Trees \ killed', cur'[w].status = "reviewing"
          PROVE  \E q \in Runs : wt'[q] = w /\ marks'[q] /\ pc'[q] # "over"
      <3>1. w # wt[r] /\ cur[w].status = "reviewing"
        BY <2>4, <2>5
      <3>2. PICK q \in Runs : wt[q] = w /\ marks[q] /\ pc[q] # "over"
        BY <2>5, <3>1 DEF RInv, StatusInv, ReviewingEnds
      <3> QED
        BY <3>1, <3>2 DEF Over, RInv, RunsOK
    <2> QED
      BY <2>4, <2>5 DEF StatusInv, ReviewingEnds
  <1> QED
    BY <1>1, <1>2 DEF RInv, RunsOK

(* A run that does not merge leaves the ledger alone.                        *)
LEMMA LedgerGoes ==
  ASSUME RInv, NEW r \in Runs, NEW l \in Steps \ {"write"},
         pc' = [pc EXCEPT ![r] = l], UNCHANGED <<out, ledger, merged, crossed, unread>>
  PROVE  LedgerInv'
  BY DEF RInv, RunsOK, LedgerInv

-----------------------------------------------------------------------------
(* The steps                                                                 *)

(* A run begins: its name is of no report, so that a folder already staged   *)
(* is all it can meet.                                                       *)
LEMMA PrepareKeeps ==
  ASSUME RInv, NEW r \in Runs, NEW w \in Trees, Prepare(r, w)
  PROVE  RunsOK' /\ FoldersOK' /\ RestOK' /\ PlacesInv' /\ StatusInv' /\ LedgerInv'
  <1> DEFINE d == Stamp(w)
  <1>1. d \in Dirs /\ At(reports, w, d) = {}
    BY StampFree
  <1>2. /\ pc[r] = "new" /\ pc' = [pc EXCEPT ![r] = "prepared"]
        /\ wt' = [wt EXCEPT ![r] = w] /\ dir' = [dir EXCEPT ![r] = d]
        /\ UNCHANGED <<marks, out, cur, reports, ledger, minute, merged, crossed, unread, killed, hooks, stops>>
        /\ \/ /\ At(scratch, w, d) = {} /\ UNCHANGED shared
              /\ scratch' = scratch \cup {[wt |-> w, dir |-> d, review |-> {}, delta |-> {}]}
           \/ /\ At(scratch, w, d) # {} /\ UNCHANGED scratch
              /\ shared' = shared \cup {[wt |-> w, dir |-> d]}
    BY DEF Prepare
  <1> HIDE DEF d
  <1>3. /\ wt'[r] = w /\ dir'[r] = d /\ pc'[r] = "prepared"
        /\ \A o \in Runs \ {r} : wt'[o] = wt[o] /\ dir'[o] = dir[o] /\ pc'[o] = pc[o]
    BY <1>2 DEF RInv, RunsOK
  <1>4. RunsOK'
    BY <1>1, <1>2 DEF RInv, RunsOK, Steps
  <1>5. FoldersOK' /\ RestOK'
    BY <1>1, <1>2 DEF RInv, FoldersOK, RestOK
  <1>6. StatusInv'
    <2>1. ~marks[r]
      BY <1>2 DEF RInv, RunsOK
    <2>2. \A q \in Runs : marks[q] => wt'[q] = wt[q] /\ pc'[q] = pc[q]
      BY <1>3, <2>1
    <2>3. UNCHANGED <<marks, cur, killed>>
      BY <1>2
    <2>4. StatusInv
      BY DEF RInv
    <2>5. ASSUME NEW u \in Trees \ killed', cur'[u].status = "reviewing"
          PROVE  \E q \in Runs : wt'[q] = u /\ marks'[q] /\ pc'[q] # "over"
      <3>1. PICK q \in Runs : wt[q] = u /\ marks[q] /\ pc[q] # "over"
        BY <2>3, <2>4, <2>5 DEF StatusInv, ReviewingEnds
      <3> QED
        BY <2>2, <2>3, <3>1
    <2> QED
      BY <2>3, <2>4, <2>5 DEF StatusInv, ReviewingEnds
  <1>7. LedgerInv'
    BY <1>2, <1>3 DEF RInv, LedgerInv
  <1>8. \A f \in reports' : \E q \in Runs : pc'[q] = "over" /\ wt'[q] = f.wt /\ dir'[q] = f.dir
    <2> SUFFICES ASSUME NEW f \in reports
                 PROVE  \E q \in Runs : pc'[q] = "over" /\ wt'[q] = f.wt /\ dir'[q] = f.dir
      BY <1>2
    <2>1. PICK q \in Runs : pc[q] = "over" /\ wt[q] = f.wt /\ dir[q] = f.dir
      BY DEF RInv, PlacesInv
    <2>2. q # r
      BY <1>2, <2>1
    <2> QED
      BY <1>3, <2>1, <2>2
  <1>9. ASSUME NEW q \in Runs, AtWork(q)', Place(q)' \notin shared'
        PROVE  /\ Mine(q)' # {} /\ At(reports, wt[q], dir[q])' = {}
               /\ \A o \in Runs \ {q} : AtWork(o)' => Place(o)' # Place(q)'
    <2>1. CASE q = r
      <3>1. Place(q)' = [wt |-> w, dir |-> d]
        BY <1>3, <2>1 DEF Place
      <3>2. /\ At(scratch, w, d) = {} /\ UNCHANGED shared
            /\ scratch' = scratch \cup {[wt |-> w, dir |-> d, review |-> {}, delta |-> {}]}
        BY <1>2, <1>9, <3>1
      <3> DEFINE new == [wt |-> w, dir |-> d, review |-> {}, delta |-> {}]
      <3>6. new \in scratch' /\ new.wt = w /\ new.dir = d
        BY <3>2
      <3> HIDE DEF new
      <3>3. At(scratch', w, d) # {}
        BY <3>6 DEF At
      <3>4. Mine(q)' # {} /\ At(reports, wt[q], dir[q])' = {}
        BY <1>1, <1>2, <1>3, <2>1, <3>3 DEF Mine, At
      <3>5. ASSUME NEW o \in Runs \ {q}, AtWork(o)', Place(o)' = Place(q)' PROVE FALSE
        <4>1. AtWork(o) /\ Place(o) = [wt |-> w, dir |-> d] /\ Place(o) \notin shared
          BY <1>3, <1>9, <2>1, <3>1, <3>2, <3>5 DEF AtWork, Place
        <4>2. wt[o] = w /\ dir[o] = d /\ Mine(o) # {}
          BY <4>1 DEF Place, RInv, PlacesInv
        <4> QED
          BY <3>2, <4>2 DEF Mine
      <3> QED
        BY <3>4, <3>5
    <2>2. CASE q # r
      <3>1. AtWork(q) /\ Place(q)' = Place(q) /\ Place(q) \notin shared
        BY <1>2, <1>3, <1>9, <2>2 DEF AtWork, Place
      <3>2. /\ Mine(q) # {} /\ At(reports, wt[q], dir[q]) = {}
            /\ \A o \in Runs \ {q} : AtWork(o) => Place(o) # Place(q)
        BY <3>1 DEF RInv, PlacesInv
      <3>3. Mine(q)' # {} /\ At(reports, wt[q], dir[q])' = {}
        BY <1>2, <1>3, <2>2, <3>2 DEF Mine, At
      <3>4. ASSUME NEW o \in Runs \ {q}, AtWork(o)', Place(o)' = Place(q)' PROVE FALSE
        <4>1. CASE o = r
          <5>1. Place(q) = [wt |-> w, dir |-> d]
            BY <1>3, <3>1, <3>4, <4>1 DEF Place
          <5>2. At(scratch, w, d) = {}
            BY <1>2, <1>9, <3>1, <5>1
          <5>3. wt[q] = w /\ dir[q] = d
            BY <5>1 DEF Place
          <5> QED
            BY <3>2, <5>2, <5>3 DEF Mine
        <4>2. CASE o # r
          BY <1>3, <3>1, <3>2, <3>4, <4>2 DEF AtWork, Place
        <4> QED
          BY <4>1, <4>2
      <3> QED
        BY <3>3, <3>4
    <2> QED
      BY <2>1, <2>2
  <1>10. PlacesInv'
    BY <1>8, <1>9 DEF PlacesInv
  <1> QED
    BY <1>4, <1>5, <1>6, <1>7, <1>10

LEMMA BeginKeeps ==
  ASSUME RInv, NEW r \in Runs, NEW w \in Trees, BeginReview(r, w)
  PROVE  RInv'
  <1>1. Prepare(r, w) /\ UNCHANGED queue /\ UNCHANGED minute
    BY DEF BeginReview, Prepare
  <1>2. JobsOK' /\ JobsInv'
    BY <1>1 DEF RInv, JobsOK, JobsInv, NoJobs, queue
  <1> QED
    BY <1>1, <1>2, PrepareKeeps DEF RInv

(* A run that ends before it began to review.                                *)
LEMMA EarlyKeeps ==
  ASSUME RInv, NEW r \in Runs, Nothing(r) \/ Interactive(r)
  PROVE  RInv'
  <1>1. /\ pc[r] = "prepared" /\ Goto(r, "over")
        /\ UNCHANGED <<cur, reports, ledger, queue, minute, ghosts, hooks, stops>>
    BY DEF Nothing, Interactive
  <1>2. scratch' = scratch \ Mine(r) \/ scratch' = WriteReports(r, TRUE, FALSE)
    BY DEF Nothing, Interactive
  <1>3. AtWork(r) /\ ~marks[r] /\ "over" \in Steps
    BY <1>1 DEF AtWork, RInv, RunsOK, Steps
  <1>4. RunsOK' /\ StatusInv' /\ LedgerInv'
    BY <1>1, <1>3, RunGoes, StatusGoes, LedgerGoes DEF Goto, ghosts
  <1>5. PlacesInv'
    BY <1>1, <1>2, <1>3, PlacesKept DEF Goto, ghosts
  <1>6. FoldersOK'
    BY <1>1, <1>2, <1>3, FoldersWritten DEF RInv, FoldersOK, ghosts
  <1>7. JobsOK' /\ JobsInv' /\ RestOK'
    BY <1>1 DEF RInv, JobsOK, JobsInv, NoJobs, RestOK, queue, ghosts
  <1> QED
    BY <1>4, <1>5, <1>6, <1>7 DEF RInv

(* A run shows `reviewing`, if it is to.                                     *)
LEMMA MarkKeeps ==
  ASSUME RInv, NEW r \in Runs, Mark(r)
  PROVE  RInv'
  <1> DEFINE shown == cur[wt[r]].status # "done"
  <1>1. /\ pc[r] = "prepared" /\ pc' = [pc EXCEPT ![r] = "first"]
        /\ marks' = [marks EXCEPT ![r] = shown]
        /\ IF shown THEN Report(wt[r], "reviewing") ELSE UNCHANGED cur
        /\ UNCHANGED <<wt, dir, out, scratch, reports, ledger, queue, minute, ghosts, hooks, stops>>
    BY DEF Mark
  <1> HIDE DEF shown
  <1>2. AtWork(r) /\ ~marks[r] /\ wt[r] \in Trees /\ cur[wt[r]] \in StatusStates
    BY <1>1 DEF AtWork, RInv, RunsOK, StatusInv
  <1>3. shown \in BOOLEAN
    BY DEF shown
  <1>4. RunsOK'
    BY <1>1, <1>3 DEF RInv, RunsOK, Steps
  <1>5. LedgerInv' /\ PlacesInv'
    BY <1>1, <1>2, LedgerGoes, PlacesKept DEF ghosts, Steps
  <1>6. FoldersOK' /\ JobsOK' /\ JobsInv' /\ RestOK'
    BY <1>1 DEF RInv, FoldersOK, JobsOK, JobsInv, NoJobs, RestOK, queue, ghosts
  <1>7. StatusInv'
    <2>1. CASE ~shown
      <3>1. UNCHANGED cur
        BY <1>1, <2>1
      <3>2. \A q \in Runs : marks[q] /\ pc[q] # "over" => marks'[q] /\ pc'[q] # "over"
        BY <1>1, <1>2 DEF RInv, RunsOK
      <3> QED
        BY <1>1, <3>1, <3>2 DEF RInv, StatusInv, ReviewingEnds, ghosts
    <2>2. CASE shown
      <3>1. cur' = [cur EXCEPT ![wt[r]] = Apply(@, Event("reviewing"))]
        BY <1>1, <2>2 DEF Report
      <3>2. Apply(cur[wt[r]], Event("reviewing")) \in StatusStates
        BY <1>2, WordsShow
      <3>3. cur' \in [Trees -> StatusStates] /\ \A w \in Trees \ {wt[r]} : cur'[w] = cur[w]
        BY <1>2, <3>1, <3>2 DEF RInv, StatusInv
      <3>4. \A q \in Runs : marks[q] /\ pc[q] # "over" => marks'[q] /\ pc'[q] # "over"
        BY <1>1, <1>2 DEF RInv, RunsOK
      <3>5. marks'[r] /\ pc'[r] # "over"
        BY <1>1, <2>2 DEF RInv, RunsOK
      <3> QED
        BY <1>1, <3>3, <3>4, <3>5 DEF RInv, StatusInv, ReviewingEnds, ghosts
    <2> QED
      BY <2>1, <2>2
  <1> QED
    BY <1>4, <1>5, <1>6, <1>7 DEF RInv

(* A pass that finds no folder ends the run.                                 *)
LEMMA OpenKeeps ==
  ASSUME RInv, NEW r \in Runs, Open(r)
  PROVE  RInv'
  <1>1. PICK to \in {"pass1", "pass2"} :
          /\ pc[r] \in {"first", "second"} /\ (Over(r) \/ (Goto(r, to) /\ UNCHANGED cur))
          /\ UNCHANGED <<scratch, reports, ledger, queue, minute, ghosts, hooks, stops>>
    BY DEF Open, OpensReports
  <1>2. AtWork(r) /\ to \in Steps /\ "over" \in Steps
    BY <1>1 DEF AtWork, Steps
  <1>3. RunsOK' /\ LedgerInv' /\ PlacesInv'
    BY <1>1, <1>2, RunGoes, LedgerGoes, PlacesKept DEF Over, Goto, ghosts
  <1>4. StatusInv'
    BY <1>1, <1>2, StatusOver, StatusGoes DEF Goto, ghosts
  <1>5. FoldersOK' /\ JobsOK' /\ JobsInv' /\ RestOK'
    BY <1>1 DEF RInv, FoldersOK, JobsOK, JobsInv, NoJobs, RestOK, queue, ghosts
  <1> QED
    BY <1>3, <1>4, <1>5 DEF RInv

(* A pass writes in the run's folder.                                        *)
LEMMA PassKeeps ==
  ASSUME RInv, NEW r \in Runs,
         \/ \E review, delta, limit \in BOOLEAN : Pass1(r, review, delta, limit)
         \/ \E delta \in BOOLEAN : Pass2(r, delta)
  PROVE  RInv'
  <1>1. /\ pc[r] \in {"pass1", "pass2"}
        /\ \E l \in {"second", "limited", "merge"} : Goto(r, l)
        /\ UNCHANGED <<cur, reports, ledger, queue, minute, ghosts, hooks, stops>>
    BY DEF Pass1, Pass2
  <1>2. \/ scratch' = scratch
        \/ \E review, delta \in BOOLEAN : scratch' = WriteReports(r, review, delta)
    BY DEF Pass1, Pass2
  <1>3. PICK l \in {"second", "limited", "merge"} : Goto(r, l)
    BY <1>1
  <1>4. AtWork(r) /\ l \in Steps
    BY <1>1 DEF AtWork, Steps
  <1>5. RunsOK' /\ LedgerInv' /\ StatusInv'
    BY <1>1, <1>3, <1>4, RunGoes, LedgerGoes, StatusGoes DEF Goto, ghosts
  <1>6. PlacesInv'
    BY <1>1, <1>2, <1>3, <1>4, PlacesKept DEF Goto, ghosts
  <1>7. FoldersOK'
    BY <1>1, <1>2, <1>4, FoldersWritten DEF RInv, FoldersOK, ghosts
  <1>8. JobsOK' /\ JobsInv' /\ RestOK'
    BY <1>1 DEF RInv, JobsOK, JobsInv, NoJobs, RestOK, queue, ghosts
  <1> QED
    BY <1>5, <1>6, <1>7, <1>8 DEF RInv

(* Out of usage: a retry is pending from now on, and wanted.                 *)
LEMMA LimitedKeeps ==
  ASSUME RInv, NEW r \in Runs, Limited(r)
  PROVE  RInv'
  <1>1. /\ pc[r] = "limited" /\ schedule_retry(wt[r]) /\ Over(r)
        /\ scratch' = scratch \ Mine(r)
        /\ UNCHANGED <<reports, ledger, minute, ghosts, hooks, stops>>
    BY DEF Limited
  <1>2. AtWork(r) /\ "over" \in Steps /\ wt[r] \in Trees
    BY <1>1 DEF AtWork, Steps, RInv, RunsOK
  <1>3. RunsOK' /\ LedgerInv' /\ PlacesInv' /\ StatusInv'
    BY <1>1, <1>2, RunGoes, LedgerGoes, PlacesKept, StatusOver DEF Over, ghosts
  <1>4. FoldersOK' /\ RestOK'
    BY <1>1 DEF RInv, FoldersOK, RestOK, ghosts
  <1>5. JobsOK' /\ JobsInv'
    <2>1. CASE UNCHANGED queue
      BY <1>1, <2>1 DEF RInv, JobsOK, JobsInv, NoJobs, queue
    <2>2. CASE looping = "up" /\ minute < MaxMinute /\ Schedule(wt[r], minute + 1)
               /\ UNCHANGED <<due, looping>>
      <3>1. minute + 1 \in 0..MaxMinute
        BY <2>2, RAssumption DEF RInv, JobsOK
      <3>2. /\ jobs' = [jobs EXCEPT ![wt[r]] = minute + 1] /\ saved' = jobs'
            /\ promised' = promised \cup {wt[r]} /\ lost' = lost \ {wt[r]}
        BY <2>2 DEF Schedule
      <3>3. jobs' \in [Trees -> (0..MaxMinute) \cup {Unset}]
        BY <3>1, <3>2 DEF RInv, JobsOK
      <3>4. \A w \in Trees : saved'[w] # Unset => w \in promised'
        BY <2>2, <3>2 DEF RInv, JobsOK, JobsInv
      <3> QED
        BY <1>1, <1>2, <2>2, <3>2, <3>3, <3>4 DEF RInv, JobsOK, JobsInv
    <2> QED
      BY <1>1, <2>1, <2>2 DEF schedule_retry
  <1> QED
    BY <1>3, <1>4, <1>5 DEF RInv

(* The ledger is read: if nobody else is about to write it, what this run    *)
(* will write is all there is and its own.                                   *)
LEMMA MergeReadKeeps ==
  ASSUME RInv, NEW r \in Runs, MergeRead(r)
  PROVE  RInv'
  <1> DEFINE delta == Staged(r, "delta")
  <1>1. /\ pc[r] = "merge"
        /\ \/ Goto(r, "publish") /\ UNCHANGED <<crossed, unread, stops>>
           \/ /\ pc' = [pc EXCEPT ![r] = "write"]
              /\ \/ out' = [out EXCEPT ![r] = ledger \cup delta] /\ UNCHANGED <<unread, stops>>
                 \/ /\ out' = [out EXCEPT ![r] = {} \cup delta] /\ unread' = unread \cup ledger
                    /\ stops < MaxStops /\ stops' = stops + 1
              /\ crossed' = (crossed \/ \E o \in Runs : pc[o] = "write")
              /\ UNCHANGED <<wt, dir, marks>>
        /\ UNCHANGED <<cur, scratch, reports, ledger, queue, minute, shared, merged, killed, hooks>>
    BY DEF MergeRead, MergeDelta
  <1>2. delta \subseteq Runs
    BY StagedRuns
  <1> HIDE DEF delta
  <1>3. AtWork(r) /\ {"publish", "write"} \subseteq Steps
    BY <1>1 DEF AtWork, Steps
  <1>4. FoldersOK' /\ JobsOK' /\ JobsInv'
    BY <1>1 DEF RInv, FoldersOK, JobsOK, JobsInv, NoJobs, queue
  <1>5. PlacesInv' /\ StatusInv' /\ RestOK'
    <2>1. PICK l \in {"publish", "write"} :
            pc' = [pc EXCEPT ![r] = l] /\ UNCHANGED <<wt, dir, marks>>
      BY <1>1 DEF Goto
    <2>2. PlacesInv' /\ StatusInv'
      BY <1>1, <1>3, <2>1, PlacesKept, StatusGoes
    <2>3. stops' \in 0..MaxStops
      BY <1>1, RAssumption DEF RInv, RestOK
    <2>4. crossed' \in BOOLEAN
      BY <1>1, Zenon DEF RInv, RestOK
    <2> QED
      BY <1>1, <2>2, <2>3, <2>4 DEF RInv, RestOK
  <1>6. CASE Goto(r, "publish") /\ UNCHANGED <<crossed, unread, stops>>
    <2>1. RunsOK' /\ LedgerInv'
      BY <1>1, <1>3, <1>6, RunGoes, LedgerGoes DEF Goto
    <2> QED
      BY <1>4, <1>5, <2>1 DEF RInv
  <1>7. CASE /\ pc' = [pc EXCEPT ![r] = "write"]
             /\ crossed' = (crossed \/ \E o \in Runs : pc[o] = "write")
             /\ UNCHANGED <<wt, dir, marks>>
             /\ \E old \in SUBSET Runs :
                  /\ out' = [out EXCEPT ![r] = old \cup delta]
                  /\ unread' = unread \cup (ledger \ old) /\ old \subseteq ledger
    <2>1. PICK old \in SUBSET Runs :
            /\ out' = [out EXCEPT ![r] = old \cup delta]
            /\ unread' = unread \cup (ledger \ old) /\ old \subseteq ledger
      BY <1>7
    <2>2. old \cup delta \subseteq Runs
      BY <1>2
    <2>3. RunsOK'
      BY <1>1, <1>3, <1>7, <2>1, <2>2 DEF RInv, RunsOK, Steps
    <2>4. /\ pc'[r] = "write" /\ out'[r] = old \cup delta
          /\ \A o \in Runs \ {r} : pc'[o] = pc[o] /\ out'[o] = out[o]
      BY <1>7, <2>1 DEF RInv, RunsOK
    <2>5. LedgerInv'
      <3>1. ledger' \cup merged' \cup unread' \subseteq Runs
        BY <1>1, <2>1 DEF RInv, LedgerInv
      <3>2. ASSUME ~crossed'
            PROVE  ~crossed /\ \A o \in Runs : pc[o] # "write"
        BY <1>7, <3>2
      <3>3. ledger \ unread' \subseteq old
        BY <2>1
      <3>4. ASSUME ~crossed'
            PROVE  /\ merged' \ unread' \subseteq ledger'
                   /\ \A o \in Runs : pc'[o] = "write" =>
                        ledger' \ unread' \subseteq out'[o] /\ \A q \in Runs \ {o} : pc'[q] # "write"
        BY <1>1, <2>1, <2>4, <3>2, <3>3, <3>4 DEF RInv, LedgerInv
      <3> QED
        BY <3>1, <3>4 DEF LedgerInv
    <2> QED
      BY <1>4, <1>5, <2>3, <2>5 DEF RInv
  <1>8. ledger \in SUBSET Runs /\ {} \in SUBSET Runs
        /\ unread = unread \cup (ledger \ ledger) /\ ledger = ledger \ {}
    BY DEF RInv, LedgerInv
  <1> QED
    BY <1>1, <1>6, <1>7, <1>8

(* ... and written.                                                          *)
LEMMA MergeWriteKeeps ==
  ASSUME RInv, NEW r \in Runs, MergeWrite(r)
  PROVE  RInv'
  <1>1. /\ pc[r] = "write" /\ ledger' = out[r] /\ merged' = merged \cup out[r]
        /\ Goto(r, "publish")
        /\ UNCHANGED <<cur, scratch, reports, queue, minute, shared, crossed, unread, killed, hooks, stops>>
    BY DEF MergeWrite
  <1>2. AtWork(r) /\ "publish" \in Steps
    BY <1>1 DEF AtWork, Steps
  <1>3. RunsOK' /\ PlacesInv' /\ StatusInv'
    BY <1>1, <1>2, RunGoes, PlacesKept, StatusGoes DEF Goto
  <1>4. FoldersOK' /\ JobsOK' /\ JobsInv' /\ RestOK'
    BY <1>1 DEF RInv, FoldersOK, JobsOK, JobsInv, NoJobs, RestOK, queue
  <1>5. LedgerInv'
    <2>1. out[r] \subseteq Runs /\ out' = out
      BY <1>1 DEF RInv, RunsOK, Goto
    <2>2. \A o \in Runs : pc'[o] = "write" => o # r /\ pc[o] = "write"
      BY <1>1 DEF RInv, RunsOK, Goto
    <2> QED
      BY <1>1, <2>1, <2>2 DEF RInv, LedgerInv
  <1> QED
    BY <1>3, <1>4, <1>5 DEF RInv

(* A run moves its reports to its worktree, over those of a run that shared  *)
(* its folder and no others.                                                 *)
LEMMA PublishKeeps ==
  ASSUME RInv, NEW r \in Runs, Publish(r)
  PROVE  /\ RInv'
         /\ \A f \in reports : f \in reports' \/ [wt |-> f.wt, dir |-> f.dir] \in shared
  <1> DEFINE here == At(reports, wt[r], dir[r])
             review == IF Staged(r, "review") # {} THEN Staged(r, "review")
                                                   ELSE UNION {f.review : f \in here}
  <1>1. /\ pc[r] = "publish"
        /\ reports' = (reports \ here) \cup {[wt |-> wt[r], dir |-> dir[r], review |-> review]}
        /\ cancel_retry(wt[r]) \/ UNCHANGED queue
        /\ scratch' = scratch \ Mine(r) /\ Over(r)
        /\ UNCHANGED <<ledger, minute, ghosts, hooks, stops>>
    BY DEF Publish
  <1>2. review \subseteq Runs
    <2>1. UNION {f.review : f \in here} \subseteq Runs
      BY DEF RInv, FoldersOK, At
    <2> QED
      BY <2>1, StagedRuns
  <1> HIDE DEF review
  <1>3. /\ AtWork(r) /\ "over" \in Steps /\ wt[r] \in Trees /\ dir[r] \in Dirs
        /\ pc' = [pc EXCEPT ![r] = "over"] /\ UNCHANGED <<wt, dir, marks, out>>
    BY <1>1 DEF AtWork, Steps, RInv, RunsOK, Over
  <1>4. RunsOK' /\ LedgerInv' /\ StatusInv'
    BY <1>1, <1>3, RunGoes, LedgerGoes, StatusOver DEF ghosts
  <1>5. FoldersOK' /\ RestOK'
    BY <1>1, <1>2, <1>3 DEF RInv, FoldersOK, RestOK, ghosts
  <1>6. JobsOK' /\ JobsInv'
    <2>1. CASE UNCHANGED queue
      BY <1>1, <2>1 DEF RInv, JobsOK, JobsInv, NoJobs, queue
    <2>2. CASE looping = "up" /\ Cancel(wt[r]) /\ UNCHANGED <<due, looping>>
      BY <1>1, <1>3, <2>2 DEF RInv, JobsOK, JobsInv, Cancel
    <2> QED
      BY <1>1, <2>1, <2>2 DEF cancel_retry
  <1>7. \A q \in Runs : pc'[q] = IF q = r THEN "over" ELSE pc[q]
    BY <1>3 DEF RInv, RunsOK
  <1>8. PlacesInv'
    <2>1. \A f \in reports' : \E q \in Runs : pc'[q] = "over" /\ wt'[q] = f.wt /\ dir'[q] = f.dir
      <3> SUFFICES ASSUME NEW f \in reports'
                   PROVE  \E q \in Runs : pc'[q] = "over" /\ wt[q] = f.wt /\ dir[q] = f.dir
        BY <1>3
      <3>1. CASE f \in reports
        BY <1>7, <3>1 DEF RInv, PlacesInv
      <3>2. CASE f = [wt |-> wt[r], dir |-> dir[r], review |-> review]
        BY <1>7, <3>2
      <3> QED
        BY <1>1, <3>1, <3>2
    <2>2. ASSUME NEW q \in Runs, AtWork(q)', Place(q)' \notin shared'
          PROVE  /\ Mine(q)' # {} /\ At(reports, wt[q], dir[q])' = {}
                 /\ \A o \in Runs \ {q} : AtWork(o)' => Place(o)' # Place(q)'
      <3>1. q # r /\ AtWork(q) /\ Place(q)' = Place(q) /\ Place(q) \notin shared
        BY <1>1, <1>3, <1>7, <2>2 DEF AtWork, Place, ghosts
      <3>2. /\ Mine(q) # {} /\ At(reports, wt[q], dir[q]) = {}
            /\ \A o \in Runs \ {q} : AtWork(o) => Place(o) # Place(q)
        BY <3>1 DEF RInv, PlacesInv
      <3>3. wt[r] # wt[q] \/ dir[r] # dir[q]
        BY <1>3, <3>1, <3>2 DEF Place
      <3>4. Mine(q)' # {}
        BY <1>1, <1>3, <3>2, <3>3 DEF Mine, At
      <3>5. At(reports', wt[q], dir[q]) = {}
        <4>1. ASSUME NEW f \in reports', f.wt = wt[q], f.dir = dir[q] PROVE FALSE
          <5>1. CASE f \in reports
            BY <3>2, <4>1, <5>1 DEF At
          <5>2. CASE f = [wt |-> wt[r], dir |-> dir[r], review |-> review]
            BY <3>3, <4>1, <5>2
          <5> QED
            BY <1>1, <5>1, <5>2
        <4> QED
          BY <4>1 DEF At
      <3>6. \A o \in Runs \ {q} : AtWork(o)' => Place(o)' # Place(q)'
        BY <1>3, <1>7, <3>1, <3>2 DEF AtWork, Place
      <3> QED
        BY <1>3, <3>4, <3>5, <3>6 DEF At
    <2> QED
      BY <2>1, <2>2 DEF PlacesInv
  <1>9. \A f \in reports : f \in reports' \/ [wt |-> f.wt, dir |-> f.dir] \in shared
    <2> SUFFICES ASSUME NEW f \in reports, f \notin reports'
                 PROVE  [wt |-> f.wt, dir |-> f.dir] \in shared
      OBVIOUS
    <2>1. f \in here
      BY <1>1
    <2>2. At(reports, wt[r], dir[r]) # {} /\ Place(r) = [wt |-> f.wt, dir |-> f.dir]
      BY <2>1 DEF At, Place
    <2> QED
      BY <1>3, <2>2 DEF RInv, PlacesInv
  <1> QED
    BY <1>4, <1>5, <1>6, <1>8, <1>9 DEF RInv

(* A killed run leaves its folder and what its worktree shows.               *)
LEMMA KillKeeps ==
  ASSUME RInv, NEW r \in Runs, KillRun(r)
  PROVE  RInv'
  <1>1. /\ pc[r] \notin {"new", "over"} /\ stops < MaxStops /\ stops' = stops + 1
        /\ Goto(r, "over")
        /\ killed' = killed \cup IF marks[r] THEN {wt[r]} ELSE {}
        /\ UNCHANGED <<cur, scratch, reports, ledger, queue, minute, shared, merged, crossed, unread, hooks>>
    BY DEF KillRun
  <1>2. AtWork(r) /\ "over" \in Steps /\ wt[r] \in Trees
    BY <1>1 DEF AtWork, Steps, RInv, RunsOK
  <1>3. RunsOK' /\ LedgerInv' /\ PlacesInv'
    BY <1>1, <1>2, RunGoes, LedgerGoes, PlacesKept DEF Goto
  <1>4. FoldersOK' /\ JobsOK' /\ JobsInv'
    BY <1>1 DEF RInv, FoldersOK, JobsOK, JobsInv, NoJobs, queue
  <1>5. RestOK'
    BY <1>1, <1>2, RAssumption DEF RInv, RestOK
  <1>6. StatusInv'
    <2>1. \A q \in Runs \ {r} : pc'[q] = pc[q] /\ wt'[q] = wt[q] /\ marks'[q] = marks[q]
      BY <1>1 DEF Goto, RInv, RunsOK
    <2>2. killed \subseteq killed' /\ (marks[r] => wt[r] \in killed')
      BY <1>1
    <2> QED
      BY <1>1, <2>1, <2>2 DEF RInv, StatusInv, ReviewingEnds
  <1> QED
    BY <1>3, <1>4, <1>5, <1>6 DEF RInv

(* The daemon's steps touch the retries only, but for the run it starts.     *)
LEMMA JobsStay ==
  ASSUME RInv, UNCHANGED <<run, cur, scratch, reports, ledger, ghosts, hooks>>,
         stops' \in 0..MaxStops
  PROVE  RunsOK' /\ FoldersOK' /\ RestOK' /\ PlacesInv' /\ StatusInv' /\ LedgerInv'
  <1>1. RunsOK' /\ FoldersOK' /\ RestOK'
    BY DEF RInv, RunsOK, FoldersOK, RestOK, run, ghosts
  <1>2. PlacesInv'
    BY DEF RInv, PlacesInv, AtWork, Place, Mine, At, run, ghosts
  <1>3. StatusInv' /\ LedgerInv'
    BY DEF RInv, StatusInv, ReviewingEnds, LedgerInv, run, ghosts
  <1> QED
    BY <1>1, <1>2, <1>3

LEMMA TakeKeeps ==
  ASSUME RInv, Take
  PROVE  RInv'
  <1> DEFINE now == {w \in Trees : jobs[w] # Unset /\ jobs[w] <= minute}
  <1>1. /\ looping = "up" /\ due' = now /\ saved' = jobs'
        /\ jobs' = [w \in Trees |-> IF w \in now THEN Unset ELSE jobs[w]]
        /\ UNCHANGED <<run, cur, scratch, reports, ledger, looping, promised, lost, minute,
                       ghosts, hooks, stops>>
    BY DEF Take
  <1>2. now \subseteq Trees
    OBVIOUS
  <1> HIDE DEF now
  <1>3. jobs' \in [Trees -> (0..MaxMinute) \cup {Unset}]
        /\ \A w \in Trees : jobs'[w] # Unset => jobs[w] # Unset
    BY <1>1 DEF RInv, JobsOK
  <1>4. JobsOK' /\ JobsInv'
    BY <1>1, <1>2, <1>3 DEF RInv, JobsOK, JobsInv
  <1>5. stops' \in 0..MaxStops
    BY <1>1 DEF RInv, RestOK
  <1> QED
    BY <1>1, <1>4, <1>5, JobsStay DEF RInv

(* What was taken is started: it is promised no more, unless it was asked    *)
(* for again.                                                                *)
LEMMA StartJobKeeps ==
  ASSUME RInv, NEW w \in Trees, StartJob(w)
  PROVE  RInv'
  <1>1. /\ w \in due /\ due' = due \ {w} /\ UNCHANGED <<jobs, saved, looping>>
        /\ promised' = (IF jobs[w] = Unset THEN promised \ {w} ELSE promised) \/ UNCHANGED promised
        /\ UNCHANGED lost \/ lost' = lost \cup {w}
    BY DEF StartJob
  <1>2. looping = "up" /\ saved = jobs
    BY <1>1 DEF RInv, JobsOK, JobsInv
  <1>3. \A v \in Trees : saved'[v] # Unset => v \in promised'
    BY <1>1, <1>2 DEF RInv, JobsInv
  <1>4. UNCHANGED minute
    BY DEF StartJob, Prepare
  <1>5. JobsOK' /\ JobsInv'
    BY <1>1, <1>2, <1>3, <1>4 DEF RInv, JobsOK, JobsInv
  <1>6. CASE \E r \in Runs : Prepare(r, w)
    BY <1>5, <1>6, PrepareKeeps DEF RInv
  <1>7. CASE UNCHANGED <<run, cur, scratch, reports, ledger, ghosts, hooks>>
             /\ stops' \in {stops, stops + 1} /\ (stops' # stops => stops < MaxStops)
    <2>1. stops' \in 0..MaxStops
      BY <1>7, RAssumption DEF RInv, RestOK
    <2> QED
      BY <1>5, <1>7, <2>1, JobsStay DEF RInv
  <1> QED
    BY <1>6, <1>7 DEF StartJob

(* The daemon stops and starts again with what was saved.                    *)
LEMMA DaemonKeeps ==
  ASSUME RInv, Stop \/ StartDaemon \/ MinutePasses
  PROVE  RInv'
  <1>1. /\ UNCHANGED <<run, cur, scratch, reports, ledger, saved, promised, ghosts, hooks>>
        /\ stops' \in {stops, stops + 1} /\ (stops' # stops => stops < MaxStops)
    BY DEF Stop, StartDaemon, MinutePasses, queue
  <1>2. stops' \in 0..MaxStops
    BY <1>1, RAssumption DEF RInv, RestOK
  <1>3. RunsOK' /\ FoldersOK' /\ RestOK' /\ PlacesInv' /\ StatusInv' /\ LedgerInv'
    BY <1>1, <1>2, JobsStay
  <1>4. JobsInv'
    BY DEF Stop, StartDaemon, MinutePasses, queue, RInv, JobsInv
  <1>5. JobsOK'
    <2>1. CASE Stop
      BY <2>1 DEF Stop, RInv, JobsOK, NoJobs
    <2>2. CASE StartDaemon
      BY <2>2 DEF StartDaemon, RInv, JobsOK
    <2>3. CASE MinutePasses
      BY <2>3, RAssumption DEF MinutePasses, queue, RInv, JobsOK, NoJobs
    <2> QED
      BY <2>1, <2>2, <2>3
  <1> QED
    BY <1>3, <1>4, <1>5 DEF RInv

(* The agent goes on; no word of its own is `reviewing`.                     *)
LEMMA AgentKeeps ==
  ASSUME RInv, NEW w \in Trees, NEW word \in {"working", "stop", "done"}, Agent(w, word)
  PROVE  RInv'
  <1>1. /\ hooks < MaxHooks /\ hooks' = hooks + 1
        /\ cur' = [cur EXCEPT ![w] = Apply(@, Event(word))]
        /\ UNCHANGED <<run, scratch, reports, ledger, queue, minute, ghosts, stops>>
    BY DEF Agent, Report
  <1>2. cur[w] \in StatusStates
    BY DEF RInv, StatusInv
  <1>3. /\ Apply(cur[w], Event(word)) \in StatusStates
        /\ Apply(cur[w], Event(word)).status = "reviewing" => cur[w].status = "reviewing"
    BY <1>2, WordsShow
  <1>4. /\ cur' \in [Trees -> StatusStates]
        /\ \A v \in Trees : cur'[v].status = "reviewing" => cur[v].status = "reviewing"
    BY <1>1, <1>3 DEF RInv, StatusInv
  <1>5. StatusInv'
    BY <1>1, <1>4 DEF RInv, StatusInv, ReviewingEnds, run, ghosts
  <1>6. RunsOK' /\ FoldersOK' /\ JobsOK' /\ JobsInv'
    BY <1>1 DEF RInv, RunsOK, FoldersOK, JobsOK, JobsInv, NoJobs, run, queue, ghosts
  <1>7. RestOK' /\ LedgerInv'
    BY <1>1, RAssumption DEF RInv, RestOK, LedgerInv, run, ghosts
  <1>8. PlacesInv'
    BY <1>1 DEF RInv, PlacesInv, AtWork, Place, Mine, At, run, ghosts
  <1> QED
    BY <1>5, <1>6, <1>7, <1>8 DEF RInv

LEMMA InitReview == RInit => RInv
  <1> SUFFICES ASSUME RInit PROVE RInv
    OBVIOUS
  <1>1. StatusDefault \in StatusStates /\ StatusDefault.status # "reviewing"
    BY DEF StatusDefault, StatusStates, Statuses, Milestones
  <1>2. StatusInv
    BY <1>1 DEF RInit, StatusInv, ReviewingEnds
  <1>3. RunsOK /\ FoldersOK
    BY DEF RInit, RunsOK, FoldersOK, Steps
  <1>4. JobsOK /\ RestOK
    <2>1. NoJobs \in [Trees -> (0..MaxMinute) \cup {Unset}]
      BY DEF NoJobs
    <2>2. JobsOK
      <3>1. jobs = NoJobs /\ saved = NoJobs /\ due = {} /\ promised = {} /\ lost = {}
            /\ looping = "up" /\ minute = 0 /\ MaxMinute \in Nat
        BY RAssumption DEF RInit
      <3>2. {jobs, saved} \subseteq [Trees -> (0..MaxMinute) \cup {Unset}]
        BY <2>1, <3>1
      <3>3. minute \in 0..MaxMinute
        BY <3>1
      <3>4. looping \in {"up", "down"} /\ (looping = "down" => jobs = NoJobs /\ due = {})
            /\ due \cup promised \cup lost \subseteq Trees
        BY <3>1
      <3> QED
        BY <3>2, <3>3, <3>4 DEF JobsOK
    <2>3. killed = {} /\ crossed = FALSE /\ hooks = 0 /\ stops = 0
          /\ MaxHooks \in Nat /\ MaxStops \in Nat
      BY RAssumption DEF RInit
    <2>4. killed \subseteq Trees /\ crossed \in BOOLEAN
      BY <2>3
    <2>5. hooks \in 0..MaxHooks /\ stops \in 0..MaxStops
      BY <2>3
    <2> QED
      BY <2>2, <2>4, <2>5 DEF RestOK
  <1>5. PlacesInv /\ LedgerInv /\ JobsInv
    BY DEF RInit, PlacesInv, LedgerInv, JobsInv, AtWork, NoJobs
  <1> QED
    BY <1>2, <1>3, <1>4, <1>5 DEF RInv

LEMMA StepReview ==
  ASSUME RInv, [RNext]_rvars
  PROVE  /\ RInv'
         /\ \A f \in reports : f \in reports' \/ [wt |-> f.wt, dir |-> f.dir] \in shared
  <1>1. CASE UNCHANGED rvars
    <2>1. UNCHANGED <<run, cur, scratch, reports, ledger, queue, minute, ghosts, hooks, stops>>
      BY <1>1 DEF rvars
    <2>2. JobsOK' /\ JobsInv' /\ stops' \in 0..MaxStops
      BY <2>1 DEF RInv, JobsOK, JobsInv, NoJobs, RestOK, queue
    <2> QED
      BY <2>1, <2>2, JobsStay DEF RInv
  <1>2. CASE \E r \in Runs : Publish(r)
    BY <1>2, PublishKeeps
  <1>3. CASE \E r \in Runs : \/ \E w \in Trees : BeginReview(r, w)
                             \/ Nothing(r) \/ Interactive(r) \/ Mark(r) \/ Open(r) \/ Limited(r)
                             \/ \E review, delta, limit \in BOOLEAN : Pass1(r, review, delta, limit)
                             \/ \E delta \in BOOLEAN : Pass2(r, delta)
                             \/ MergeRead(r) \/ MergeWrite(r) \/ KillRun(r)
    <2>1. RInv'
      BY <1>3, BeginKeeps, EarlyKeeps, MarkKeeps, OpenKeeps, LimitedKeeps, PassKeeps,
         MergeReadKeeps, MergeWriteKeeps, KillKeeps
    <2>6. UNCHANGED reports
      <3>1. PICK r \in Runs :
              \/ \E w \in Trees : BeginReview(r, w)
              \/ Nothing(r) \/ Interactive(r) \/ Mark(r) \/ Open(r) \/ Limited(r)
              \/ \E review, delta, limit \in BOOLEAN : Pass1(r, review, delta, limit)
              \/ \E delta \in BOOLEAN : Pass2(r, delta)
              \/ MergeRead(r) \/ MergeWrite(r) \/ KillRun(r)
        BY <1>3
      <3>2. CASE \E review, delta, limit \in BOOLEAN : Pass1(r, review, delta, limit)
        BY <3>2 DEF Pass1
      <3>3. CASE \/ \E w \in Trees : BeginReview(r, w)
                 \/ Nothing(r) \/ Interactive(r) \/ Mark(r) \/ Open(r) \/ Limited(r)
        BY <3>3 DEF BeginReview, Prepare, Nothing, Interactive, Mark, Open, OpensReports, Limited
      <3>4. CASE \/ \E delta \in BOOLEAN : Pass2(r, delta)
                 \/ MergeRead(r) \/ MergeWrite(r) \/ KillRun(r)
        BY <3>4 DEF Pass2, MergeRead, MergeWrite, KillRun
      <3> QED
        BY <3>1, <3>2, <3>3, <3>4
    <2> QED
      BY <2>1, <2>6
  <1>4. CASE \/ Take \/ Stop \/ StartDaemon \/ MinutePasses
             \/ \E w \in Trees : \/ StartJob(w)
                                 \/ \E word \in {"working", "stop", "done"} : Agent(w, word)
    <2>1. RInv'
      BY <1>4, TakeKeeps, DaemonKeeps, StartJobKeeps, AgentKeeps
    <2>2. UNCHANGED reports
      BY <1>4 DEF Take, Stop, StartDaemon, MinutePasses, StartJob, Prepare, Agent
    <2> QED
      BY <2>1, <2>2
  <1> QED
    BY <1>1, <1>2, <1>3, <1>4 DEF RNext

(* Whatever else runs, is killed or is retried, a run of the reviewer leaves *)
(* no status nobody clears, writes over no report or section of another, and *)
(* no retry is pending that nobody wants (review.rs).                        *)
THEOREM ReviewsAreKept == RSpec => ReviewsKept
  <1>1. RInit => RInv
    BY InitReview
  <1>2. RInv /\ [RNext]_rvars => RInv'
    BY StepReview
  <1>3. RInv => ReviewTypeOK /\ ReviewingEnds /\ SectionsKept /\ RetryWanted
    BY RInvImplies
  <1>4. RInv /\ [RNext]_rvars
          => [\A f \in reports : f \in reports' \/ [wt |-> f.wt, dir |-> f.dir] \in shared]_rvars
    BY StepReview
  <1> QED
    BY <1>1, <1>2, <1>3, <1>4, PTL DEF RSpec, ReviewsKept, ReportsKept
=============================================================================
