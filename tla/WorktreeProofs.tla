--------------------------- MODULE WorktreeProofs ---------------------------
(* What the worktree commands leave behind, for any ids, distros and number  *)
(* of commands.  `CheckoutsTrue` is not inductive: it says nothing of the    *)
(* registry while a command is at work.  `IInv` adds what each command       *)
(* relies on at its next step:                                               *)
(*   PlaceInv: the registry names what is there, or the one command at work  *)
(*             holds the entry that does (`Ready`, `Pending`);               *)
(*   SeedInv:  a checkout without its CLAUDE.md is that of a command which   *)
(*             is still to seed it;                                          *)
(*   LeftInv:  what is left of a worktree that is nowhere is that of a       *)
(*             command which is still to forget it.                          *)
(*                                                                           *)
(* What presets do to a worktree, for any items, proposals and processes:    *)
(* `PInv` holds what an apply that nothing disturbed may rely on (AloneInv), *)
(* that every copy is somebody's (ListedInv), that a hook of the layers is   *)
(* in the settings only as a merged one (HooksInv), and that what is about   *)
(* to be written is still proposed (DecidedInv).                             *)
EXTENDS Worktrees, Presets, TLAPS, FiniteSetTheorems

-----------------------------------------------------------------------------
(* What a step makes of its job.                                             *)

LEMMA JobIs ==
  ASSUME WTypeOK, NEW p \in Procs, job[p] # NoJob
  PROVE  /\ job[p] \in Job
         /\ job[p].id \in Ids /\ job[p].on \in Platforms /\ job[p].pc \in Steps
         /\ job[p].next \in {"allowed", "seed", "unmirror", "forget", "done"} /\ job[p].created \in BOOLEAN
         /\ job[p].entry \in Entry \cup {NoEntry} /\ job[p].copy \in [Ids -> Entry \cup {NoEntry}]
  <1>1. job[p] \in Job
    BY DEF WTypeOK, PlacesOK, JobsOK
  <1> QED BY <1>1 DEF Job

LEMMA FitsIs ==
  ASSUME WTypeOK, NEW p \in Procs, job[p] # NoJob
  PROVE  Fits(job[p])
  BY DEF WTypeOK, PlacesOK, JobsOK

Record(d, archived) == [distro |-> d, archived |-> archived]

LEMMA RecordIs ==
  ASSUME NEW d \in Distros, NEW archived \in BOOLEAN
  PROVE  Record(d, archived) \in Entry /\ Record(d, archived) # NoEntry
  BY NothingAssumption DEF Record, Entry

(* Its job is still p's, for the same id and the same platform. *)
Stays(p) ==
  /\ job' \in [Procs -> Job \cup {NoJob}] /\ job'[p] # NoJob
  /\ \A q \in Procs \ {p} : job'[q] = job[q]
  /\ job'[p].id = job[p].id /\ job'[p].on = job[p].on

Over(p) ==
  /\ job' \in [Procs -> Job \cup {NoJob}] /\ job'[p] = NoJob
  /\ \A q \in Procs \ {p} : job'[q] = job[q]

(* Set: the job with some of its fields set. *)
LEMMA Staying ==
  ASSUME WTypeOK, NEW p \in Procs, job[p] # NoJob, NEW j \in Job,
         j.id = job[p].id, j.on = job[p].on, job' = [job EXCEPT ![p] = j]
  PROVE  Stays(p) /\ job'[p] = j
  BY NothingAssumption DEF WTypeOK, PlacesOK, JobsOK, Stays

LEMMA EndsIs ==
  ASSUME WTypeOK, NEW p \in Procs, Ends(p)
  PROVE  Over(p)
  BY DEF Ends, Over, WTypeOK, PlacesOK, JobsOK

LEMMA GoesIs ==
  ASSUME WTypeOK, NEW p \in Procs, job[p] # NoJob, NEW pc \in Steps, Goes(p, pc)
  PROVE  /\ Stays(p) /\ job'[p].pc = pc /\ job'[p].next = job[p].next
         /\ job'[p].created = job[p].created /\ job'[p].entry = job[p].entry
         /\ job'[p].copy = job[p].copy
  <1> DEFINE j == [job[p] EXCEPT !.pc = pc]
  <1>1. j \in Job /\ j.id = job[p].id /\ j.on = job[p].on /\ j.pc = pc /\ j.next = job[p].next
    BY JobIs DEF Job
  <1>2. j.created = job[p].created /\ j.entry = job[p].entry /\ j.copy = job[p].copy
    BY JobIs DEF Job
  <1>3. job' = [job EXCEPT ![p] = j]
    BY DEF Goes
  <1> HIDE DEF j
  <1> QED BY <1>1, <1>2, <1>3, Staying

LEMMA StartsIs ==
  ASSUME WTypeOK, NEW p \in Procs, NEW i \in Ids, NEW on \in Platforms, NEW pc \in Steps,
         Starts(p, i, on, pc)
  PROVE  /\ job[p] = NoJob /\ job'[p] # NoJob
         /\ job' \in [Procs -> Job \cup {NoJob}]
         /\ \A q \in Procs \ {p} : job'[q] = job[q]
         /\ job'[p].id = i /\ job'[p].on = on /\ job'[p].pc = pc /\ job'[p].entry = NoEntry
         /\ job'[p].copy = reg
         /\ UNCHANGED <<at, reg, left, gen, minted, seeded, opened, lost, cut, unseeded, twin>>
         /\ crossed' = IF Working(i) THEN crossed \cup {i} ELSE crossed
         /\ commands' \in 0..MaxCommands
  <1> DEFINE j == [id |-> i, on |-> on, pc |-> pc, next |-> "done", created |-> FALSE,
                   entry |-> NoEntry, copy |-> reg]
  <1>1. j \in Job
    BY DEF Job, WTypeOK, PlacesOK, JobsOK
  <1>2. job' = [job EXCEPT ![p] = j] /\ job[p] = NoJob
    BY DEF Starts
  <1>3. job'[p] = j /\ job' \in [Procs -> Job \cup {NoJob}] /\ \A q \in Procs \ {p} : job'[q] = job[q]
    BY <1>1, <1>2 DEF WTypeOK, PlacesOK, JobsOK
  <1>4. /\ UNCHANGED <<at, reg, left, gen, minted, seeded, opened, lost, cut, unseeded, twin>>
        /\ crossed' = IF Working(i) THEN crossed \cup {i} ELSE crossed
    BY DEF Starts, world
  <1>5. commands' \in 0..MaxCommands
    BY WAssumption DEF Starts, WTypeOK, PlacesOK, JobsOK
  <1>6. job'[p] # NoJob
    BY <1>1, <1>3, NothingAssumption
  <1> QED BY <1>2, <1>3, <1>4, <1>5, <1>6

LEMMA CheckoutIs ==
  ASSUME WTypeOK, NEW p \in Procs, Checkout(p)
  PROVE  /\ job[p] # NoJob /\ job[p].pc = "checkout"
         /\ Stays(p) /\ job'[p].pc = "seed" /\ job'[p].next = job[p].next
         /\ job'[p].created = (at[Windows][job[p].id] = "none")
         /\ Checked(job[p].id, Windows, at[Windows][job[p].id] = "none")
         /\ UNCHANGED <<reg, left, minted, seeded, opened, commands, lost, cut, unseeded, crossed>>
  <1> DEFINE new == at[Windows][job[p].id] = "none"
             j == [job[p] EXCEPT !.pc = "seed", !.created = new]
  <1>1. job[p] # NoJob /\ job' = [job EXCEPT ![p] = j]
    BY DEF Checkout
  <1>2. j \in Job /\ j.id = job[p].id /\ j.on = job[p].on /\ j.pc = "seed" /\ j.created = new
        /\ j.next = job[p].next
    BY <1>1, JobIs DEF Job, Steps
  <1> HIDE DEF j
  <1>3. Stays(p) /\ job'[p] = j
    BY <1>1, <1>2, Staying
  <1> QED BY <1>1, <1>2, <1>3 DEF Checkout

LEMMA ReopenIs ==
  ASSUME WTypeOK, NEW p \in Procs, Reopen(p)
  PROVE  /\ job[p] # NoJob /\ job[p].pc = "reopen"
         /\ UNCHANGED <<reg, left, minted, seeded, opened, commands, lost, cut, unseeded, crossed>>
         /\ LET i == job[p].id IN
            \/ /\ reg[i] # NoEntry /\ reg[i].archived /\ at[reg[i].distro][i] = "archived"
               /\ Checked(i, reg[i].distro, FALSE)
               /\ Stays(p) /\ job'[p].pc = "load" /\ job'[p].next = "allowed"
               /\ job'[p].entry = Record(reg[i].distro, FALSE)
            \/ /\ reg[i] # NoEntry /\ reg[i].archived /\ at[reg[i].distro][i] # "archived"
               /\ Over(p) /\ UNCHANGED <<at, gen, twin>>
            \/ /\ ~(reg[i] # NoEntry /\ reg[i].archived)
               /\ Stays(p) /\ job'[p].pc = "allowed" /\ UNCHANGED <<at, gen, twin>>
  <1> DEFINE i == job[p].id
             d == reg[i].distro
             j == [job[p] EXCEPT !.pc = "load", !.next = "allowed",
                                 !.entry = [distro |-> d, archived |-> FALSE]]
  <1>1. job[p] # NoJob /\ job[p].pc = "reopen" /\ i \in Ids
        /\ UNCHANGED <<reg, left, minted, seeded, opened, commands, lost, cut, unseeded, crossed>>
    BY JobIs DEF Reopen
  <1>2. CASE reg[i] # NoEntry /\ reg[i].archived /\ at[d][i] = "archived"
    <2>1. job' = [job EXCEPT ![p] = j] /\ Checked(i, d, FALSE)
      BY <1>2 DEF Reopen
    <2>2. d \in Distros
      BY <1>1, <1>2 DEF WTypeOK, PlacesOK, JobsOK, Entry
    <2>3. Record(d, FALSE) \in Entry
      BY <2>2 DEF Entry, Record
    <2>4. j = [job[p] EXCEPT !.pc = "load", !.next = "allowed", !.entry = Record(d, FALSE)]
      BY DEF Record
    <2>5. /\ j \in Job /\ j.id = job[p].id /\ j.on = job[p].on /\ j.pc = "load"
          /\ j.next = "allowed" /\ j.entry = Record(d, FALSE)
      BY <1>1, <2>3, <2>4, JobIs DEF Job, Steps
    <2> HIDE DEF j
    <2>6. Stays(p) /\ job'[p] = j
      BY <1>1, <2>1, <2>5, Staying
    <2> QED BY <1>1, <1>2, <2>1, <2>5, <2>6
  <1>3. CASE reg[i] # NoEntry /\ reg[i].archived /\ at[d][i] # "archived"
    BY <1>1, <1>3, EndsIs DEF Reopen
  <1>4. CASE ~(reg[i] # NoEntry /\ reg[i].archived)
    <2>1. Goes(p, "allowed") /\ UNCHANGED <<at, gen, twin>>
      BY <1>4 DEF Reopen
    <2> QED BY <1>1, <1>4, <2>1, GoesIs DEF Steps
  <1> QED BY <1>2, <1>3, <1>4

LEMMA AddIs ==
  ASSUME WTypeOK, NEW p \in Procs, AddWorktree(p)
  PROVE  /\ job[p] # NoJob /\ job[p].pc = "add" /\ job[p].on \in Distros
         /\ UNCHANGED <<reg, left, minted, seeded, opened, commands, lost, cut, unseeded, crossed>>
         /\ LET i == job[p].id  on == job[p].on IN
            \/ at[on][i] = "archived" /\ Over(p) /\ UNCHANGED <<at, gen, twin>>
            \/ /\ at[on][i] # "archived"
               /\ Checked(i, on, at[on][i] = "none")
               /\ Stays(p) /\ job'[p].pc = "load" /\ job'[p].next = "seed"
               /\ job'[p].entry = Record(on, FALSE)
  <1> DEFINE i == job[p].id
             on == job[p].on
             new == at[on][i] = "none"
             j == [job[p] EXCEPT !.pc = "load", !.next = "seed", !.created = new,
                                 !.entry = [distro |-> on, archived |-> FALSE]]
  <1>1. job[p] # NoJob /\ job[p].pc = "add"
        /\ UNCHANGED <<reg, left, minted, seeded, opened, commands, lost, cut, unseeded, crossed>>
    BY DEF AddWorktree
  <1>2. on \in Distros
    BY <1>1, FitsIs DEF Fits
  <1>3. CASE at[on][i] = "archived"
    BY <1>1, <1>2, <1>3, EndsIs DEF AddWorktree
  <1>4. CASE at[on][i] # "archived"
    <2>1. job' = [job EXCEPT ![p] = j] /\ Checked(i, on, new)
      BY <1>4 DEF AddWorktree
    <2>2. Record(on, FALSE) \in Entry
      BY <1>2 DEF Entry, Record
    <2>3. PICK b \in BOOLEAN, e \in Entry : b = new /\ e = Record(on, FALSE)
      BY <2>2
    <2>4. j = [job[p] EXCEPT !.pc = "load", !.next = "seed", !.created = b, !.entry = e]
      BY <2>3 DEF Record
    <2> HIDE DEF j
    <2>5. /\ j \in Job /\ j.id = job[p].id /\ j.on = job[p].on /\ j.pc = "load"
          /\ j.next = "seed" /\ j.entry = e
      BY <1>1, <2>4, JobIs DEF Job, Steps
    <2>6. Stays(p) /\ job'[p] = j
      BY <1>1, <2>1, <2>5, Staying
    <2> QED BY <1>1, <1>2, <1>4, <2>1, <2>3, <2>5, <2>6
  <1> QED BY <1>3, <1>4

LEMMA LoadIs ==
  ASSUME WTypeOK, NEW p \in Procs, Load(p)
  PROVE  /\ job[p] # NoJob /\ job[p].pc = "load" /\ UNCHANGED <<world, commands, past>>
         /\ Stays(p) /\ job'[p].pc = "save" /\ job'[p].copy = reg
         /\ job'[p].next = job[p].next /\ job'[p].entry = job[p].entry
  <1> DEFINE j == [job[p] EXCEPT !.pc = "save", !.copy = reg]
  <1>1. job[p] # NoJob /\ job[p].pc = "load" /\ UNCHANGED <<world, commands, past>>
        /\ job' = [job EXCEPT ![p] = j] /\ reg \in [Ids -> Entry \cup {NoEntry}]
    BY DEF Load, WTypeOK, PlacesOK, JobsOK
  <1>2. /\ j \in Job /\ j.id = job[p].id /\ j.on = job[p].on /\ j.pc = "save" /\ j.copy = reg
        /\ j.next = job[p].next /\ j.entry = job[p].entry
    BY <1>1, JobIs DEF Job, Steps
  <1> HIDE DEF j
  <1>3. Stays(p) /\ job'[p] = j
    BY <1>1, <1>2, Staying
  <1> QED BY <1>1, <1>2, <1>3

LEMMA MoveWslIs ==
  ASSUME WTypeOK, NEW p \in Procs, MoveWsl(p)
  PROVE  /\ job[p] # NoJob /\ job[p].pc = "move" /\ job[p].on \in Distros
         /\ UNCHANGED <<reg, left, gen, minted, seeded, opened, commands, lost, cut, unseeded, crossed, twin>>
         /\ LET i == job[p].id  on == job[p].on IN
            \/ at[on][i] # "active" /\ Over(p) /\ UNCHANGED at
            \/ /\ at[on][i] = "active" /\ at' = [at EXCEPT ![on][i] = "archived"]
               /\ Stays(p) /\ job'[p].pc = "load" /\ job'[p].next = "unmirror"
               /\ job'[p].entry = Record(on, TRUE)
  <1> DEFINE i == job[p].id
             on == job[p].on
             j == [job[p] EXCEPT !.pc = "load", !.next = "unmirror",
                                 !.entry = [distro |-> on, archived |-> TRUE]]
  <1>1. job[p] # NoJob /\ job[p].pc = "move"
        /\ UNCHANGED <<reg, left, gen, minted, seeded, opened, commands, lost, cut, unseeded, crossed, twin>>
    BY DEF MoveWsl, past
  <1>2. on \in Distros
    BY <1>1, JobIs DEF MoveWsl, Platforms
  <1>3. CASE at[on][i] # "active"
    BY <1>1, <1>2, <1>3, EndsIs DEF MoveWsl
  <1>4. CASE at[on][i] = "active"
    <2>1. job' = [job EXCEPT ![p] = j] /\ at' = [at EXCEPT ![on][i] = "archived"]
      BY <1>4 DEF MoveWsl
    <2>2. Record(on, TRUE) \in Entry
      BY <1>2 DEF Entry, Record
    <2>3. j = [job[p] EXCEPT !.pc = "load", !.next = "unmirror", !.entry = Record(on, TRUE)]
      BY DEF Record
    <2>4. /\ j \in Job /\ j.id = job[p].id /\ j.on = job[p].on /\ j.pc = "load"
          /\ j.next = "unmirror" /\ j.entry = Record(on, TRUE)
      BY <1>1, <2>2, <2>3, JobIs DEF Job, Steps
    <2> HIDE DEF j
    <2>5. Stays(p) /\ job'[p] = j
      BY <1>1, <2>1, <2>4, Staying
    <2> QED BY <1>1, <1>2, <1>4, <2>1, <2>4, <2>5
  <1> QED BY <1>3, <1>4

LEMMA DeleteWslIs ==
  ASSUME WTypeOK, NEW p \in Procs, DeleteWsl(p)
  PROVE  /\ job[p] # NoJob /\ job[p].pc = "remove" /\ job[p].on # Windows
         /\ UNCHANGED <<reg, left, gen, minted, commands, lost, cut, unseeded, crossed, twin>>
         /\ LET i == job[p].id  found == job[p].copy[i] IN
              Gone(i, found.distro, IF found.archived THEN "archived" ELSE "active")
         /\ Stays(p) /\ job'[p].pc = "load" /\ job'[p].next = "forget"
         /\ job'[p].entry = job[p].entry
  <1> DEFINE j == [job[p] EXCEPT !.pc = "load", !.next = "forget"]
  <1>1. job[p] # NoJob /\ job[p].pc = "remove" /\ job[p].on # Windows
        /\ UNCHANGED <<reg, left, gen, minted, commands, lost, cut, unseeded, crossed, twin>>
        /\ LET i == job[p].id  found == job[p].copy[i] IN
             Gone(i, found.distro, IF found.archived THEN "archived" ELSE "active")
        /\ job' = [job EXCEPT ![p] = j]
    BY DEF DeleteWsl, past
  <1>2. /\ j \in Job /\ j.id = job[p].id /\ j.on = job[p].on /\ j.pc = "load"
        /\ j.next = "forget" /\ j.entry = job[p].entry
    BY <1>1, JobIs DEF Job, Steps
  <1> HIDE DEF j
  <1>3. Stays(p) /\ job'[p] = j
    BY <1>1, <1>2, Staying
  <1> QED BY <1>1, <1>2, <1>3

LEMMA SaveIs ==
  ASSUME WTypeOK, NEW p \in Procs, Save(p)
  PROVE  /\ job[p] # NoJob /\ job[p].pc = "save"
         /\ UNCHANGED <<at, left, gen, minted, seeded, opened, commands, cut, unseeded, crossed, twin>>
         /\ LET i == job[p].id IN
            /\ reg' \in [Ids -> Entry \cup {NoEntry}] /\ (reg'[i] = job[p].entry \/ reg' = reg)
            /\ job[p].copy[i] # NoEntry \/ job[p].entry # NoEntry => reg'[i] = job[p].entry
            /\ lost' = lost \cup {x \in Ids \ {i} : reg'[x] # reg[x]}
         /\ Stays(p) /\ job'[p].pc = job[p].next /\ job'[p].next = job[p].next
         /\ job'[p].created = job[p].created
  <1> DEFINE i == job[p].id
             new == [job[p].copy EXCEPT ![i] = job[p].entry]
  <1>1. /\ job[p] # NoJob /\ job[p].pc = "save"
        /\ UNCHANGED <<at, left, gen, minted, seeded, opened, commands, cut, unseeded, crossed, twin>>
        /\ reg' = IF job[p].entry = NoEntry /\ job[p].copy[i] = NoEntry THEN reg ELSE new
        /\ lost' = lost \cup {x \in Ids \ {i} : reg'[x] # reg[x]}
        /\ Goes(p, job[p].next)
    BY DEF Save
  <1>2. job[p].next \in Steps
    BY <1>1, JobIs, FitsIs DEF Fits, Steps
  <1>3. /\ Stays(p) /\ job'[p].pc = job[p].next /\ job'[p].next = job[p].next
        /\ job'[p].created = job[p].created
    BY <1>1, <1>2, GoesIs
  <1>4. new \in [Ids -> Entry \cup {NoEntry}] /\ new[i] = job[p].entry
    BY <1>1, JobIs
  <1>5. reg' \in [Ids -> Entry \cup {NoEntry}]
    BY <1>1, <1>4 DEF WTypeOK, PlacesOK, JobsOK
  <1> QED BY <1>1, <1>3, <1>4, <1>5

-----------------------------------------------------------------------------
(* Type correctness. *)

HistoryOK == lost \cup cut \cup unseeded \cup crossed \cup twin \subseteq Ids

LEMMA Frame ==
  ASSUME WTypeOK
  PROVE  /\ UNCHANGED <<at, reg, seeded, opened>> => PlacesOK'
         /\ UNCHANGED <<gen, minted, left>> => StateOK'
         /\ UNCHANGED <<job, commands>> => JobsOK'
         /\ UNCHANGED <<lost, cut, unseeded, crossed, twin>> => HistoryOK'
  <1>1. UNCHANGED <<at, reg, seeded, opened>> => PlacesOK'
    BY DEF WTypeOK, PlacesOK
  <1>2. UNCHANGED <<gen, minted, left>> => StateOK'
    BY DEF WTypeOK, StateOK
  <1>3. UNCHANGED <<job, commands>> => JobsOK'
    BY DEF WTypeOK, JobsOK, Fits
  <1>4. UNCHANGED <<lost, cut, unseeded, crossed, twin>> => HistoryOK'
    BY DEF WTypeOK, HistoryOK
  <1> QED BY <1>1, <1>2, <1>3, <1>4

LEMMA JobsStay ==
  ASSUME WTypeOK, NEW p \in Procs, UNCHANGED commands, Over(p) \/ (Stays(p) /\ Fits(job'[p]))
  PROVE  JobsOK'
  <1>1. \A q \in Procs \ {p} : job'[q] # NoJob => Fits(job'[q])
    BY DEF Over, Stays, WTypeOK, JobsOK
  <1>2. job'[p] # NoJob => Fits(job'[p])
    BY DEF Over
  <1>3. \A q \in Procs : job'[q] # NoJob => Fits(job'[q])
    BY <1>1, <1>2
  <1>4. \A q \in Procs : job'[q] # NoJob => Fits(job[q])'
    BY <1>3 DEF Fits
  <1> QED BY <1>4 DEF Over, Stays, WTypeOK, JobsOK

(* What a command writes in `.wtd/state` is of the latest checkout. *)
Touches(i) ==
  /\ left' \in [Ids -> [Kinds -> Nat]] /\ UNCHANGED gen
  /\ \A x \in Ids \ {i} : left'[x] = left[x]
  /\ \A k \in Kinds : left'[i][k] \in {left[i][k], 0, gen[i]}

LEMMA Touching ==
  ASSUME WTypeOK, NEW i \in Ids, NEW new \in [Kinds -> Nat], left' = [left EXCEPT ![i] = new],
         \A k \in Kinds : new[k] \in {left[i][k], 0, gen[i]}, UNCHANGED gen
  PROVE  Touches(i) /\ left'[i] = new
  BY DEF WTypeOK, StateOK, Touches

LEMMA Touched ==
  ASSUME WTypeOK, NEW i \in Ids, Touches(i), minted' \in [Ids -> Nat]
  PROVE  StateOK'
  BY DEF WTypeOK, StateOK, Touches

LEMMA KindsAre == Kinds = {"conversation", "codex", "account", "status", "preview", "brief", "ticket"}
  BY DEF Kinds, Forgotten

LEMMA SeedTouches ==
  ASSUME WTypeOK, NEW i \in Ids, SeedState(i), UNCHANGED gen
  PROVE  /\ Touches(i)
         /\ \A k \in Kinds \ {"preview", "ticket"} : left'[i][k] = left[i][k]
  <1>1. PICK ticket \in {0, gen[i]} :
          left' = [left EXCEPT ![i].preview = IF @ = 0 THEN gen[i] ELSE @,
                               ![i].ticket = IF ticket = 0 THEN @ ELSE ticket]
    BY DEF SeedState
  <1>2. PICK preview \in {left[i].preview, gen[i]} :
          preview = IF left[i].preview = 0 THEN gen[i] ELSE left[i].preview
    OBVIOUS
  <1>3. PICK linked \in {left[i].ticket, ticket} :
          linked = IF ticket = 0 THEN left[i].ticket ELSE ticket
    OBVIOUS
  <1>4. left' = [left EXCEPT ![i] = [@ EXCEPT !["preview"] = preview, !["ticket"] = linked]]
    BY <1>1, <1>2, <1>3, KindsAre DEF WTypeOK, StateOK
  <1> QED BY <1>2, <1>3, <1>4, KindsAre DEF WTypeOK, StateOK, Touches

LEMMA SwitchTouches ==
  ASSUME WTypeOK, NEW p \in Procs, NEW i \in Ids, NEW carried \in BOOLEAN, Switch(p, i, carried)
  PROVE  /\ Touches(i)
         /\ \A k \in Kinds \ {"brief", "account"} : left'[i][k] = left[i][k]
  <1>1. PICK brief \in {0, gen[i]} : brief = IF carried THEN 0 ELSE gen[i]
    OBVIOUS
  <1> DEFINE new == [left[i] EXCEPT !["brief"] = brief, !["account"] = gen[i]]
  <1>2. left' = [left EXCEPT ![i].brief = brief, ![i].account = gen[i]] /\ UNCHANGED gen
    BY <1>1 DEF Switch
  <1>3. /\ new \in [Kinds -> Nat]
        /\ \A k \in Kinds : new[k] \in {left[i][k], 0, gen[i]}
        /\ \A k \in Kinds \ {"brief", "account"} : new[k] = left[i][k]
    BY KindsAre DEF WTypeOK, StateOK
  <1>4. left' = [left EXCEPT ![i] = new]
    BY <1>2, KindsAre DEF WTypeOK, StateOK
  <1> HIDE DEF new
  <1> QED BY <1>2, <1>3, <1>4, Touching

(* The recorded conversation of i goes on, or a brief began a new one. *)
Keeps(i) == left'[i].conversation = left[i].conversation /\ minted'[i] = minted[i]

BeginsAnew(i) == Begins(i) /\ left'[i].conversation = gen[i]

LEMMA SessionTouches ==
  ASSUME WTypeOK, NEW p \in Procs, Session(p)
  PROVE  LET i == job[p].id IN
         /\ Touches(i) /\ (left[i].conversation # 0 => Keeps(i) \/ BeginsAnew(i))
         /\ minted' \in [Ids -> Nat] /\ \A x \in Ids \ {i} : minted'[x] = minted[x]
  <1>1. PICK i \in Ids : i = job[p].id
    BY JobIs DEF Session
  <1>2. UNCHANGED gen /\ gen[i] \in Nat /\ minted \in [Ids -> Nat]
    BY DEF Session, WTypeOK, StateOK
  <1> DEFINE less == [left[i] EXCEPT !["account"] = gen[i]]
             taken == [left[i] EXCEPT !["account"] = gen[i], !["brief"] = 0]
  <1>3. CASE left' = [left EXCEPT ![i].account = gen[i]] /\ UNCHANGED minted
    <2>1. /\ less \in [Kinds -> Nat] /\ less.conversation = left[i].conversation
          /\ \A k \in Kinds : less[k] \in {left[i][k], 0, gen[i]}
      BY <1>2, KindsAre DEF WTypeOK, StateOK
    <2>2. left' = [left EXCEPT ![i] = less]
      BY <1>3, KindsAre DEF WTypeOK, StateOK
    <2> HIDE DEF less
    <2>3. Touches(i) /\ left'[i] = less
      BY <1>2, <2>1, <2>2, Touching
    <2> QED BY <1>1, <1>2, <1>3, <2>1, <2>3 DEF Keeps
  <1>4. CASE left' = [left EXCEPT ![i].account = gen[i], ![i].brief = 0] /\ UNCHANGED minted
    <2>1. /\ taken \in [Kinds -> Nat] /\ taken.conversation = left[i].conversation
          /\ \A k \in Kinds : taken[k] \in {left[i][k], 0, gen[i]}
      BY <1>2, KindsAre DEF WTypeOK, StateOK
    <2>2. left' = [left EXCEPT ![i] = taken]
      BY <1>4, KindsAre DEF WTypeOK, StateOK
    <2> HIDE DEF taken
    <2>3. Touches(i) /\ left'[i] = taken
      BY <1>2, <2>1, <2>2, Touching
    <2> QED BY <1>1, <1>2, <1>4, <2>1, <2>3 DEF Keeps
  <1>5. ASSUME NEW codex \in BOOLEAN, Recorded(i, codex)
        PROVE  /\ Touches(i) /\ (left[i].conversation # 0 => Keeps(i) \/ BeginsAnew(i))
               /\ minted' \in [Ids -> Nat] /\ \A x \in Ids \ {i} : minted'[x] = minted[x]
    <2>1. PICK mark \in {gen[i], left[i].codex} : mark = IF codex THEN gen[i] ELSE left[i].codex
      OBVIOUS
    <2>2. PICK talk \in {gen[i], left[i].conversation} :
            talk = IF ~codex /\ Mints(i) THEN gen[i] ELSE left[i].conversation
      OBVIOUS
    <2> DEFINE new == [left[i] EXCEPT !["account"] = gen[i], !["brief"] = 0, !["status"] = gen[i],
                                      !["codex"] = mark, !["conversation"] = talk]
    <2>3. /\ new \in [Kinds -> Nat] /\ new.conversation = talk /\ new.brief = 0 /\ new.codex = mark
          /\ \A k \in Kinds : new[k] \in {left[i][k], 0, gen[i]}
      BY <1>2, KindsAre DEF WTypeOK, StateOK
    <2>4. left' = [left EXCEPT ![i] = new]
      BY <1>5, <2>1, <2>2, KindsAre DEF Recorded, WTypeOK, StateOK
    <2> HIDE DEF new
    <2>5. Touches(i) /\ left'[i] = new
      BY <1>2, <2>3, <2>4, Touching
    <2>6. minted' = [minted EXCEPT ![i] = IF ~codex /\ Mints(i) THEN @ + 1 ELSE @]
      BY <1>5 DEF Recorded
    <2>7. minted' \in [Ids -> Nat] /\ \A x \in Ids \ {i} : minted'[x] = minted[x]
      BY <1>2, <2>6
    <2>8. CASE ~codex /\ Mints(i)
      <3>1. minted'[i] = minted[i] + 1
        BY <1>2, <2>6, <2>8
      <3>2. left[i].conversation # 0 => left[i].brief # 0
        BY <2>8 DEF Mints
      <3> QED BY <2>1, <2>2, <2>3, <2>5, <2>7, <2>8, <3>1, <3>2 DEF BeginsAnew, Begins
    <2>9. CASE ~(~codex /\ Mints(i))
      <3>1. minted'[i] = minted[i]
        BY <1>2, <2>6, <2>9
      <3> QED BY <2>2, <2>3, <2>5, <2>7, <2>9, <3>1 DEF Keeps
    <2> QED BY <2>8, <2>9
  <1> QED BY <1>1, <1>3, <1>4, <1>5 DEF Session

LEMMA ForgetTouches ==
  ASSUME WTypeOK, NEW p \in Procs, Forget(p)
  PROVE  LET i == job[p].id IN Touches(i) /\ \A k \in Forgotten : left'[i][k] = 0
  <1>1. PICK i \in Ids : i = job[p].id
    BY JobIs DEF Forget
  <1> DEFINE new == [k \in Kinds |-> IF k \in Forgotten THEN 0 ELSE left[i][k]]
  <1>2. left' = [left EXCEPT ![i] = new] /\ UNCHANGED gen
    BY <1>1 DEF Forget
  <1>3. /\ new \in [Kinds -> Nat]
        /\ \A k \in Kinds : new[k] \in {left[i][k], 0, gen[i]}
        /\ \A k \in Forgotten : new[k] = 0
    BY DEF WTypeOK, StateOK, Kinds
  <1> HIDE DEF new
  <1>4. Touches(i) /\ left'[i] = new
    BY <1>2, <1>3, Touching
  <1> QED BY <1>1, <1>3, <1>4

LEMMA MoveTouches ==
  ASSUME WTypeOK, NEW p \in Procs, Move(p) \/ Unmirror(p)
  PROVE  LET i == job[p].id IN
         Touches(i) /\ \A k \in Kinds \ {"status"} : left'[i][k] = left[i][k]
  <1>1. PICK i \in Ids : i = job[p].id
    BY JobIs DEF Move, Unmirror
  <1>2. UNCHANGED left \/ left' = [left EXCEPT ![i].status = 0]
    BY <1>1 DEF Move, Unmirror
  <1> DEFINE less == [left[i] EXCEPT !["status"] = 0]
  <1>3. UNCHANGED gen
    BY DEF Move, Unmirror
  <1>4. CASE UNCHANGED left
    BY <1>1, <1>3, <1>4 DEF WTypeOK, StateOK, Touches
  <1>5. CASE left' = [left EXCEPT ![i].status = 0]
    <2>1. /\ less \in [Kinds -> Nat]
          /\ \A k \in Kinds : less[k] \in {left[i][k], 0, gen[i]}
          /\ \A k \in Kinds \ {"status"} : less[k] = left[i][k]
      BY KindsAre DEF WTypeOK, StateOK
    <2>2. left' = [left EXCEPT ![i] = less]
      BY <1>5, KindsAre DEF WTypeOK, StateOK
    <2> HIDE DEF less
    <2>3. Touches(i) /\ left'[i] = less
      BY <1>3, <2>1, <2>2, Touching
    <2> QED BY <1>1, <2>1, <2>3
  <1> QED BY <1>2, <1>4, <1>5

LEMMA CheckedType ==
  ASSUME WTypeOK, NEW i \in Ids, NEW on \in Platforms, NEW new, Checked(i, on, new),
         UNCHANGED <<reg, left, minted, seeded, opened, lost, cut, unseeded, crossed>>
  PROVE  PlacesOK' /\ StateOK' /\ HistoryOK'
  <1>1. PlacesOK'
    BY DEF Checked, WTypeOK, PlacesOK, Places
  <1>2. gen' \in [Ids -> Nat] /\ \A x \in Ids : gen'[x] >= gen[x]
    BY DEF Checked, WTypeOK, StateOK
  <1>3. StateOK'
    BY <1>2 DEF WTypeOK, StateOK
  <1>4. HistoryOK'
    BY DEF Checked, WTypeOK, HistoryOK
  <1> QED BY <1>1, <1>3, <1>4

LEMMA GoneType ==
  ASSUME WTypeOK, NEW i, NEW on, NEW place, Gone(i, on, place), UNCHANGED reg
  PROVE  PlacesOK'
  <1>1. at' \in [Platforms -> [Ids -> Places]]
    BY DEF Gone, WTypeOK, PlacesOK, Places
  <1> QED BY <1>1 DEF Gone, WTypeOK, PlacesOK

LEMMA StartsType ==
  ASSUME WTypeOK, NEW p \in Procs, NEW i \in Ids, NEW on \in Platforms,
         NEW pc \in Steps \ {"load", "save"}, Starts(p, i, on, pc),
         pc = "checkout" => on = Windows,
         pc \in {"reopen", "allowed", "add"} => on \in Distros
  PROVE  WTypeOK'
  <1> DEFINE j == [id |-> i, on |-> on, pc |-> pc, next |-> "done", created |-> FALSE,
                   entry |-> NoEntry, copy |-> reg]
  <1>1. job' = [job EXCEPT ![p] = j]
    BY DEF Starts
  <1>2. Fits(j)
    BY DEF Fits
  <1>3. job'[p] = j /\ \A q \in Procs \ {p} : job'[q] = job[q]
    BY <1>1 DEF WTypeOK, JobsOK
  <1>4. \A q \in Procs : job'[q] # NoJob => Fits(job'[q])
    BY <1>2, <1>3 DEF WTypeOK, JobsOK
  <1>5. \A q \in Procs : job'[q] # NoJob => Fits(job[q])'
    BY <1>4 DEF Fits
  <1>6. JobsOK'
    BY <1>5, StartsIs DEF JobsOK
  <1>7. HistoryOK'
    BY StartsIs DEF HistoryOK, WTypeOK
  <1>8. UNCHANGED <<at, reg, seeded, opened, gen, minted, left>>
    BY StartsIs
  <1> QED BY <1>6, <1>7, <1>8, Frame DEF WTypeOK, HistoryOK

LEMMA CommandsType ==
  ASSUME WTypeOK, NEW p \in Procs, NEW i \in Ids,
         (\E on \in Platforms : Open(p, i, on)) \/ Archive(p, i) \/ Remove(p, i)
  PROVE  \E on \in Platforms, pc \in Steps \ {"load", "save"} :
            /\ Starts(p, i, on, pc) /\ (pc = "checkout" => on = Windows)
            /\ pc \in {"reopen", "allowed", "add"} => on \in Distros
  <1>1. reg[i] # NoEntry => reg[i].distro \in Platforms
    BY DEF WTypeOK, PlacesOK, Entry, Platforms
  <1>2. Windows \in Platforms
    BY DEF Platforms
  <1> QED BY <1>1, <1>2 DEF Open, Archive, Remove, Steps, Platforms

LEMMA TypeStarts ==
  ASSUME WTypeOK, NEW p \in Procs, NEW i \in Ids,
         (\E on \in Platforms : Open(p, i, on)) \/ Archive(p, i) \/ Remove(p, i)
  PROVE  WTypeOK'
  BY CommandsType, StartsType

LEMMA TypeSwitch ==
  ASSUME WTypeOK, NEW p \in Procs, NEW i \in Ids, NEW carried \in BOOLEAN, Switch(p, i, carried)
  PROVE  WTypeOK'
  <1>1. UNCHANGED <<at, reg, seeded, opened, job, lost, cut, unseeded, crossed, twin>>
    BY DEF Switch, past
  <1>2. StateOK'
    BY SwitchTouches, Touched DEF Switch, WTypeOK, StateOK
  <1>3. commands' \in 0..MaxCommands
    BY WAssumption DEF Switch, WTypeOK, JobsOK
  <1>4. JobsOK'
    BY <1>1, <1>3 DEF WTypeOK, JobsOK, Fits
  <1> QED BY <1>1, <1>2, <1>4, Frame DEF WTypeOK, HistoryOK

LEMMA TypeCheckout ==
  ASSUME WTypeOK, NEW p \in Procs, Checkout(p) \/ Reopen(p) \/ AddWorktree(p)
  PROVE  WTypeOK'
  <1>1. /\ job[p] # NoJob
        /\ UNCHANGED <<reg, left, minted, seeded, opened, commands, lost, cut, unseeded, crossed>>
        /\ \/ \E d \in Platforms, new \in BOOLEAN : Checked(job[p].id, d, new)
           \/ UNCHANGED <<at, gen, twin>>
    <2>1. CASE Checkout(p)
      BY <2>1, CheckoutIs DEF Platforms
    <2>2. CASE Reopen(p)
      <3>1. job[p] # NoJob /\ job[p].id \in Ids
        BY <2>2, ReopenIs, JobIs
      <3>2. reg[job[p].id] # NoEntry => reg[job[p].id].distro \in Platforms
        BY <3>1 DEF WTypeOK, PlacesOK, Entry, Platforms
      <3> QED BY <2>2, <3>2, ReopenIs
    <2>3. CASE AddWorktree(p)
      BY <2>3, AddIs DEF Platforms
    <2> QED BY <2>1, <2>2, <2>3
  <1>2. PlacesOK' /\ StateOK' /\ HistoryOK'
    BY <1>1, JobIs, CheckedType, Frame
  <1>3. Over(p) \/ (Stays(p) /\ Fits(job'[p]))
    <2>1. Fits(job[p])
      BY <1>1, FitsIs
    <2>2. CASE Checkout(p)
      <3>1. job'[p].next = job[p].next
        BY <2>2, CheckoutIs
      <3> QED BY <2>1, <2>2, <3>1, CheckoutIs DEF Fits, Stays
    <2>3. CASE Reopen(p)
      <3>1. job[p].on \in Distros
        BY <2>1, <2>3, ReopenIs DEF Fits
      <3> QED BY <2>3, <3>1, ReopenIs DEF Fits, Stays
    <2>4. CASE AddWorktree(p)
      BY <2>4, AddIs DEF Fits, Stays
    <2> QED BY <2>2, <2>3, <2>4
  <1>4. JobsOK'
    BY <1>1, <1>3, JobsStay
  <1> QED BY <1>2, <1>4 DEF WTypeOK, HistoryOK

LEMMA TypeAllowed ==
  ASSUME WTypeOK, NEW p \in Procs, Allowed(p)
  PROVE  WTypeOK'
  <1>1. job[p] # NoJob /\ job[p].pc = "allowed" /\ UNCHANGED <<world, commands, past>>
    BY DEF Allowed
  <1>2. Over(p) \/ (Stays(p) /\ Fits(job'[p]))
    <2>1. CASE Ends(p)
      BY <2>1, EndsIs
    <2>2. CASE Goes(p, "add")
      <3>1. Stays(p) /\ job'[p].pc = "add" /\ job'[p].next = job[p].next
        BY <1>1, <2>2, GoesIs DEF Steps
      <3> QED BY <1>1, <3>1, FitsIs DEF Fits, Stays
    <2> QED BY <2>1, <2>2 DEF Allowed
  <1> QED BY <1>1, <1>2, JobsStay, Frame DEF world, past, WTypeOK, HistoryOK

LEMMA TypeRegistry ==
  ASSUME WTypeOK, NEW p \in Procs, Load(p) \/ Save(p)
  PROVE  WTypeOK'
  <1>1. CASE Load(p)
    <2>1. Fits(job[p])
      BY <1>1, LoadIs, FitsIs
    <2>2. Fits(job'[p]) /\ Stays(p) /\ UNCHANGED <<world, commands, past>>
      BY <1>1, <2>1, LoadIs DEF Fits, Stays
    <2> QED BY <2>2, JobsStay, Frame DEF world, past, WTypeOK, HistoryOK
  <1>2. CASE Save(p)
    <2>1. Fits(job[p]) /\ job[p] # NoJob
      BY <1>2, SaveIs, FitsIs
    <2>2. Stays(p) /\ UNCHANGED <<at, left, gen, minted, seeded, opened, commands, cut, unseeded, crossed, twin>>
      BY <1>2, SaveIs
    <2>3. job[p].next \notin {"load", "save", "checkout", "reopen", "add"}
      BY <2>1, JobIs
    <2>4. Fits(job'[p])
      BY <1>2, <2>1, <2>3, SaveIs DEF Fits, Stays
    <2>5. PlacesOK'
      BY <1>2, <2>2, SaveIs DEF WTypeOK, PlacesOK
    <2>6. HistoryOK'
      BY <1>2, <2>2, SaveIs DEF WTypeOK, HistoryOK
    <2> QED BY <2>2, <2>4, <2>5, <2>6, JobsStay, Frame DEF WTypeOK, HistoryOK
  <1> QED BY <1>1, <1>2

(* The steps that write `.wtd/state`. *)
LEMMA TypeState ==
  ASSUME WTypeOK, NEW p \in Procs,
         Seed(p) \/ SeedWsl(p) \/ Session(p) \/ Move(p) \/ Unmirror(p) \/ Forget(p)
  PROVE  WTypeOK'
  <1>1. /\ job[p] # NoJob /\ UNCHANGED <<reg, gen, commands, lost, cut, unseeded, crossed, twin>>
        /\ job[p].id \in Ids /\ job[p].on \in Platforms
    BY JobIs DEF Seed, SeedWsl, Session, Move, Unmirror, Forget, past
  <1>2. UNCHANGED left \/ Touches(job[p].id)
    BY <1>1, SeedTouches, SessionTouches, MoveTouches, ForgetTouches DEF Seed, SeedWsl
  <1>3. StateOK'
    <2>1. minted' \in [Ids -> Nat]
      BY SessionTouches DEF Seed, SeedWsl, Session, Move, Unmirror, Forget, WTypeOK, StateOK
    <2>2. CASE UNCHANGED left
      BY <1>1, <2>1, <2>2 DEF WTypeOK, StateOK
    <2> QED BY <1>1, <1>2, <2>1, <2>2, Touched
  <1>4. Over(p) \/ (Stays(p) /\ Fits(job'[p]))
    <2>1. CASE Ends(p)
      BY <2>1, EndsIs
    <2>2. CASE Goes(p, "session")
      <3>1. Stays(p) /\ job'[p].pc = "session" /\ job'[p].next = job[p].next
        BY <1>1, <2>2, GoesIs DEF Steps
      <3> QED BY <1>1, <3>1, FitsIs DEF Fits, Stays
    <2> QED BY <2>1, <2>2 DEF Seed, SeedWsl, Session, Move, Unmirror, Forget
  <1>5. at' \in [Platforms -> [Ids -> Places]]
    <2>1. UNCHANGED at \/ at' = [at EXCEPT ![Windows][job[p].id] = "archived"]
      BY DEF Seed, SeedWsl, Session, Move, Unmirror, Forget
    <2> QED BY <2>1 DEF WTypeOK, PlacesOK, Places
  <1>6. seeded' \cup opened' \subseteq Platforms \X Ids
    BY <1>1 DEF Seed, SeedWsl, Session, Move, Unmirror, Forget, WTypeOK, PlacesOK, Platforms
  <1>7. PlacesOK'
    BY <1>1, <1>5, <1>6 DEF WTypeOK, PlacesOK
  <1> QED BY <1>1, <1>3, <1>4, <1>7, JobsStay, Frame DEF WTypeOK, HistoryOK

LEMMA TypeRemoval ==
  ASSUME WTypeOK, NEW p \in Procs, MoveWsl(p) \/ Delete(p) \/ DeleteWsl(p)
  PROVE  WTypeOK'
  <1>1. job[p] # NoJob /\ UNCHANGED <<reg, left, gen, minted, commands, lost, cut, unseeded, crossed, twin>>
    BY MoveWslIs, DeleteWslIs DEF Delete, past
  <1>2. PlacesOK'
    <2>1. CASE MoveWsl(p)
      <3>1. \/ UNCHANGED at
            \/ at' = [at EXCEPT ![job[p].on][job[p].id] = "archived"]
        BY <2>1, MoveWslIs
      <3>2. at' \in [Platforms -> [Ids -> Places]]
        BY <3>1 DEF WTypeOK, PlacesOK, Places
      <3>3. UNCHANGED <<reg, seeded, opened>>
        BY <2>1, MoveWslIs
      <3> QED BY <3>2, <3>3 DEF WTypeOK, PlacesOK
    <2>2. CASE Delete(p) \/ DeleteWsl(p)
      <3>1. \E i, on, place : Gone(i, on, place)
        BY <2>2 DEF Delete, DeleteWsl
      <3> QED BY <1>1, <3>1, GoneType
    <2> QED BY <2>1, <2>2
  <1>3. Over(p) \/ (Stays(p) /\ Fits(job'[p]))
    <2>1. Fits(job[p])
      BY <1>1, FitsIs
    <2>2. CASE MoveWsl(p)
      BY <2>1, <2>2, MoveWslIs DEF Fits, Stays
    <2>3. CASE DeleteWsl(p)
      BY <2>1, <2>3, DeleteWslIs DEF Fits, Stays
    <2>4. CASE Delete(p)
      <3>1. Stays(p) /\ job'[p].pc = "forget" /\ job'[p].next = job[p].next
        BY <1>1, <2>4, GoesIs DEF Delete, Steps
      <3> QED BY <2>1, <3>1 DEF Fits, Stays
    <2> QED BY <2>2, <2>3, <2>4
  <1> QED BY <1>1, <1>2, <1>3, JobsStay, Frame DEF WTypeOK, HistoryOK

LEMMA TypeEnds ==
  ASSUME WTypeOK, NEW p \in Procs, Fails(p) \/ Kill(p)
  PROVE  WTypeOK'
  <1>1. Ends(p) /\ job[p] # NoJob /\ UNCHANGED <<world, commands>>
    BY DEF Fails, Kill
  <1>2. HistoryOK'
    BY <1>1, JobIs DEF Fails, Kill, past, WTypeOK, HistoryOK
  <1> QED BY <1>1, <1>2, EndsIs, JobsStay, Frame DEF WTypeOK, HistoryOK, world

LEMMA GarbledIs ==
  ASSUME WTypeOK, Garbled
  PROVE  /\ UNCHANGED <<at, left, gen, minted, seeded, opened, job, cut, unseeded, crossed, twin>>
         /\ lost \subseteq lost' /\ lost' \subseteq Ids
         /\ \A i \in Ids : i \in lost' \/ reg'[i] = reg[i]
         /\ reg' \in [Ids -> Entry \cup {NoEntry}] /\ commands' \in 0..MaxCommands
  BY WAssumption DEF Garbled, WTypeOK, PlacesOK, JobsOK

LEMMA TypeGarbled ==
  ASSUME WTypeOK, Garbled
  PROVE  WTypeOK'
  <1>1. PlacesOK'
    BY GarbledIs DEF WTypeOK, PlacesOK
  <1>2. JobsOK'
    BY GarbledIs DEF WTypeOK, JobsOK, Fits
  <1>3. HistoryOK'
    BY GarbledIs DEF WTypeOK, HistoryOK
  <1>4. StateOK'
    BY GarbledIs, Frame
  <1> QED BY <1>1, <1>2, <1>3, <1>4 DEF WTypeOK, HistoryOK

LEMMA TypeStep == WTypeOK /\ [WNext]_wvars => WTypeOK'
  <1> SUFFICES ASSUME WTypeOK, [WNext]_wvars PROVE WTypeOK'
    OBVIOUS
  <1>1. CASE UNCHANGED wvars
    BY <1>1, Frame DEF wvars, WTypeOK, HistoryOK
  <1>2. CASE WNext
    BY <1>2, TypeStarts, TypeSwitch, TypeCheckout, TypeAllowed, TypeRegistry, TypeState,
       TypeRemoval, TypeEnds, TypeGarbled DEF WNext
  <1> QED BY <1>1, <1>2

LEMMA TypeInit == WInit => WTypeOK
  <1> SUFFICES ASSUME WInit PROVE WTypeOK
    OBVIOUS
  <1>1. PlacesOK
    BY DEF WInit, PlacesOK, Places
  <1>2. StateOK
    BY DEF WInit, StateOK
  <1>3. JobsOK
    BY WAssumption DEF WInit, JobsOK
  <1> QED BY <1>1, <1>2, <1>3 DEF WInit, WTypeOK

(* What is left of a worktree was written by a checkout there has been, the
   registry names distros only, and every command can take its next step. *)
THEOREM TypeCorrect == WSpec => []WTypeOK
  <1> QED BY TypeInit, TypeStep, PTL DEF WSpec

-----------------------------------------------------------------------------
(***************************************************************************)
(* Checkouts and the registry.  Two things are true of an id that one      *)
(* command at a time works on: between commands the registry names what is *)
(* there, and a command that has changed what is there holds the entry it  *)
(* is about to write.  The other commands may save at any time; a save     *)
(* that undoes the entry puts the id into `lost`.                          *)
(***************************************************************************)
At(p, i) == job[p] # NoJob /\ job[p].id = i

Sole == \A i \in Ids \ crossed : \A p, q \in Procs : At(p, i) /\ At(q, i) => p = q

Where(entry, d) == IF entry = NoEntry \/ entry.distro # d THEN "none"
                   ELSE IF entry.archived THEN "archived" ELSE "active"

(* What is there is what the entry says. *)
Rests(i, entry) ==
  /\ \A d \in Distros : at[d][i] = Where(entry, d)
  /\ at[Windows][i] = "active" => entry = NoEntry

Writing(p) == job[p].pc \in {"load", "save"}

(* On its way to write its entry, and what it goes on to. *)
Pending(p) ==
  LET i == job[p].id
      on == job[p].on
  IN /\ Rests(i, job[p].entry) /\ at[Windows][i] # "active"
     /\ job[p].pc = "save" => job[p].copy[i] = reg[i]
     /\ \/ job[p].next = "forget" /\ job[p].entry = NoEntry
        \/ /\ job[p].next \in {"allowed", "seed"} /\ on \in Distros
           /\ job[p].entry = Record(on, FALSE)
        \/ job[p].next = "unmirror" /\ on \in Distros /\ job[p].entry = Record(on, TRUE)

(* What its next step finds. *)
Ready(p) ==
  LET i == job[p].id
      on == job[p].on
      pc == job[p].pc
  IN /\ Rests(i, reg[i])
     /\ pc = "checkout" => on = Windows /\ reg[i] = NoEntry
     /\ pc = "reopen" => /\ on \in Distros /\ at[Windows][i] # "active"
                         /\ reg[i] # NoEntry => reg[i].distro = on
     /\ pc \in {"allowed", "add"} => /\ on \in Distros /\ at[Windows][i] # "active"
                                     /\ reg[i] \in {NoEntry, Record(on, FALSE)}
     /\ pc \in {"seed", "session", "move"} => at[on][i] = "active"
     /\ pc = "unmirror" => at[on][i] = "archived"
     /\ pc = "remove" => /\ job[p].copy[i] = reg[i] /\ job[p].entry = NoEntry
                         /\ on = IF reg[i] = NoEntry THEN Windows ELSE reg[i].distro
     /\ pc = "forget" => reg[i] = NoEntry /\ at[Windows][i] # "active"

Sits(p) == IF Writing(p) THEN Pending(p) ELSE Ready(p)

OnRecord(i) ==
  /\ ~Working(i) => Rests(i, reg[i])
  /\ \A p \in Procs : At(p, i) => Sits(p)

PlaceInv == Sole /\ \A i \in Ids : ~Excused(i) => OnRecord(i)

LEMMA PlaceRegisters ==
  ASSUME WTypeOK, PlaceInv
  PROVE  OneActive /\ Registered
  <1>1. Registered
    BY DEF PlaceInv, OnRecord, Rests, Where, Registered
  <1>2. ASSUME NEW i \in Ids, ~Excused(i)
        PROVE  \A p, q \in Platforms : at[p][i] = "active" /\ at[q][i] = "active" => p = q
    <2>1. OnRecord(i)
      BY <1>2 DEF PlaceInv
    <2>2. ASSUME NEW p \in Procs, At(p, i) PROVE Rests(i, reg[i]) \/ Rests(i, job[p].entry)
      <3>1. Sits(p) /\ job[p].id = i
        BY <2>1, <2>2 DEF OnRecord, At
      <3>2. Pending(p) => Rests(i, job[p].entry)
        BY <3>1 DEF Pending
      <3>3. Ready(p) => Rests(i, reg[i])
        BY <3>1 DEF Ready
      <3> QED BY <3>1, <3>2, <3>3 DEF Sits
    <2>3. PICK entry : Rests(i, entry)
      BY <2>1, <2>2 DEF OnRecord, Working, At
    <2> QED BY <2>3 DEF Rests, Where, Platforms
  <1>3. ASSUME NEW i \in Ids, ~Excused(i)
        PROVE  Cardinality({p \in Platforms : at[p][i] = "active"}) <= 1
    <2>1. CASE {p \in Platforms : at[p][i] = "active"} = {}
      BY <2>1, FS_EmptySet
    <2>2. CASE {p \in Platforms : at[p][i] = "active"} # {}
      <3>1. PICK q : {p \in Platforms : at[p][i] = "active"} = {q}
        BY <1>2, <1>3, <2>2
      <3>2. Cardinality({q}) = 1
        BY FS_Singleton
      <3> QED BY <3>1, <3>2
    <2> QED BY <2>1, <2>2
  <1> QED BY <1>1, <1>3 DEF OneActive

(* An id no step is about. *)
LEMMA OtherKept ==
  ASSUME WTypeOK, NEW i \in Ids, OnRecord(i),
         \A d \in Platforms : at'[d][i] = at[d][i], reg'[i] = reg[i],
         \A p \in Procs : job'[p] = job[p] \/ (~At(p, i) /\ ~At(p, i)')
  PROVE  OnRecord(i)'
  <1>1. \A entry : Rests(i, entry) <=> Rests(i, entry)'
    BY DEF Rests, Platforms
  <1>2. ASSUME NEW p \in Procs, At(p, i)' PROVE At(p, i) /\ job'[p] = job[p]
    BY <1>2 DEF At
  <1>3. Working(i) => Working(i)'
    BY DEF Working, At
  <1>4. ASSUME NEW p \in Procs, At(p, i)' PROVE Sits(p)'
    <2>1. job'[p] = job[p] /\ job[p].id = i /\ job[p].on \in Platforms /\ Sits(p)
      BY <1>2, <1>4, JobIs DEF OnRecord, At
    <2>2. Windows \in Platforms
      BY DEF Platforms
    <2> QED BY <1>1, <2>1, <2>2 DEF Sits, Writing, Pending, Ready
  <1> QED BY <1>1, <1>3, <1>4 DEF OnRecord

(* A step of the one command at work on the id. *)
LEMMA OwnKept ==
  ASSUME WTypeOK, Sole, NEW p \in Procs, NEW i \in Ids \ crossed, At(p, i),
         (Stays(p) /\ Sits(p)') \/ (Over(p) /\ Rests(i, reg[i])')
  PROVE  OnRecord(i)'
  <1>1. \A q \in Procs \ {p} : ~At(q, i)'
    BY DEF Sole, At, Stays, Over
  <1>2. CASE Stays(p) /\ Sits(p)'
    BY <1>1, <1>2 DEF OnRecord, Working, At, Stays
  <1>3. CASE Over(p) /\ Rests(i, reg[i])'
    BY <1>1, <1>3 DEF OnRecord, At, Over
  <1> QED BY <1>2, <1>3

(* What a step of p's command on i may touch. *)
Acts(p, i) ==
  /\ Stays(p) \/ Over(p)
  /\ crossed' = crossed /\ lost \subseteq lost' /\ cut \subseteq cut'
  /\ \A x \in Ids \ {i} : /\ \A d \in Platforms : at'[d][x] = at[d][x]
                          /\ x \in lost' \/ reg'[x] = reg[x]

LEMMA PlaceActs ==
  ASSUME WTypeOK, PlaceInv, NEW p \in Procs, NEW i \in Ids, At(p, i), Acts(p, i),
         ~Excused(i)' /\ Sits(p) => (Stays(p) /\ Sits(p)') \/ (Over(p) /\ Rests(i, reg[i])')
  PROVE  PlaceInv'
  <1>1. Sole'
    BY DEF PlaceInv, Sole, Acts, At, Stays, Over
  <1>2. ASSUME NEW x \in Ids, ~Excused(x)' PROVE OnRecord(x)'
    <2>1. ~Excused(x) /\ OnRecord(x) /\ x \in Ids \ crossed
      BY <1>2 DEF PlaceInv, Excused, Acts
    <2>2. CASE x = i
      <3>1. Sits(p) /\ Sole
        BY <2>1, <2>2 DEF OnRecord, PlaceInv
      <3>2. i \in Ids \ crossed
        BY <2>1, <2>2
      <3>3. (Stays(p) /\ Sits(p)') \/ (Over(p) /\ Rests(i, reg[i])')
        BY <1>2, <2>2, <3>1
      <3>4. OnRecord(i)'
        BY <3>1, <3>2, <3>3, OwnKept
      <3> QED BY <2>2, <3>4
    <2>3. CASE x # i
      <3>1. \A q \in Procs : job'[q] = job[q] \/ (~At(q, x) /\ ~At(q, x)')
        BY <2>3 DEF Acts, At, Stays, Over
      <3>2. (\A d \in Platforms : at'[d][x] = at[d][x]) /\ reg'[x] = reg[x]
        BY <1>2, <2>3 DEF Acts, Excused
      <3> QED BY <2>1, <3>1, <3>2, OtherKept
    <2> QED BY <2>2, <2>3
  <1> QED BY <1>1, <1>2 DEF PlaceInv

LEMMA AtIs ==
  ASSUME WTypeOK, NEW i \in Ids, NEW on \in Platforms, NEW place,
         at' = [at EXCEPT ![on][i] = place]
  PROVE  /\ at'[on][i] = place
         /\ \A d \in Platforms \ {on} : at'[d][i] = at[d][i]
         /\ \A x \in Ids \ {i}, d \in Platforms : at'[d][x] = at[d][x]
  BY DEF WTypeOK, PlacesOK

(* A command ends where it found everything in order. *)
LEMMA PlaceOver ==
  ASSUME WTypeOK, PlaceInv, NEW p \in Procs, job[p] # NoJob, ~Writing(p), Over(p),
         UNCHANGED <<at, reg, crossed, lost, cut>>
  PROVE  PlaceInv'
  <1>1. PICK i \in Ids : At(p, i)
    BY JobIs DEF At
  <1>2. Acts(p, i)
    BY DEF Acts
  <1>3. ASSUME Sits(p) PROVE Over(p) /\ Rests(i, reg[i])'
    <2>1. Rests(i, reg[i])
      BY <1>1, <1>3 DEF At, Sits, Ready
    <2> QED BY <2>1 DEF Rests
  <1> QED BY <1>1, <1>2, <1>3, PlaceActs

(* A command goes on where it found everything in order. *)
LEMMA PlaceGoes ==
  ASSUME WTypeOK, PlaceInv, NEW p \in Procs, job[p] # NoJob, Stays(p),
         UNCHANGED <<at, reg, crossed, lost, cut>>,
         \/ job[p].pc = "seed" /\ job'[p].pc = "session"
         \/ job[p].pc = "allowed" /\ job'[p].pc = "add"
         \/ /\ job[p].pc = "reopen" /\ job'[p].pc = "allowed"
            /\ ~(reg[job[p].id] # NoEntry /\ reg[job[p].id].archived)
  PROVE  PlaceInv'
  <1>1. PICK i \in Ids : At(p, i)
    BY JobIs DEF At
  <1>2. Acts(p, i)
    BY DEF Acts
  <1>3. ASSUME Sits(p) PROVE Sits(p)'
    <2>1. Ready(p) /\ job[p].id = i /\ job'[p].id = i /\ job'[p].on = job[p].on
          /\ job'[p].pc \in {"session", "add", "allowed"}
      BY <1>1, <1>3 DEF At, Sits, Writing, Stays
    <2>2. Rests(i, reg[i])'
      BY <2>1 DEF Ready, Rests
    <2>3. CASE job[p].pc = "seed" /\ job'[p].pc = "session"
      BY <2>1, <2>2, <2>3 DEF Ready, Sits, Writing
    <2>4. CASE job[p].pc = "allowed" /\ job'[p].pc = "add"
      BY <2>1, <2>2, <2>4 DEF Ready, Sits, Writing
    <2>5. CASE /\ job[p].pc = "reopen" /\ job'[p].pc = "allowed"
               /\ ~(reg[job[p].id] # NoEntry /\ reg[job[p].id].archived)
      <3>1. /\ job[p].on \in Distros /\ at[Windows][i] # "active"
            /\ reg[i] # NoEntry => reg[i].distro = job[p].on
        BY <2>1, <2>5 DEF Ready
      <3>2. reg[i] # NoEntry => reg[i] = Record(job[p].on, FALSE)
        BY <2>1, <2>5, <3>1 DEF WTypeOK, PlacesOK, Entry, Record
      <3> QED BY <2>1, <2>2, <2>5, <3>1, <3>2 DEF Ready, Sits, Writing
    <2> QED BY <2>3, <2>4, <2>5
  <1> QED BY <1>1, <1>2, <1>3, PlaceActs

(* A command writes its entry next. *)
LEMMA PlaceWrites ==
  ASSUME WTypeOK, PlaceInv, NEW p \in Procs, job[p] # NoJob, Stays(p),
         UNCHANGED <<reg, crossed, lost, cut>>, job'[p].pc = "load",
         NEW on \in Distros, NEW place \in Places, NEW entry \in Entry \cup {NoEntry},
         at' = [at EXCEPT ![on][job[p].id] = place], job'[p].entry = entry,
         Ready(p) => /\ at[Windows][job[p].id] # "active"
                     /\ Where(entry, on) = place
                     /\ \A d \in Distros \ {on} : at[d][job[p].id] = Where(entry, d)
                     /\ \/ job'[p].next = "forget" /\ entry = NoEntry
                        \/ /\ job'[p].next \in {"allowed", "seed"} /\ job[p].on = on
                           /\ entry = Record(on, FALSE)
                        \/ job'[p].next = "unmirror" /\ job[p].on = on /\ entry = Record(on, TRUE),
         ~Writing(p)
  PROVE  PlaceInv'
  <1>1. PICK i \in Ids : At(p, i)
    BY JobIs DEF At
  <1>2. job[p].id = i /\ job'[p].id = i /\ job'[p].on = job[p].on
    BY <1>1 DEF At, Stays
  <1>3. on \in Platforms /\ Windows \in Platforms /\ Windows # on
    BY WAssumption DEF Platforms
  <1>4. /\ at'[on][i] = place
        /\ \A d \in Platforms \ {on} : at'[d][i] = at[d][i]
        /\ \A x \in Ids \ {i}, d \in Platforms : at'[d][x] = at[d][x]
    BY <1>2, <1>3, AtIs
  <1>5. Acts(p, i)
    BY <1>4 DEF Acts
  <1>6. ASSUME Sits(p) PROVE Sits(p)'
    <2>1. Ready(p)
      BY <1>6 DEF Sits
    <2>2. at'[Windows][i] # "active"
      BY <1>2, <1>3, <1>4, <2>1
    <2>3. \A d \in Distros : at'[d][i] = Where(entry, d)
      BY <1>2, <1>4, <2>1 DEF Platforms
    <2>4. Rests(i, entry)'
      BY <2>2, <2>3 DEF Rests, Where
    <2>5. Pending(p)'
      BY <1>2, <2>1, <2>2, <2>4 DEF Pending
    <2> QED BY <2>5 DEF Sits, Writing
  <1> QED BY <1>1, <1>5, <1>6, PlaceActs

LEMMA PlaceCheckout ==
  ASSUME WTypeOK, PlaceInv, NEW p \in Procs, Checkout(p)
  PROVE  PlaceInv'
  <1>1. /\ job[p] # NoJob /\ job[p].pc = "checkout"
        /\ Stays(p) /\ job'[p].pc = "seed"
        /\ Checked(job[p].id, Windows, at[Windows][job[p].id] = "none")
        /\ UNCHANGED <<reg, lost, cut, unseeded, crossed>>
    BY CheckoutIs
  <1>2. PICK i \in Ids : At(p, i)
    BY <1>1, JobIs DEF At
  <1>3. job[p].id = i /\ job'[p].id = i /\ job'[p].on = job[p].on
    BY <1>1, <1>2 DEF At, Stays
  <1>4. Windows \in Platforms /\ at' = [at EXCEPT ![Windows][i] = "active"]
    BY <1>1, <1>3 DEF Checked, Platforms
  <1>5. /\ at'[Windows][i] = "active"
        /\ \A d \in Platforms \ {Windows} : at'[d][i] = at[d][i]
        /\ \A x \in Ids \ {i}, d \in Platforms : at'[d][x] = at[d][x]
    BY <1>4, AtIs
  <1>6. Acts(p, i)
    BY <1>1, <1>5 DEF Acts
  <1>7. ASSUME Sits(p) PROVE Sits(p)'
    <2>1. Rests(i, reg[i]) /\ job[p].on = Windows /\ reg[i] = NoEntry
      BY <1>1, <1>3, <1>7 DEF Sits, Writing, Ready
    <2>2. Rests(i, reg[i])'
      BY <1>1, <1>5, <2>1, WAssumption DEF Rests, Platforms
    <2> QED BY <1>1, <1>3, <1>5, <2>1, <2>2 DEF Sits, Writing, Ready
  <1> QED BY <1>1, <1>2, <1>6, <1>7, PlaceActs

LEMMA PlaceReopen ==
  ASSUME WTypeOK, PlaceInv, NEW p \in Procs, Reopen(p)
  PROVE  PlaceInv'
  <1>1. /\ job[p] # NoJob /\ job[p].pc = "reopen" /\ ~Writing(p) /\ job[p].id \in Ids
        /\ UNCHANGED <<reg, crossed, lost, cut>>
    BY ReopenIs, JobIs DEF Writing
  <1> DEFINE i == job[p].id
             d == reg[i].distro
  <1>2. CASE /\ reg[i] # NoEntry /\ reg[i].archived /\ at[d][i] = "archived"
             /\ Checked(i, d, FALSE) /\ Stays(p) /\ job'[p].pc = "load" /\ job'[p].next = "allowed"
             /\ job'[p].entry = Record(d, FALSE)
    <2>1. PICK on \in Distros : on = d
      BY <1>1, <1>2 DEF WTypeOK, PlacesOK, Entry
    <2>2. Record(on, FALSE) \in Entry /\ job'[p].entry = Record(on, FALSE)
          /\ at' = [at EXCEPT ![on][i] = "active"] /\ "active" \in Places
      BY <1>2, <2>1 DEF Entry, Record, Checked, Places
    <2>3. ASSUME Ready(p)
          PROVE  /\ at[Windows][i] # "active" /\ job[p].on = on
                 /\ Where(Record(on, FALSE), on) = "active"
                 /\ \A e \in Distros \ {on} : at[e][i] = Where(Record(on, FALSE), e)
      <3>1. at[Windows][i] # "active" /\ job[p].on = on /\ Rests(i, reg[i])
        BY <1>1, <1>2, <2>1, <2>3 DEF Ready
      <3>2. Record(on, FALSE) # NoEntry
        BY <2>2, NothingAssumption
      <3> QED BY <1>2, <2>1, <3>1, <3>2 DEF Rests, Where, Record
    <2> QED BY <1>1, <1>2, <2>2, <2>3, PlaceWrites
  <1>3. CASE Over(p) /\ UNCHANGED at
    BY <1>1, <1>3, PlaceOver
  <1>4. CASE ~(reg[i] # NoEntry /\ reg[i].archived) /\ Stays(p) /\ job'[p].pc = "allowed" /\ UNCHANGED at
    BY <1>1, <1>4, PlaceGoes
  <1> QED BY <1>2, <1>3, <1>4, ReopenIs

LEMMA PlaceAdd ==
  ASSUME WTypeOK, PlaceInv, NEW p \in Procs, AddWorktree(p)
  PROVE  PlaceInv'
  <1>1. /\ job[p] # NoJob /\ job[p].pc = "add" /\ ~Writing(p) /\ job[p].id \in Ids
        /\ UNCHANGED <<reg, crossed, lost, cut>>
    BY AddIs, JobIs DEF Writing
  <1>2. PICK i \in Ids, on \in Distros : i = job[p].id /\ on = job[p].on
    BY AddIs, JobIs
  <1>3. CASE Over(p) /\ UNCHANGED at
    BY <1>1, <1>3, PlaceOver
  <1>4. CASE /\ at[on][i] # "archived"
             /\ Checked(i, on, at[on][i] = "none")
             /\ Stays(p) /\ job'[p].pc = "load" /\ job'[p].next = "seed"
             /\ job'[p].entry = Record(on, FALSE)
    <2>1. Record(on, FALSE) \in Entry /\ at' = [at EXCEPT ![on][i] = "active"] /\ "active" \in Places
      BY <1>4 DEF Entry, Record, Checked, Places
    <2>2. ASSUME Ready(p)
          PROVE  /\ at[Windows][i] # "active"
                 /\ Where(Record(on, FALSE), on) = "active"
                 /\ \A e \in Distros \ {on} : at[e][i] = Where(Record(on, FALSE), e)
      <3>1. at[Windows][i] # "active" /\ Rests(i, reg[i]) /\ reg[i] \in {NoEntry, Record(on, FALSE)}
        BY <1>1, <1>2, <2>2 DEF Ready
      <3>2. Record(on, FALSE) # NoEntry
        BY <2>1, NothingAssumption
      <3> QED BY <3>1, <3>2 DEF Rests, Where, Record
    <2> QED BY <1>1, <1>2, <1>4, <2>1, <2>2, PlaceWrites
  <1> QED BY <1>2, <1>3, <1>4, AddIs

LEMMA PlaceMoveWsl ==
  ASSUME WTypeOK, PlaceInv, NEW p \in Procs, MoveWsl(p)
  PROVE  PlaceInv'
  <1>1. /\ job[p] # NoJob /\ job[p].pc = "move" /\ ~Writing(p) /\ job[p].id \in Ids
        /\ UNCHANGED <<reg, crossed, lost, cut>>
    BY MoveWslIs, JobIs DEF Writing
  <1>2. PICK i \in Ids, on \in Distros : i = job[p].id /\ on = job[p].on
    BY MoveWslIs, JobIs
  <1>3. CASE Over(p) /\ UNCHANGED at
    BY <1>1, <1>3, PlaceOver
  <1>4. CASE /\ at[on][i] = "active" /\ at' = [at EXCEPT ![on][i] = "archived"]
             /\ Stays(p) /\ job'[p].pc = "load" /\ job'[p].next = "unmirror"
             /\ job'[p].entry = Record(on, TRUE)
    <2>1. Record(on, TRUE) \in Entry /\ "archived" \in Places
      BY DEF Entry, Record, Places
    <2>2. ASSUME Ready(p)
          PROVE  /\ at[Windows][i] # "active"
                 /\ Where(Record(on, TRUE), on) = "archived"
                 /\ \A e \in Distros \ {on} : at[e][i] = Where(Record(on, TRUE), e)
      <3>1. Rests(i, reg[i])
        BY <1>2, <2>2 DEF Ready
      <3>2. reg[i] # NoEntry /\ reg[i].distro = on
        BY <1>4, <3>1 DEF Rests, Where
      <3>3. Record(on, TRUE) # NoEntry
        BY <2>1, NothingAssumption
      <3> QED BY <3>1, <3>2, <3>3 DEF Rests, Where, Record
    <2> QED BY <1>1, <1>2, <1>4, <2>1, <2>2, PlaceWrites
  <1> QED BY <1>2, <1>3, <1>4, MoveWslIs

LEMMA PlaceLoad ==
  ASSUME WTypeOK, PlaceInv, NEW p \in Procs, Load(p)
  PROVE  PlaceInv'
  <1>1. /\ job[p] # NoJob /\ job[p].pc = "load" /\ Stays(p)
        /\ job'[p].pc = "save" /\ job'[p].copy = reg
        /\ job'[p].next = job[p].next /\ job'[p].entry = job[p].entry
        /\ UNCHANGED <<at, reg, crossed, lost, cut>>
    BY LoadIs DEF world, past
  <1>2. PICK i \in Ids : At(p, i)
    BY <1>1, JobIs DEF At
  <1>3. Acts(p, i)
    BY <1>1 DEF Acts
  <1>4. ASSUME Sits(p) PROVE Sits(p)'
    <2>1. Pending(p) /\ job[p].id = i /\ job'[p].id = i /\ job'[p].on = job[p].on
      BY <1>1, <1>2, <1>4 DEF At, Sits, Writing, Stays
    <2>2. Rests(i, job[p].entry)'
      BY <1>1, <2>1 DEF Pending, Rests
    <2>3. Pending(p)'
      BY <1>1, <2>1, <2>2 DEF Pending
    <2> QED BY <1>1, <2>3 DEF Sits, Writing
  <1> QED BY <1>1, <1>2, <1>3, <1>4, PlaceActs

LEMMA PlaceSave ==
  ASSUME WTypeOK, PlaceInv, NEW p \in Procs, Save(p)
  PROVE  PlaceInv'
  <1>1. /\ job[p] # NoJob /\ job[p].pc = "save" /\ Stays(p) /\ job'[p].pc = job[p].next
        /\ UNCHANGED <<at, cut, crossed>>
    BY SaveIs
  <1>2. PICK i \in Ids : At(p, i)
    BY <1>1, JobIs DEF At
  <1>3. job[p].id = i /\ job'[p].id = i /\ job'[p].on = job[p].on
    BY <1>1, <1>2 DEF At, Stays
  <1>4. /\ reg' \in [Ids -> Entry \cup {NoEntry}] /\ (reg'[i] = job[p].entry \/ reg' = reg)
        /\ job[p].copy[i] # NoEntry \/ job[p].entry # NoEntry => reg'[i] = job[p].entry
        /\ lost' = lost \cup {x \in Ids \ {i} : reg'[x] # reg[x]}
    BY <1>3, SaveIs
  <1>5. Acts(p, i)
    BY <1>1, <1>4 DEF Acts
  <1>6. ASSUME Sits(p) PROVE Sits(p)'
    <2>1. Pending(p)
      BY <1>1, <1>6 DEF Sits, Writing
    <2>2. Rests(i, job[p].entry) /\ at[Windows][i] # "active" /\ job[p].copy[i] = reg[i]
      BY <1>1, <1>3, <2>1 DEF Pending
    <2>3. reg'[i] = job[p].entry
      BY <1>4, <2>2
    <2>4. Rests(i, reg[i])' /\ at'[Windows][i] # "active"
      BY <1>1, <2>2, <2>3 DEF Rests
    <2>5. CASE job[p].next = "forget" /\ job[p].entry = NoEntry
      BY <1>1, <1>3, <2>3, <2>4, <2>5 DEF Sits, Writing, Ready
    <2>6. CASE job[p].next \in {"allowed", "seed"} /\ job[p].on \in Distros
               /\ job[p].entry = Record(job[p].on, FALSE)
      <3>1. at'[job[p].on][i] = "active"
        <4>1. Record(job[p].on, FALSE) # NoEntry
          BY <2>6, RecordIs
        <4> QED BY <2>3, <2>4, <2>6, <4>1 DEF Rests, Where, Record
      <3> QED BY <1>1, <1>3, <2>3, <2>4, <2>6, <3>1 DEF Sits, Writing, Ready
    <2>7. CASE job[p].next = "unmirror" /\ job[p].on \in Distros
               /\ job[p].entry = Record(job[p].on, TRUE)
      <3>1. at'[job[p].on][i] = "archived"
        <4>1. Record(job[p].on, TRUE) # NoEntry
          BY <2>7, RecordIs
        <4> QED BY <2>3, <2>4, <2>7, <4>1 DEF Rests, Where, Record
      <3> QED BY <1>1, <1>3, <2>3, <2>4, <2>7, <3>1 DEF Sits, Writing, Ready
    <2> QED BY <2>1, <2>5, <2>6, <2>7 DEF Pending
  <1> QED BY <1>1, <1>2, <1>5, <1>6, PlaceActs

LEMMA PlaceMove ==
  ASSUME WTypeOK, PlaceInv, NEW p \in Procs, Move(p)
  PROVE  PlaceInv'
  <1>1. /\ job[p] # NoJob /\ job[p].pc = "move" /\ ~Writing(p) /\ Over(p)
        /\ UNCHANGED <<reg, lost, cut, unseeded, crossed>>
    BY EndsIs DEF Move, Writing, past
  <1>2. CASE UNCHANGED at
    BY <1>1, <1>2, PlaceOver
  <1>3. CASE at' = [at EXCEPT ![Windows][job[p].id] = "archived"]
    <2>1. PICK i \in Ids : At(p, i)
      BY <1>1, JobIs DEF At
    <2>2. job[p].id = i /\ Windows \in Platforms
      BY <2>1 DEF At, Platforms
    <2>3. /\ at'[Windows][i] = "archived"
          /\ \A d \in Platforms \ {Windows} : at'[d][i] = at[d][i]
          /\ \A x \in Ids \ {i}, d \in Platforms : at'[d][x] = at[d][x]
      BY <1>3, <2>2, AtIs
    <2>4. Acts(p, i)
      BY <1>1, <2>3 DEF Acts
    <2>5. ASSUME Sits(p) PROVE Over(p) /\ Rests(i, reg[i])'
      <3>1. Rests(i, reg[i])
        BY <1>1, <2>2, <2>5 DEF Sits, Ready
      <3> QED BY <1>1, <2>3, <3>1, WAssumption DEF Rests, Platforms
    <2> QED BY <2>1, <2>4, <2>5, PlaceActs
  <1> QED BY <1>2, <1>3 DEF Move

(* What a removal leaves at the place it looked. *)
LEMMA GoneIs ==
  ASSUME WTypeOK, NEW i \in Ids, NEW on \in Platforms, NEW place, Gone(i, on, place)
  PROVE  /\ at'[on][i] = IF at[on][i] = place THEN "none" ELSE at[on][i]
         /\ \A d \in Platforms \ {on} : at'[d][i] = at[d][i]
         /\ \A x \in Ids \ {i}, d \in Platforms : at'[d][x] = at[d][x]
  <1>1. CASE at[on][i] = place
    <2>1. at' = [at EXCEPT ![on][i] = "none"]
      BY <1>1 DEF Gone
    <2> QED BY <1>1, <2>1 DEF WTypeOK, PlacesOK
  <1>2. CASE at[on][i] # place
    BY <1>2 DEF Gone
  <1> QED BY <1>1, <1>2

LEMMA PlaceDelete ==
  ASSUME WTypeOK, PlaceInv, NEW p \in Procs, Delete(p)
  PROVE  PlaceInv'
  <1>1. /\ job[p] # NoJob /\ job[p].pc = "remove" /\ ~Writing(p) /\ job[p].on = Windows
        /\ Gone(job[p].id, Windows, "active")
        /\ Stays(p) /\ job'[p].pc = "forget"
        /\ UNCHANGED <<reg, lost, cut, unseeded, crossed>>
    BY GoesIs DEF Delete, Writing, past, Steps
  <1>2. PICK i \in Ids : At(p, i)
    BY <1>1, JobIs DEF At
  <1>3. job[p].id = i /\ job'[p].id = i /\ job'[p].on = Windows /\ Windows \in Platforms
    BY <1>1, <1>2 DEF At, Stays, Platforms
  <1>4. /\ at'[Windows][i] # "active"
        /\ \A d \in Platforms \ {Windows} : at'[d][i] = at[d][i]
        /\ \A x \in Ids \ {i}, d \in Platforms : at'[d][x] = at[d][x]
    BY <1>1, <1>3, GoneIs
  <1>5. Acts(p, i)
    BY <1>1, <1>4 DEF Acts
  <1>6. ASSUME Sits(p) PROVE Sits(p)'
    <2>1. Rests(i, reg[i]) /\ Windows = IF reg[i] = NoEntry THEN Windows ELSE reg[i].distro
      BY <1>1, <1>3, <1>6 DEF Sits, Ready
    <2>2. reg[i] = NoEntry
      BY <2>1, WAssumption DEF WTypeOK, PlacesOK, Entry
    <2>3. Rests(i, reg[i])'
      BY <1>1, <1>4, <2>1, WAssumption DEF Rests, Platforms
    <2> QED BY <1>1, <1>3, <1>4, <2>2, <2>3 DEF Sits, Writing, Ready
  <1> QED BY <1>1, <1>2, <1>5, <1>6, PlaceActs

LEMMA PlaceDeleteWsl ==
  ASSUME WTypeOK, PlaceInv, NEW p \in Procs, DeleteWsl(p)
  PROVE  PlaceInv'
  <1>1. /\ job[p] # NoJob /\ job[p].pc = "remove" /\ ~Writing(p) /\ job[p].on # Windows
        /\ Stays(p) /\ job'[p].pc = "load" /\ job'[p].next = "forget"
        /\ job'[p].entry = job[p].entry
        /\ UNCHANGED <<reg, lost, cut, unseeded, crossed>>
    BY DeleteWslIs DEF Writing
  <1>2. PICK i \in Ids : At(p, i)
    BY <1>1, JobIs DEF At
  <1>3. job[p].id = i /\ job'[p].id = i /\ job'[p].on = job[p].on
    BY <1>1, <1>2 DEF At, Stays
  <1> DEFINE found == job[p].copy[i]
             place == IF found.archived THEN "archived" ELSE "active"
  <1>4. Gone(i, found.distro, place)
    BY <1>3, DeleteWslIs
  <1>5. \A x \in Ids \ {i}, d \in Platforms : at'[d][x] = at[d][x]
    BY <1>4 DEF Gone, WTypeOK, PlacesOK
  <1>6. Acts(p, i)
    BY <1>1, <1>5 DEF Acts
  <1>7. ASSUME Sits(p) PROVE Sits(p)'
    <2>1. /\ Rests(i, reg[i]) /\ found = reg[i] /\ job[p].entry = NoEntry
          /\ job[p].on = IF reg[i] = NoEntry THEN Windows ELSE reg[i].distro
      BY <1>1, <1>3, <1>7 DEF Sits, Ready
    <2>2. reg[i] # NoEntry
      BY <1>1, <2>1
    <2>3. PICK d \in Distros : d = reg[i].distro
      BY <2>2 DEF WTypeOK, PlacesOK, Entry
    <2>4. PICK there : there = place
      OBVIOUS
    <2>5. Gone(i, d, there)
      BY <1>4, <2>1, <2>3, <2>4
    <2>6. at[d][i] = there
      BY <2>1, <2>2, <2>3, <2>4 DEF Rests, Where
    <2>7. d \in Platforms /\ Windows # d /\ Windows \in Platforms
      BY WAssumption DEF Platforms
    <2>8. at'[d][i] = "none" /\ \A e \in Platforms \ {d} : at'[e][i] = at[e][i]
      BY <2>5, <2>6, <2>7, GoneIs
    <2>9. \A e \in Distros : at'[e][i] = "none"
      BY <2>1, <2>3, <2>8 DEF Rests, Where, Platforms
    <2>10. at'[Windows][i] # "active"
      BY <2>1, <2>2, <2>7, <2>8 DEF Rests
    <2>11. Rests(i, NoEntry)'
      BY <2>9, <2>10 DEF Rests, Where
    <2>12. Pending(p)'
      BY <1>1, <1>3, <2>1, <2>10, <2>11 DEF Pending
    <2> QED BY <1>1, <2>12 DEF Sits, Writing
  <1> QED BY <1>1, <1>2, <1>6, <1>7, PlaceActs

(* The steps that move no checkout. *)
LEMMA PlaceRest ==
  ASSUME WTypeOK, PlaceInv, NEW p \in Procs,
         Allowed(p) \/ Seed(p) \/ SeedWsl(p) \/ Session(p) \/ Unmirror(p) \/ Forget(p) \/ Fails(p)
  PROVE  PlaceInv'
  <1>1. job[p] # NoJob /\ ~Writing(p) /\ UNCHANGED <<at, reg, crossed, lost, cut>>
    BY DEF Allowed, Seed, SeedWsl, Session, Unmirror, Forget, Fails, Writing, world, past
  <1>2. CASE Ends(p)
    BY <1>1, <1>2, EndsIs, PlaceOver
  <1>3. CASE job[p].pc = "seed" /\ Goes(p, "session")
    <2>1. Stays(p) /\ job'[p].pc = "session"
      BY <1>1, <1>3, GoesIs DEF Steps
    <2> QED BY <1>1, <1>3, <2>1, PlaceGoes
  <1>4. CASE job[p].pc = "allowed" /\ Goes(p, "add")
    <2>1. Stays(p) /\ job'[p].pc = "add"
      BY <1>1, <1>4, GoesIs DEF Steps
    <2> QED BY <1>1, <1>4, <2>1, PlaceGoes
  <1> QED BY <1>2, <1>3, <1>4 DEF Allowed, Seed, SeedWsl, Session, Unmirror, Forget, Fails

LEMMA PlaceKill ==
  ASSUME WTypeOK, PlaceInv, NEW p \in Procs, Kill(p)
  PROVE  PlaceInv'
  <1>1. job[p] # NoJob /\ Over(p) /\ UNCHANGED <<at, reg, lost, crossed>> /\ cut' = cut \cup {job[p].id}
    BY EndsIs DEF Kill, world
  <1>2. PICK i \in Ids : At(p, i)
    BY <1>1, JobIs DEF At
  <1>3. Acts(p, i)
    BY <1>1 DEF Acts
  <1>4. Excused(i)'
    BY <1>1, <1>2 DEF Excused, At
  <1> QED BY <1>2, <1>3, <1>4, PlaceActs

(* Nothing a command starts with is out of order. *)
LEMMA PlaceStarts ==
  ASSUME WTypeOK, PlaceInv, NEW p \in Procs, NEW i \in Ids, NEW on \in Platforms, NEW pc \in Steps,
         Starts(p, i, on, pc),
         Rests(i, reg[i]) => \/ pc = "checkout" /\ on = Windows /\ reg[i] = NoEntry
                             \/ /\ pc = "reopen" /\ on \in Distros /\ at[Windows][i] # "active"
                                /\ reg[i] # NoEntry => reg[i].distro = on
                             \/ pc = "move" /\ at[on][i] = "active"
                             \/ pc = "remove" /\ on = IF reg[i] = NoEntry THEN Windows ELSE reg[i].distro,
         pc \in {"checkout", "reopen", "move", "remove"}
  PROVE  PlaceInv'
  <1>1. /\ job[p] = NoJob /\ job'[p] # NoJob
        /\ \A q \in Procs \ {p} : job'[q] = job[q]
        /\ job'[p].id = i /\ job'[p].on = on /\ job'[p].pc = pc /\ job'[p].entry = NoEntry
        /\ job'[p].copy = reg
        /\ UNCHANGED <<at, reg, lost, cut>>
        /\ crossed' = IF Working(i) THEN crossed \cup {i} ELSE crossed
    BY StartsIs
  <1>2. \A q \in Procs \ {p} : \A x \in Ids : At(q, x) <=> At(q, x)'
    BY <1>1 DEF At
  <1>3. \A x \in Ids : At(p, x)' => x = i
    BY <1>1 DEF At
  <1>4. i \notin crossed' => ~Working(i) /\ \A q \in Procs : ~At(q, i)
    BY <1>1 DEF Working, At
  <1>5. \A x \in Ids : x \notin crossed' => x \notin crossed
    BY <1>1
  <1>6. Sole'
    <2> SUFFICES ASSUME NEW x \in Ids \ crossed', NEW q \in Procs, NEW r \in Procs, At(q, x)', At(r, x)'
                 PROVE  q = r
      BY DEF Sole
    <2>1. CASE x = i
      BY <1>2, <1>4, <2>1
    <2>2. CASE x # i
      BY <1>2, <1>3, <1>5, <2>2 DEF PlaceInv, Sole
    <2> QED BY <2>1, <2>2
  <1>7. ASSUME NEW x \in Ids, ~Excused(x)' PROVE OnRecord(x)'
    <2>1. ~Excused(x) /\ OnRecord(x) /\ x \notin crossed'
      BY <1>1, <1>7 DEF PlaceInv, Excused
    <2>2. CASE x = i
      <3>1. Rests(i, reg[i])
        BY <1>4, <2>1, <2>2 DEF OnRecord
      <3>2. Rests(i, reg[i])'
        BY <1>1, <3>1 DEF Rests
      <3>3. Sits(p)'
        BY <1>1, <3>1, <3>2 DEF Sits, Writing, Ready
      <3>4. \A q \in Procs : At(q, i)' => q = p
        BY <1>2, <1>4, <2>1, <2>2
      <3> QED BY <2>2, <3>2, <3>3, <3>4 DEF OnRecord
    <2>3. CASE x # i
      <3>1. \A q \in Procs : job'[q] = job[q] \/ (~At(q, x) /\ ~At(q, x)')
        BY <1>1, <2>3 DEF At
      <3> QED BY <1>1, <2>1, <3>1, OtherKept
    <2> QED BY <2>2, <2>3
  <1> QED BY <1>6, <1>7 DEF PlaceInv

LEMMA PlaceCommands ==
  ASSUME WTypeOK, PlaceInv, NEW p \in Procs, NEW i \in Ids,
         (\E on \in Platforms : Open(p, i, on)) \/ Archive(p, i) \/ Remove(p, i)
  PROVE  PlaceInv'
  <1>1. reg[i] # NoEntry => reg[i].distro \in Distros
    BY DEF WTypeOK, PlacesOK, Entry
  <1>2. Windows \in Platforms /\ Windows \notin Distros /\ Distros \subseteq Platforms
    BY WAssumption DEF Platforms
  <1>3. ASSUME NEW on \in Platforms, Open(p, i, on) PROVE PlaceInv'
    <2>1. ExistingPlatform(i) \subseteq {on}
      BY <1>3 DEF Open
    <2>2. at[Windows][i] = "active" => on = Windows
      BY <2>1 DEF ExistingPlatform
    <2>3. at[Windows][i] # "active" /\ reg[i] # NoEntry => reg[i].distro = on
      BY <2>1 DEF ExistingPlatform
    <2>4. CASE on = Windows
      <3>1. Rests(i, reg[i]) => reg[i] = NoEntry
        BY <1>1, <1>2, <2>3, <2>4 DEF Rests
      <3> QED BY <1>3, <2>4, <3>1, PlaceStarts DEF Open, Steps
    <2>5. CASE on # Windows
      BY <1>3, <2>2, <2>3, <2>5, PlaceStarts DEF Open, Steps, Platforms
    <2> QED BY <2>4, <2>5
  <1>4. CASE Archive(p, i)
    <2>1. CASE reg[i] # NoEntry /\ ~reg[i].archived
      <3>1. PICK on \in Distros : on = reg[i].distro
        BY <1>1, <2>1
      <3>2. Rests(i, reg[i]) => at[on][i] = "active"
        BY <2>1, <3>1 DEF Rests, Where
      <3>3. Starts(p, i, on, "move")
        BY <1>4, <2>1, <3>1 DEF Archive
      <3> QED BY <1>2, <3>2, <3>3, PlaceStarts DEF Steps
    <2>2. CASE ~(reg[i] # NoEntry /\ ~reg[i].archived)
      BY <1>2, <1>4, <2>2, PlaceStarts DEF Archive, Steps
    <2> QED BY <2>1, <2>2
  <1>5. CASE Remove(p, i)
    <2>1. PICK on \in Platforms : on = IF reg[i] # NoEntry THEN reg[i].distro ELSE Windows
      BY <1>1, <1>2
    <2>2. Starts(p, i, on, "remove")
      BY <1>5, <2>1 DEF Remove
    <2> QED BY <2>1, <2>2, PlaceStarts DEF Steps
  <1> QED BY <1>3, <1>4, <1>5

LEMMA PlaceSame ==
  ASSUME WTypeOK, PlaceInv, UNCHANGED <<at, reg, job, lost, cut, unseeded, crossed>>
  PROVE  PlaceInv'
  <1>1. Sole'
    BY DEF PlaceInv, Sole, At
  <1>2. ASSUME NEW x \in Ids, ~Excused(x)' PROVE OnRecord(x)'
    <2>1. OnRecord(x)
      BY <1>2 DEF PlaceInv, Excused
    <2> QED BY <2>1, OtherKept
  <1> QED BY <1>1, <1>2 DEF PlaceInv

LEMMA PlaceGarbled ==
  ASSUME WTypeOK, PlaceInv, Garbled
  PROVE  PlaceInv'
  <1>1. Sole'
    BY GarbledIs DEF PlaceInv, Sole, At
  <1>2. ASSUME NEW x \in Ids, ~Excused(x)' PROVE OnRecord(x)'
    <2>1. OnRecord(x) /\ reg'[x] = reg[x] /\ UNCHANGED <<at, job>>
      BY <1>2, GarbledIs DEF PlaceInv, Excused
    <2> QED BY <2>1, OtherKept
  <1> QED BY <1>1, <1>2 DEF PlaceInv

LEMMA PlaceStep == WTypeOK /\ PlaceInv /\ [WNext]_wvars => PlaceInv'
  <1> SUFFICES ASSUME WTypeOK, PlaceInv, [WNext]_wvars PROVE PlaceInv'
    OBVIOUS
  <1>1. CASE UNCHANGED wvars
    BY <1>1, PlaceSame DEF wvars
  <1>2. ASSUME NEW p \in Procs, NEW i \in Ids, NEW carried \in BOOLEAN, Switch(p, i, carried)
        PROVE  PlaceInv'
    BY <1>2, PlaceSame DEF Switch, past
  <1>3. CASE WNext
    BY <1>2, <1>3, PlaceCommands, PlaceCheckout, PlaceReopen, PlaceAdd, PlaceLoad, PlaceSave,
       PlaceMove, PlaceMoveWsl, PlaceDelete, PlaceDeleteWsl, PlaceRest, PlaceKill, PlaceGarbled DEF WNext
  <1> QED BY <1>1, <1>3

LEMMA PlaceInit == WInit => PlaceInv
  <1> SUFFICES ASSUME WInit PROVE PlaceInv
    OBVIOUS
  <1>1. \A p \in Procs, i \in Ids : ~At(p, i)
    BY DEF WInit, At
  <1>2. \A i \in Ids : Rests(i, reg[i])
    BY DEF WInit, Rests, Where, Platforms
  <1> QED BY <1>1, <1>2 DEF PlaceInv, Sole, OnRecord

-----------------------------------------------------------------------------
(***************************************************************************)
(* CLAUDE.md.  An id that no two commands worked on, and that on Windows   *)
(* no command was killed on and no launch failed to seed, gets it before a *)
(* session: on Windows from the command that creates the checkout, in WSL  *)
(* from every launch.                                                      *)
(***************************************************************************)
Fresh(on, i) == i \notin crossed /\ (on = Windows => i \notin cut \cup unseeded)

(* The command that created the Windows checkout is about to seed it. *)
Creating(p) == job[p].on = Windows /\ job[p].pc = "seed" /\ job[p].created

(* A command that will not seed its checkout before the session. *)
Sown(p) == \/ job[p].pc = "session"
           \/ job[p].on = Windows /\ job[p].pc = "seed" /\ ~job[p].created

SownSeeded == \A p \in Procs, on \in Platforms, i \in Ids :
                At(p, i) /\ job[p].on = on /\ Sown(p) /\ Fresh(on, i) => <<on, i>> \in seeded

WindowsSeeded == \A i \in Ids : Fresh(Windows, i) /\ at[Windows][i] # "none" =>
                   <<Windows, i>> \in seeded \/ \E p \in Procs : At(p, i) /\ Creating(p)

SeedInv == SeededWhenOpened /\ SownSeeded /\ WindowsSeeded

LEMMA OpenedSeeded ==
  SeededWhenOpened <=> \A on \in Platforms, i \in Ids :
                         <<on, i>> \in opened /\ Fresh(on, i) => <<on, i>> \in seeded
  BY DEF SeededWhenOpened, Fresh

(* The steps with nothing to do with it. *)
LEMMA SeedQuiet ==
  ASSUME WTypeOK, SeedInv, NEW p \in Procs, UNCHANGED <<seeded, opened>>,
         crossed \subseteq crossed', cut \subseteq cut', unseeded \subseteq unseeded',
         \A q \in Procs \ {p} : job'[q] = job[q],
         job[p] # NoJob => ~Creating(p) \/ job[p].id \in cut' \cup unseeded',
         job'[p] # NoJob => ~Sown(p)',
         \A i \in Ids : at'[Windows][i] # "none" => at[Windows][i] # "none"
  PROVE  SeedInv'
  <1>1. \A on, i : Fresh(on, i)' => Fresh(on, i)
    BY DEF Fresh
  <1>2. SeededWhenOpened'
    BY <1>1 DEF SeedInv, SeededWhenOpened, Fresh
  <1>3. ASSUME NEW q \in Procs, NEW on \in Platforms, NEW i \in Ids,
               At(q, i)', job'[q].on = on, Sown(q)', Fresh(on, i)'
        PROVE  <<on, i>> \in seeded
    <2>1. job'[q] = job[q]
      BY <1>3 DEF At
    <2>2. At(q, i) /\ Sown(q) /\ job[q].on = on
      BY <1>3, <2>1 DEF At, Sown
    <2> QED BY <1>1, <1>3, <2>2 DEF SeedInv, SownSeeded
  <1>4. SownSeeded'
    BY <1>3 DEF SownSeeded
  <1>5. ASSUME NEW i \in Ids, Fresh(Windows, i)', at'[Windows][i] # "none", <<Windows, i>> \notin seeded
        PROVE  \E q \in Procs : At(q, i)' /\ Creating(q)'
    <2>1. PICK q \in Procs : At(q, i) /\ Creating(q)
      BY <1>1, <1>5 DEF SeedInv, WindowsSeeded
    <2>2. q # p
      BY <1>5, <2>1 DEF At, Fresh
    <2>3. job'[q] = job[q]
      BY <2>2
    <2> QED BY <2>1, <2>3 DEF At, Creating
  <1>6. WindowsSeeded'
    BY <1>5 DEF WindowsSeeded
  <1> QED BY <1>2, <1>4, <1>6 DEF SeedInv

LEMMA SeedCheckout ==
  ASSUME WTypeOK, Sole, SeedInv, NEW p \in Procs, Checkout(p)
  PROVE  SeedInv'
  <1>1. /\ job[p] # NoJob /\ job[p].pc = "checkout" /\ job[p].on = Windows
        /\ Stays(p) /\ job'[p].pc = "seed"
        /\ job'[p].created = (at[Windows][job[p].id] = "none")
        /\ Checked(job[p].id, Windows, at[Windows][job[p].id] = "none")
        /\ UNCHANGED <<seeded, opened, cut, unseeded, crossed>>
    BY CheckoutIs, FitsIs DEF Fits
  <1>2. PICK i \in Ids : At(p, i)
    BY <1>1, JobIs DEF At
  <1>3. job[p].id = i /\ At(p, i)' /\ job'[p].on = Windows /\ Windows \in Platforms
    BY <1>1, <1>2 DEF At, Stays, Platforms
  <1>4. at' = [at EXCEPT ![Windows][i] = "active"]
    BY <1>1, <1>3 DEF Checked
  <1>5. \A x \in Ids \ {i} : at'[Windows][x] = at[Windows][x]
    BY <1>3, <1>4, AtIs
  <1>6. \A on, x : Fresh(on, x)' <=> Fresh(on, x)
    BY <1>1 DEF Fresh
  <1>7. \A q \in Procs \ {p} : job'[q] = job[q]
    BY <1>1 DEF Stays
  <1>8. SeededWhenOpened'
    BY <1>1 DEF SeedInv, SeededWhenOpened
  <1>9. ASSUME NEW q \in Procs, NEW on \in Platforms, NEW x \in Ids,
               At(q, x)', job'[q].on = on, Sown(q)', Fresh(on, x)
        PROVE  <<on, x>> \in seeded
    <2>1. CASE q = p
      <3>1. x = i /\ on = Windows /\ at[Windows][i] # "none"
        BY <1>1, <1>3, <1>9, <2>1 DEF At, Sown
      <3>2. \A r \in Procs : At(r, i) => ~Creating(r)
        <4>1. \A r \in Procs : At(r, i) => r = p
          BY <1>2, <1>9, <3>1 DEF Sole, Fresh
        <4> QED BY <1>1, <4>1 DEF Creating
      <3> QED BY <1>9, <3>1, <3>2 DEF SeedInv, WindowsSeeded
    <2>2. CASE q # p
      <3>1. At(q, x) /\ job[q].on = on /\ Sown(q)
        BY <1>7, <1>9, <2>2 DEF At, Sown
      <3> QED BY <1>9, <3>1 DEF SeedInv, SownSeeded
    <2> QED BY <2>1, <2>2
  <1>10. SownSeeded'
    BY <1>1, <1>6, <1>9 DEF SownSeeded
  <1>11. ASSUME NEW x \in Ids, Fresh(Windows, x), at'[Windows][x] # "none", <<Windows, x>> \notin seeded
         PROVE  \E q \in Procs : At(q, x)' /\ Creating(q)'
    <2>1. CASE x = i /\ at[Windows][i] = "none"
      BY <1>1, <1>3, <2>1 DEF Creating
    <2>2. CASE x # i \/ at[Windows][i] # "none"
      <3>1. at[Windows][x] # "none"
        BY <1>5, <1>11, <2>2
      <3>2. PICK q \in Procs : At(q, x) /\ Creating(q)
        BY <1>11, <3>1 DEF SeedInv, WindowsSeeded
      <3>3. q # p
        BY <1>1, <3>2 DEF Creating
      <3>4. job'[q] = job[q]
        BY <1>7, <3>3
      <3> QED BY <3>2, <3>4 DEF At, Creating
    <2> QED BY <2>1, <2>2
  <1>12. WindowsSeeded'
    BY <1>1, <1>6, <1>11 DEF WindowsSeeded
  <1> QED BY <1>8, <1>10, <1>12 DEF SeedInv

LEMMA SeedSeed ==
  ASSUME WTypeOK, SeedInv, NEW p \in Procs, Seed(p) \/ SeedWsl(p)
  PROVE  SeedInv'
  <1>1. PICK i \in Ids, on \in Platforms : At(p, i) /\ job[p].on = on
    BY JobIs DEF At, Seed, SeedWsl
  <1>2. /\ job[p] # NoJob /\ job[p].pc = "seed" /\ Stays(p) /\ job'[p].pc = "session"
        /\ UNCHANGED <<at, opened, crossed, cut, unseeded>>
    BY GoesIs DEF Seed, SeedWsl, past, Steps
  <1>3. job[p].id = i /\ At(p, i)' /\ job'[p].on = on
    BY <1>1, <1>2 DEF At, Stays
  <1>4. /\ seeded \subseteq seeded'
        /\ (on = Windows /\ ~job[p].created) \/ <<on, i>> \in seeded'
    BY <1>1, <1>3 DEF Seed, SeedWsl
  <1>5. \A d, x : Fresh(d, x)' <=> Fresh(d, x)
    BY <1>2 DEF Fresh
  <1>6. \A q \in Procs \ {p} : job'[q] = job[q]
    BY <1>2 DEF Stays
  <1>7. SeededWhenOpened'
    BY <1>2, <1>4 DEF SeedInv, SeededWhenOpened
  <1>8. ASSUME NEW q \in Procs, NEW d \in Platforms, NEW x \in Ids,
               At(q, x)', job'[q].on = d, Sown(q)', Fresh(d, x)
        PROVE  <<d, x>> \in seeded'
    <2>1. CASE q = p
      <3>1. x = i /\ d = on
        BY <1>3, <1>8, <2>1 DEF At
      <3>2. CASE <<on, i>> \in seeded'
        BY <3>1, <3>2
      <3>3. CASE on = Windows /\ ~job[p].created
        BY <1>1, <1>2, <1>4, <1>8, <3>1, <3>3 DEF SeedInv, SownSeeded, Sown
      <3> QED BY <1>4, <3>2, <3>3
    <2>2. CASE q # p
      <3>1. At(q, x) /\ job[q].on = d /\ Sown(q)
        BY <1>6, <1>8, <2>2 DEF At, Sown
      <3> QED BY <1>4, <1>8, <3>1 DEF SeedInv, SownSeeded
    <2> QED BY <2>1, <2>2
  <1>9. SownSeeded'
    BY <1>5, <1>8 DEF SownSeeded
  <1>10. ASSUME NEW x \in Ids, Fresh(Windows, x), at[Windows][x] # "none", <<Windows, x>> \notin seeded'
         PROVE  \E q \in Procs : At(q, x)' /\ Creating(q)'
    <2>1. PICK q \in Procs : At(q, x) /\ Creating(q)
      BY <1>4, <1>10 DEF SeedInv, WindowsSeeded
    <2>2. q # p
      BY <1>1, <1>4, <1>10, <2>1 DEF At, Creating
    <2>3. job'[q] = job[q]
      BY <1>6, <2>2
    <2> QED BY <2>1, <2>3 DEF At, Creating
  <1>11. WindowsSeeded'
    BY <1>2, <1>5, <1>10 DEF WindowsSeeded
  <1> QED BY <1>7, <1>9, <1>11 DEF SeedInv

LEMMA SeedSession ==
  ASSUME WTypeOK, SeedInv, NEW p \in Procs, Session(p)
  PROVE  SeedInv'
  <1>1. PICK i \in Ids, on \in Platforms : At(p, i) /\ job[p].on = on
    BY JobIs DEF At, Session
  <1>2. /\ job[p].pc = "session" /\ Over(p) /\ UNCHANGED <<at, seeded, crossed, cut, unseeded>>
        /\ opened' \subseteq opened \cup {<<on, i>>}
    BY <1>1, EndsIs DEF Session, past, At
  <1>3. Fresh(on, i) => <<on, i>> \in seeded
    BY <1>1, <1>2 DEF SeedInv, SownSeeded, Sown
  <1>4. SeededWhenOpened'
    <2>1. \A d \in Platforms, x \in Ids :
            <<d, x>> \in opened' /\ Fresh(d, x) => <<d, x>> \in seeded
      BY <1>2, <1>3, OpenedSeeded DEF SeedInv
    <2> QED BY <1>2, <2>1 DEF SeededWhenOpened, Fresh
  <1>5. SownSeeded'
    BY <1>2 DEF SeedInv, SownSeeded, Sown, At, Over, Fresh
  <1>6. ASSUME NEW x \in Ids, Fresh(Windows, x), at[Windows][x] # "none", <<Windows, x>> \notin seeded
        PROVE  \E q \in Procs : At(q, x)' /\ Creating(q)'
    <2>1. PICK q \in Procs : At(q, x) /\ Creating(q)
      BY <1>6 DEF SeedInv, WindowsSeeded
    <2>2. job'[q] = job[q]
      BY <1>2, <2>1 DEF Over, Creating
    <2> QED BY <2>1, <2>2 DEF At, Creating
  <1>7. WindowsSeeded'
    BY <1>2, <1>6 DEF WindowsSeeded, Fresh
  <1> QED BY <1>4, <1>5, <1>7 DEF SeedInv

LEMMA SeedRemoved ==
  ASSUME WTypeOK, Sole, SeedInv, NEW p \in Procs, Delete(p) \/ DeleteWsl(p)
  PROVE  SeedInv'
  <1>1. PICK i \in Ids : At(p, i)
    BY JobIs DEF At, Delete, DeleteWsl
  <1>2. \E d, place : Gone(i, d, place)
    BY <1>1 DEF Delete, DeleteWsl, At
  <1>3. PICK d, place : Gone(i, d, place)
    BY <1>2
  <1>4. /\ job[p].pc = "remove" /\ Stays(p) /\ job'[p].pc \in {"forget", "load"}
        /\ UNCHANGED <<crossed, cut, unseeded>>
    <2>1. CASE Delete(p)
      BY <2>1, GoesIs DEF Delete, past, Steps
    <2>2. CASE DeleteWsl(p)
      BY <2>2, DeleteWslIs
    <2> QED BY <2>1, <2>2
  <1>5. \/ UNCHANGED <<at, seeded, opened>>
        \/ /\ at' = [at EXCEPT ![d][i] = "none"]
           /\ seeded' = seeded \ {<<d, i>>} /\ opened' = opened \ {<<d, i>>}
    BY <1>3 DEF Gone
  <1>6. \A on \in Platforms, x \in Ids :
          <<on, x>> \in seeded /\ <<on, x>> \notin seeded' =>
            /\ x = i /\ on = d /\ <<on, x>> \notin opened'
            /\ at'[on][x] = "none"
    BY <1>5 DEF WTypeOK, PlacesOK
  <1>7. opened' \subseteq opened /\ \A x \in Ids : at'[Windows][x] # "none" => at[Windows][x] # "none"
    BY <1>5 DEF WTypeOK, PlacesOK, Platforms
  <1>8. \A on, x : Fresh(on, x)' <=> Fresh(on, x)
    BY <1>4 DEF Fresh
  <1>9. SeededWhenOpened'
    <2>1. \A on \in Platforms, x \in Ids :
            <<on, x>> \in opened' /\ Fresh(on, x) => <<on, x>> \in seeded'
      BY <1>6, <1>7, OpenedSeeded DEF SeedInv
    <2> QED BY <1>4, <2>1 DEF SeededWhenOpened, Fresh
  <1>10. ASSUME NEW q \in Procs, NEW on \in Platforms, NEW x \in Ids,
                At(q, x)', job'[q].on = on, Sown(q)', Fresh(on, x)
         PROVE  <<on, x>> \in seeded'
    <2>1. q # p
      BY <1>4, <1>10 DEF Sown
    <2>2. At(q, x) /\ job[q].on = on /\ Sown(q)
      BY <1>4, <1>10, <2>1 DEF At, Sown, Stays
    <2>3. x # i
      BY <1>1, <1>10, <2>1, <2>2 DEF Sole, Fresh
    <2>4. <<on, x>> \in seeded
      BY <1>10, <2>2 DEF SeedInv, SownSeeded
    <2> QED BY <1>6, <2>3, <2>4
  <1>11. SownSeeded'
    BY <1>8, <1>10 DEF SownSeeded
  <1>12. ASSUME NEW x \in Ids, Fresh(Windows, x), at'[Windows][x] # "none", <<Windows, x>> \notin seeded'
         PROVE  \E q \in Procs : At(q, x)' /\ Creating(q)'
    <2>1. <<Windows, x>> \notin seeded
      BY <1>6, <1>12 DEF Platforms
    <2>2. PICK q \in Procs : At(q, x) /\ Creating(q)
      BY <1>7, <1>12, <2>1 DEF SeedInv, WindowsSeeded
    <2>3. job'[q] = job[q]
      BY <1>4, <2>2 DEF Stays, Creating
    <2> QED BY <2>2, <2>3 DEF At, Creating
  <1>13. WindowsSeeded'
    BY <1>8, <1>12 DEF WindowsSeeded
  <1> QED BY <1>9, <1>11, <1>13 DEF SeedInv

(* The commands that start, and the steps that end or go on without seeding. *)
LEMMA SeedStarts ==
  ASSUME WTypeOK, SeedInv, NEW p \in Procs, NEW i \in Ids,
         (\E on \in Platforms : Open(p, i, on)) \/ Archive(p, i) \/ Remove(p, i)
  PROVE  SeedInv'
  <1>1. PICK on \in Platforms, pc \in {"checkout", "reopen", "move", "remove"} : Starts(p, i, on, pc)
    <2>1. \E on \in Platforms, pc \in {"checkout", "reopen", "move", "remove"} : Starts(p, i, on, pc)
      <3>1. reg[i] # NoEntry => reg[i].distro \in Platforms
        BY DEF WTypeOK, PlacesOK, Entry, Platforms
      <3>2. Windows \in Platforms
        BY DEF Platforms
      <3> QED BY <3>1, <3>2 DEF Open, Archive, Remove
    <2> QED BY <2>1
  <1>2. pc \in Steps
    BY DEF Steps
  <1>3. /\ job[p] = NoJob /\ job'[p].pc = pc /\ \A q \in Procs \ {p} : job'[q] = job[q]
        /\ UNCHANGED <<at, seeded, opened, cut, unseeded>> /\ crossed \subseteq crossed'
    BY <1>1, <1>2, StartsIs
  <1> QED BY <1>3, SeedQuiet DEF Sown

LEMMA SeedChecked ==
  ASSUME WTypeOK, SeedInv, NEW p \in Procs, Reopen(p) \/ AddWorktree(p) \/ MoveWsl(p)
  PROVE  SeedInv'
  <1>1. /\ job[p] # NoJob /\ job[p].pc \in {"reopen", "add", "move"}
        /\ UNCHANGED <<seeded, opened, crossed, cut, unseeded>>
        /\ Over(p) \/ (Stays(p) /\ job'[p].pc \in {"load", "allowed"})
    BY ReopenIs, AddIs, MoveWslIs
  <1>2. PICK i \in Ids : i = job[p].id
    BY <1>1, JobIs
  <1>3. UNCHANGED at \/ \E on \in Distros, place \in Places : at' = [at EXCEPT ![on][i] = place]
    <2>1. CASE Reopen(p)
      <3>1. reg[i] # NoEntry => reg[i].distro \in Distros
        BY DEF WTypeOK, PlacesOK, Entry
      <3> QED BY <1>2, <2>1, <3>1, ReopenIs DEF Checked, Places
    <2>2. CASE AddWorktree(p)
      BY <1>2, <2>2, AddIs DEF Checked, Places
    <2>3. CASE MoveWsl(p)
      BY <1>2, <2>3, MoveWslIs DEF Places
    <2> QED BY <2>1, <2>2, <2>3
  <1>4. \A x \in Ids : at'[Windows][x] = at[Windows][x]
    BY <1>3, WAssumption DEF WTypeOK, PlacesOK, Platforms
  <1> QED BY <1>1, <1>4, SeedQuiet DEF Over, Stays, Sown, Creating

LEMMA SeedGoes ==
  ASSUME WTypeOK, SeedInv, NEW p \in Procs,
         Allowed(p) \/ Load(p) \/ Save(p) \/ Move(p) \/ Unmirror(p) \/ Forget(p) \/ Fails(p)
  PROVE  SeedInv'
  <1>1. /\ job[p] # NoJob /\ (job[p].pc # "seed" \/ job[p].id \in unseeded')
        /\ UNCHANGED <<seeded, opened, crossed, cut>> /\ unseeded \subseteq unseeded'
    BY DEF Allowed, Load, Save, Move, Unmirror, Forget, Fails, world, past
  <1>2. \/ Over(p)
        \/ /\ Stays(p) /\ job'[p].pc \in {"add", "save", "allowed", "seed", "unmirror", "forget"}
           /\ job'[p].pc = "seed" => job'[p].on # Windows
    <2>1. CASE Ends(p)
      BY <2>1, EndsIs
    <2>2. CASE Allowed(p) /\ Goes(p, "add")
      BY <1>1, <2>2, GoesIs DEF Steps
    <2>3. CASE Load(p)
      BY <2>3, LoadIs
    <2>4. CASE Save(p)
      <3>1. Fits(job[p]) /\ job[p].pc = "save" /\ Stays(p) /\ job'[p].pc = job[p].next
        BY <2>4, SaveIs, FitsIs
      <3>2. job[p].next \in {"allowed", "seed", "unmirror", "forget"}
        BY <1>1, <3>1, JobIs DEF Fits
      <3>3. job[p].next = "seed" => job'[p].on # Windows
        BY <3>1, WAssumption DEF Fits, Stays
      <3> QED BY <3>1, <3>2, <3>3
    <2> QED BY <2>1, <2>2, <2>3, <2>4 DEF Allowed, Move, Unmirror, Forget, Fails
  <1>3. \A x \in Ids : at'[Windows][x] # "none" => at[Windows][x] # "none"
    <2>1. UNCHANGED at \/ (at[Windows][job[p].id] = "active" /\ at' = [at EXCEPT ![Windows][job[p].id] = "archived"])
      BY DEF Allowed, Load, Save, Move, Unmirror, Forget, Fails, world
    <2> QED BY <2>1 DEF WTypeOK, PlacesOK, Platforms
  <1> QED BY <1>1, <1>2, <1>3, SeedQuiet DEF Over, Stays, Sown, Creating

LEMMA SeedKill ==
  ASSUME WTypeOK, SeedInv, NEW p \in Procs, Kill(p)
  PROVE  SeedInv'
  <1>1. /\ job[p] # NoJob /\ Over(p) /\ UNCHANGED <<at, seeded, opened, crossed, unseeded>>
        /\ cut' = cut \cup {job[p].id}
    BY EndsIs DEF Kill, world
  <1> QED BY <1>1, SeedQuiet DEF Over

LEMMA SeedSame ==
  ASSUME SeedInv, UNCHANGED <<at, job, seeded, opened, cut, unseeded, crossed>>
  PROVE  SeedInv'
  BY DEF SeedInv, SeededWhenOpened, SownSeeded, WindowsSeeded, Fresh, Sown, At, Creating

LEMMA SeedStep == WTypeOK /\ PlaceInv /\ SeedInv /\ [WNext]_wvars => SeedInv'
  <1> SUFFICES ASSUME WTypeOK, PlaceInv, SeedInv, [WNext]_wvars PROVE SeedInv'
    OBVIOUS
  <1>1. Sole
    BY DEF PlaceInv
  <1>2. CASE UNCHANGED wvars
    BY <1>2, SeedSame DEF wvars
  <1>3. ASSUME NEW p \in Procs, NEW i \in Ids, NEW carried \in BOOLEAN, Switch(p, i, carried)
        PROVE  SeedInv'
    BY <1>3, SeedSame DEF Switch, past
  <1>5. Garbled => SeedInv'
    BY SeedSame, GarbledIs
  <1>4. CASE WNext
    BY <1>1, <1>3, <1>4, <1>5, SeedStarts, SeedCheckout, SeedChecked, SeedGoes, SeedSeed, SeedSession,
       SeedRemoved, SeedKill DEF WNext
  <1> QED BY <1>2, <1>4

LEMMA SeedInit == WInit => SeedInv
  BY DEF WInit, SeedInv, SeededWhenOpened, SownSeeded, WindowsSeeded, At, Platforms

-----------------------------------------------------------------------------
(***************************************************************************)
(* What a worktree leaves behind.  Until a command that removed the        *)
(* checkout has forgotten it, `.wtd/state` may speak of a worktree that is *)
(* nowhere; a checkout that comes after that finds nothing of it.          *)
(***************************************************************************)
Nowhere(i) == \A p \in Platforms : at[p][i] = "none"

Forgets(p) == job[p].pc = "forget" \/ (Writing(p) /\ job[p].next = "forget")

Forgetting(i) == \E p \in Procs : At(p, i) /\ Forgets(p)

Clean(i) == \A k \in Forgotten :
              /\ left[i][k] \in {0, gen[i]}
              /\ Nowhere(i) /\ ~Forgetting(i) => left[i][k] = 0

LeftInv == \A i \in Ids : ~Excused(i) /\ i \notin twin => Clean(i)

LEMMA OtherClean ==
  ASSUME NEW i \in Ids, Clean(i), left'[i] = left[i], gen'[i] = gen[i],
         \A d \in Platforms : at'[d][i] = at[d][i],
         \A p \in Procs : job'[p] = job[p] \/ (~At(p, i) /\ ~At(p, i)')
  PROVE  Clean(i)'
  <1>1. Nowhere(i)' <=> Nowhere(i)
    BY DEF Nowhere
  <1>2. Forgetting(i)' <=> Forgetting(i)
    BY DEF Forgetting, At, Forgets, Writing
  <1> QED BY <1>1, <1>2 DEF Clean

LEMMA LeftActs ==
  ASSUME WTypeOK, PlaceInv, LeftInv, NEW p \in Procs, NEW i \in Ids, At(p, i),
         Stays(p) \/ Over(p),
         crossed' = crossed, lost \subseteq lost', cut \subseteq cut', twin \subseteq twin',
         \A x \in Ids \ {i} : /\ left'[x] = left[x] /\ gen'[x] = gen[x]
                              /\ \A d \in Platforms : at'[d][x] = at[d][x],
         ~Excused(i)' /\ i \notin twin' /\ Clean(i) /\ Sits(p)
           /\ (\A q \in Procs : At(q, i) => q = p) => Clean(i)'
  PROVE  LeftInv'
  <1>1. ASSUME NEW x \in Ids, ~Excused(x)', x \notin twin' PROVE Clean(x)'
    <2>1. ~Excused(x) /\ x \notin twin /\ Clean(x)
      BY <1>1 DEF Excused, LeftInv
    <2>2. CASE x = i
      <3>1. Sits(p)
        BY <2>1, <2>2 DEF PlaceInv, OnRecord
      <3>2. \A q \in Procs : At(q, i) => q = p
        BY <2>1, <2>2 DEF PlaceInv, Sole, Excused
      <3> QED BY <1>1, <2>1, <2>2, <3>1, <3>2
    <2>3. CASE x # i
      <3>1. \A q \in Procs : job'[q] = job[q] \/ (~At(q, x) /\ ~At(q, x)')
        BY <2>3 DEF At, Stays, Over
      <3> QED BY <2>1, <2>3, <3>1, OtherClean
    <2> QED BY <2>2, <2>3
  <1> QED BY <1>1 DEF LeftInv

(* A checkout: of a worktree that was nowhere, nothing was left. *)
LEMMA CheckedClean ==
  ASSUME WTypeOK, NEW p \in Procs, NEW i \in Ids, NEW on \in Platforms, NEW new \in BOOLEAN,
         At(p, i), ~Forgets(p), \A q \in Procs : At(q, i) => q = p,
         Checked(i, on, new), new => at[on][i] = "none", UNCHANGED left, Clean(i), i \notin twin'
  PROVE  Clean(i)'
  <1>1. at'[on][i] = "active"
    BY DEF Checked, WTypeOK, PlacesOK
  <1>2. ~Nowhere(i)'
    BY <1>1 DEF Nowhere
  <1>3. CASE new
    <2>1. Nowhere(i)
      BY <1>3 DEF Checked, Nowhere
    <2>2. ~Forgetting(i)
      BY DEF Forgetting
    <2> QED BY <1>2, <2>1, <2>2 DEF Clean
  <1>4. CASE ~new
    BY <1>2, <1>4 DEF Checked, Clean
  <1> QED BY <1>3, <1>4

LEMMA CheckedOthers ==
  ASSUME WTypeOK, NEW i \in Ids, NEW on \in Platforms, NEW new \in BOOLEAN, Checked(i, on, new)
  PROVE  /\ twin \subseteq twin'
         /\ \A x \in Ids \ {i} : gen'[x] = gen[x] /\ \A d \in Platforms : at'[d][x] = at[d][x]
  BY DEF Checked, WTypeOK, PlacesOK, StateOK

(* What is written of a checkout that exists. *)
LEMMA TouchedClean ==
  ASSUME WTypeOK, NEW i \in Ids, Touches(i), Clean(i),
         (\E d \in Platforms : at'[d][i] # "none") \/ (\A k \in Forgotten : left'[i][k] = 0)
  PROVE  Clean(i)'
  <1>1. \A k \in Forgotten : left'[i][k] \in {0, gen'[i]}
    BY DEF Clean, Touches, Kinds
  <1> QED BY <1>1 DEF Clean, Nowhere

LEMMA LeftCheckout ==
  ASSUME WTypeOK, PlaceInv, LeftInv, NEW p \in Procs, Checkout(p) \/ AddWorktree(p) \/ Reopen(p)
  PROVE  LeftInv'
  <1>1. /\ job[p] # NoJob /\ job[p].pc \in {"checkout", "add", "reopen"}
        /\ UNCHANGED <<reg, left, lost, cut, unseeded, crossed>>
        /\ Stays(p) \/ Over(p)
    BY CheckoutIs, AddIs, ReopenIs
  <1>2. PICK i \in Ids : At(p, i)
    BY <1>1, JobIs DEF At
  <1>3. job[p].id = i /\ ~Forgets(p)
    BY <1>1, <1>2 DEF At, Forgets, Writing
  <1>4. \/ \E on \in Platforms, new \in BOOLEAN : Checked(i, on, new) /\ (new => at[on][i] = "none")
        \/ UNCHANGED <<at, gen, twin>> /\ (Over(p) \/ (Stays(p) /\ job'[p].pc = "allowed"))
    <2>1. CASE Checkout(p)
      BY <1>3, <2>1, CheckoutIs DEF Platforms
    <2>2. CASE AddWorktree(p)
      BY <1>3, <2>2, AddIs DEF Platforms
    <2>3. CASE Reopen(p)
      <3>1. reg[i] # NoEntry => reg[i].distro \in Platforms
        BY DEF WTypeOK, PlacesOK, Entry, Platforms
      <3> QED BY <1>3, <2>3, <3>1, ReopenIs
    <2> QED BY <1>1, <2>1, <2>2, <2>3
  <1>5. CASE UNCHANGED <<at, gen, twin>>
    <2>1. ASSUME Clean(i), \A q \in Procs : At(q, i) => q = p PROVE Clean(i)'
      <3>1. ~Forgetting(i)
        BY <1>3, <2>1 DEF Forgetting
      <3> QED BY <1>1, <1>5, <2>1, <3>1 DEF Clean, Nowhere
    <2> QED BY <1>1, <1>2, <1>5, <2>1, LeftActs
  <1>6. CASE \E on \in Platforms, new \in BOOLEAN : Checked(i, on, new) /\ (new => at[on][i] = "none")
    <2>1. PICK on \in Platforms, new \in BOOLEAN : Checked(i, on, new) /\ (new => at[on][i] = "none")
      BY <1>6
    <2>2. /\ twin \subseteq twin'
          /\ \A x \in Ids \ {i} : gen'[x] = gen[x] /\ \A d \in Platforms : at'[d][x] = at[d][x]
      BY <2>1, CheckedOthers
    <2>3. ASSUME Clean(i), i \notin twin', \A q \in Procs : At(q, i) => q = p PROVE Clean(i)'
      BY <1>1, <1>2, <1>3, <2>1, <2>3, CheckedClean
    <2> QED BY <1>1, <1>2, <2>2, <2>3, LeftActs
  <1> QED BY <1>4, <1>5, <1>6

(* The commands that write of a checkout, and the one that forgets. *)
LEMMA LeftTouches ==
  ASSUME WTypeOK, PlaceInv, LeftInv, NEW p \in Procs,
         Seed(p) \/ SeedWsl(p) \/ Session(p) \/ Move(p) \/ Unmirror(p) \/ Forget(p)
  PROVE  LeftInv'
  <1>1. /\ job[p] # NoJob /\ ~Writing(p) /\ UNCHANGED <<lost, cut, unseeded, crossed, twin, gen>>
    BY DEF Seed, SeedWsl, Session, Move, Unmirror, Forget, Writing, past
  <1>2. PICK i \in Ids : At(p, i)
    BY <1>1, JobIs DEF At
  <1>3. job[p].id = i /\ job[p].on \in Platforms /\ Windows \in Platforms
    BY <1>1, <1>2, JobIs DEF At, Platforms
  <1>4. Stays(p) \/ Over(p)
    <2>1. Ends(p) \/ Goes(p, "session")
      BY DEF Seed, SeedWsl, Session, Move, Unmirror, Forget
    <2>2. Goes(p, "session") => Stays(p)
      BY <1>1, GoesIs DEF Steps
    <2> QED BY <2>1, <2>2, EndsIs
  <1>5. Touches(i)
    BY <1>1, <1>3, SeedTouches, SessionTouches, MoveTouches, ForgetTouches DEF Seed, SeedWsl
  <1>6. UNCHANGED at \/ at' = [at EXCEPT ![Windows][i] = "archived"]
    BY <1>3 DEF Seed, SeedWsl, Session, Move, Unmirror, Forget
  <1>7. \A x \in Ids \ {i} : /\ left'[x] = left[x] /\ gen'[x] = gen[x]
                             /\ \A d \in Platforms : at'[d][x] = at[d][x]
    BY <1>1, <1>5, <1>6 DEF Touches, WTypeOK, PlacesOK
  <1>8. ASSUME Clean(i), Sits(p) PROVE Clean(i)'
    <2>1. CASE Forget(p)
      BY <1>3, <1>5, <1>8, <2>1, ForgetTouches, TouchedClean
    <2>2. CASE ~Forget(p)
      <3>1. Ready(p) /\ job[p].pc \in {"seed", "session", "move", "unmirror"}
        BY <1>1, <1>8, <2>2 DEF Sits, Seed, SeedWsl, Session, Move, Unmirror
      <3>2. at[job[p].on][i] # "none"
        BY <1>3, <3>1 DEF Ready
      <3>3. \E d \in Platforms : at'[d][i] # "none"
        BY <1>3, <1>6, <3>2 DEF WTypeOK, PlacesOK
      <3> QED BY <1>5, <1>8, <3>3, TouchedClean
    <2> QED BY <2>1, <2>2
  <1> QED BY <1>1, <1>2, <1>4, <1>7, <1>8, LeftActs

(* The other steps change what is there only on the way to forgetting it. *)
LEMMA LeftRest ==
  ASSUME WTypeOK, PlaceInv, LeftInv, NEW p \in Procs,
         \/ Allowed(p) \/ Load(p) \/ Save(p) \/ MoveWsl(p) \/ Delete(p) \/ DeleteWsl(p)
         \/ Fails(p) \/ Kill(p)
  PROVE  LeftInv'
  <1>1. /\ job[p] # NoJob /\ UNCHANGED <<left, gen, crossed, twin>>
        /\ lost \subseteq lost' /\ cut \subseteq cut'
    BY DEF Allowed, Load, Save, MoveWsl, Delete, DeleteWsl, Fails, Kill, world, past
  <1>2. PICK i \in Ids : At(p, i)
    BY <1>1, JobIs DEF At
  <1>3. job[p].id = i
    BY <1>2 DEF At
  <1>4. \A x \in Ids \ {i}, d \in Platforms : at'[d][x] = at[d][x]
    <2>1. \/ UNCHANGED at
          \/ \E on, place : at' = [at EXCEPT ![on][i] = place]
      BY <1>3 DEF Allowed, Load, Save, MoveWsl, Delete, DeleteWsl, Gone, Fails, Kill, world
    <2> QED BY <2>1 DEF WTypeOK, PlacesOK
  <1>5. /\ Stays(p) \/ Over(p)
        /\ \/ Stays(p) /\ Forgets(p)'
           \/ UNCHANGED at /\ (Forgets(p) => i \in cut')
           \/ \E on \in Platforms : at'[on][i] # "none"
    <2>1. CASE Ends(p) /\ (Allowed(p) \/ Fails(p) \/ Kill(p))
      <3>1. UNCHANGED at /\ (Forgets(p) => i \in cut')
        BY <1>3, <2>1 DEF Allowed, Fails, Kill, Forgets, Writing, world
      <3> QED BY <2>1, <3>1, EndsIs
    <2>2. CASE Allowed(p) /\ Goes(p, "add")
      <3>1. UNCHANGED at /\ ~Forgets(p)
        BY <2>2 DEF Allowed, Forgets, Writing, world
      <3> QED BY <1>1, <2>2, <3>1, GoesIs DEF Steps
    <2>3. CASE Load(p)
      <3>1. Stays(p) /\ UNCHANGED at /\ (Forgets(p) => Forgets(p)')
        BY <2>3, LoadIs DEF Forgets, Writing, world
      <3> QED BY <3>1
    <2>4. CASE Save(p)
      <3>1. Stays(p) /\ UNCHANGED at /\ (Forgets(p) => Forgets(p)')
        BY <2>4, SaveIs DEF Forgets, Writing
      <3> QED BY <3>1
    <2>5. CASE MoveWsl(p)
      <3>1. job[p].pc = "move" /\ job[p].on \in Platforms
        BY <2>5, MoveWslIs DEF Platforms
      <3>2. CASE Over(p) /\ UNCHANGED at
        BY <3>1, <3>2 DEF Forgets, Writing
      <3>3. CASE Stays(p) /\ at' = [at EXCEPT ![job[p].on][i] = "archived"]
        BY <3>1, <3>3 DEF WTypeOK, PlacesOK
      <3> QED BY <1>3, <2>5, <3>2, <3>3, MoveWslIs
    <2>6. CASE Delete(p)
      BY <1>1, <2>6, GoesIs DEF Delete, Forgets, Steps
    <2>7. CASE DeleteWsl(p)
      BY <2>7, DeleteWslIs DEF Forgets, Writing
    <2> QED BY <2>1, <2>2, <2>3, <2>4, <2>5, <2>6, <2>7 DEF Allowed, Fails, Kill
  <1>6. ASSUME Clean(i), ~Excused(i)', \A q \in Procs : At(q, i) => q = p PROVE Clean(i)'
    <2>1. CASE Stays(p) /\ Forgets(p)'
      <3>1. Forgetting(i)'
        BY <1>3, <2>1 DEF Forgetting, At, Stays
      <3> QED BY <1>1, <1>6, <3>1 DEF Clean
    <2>2. CASE UNCHANGED at /\ (Forgets(p) => i \in cut')
      <3>1. ~Forgetting(i)
        BY <1>6, <2>2 DEF Forgetting, Excused
      <3> QED BY <1>1, <1>6, <2>2, <3>1 DEF Clean, Nowhere
    <2>3. CASE \E on \in Platforms : at'[on][i] # "none"
      BY <1>1, <1>6, <2>3 DEF Clean, Nowhere
    <2> QED BY <1>5, <2>1, <2>2, <2>3
  <1> QED BY <1>1, <1>2, <1>4, <1>5, <1>6, LeftActs

LEMMA LeftStarts ==
  ASSUME WTypeOK, LeftInv, NEW p \in Procs, NEW i \in Ids,
         (\E on \in Platforms : Open(p, i, on)) \/ Archive(p, i) \/ Remove(p, i)
  PROVE  LeftInv'
  <1>1. \E on \in Platforms, pc \in Steps \ {"load", "save"} : Starts(p, i, on, pc)
    BY CommandsType
  <1>2. PICK on \in Platforms, pc \in Steps : Starts(p, i, on, pc)
    BY <1>1
  <1>3. /\ job[p] = NoJob /\ job'[p].id = i /\ \A q \in Procs \ {p} : job'[q] = job[q]
        /\ UNCHANGED <<at, left, gen, lost, cut, twin>>
        /\ crossed' = IF Working(i) THEN crossed \cup {i} ELSE crossed
    BY <1>2, StartsIs
  <1>4. ASSUME NEW x \in Ids, ~Excused(x)', x \notin twin' PROVE Clean(x)'
    <2>1. Clean(x)
      BY <1>3, <1>4 DEF LeftInv, Excused
    <2>2. CASE x = i
      <3>1. ~Forgetting(i)
        BY <1>3, <1>4, <2>2 DEF Forgetting, Working, At, Excused
      <3> QED BY <1>3, <2>1, <2>2, <3>1 DEF Clean, Nowhere
    <2>3. CASE x # i
      <3>1. \A q \in Procs : job'[q] = job[q] \/ (~At(q, x) /\ ~At(q, x)')
        BY <1>3, <2>3 DEF At
      <3> QED BY <1>3, <2>1, <3>1, OtherClean
    <2> QED BY <2>2, <2>3
  <1> QED BY <1>4 DEF LeftInv

LEMMA LeftSwitch ==
  ASSUME WTypeOK, LeftInv, NEW p \in Procs, NEW i \in Ids, NEW carried \in BOOLEAN,
         Switch(p, i, carried)
  PROVE  LeftInv'
  <1>1. /\ UNCHANGED <<at, job, gen, lost, cut, unseeded, crossed, twin>>
        /\ \E on \in Platforms : at[on][i] = "active"
    BY DEF Switch, past
  <1>2. Touches(i)
    BY SwitchTouches
  <1>3. ASSUME NEW x \in Ids, ~Excused(x)', x \notin twin' PROVE Clean(x)'
    <2>1. Clean(x)
      BY <1>1, <1>3 DEF LeftInv, Excused
    <2>2. CASE x = i
      BY <1>1, <1>2, <2>1, <2>2, TouchedClean
    <2>3. CASE x # i
      <3>1. left'[x] = left[x]
        BY <1>2, <2>3 DEF Touches
      <3> QED BY <1>1, <2>1, <3>1, OtherClean
    <2> QED BY <2>2, <2>3
  <1> QED BY <1>3 DEF LeftInv

LEMMA LeftStep == WTypeOK /\ PlaceInv /\ LeftInv /\ [WNext]_wvars => LeftInv'
  <1> SUFFICES ASSUME WTypeOK, PlaceInv, LeftInv, [WNext]_wvars PROVE LeftInv'
    OBVIOUS
  <1>1. CASE UNCHANGED wvars
    <2>1. UNCHANGED <<at, left, gen, job, lost, cut, unseeded, crossed, twin>>
      BY <1>1 DEF wvars
    <2> QED BY <2>1, OtherClean DEF LeftInv, Excused
  <1>2. ASSUME Garbled PROVE LeftInv'
    <2>1. /\ UNCHANGED <<at, left, gen, job, crossed, twin>>
          /\ \A x : Excused(x) => Excused(x)'
      BY <1>2, GarbledIs DEF Excused
    <2> QED BY <2>1, OtherClean DEF LeftInv
  <1>3. CASE WNext
    BY <1>2, <1>3, LeftStarts, LeftSwitch, LeftCheckout, LeftTouches, LeftRest DEF WNext
  <1> QED BY <1>1, <1>3

LEMMA LeftInit == WInit => LeftInv
  BY DEF WInit, LeftInv, Clean, Kinds

(* The inductive invariant. *)
IInv == WTypeOK /\ PlaceInv /\ SeedInv /\ LeftInv

LEMMA Inductive == WSpec => []IInv
  <1>1. WInit => IInv
    BY TypeInit, PlaceInit, SeedInit, LeftInit DEF IInv
  <1>2. IInv /\ [WNext]_wvars => IInv'
    BY TypeStep, PlaceStep, SeedStep, LeftStep DEF IInv
  <1> QED BY <1>1, <1>2, PTL DEF WSpec

(* Whatever the order of commands, one branch has one active checkout, the   *)
(* registry of WSL worktrees names what is there, a session starts in a      *)
(* checkout that has its CLAUDE.md, and a worktree inherits nothing of an    *)
(* earlier one of its name (platforms.rs, wsl_backend/mod.rs, wt.rs), for    *)
(* every id that no two commands worked on at once, no command was killed on *)
(* and whose entry was not lost with the registry or by another's save; in   *)
(* WSL the next launch seeds what a killed or failed one did not.            *)
THEOREM CheckoutsAreTrue == WSpec => []CheckoutsTrue
  <1>1. IInv => CheckoutsTrue
    <2> SUFFICES ASSUME IInv PROVE CheckoutsTrue
      OBVIOUS
    <2>1. OneActive /\ Registered
      BY PlaceRegisters DEF IInv
    <2>2. \A i \in Ids : ~Working(i) => ~Forgetting(i)
      BY DEF Working, Forgetting, At
    <2>3. NotInherited
      BY <2>2 DEF IInv, LeftInv, Clean, NotInherited, Nowhere
    <2> QED BY <2>1, <2>3 DEF IInv, SeedInv, CheckoutsTrue
  <1> QED BY <1>1, Inductive, PTL

(* Reopening a worktree goes on with its conversation (agent.rs:246): the    *)
(* recorded id of an active worktree is the one it was, and no other has     *)
(* been begun, unless a Claude session takes a waiting brief and begins one; *)
(* a Codex session that takes the brief leaves it.  Only a command that      *)
(* found the worktree gone forgets it.                                       *)
THEOREM ConversationIsKept == WSpec => ConversationKept
  <1> DEFINE Kept == \A i \in Ids :
                       (/\ ~Excused(i) /\ i \notin twin
                        /\ \E p \in Platforms : at[p][i] = "active"
                        /\ left[i].conversation # 0)
                       => \/ left'[i].conversation = left[i].conversation /\ minted'[i] = minted[i]
                          \/ Begins(i) /\ left'[i].conversation = gen[i]
  <1>1. IInv /\ [WNext]_wvars => [Kept]_wvars
    <2> SUFFICES ASSUME IInv, WNext,
                        NEW i \in Ids, ~Excused(i), \E p \in Platforms : at[p][i] = "active",
                        left[i].conversation # 0
                 PROVE  Keeps(i) \/ BeginsAnew(i)
      BY DEF Keeps, BeginsAnew
    <2>1. WTypeOK /\ PlaceInv /\ "conversation" \in Kinds \ {"preview", "ticket", "brief", "account", "status"}
      BY KindsAre DEF IInv
    <2>2. ASSUME NEW x \in Ids, Touches(x), x # i, minted'[i] = minted[i]
          PROVE  Keeps(i)
      BY <2>2 DEF Touches, Keeps
    <2>3. ASSUME NEW p \in Procs, NEW x \in Ids, NEW carried \in BOOLEAN, Switch(p, x, carried)
          PROVE  Keeps(i)
      <3>1. Touches(x) /\ left'[x].conversation = left[x].conversation /\ UNCHANGED minted
        BY <2>1, <2>3, SwitchTouches DEF Switch
      <3> QED BY <2>2, <3>1 DEF Keeps
    <2>4. ASSUME NEW p \in Procs, Seed(p) \/ SeedWsl(p) \/ Move(p) \/ Unmirror(p)
          PROVE  Keeps(i)
      <3>1. PICK x \in Ids : x = job[p].id
        BY <2>1, <2>4, JobIs DEF Seed, SeedWsl, Move, Unmirror
      <3>2. Touches(x) /\ left'[x].conversation = left[x].conversation /\ UNCHANGED minted
        BY <2>1, <2>4, <3>1, SeedTouches, MoveTouches DEF Seed, SeedWsl, Move, Unmirror
      <3> QED BY <2>2, <3>2 DEF Keeps
    <2>5. ASSUME NEW p \in Procs, Session(p)
          PROVE  Keeps(i) \/ BeginsAnew(i)
      <3>1. PICK x \in Ids : x = job[p].id
        BY <2>1, <2>5, JobIs DEF Session
      <3>2. /\ Touches(x) /\ (left[x].conversation # 0 => Keeps(x) \/ BeginsAnew(x))
            /\ \A y \in Ids \ {x} : minted'[y] = minted[y]
        BY <2>1, <2>5, <3>1, SessionTouches
      <3> QED BY <2>2, <3>2
    <2>6. ASSUME NEW p \in Procs, Forget(p)
          PROVE  Keeps(i)
      <3>1. PICK x \in Ids : At(p, x) /\ x = job[p].id /\ job[p].pc = "forget"
        BY <2>1, <2>6, JobIs DEF Forget, At
      <3>2. Touches(x) /\ UNCHANGED minted
        BY <2>1, <2>6, <3>1, ForgetTouches DEF Forget
      <3>3. x # i
        <4> SUFFICES ASSUME x = i PROVE FALSE
          OBVIOUS
        <4>1. Sits(p)
          BY <2>1, <3>1 DEF PlaceInv, OnRecord
        <4>2. Rests(i, NoEntry) /\ at[Windows][i] # "active"
          BY <3>1, <4>1 DEF Sits, Writing, Ready
        <4> QED BY <4>2 DEF Rests, Where, Platforms
      <3> QED BY <2>2, <3>2, <3>3
    <2>7. ASSUME UNCHANGED <<left, minted>>
          PROVE  Keeps(i)
      BY <2>7 DEF Keeps
    <2>8. ASSUME NEW p \in Procs, NEW x \in Ids,
                 (\E on \in Platforms : Open(p, x, on)) \/ Archive(p, x) \/ Remove(p, x)
          PROVE  UNCHANGED <<left, minted>>
      BY <2>8 DEF Open, Archive, Remove, Starts, world
    <2>9. ASSUME NEW p \in Procs,
                 \/ Checkout(p) \/ Reopen(p) \/ Allowed(p) \/ AddWorktree(p) \/ Load(p) \/ Save(p)
                 \/ MoveWsl(p) \/ Delete(p) \/ DeleteWsl(p) \/ Fails(p) \/ Kill(p)
          PROVE  UNCHANGED <<left, minted>>
      BY <2>9 DEF Checkout, Reopen, Allowed, AddWorktree, Load, Save, MoveWsl, Delete, DeleteWsl,
                  Fails, Kill, world
    <2>10. Garbled => UNCHANGED <<left, minted>>
      BY DEF Garbled
    <2> QED BY <2>3, <2>4, <2>5, <2>6, <2>7, <2>8, <2>9, <2>10 DEF WNext
  <1> QED BY <1>1, Inductive, PTL DEF WSpec, ConversationKept

-----------------------------------------------------------------------------
(* Presets and proposals                                                     *)

Copying(p) == p \in Applying /\ apply[p].step \in {"copy", "manifest"}

(* A copy in the worktree is listed, or an apply which is under way is to    *)
(* list it, or the one that made it was cut off; or it is the repository's.  *)
ListedInv ==
  \A i \in Items : tree[i] # Absent =>
    i \in tracked \cup manifest \cup orphans \/ \E p \in Appliers : Copying(p) /\ i \in apply[p].now

(* An apply that nothing has disturbed is alone; what it read is so still,   *)
(* what it copied is there, and what it is to drop is gone once it has.      *)
AloneInv ==
  \A p \in Applying \ disturbed :
    /\ Applying = {p}
    /\ apply[p].tracked = tracked
    /\ \A i \in Items : apply[p].from[i] = Source(i)
    /\ apply[p].step \in {"copy", "manifest"} =>
         /\ apply[p].now \subseteq merged_items
         /\ \A i \in apply[p].now : tree[i].copy = Source(i)
    /\ apply[p].step = "copy" =>
         merged_items \ tracked \subseteq apply[p].now \cup apply[p].todo
         /\ apply[p].todo \subseteq merged_items
    /\ apply[p].step = "manifest" =>
         \A i \in manifest \ apply[p].now : i \in tracked \/ tree[i] = Absent
    /\ apply[p].step # "copy" =>
         \A i \in Items \ (tracked \cup orphans) : Given(i)
    /\ apply[p].step = "merge" => apply[p].read = Parsed(claude)

(* A hook of the layers is in the settings only as one of those we merged.   *)
MergedOnly(read) == read.count["preset"] # 0 => "preset" \in read.prev

HooksInv ==
  /\ MergedOnly(claude)
  /\ \A p \in Applying : apply[p].step = "merge" => MergedOnly(apply[p].read)

(* What is about to be written is still proposed, and by one decider alone.  *)
DecidedInv ==
  \A q \in Deciders : decision[q] # None /\ decision[q].id \notin overlap =>
    /\ decision[q].step = "write" => proposal[decision[q].id].state = "pending"
    /\ \A r \in Deciders \ {q} : decision[r] # None => decision[r].id # decision[q].id

LayersOK == has \in [Layers -> SUBSET Items] /\ extra \in BOOLEAN /\ off \subseteq Items

(* Only a skill's folder can hold more than one copy's files.                *)
TreeOK == /\ tree \in [Items -> Copies] /\ \A i \in Items \ Skills : tree[i].rest = {}
          /\ tracked \cup manifest \cup orphans \subseteq Items
          /\ block \in BOOLEAN /\ override \in {"none", "theirs", "ours"}
          /\ claude \in Settings

AppliesOK == /\ apply \in [Appliers -> {None} \cup Applies]
             /\ \A p \in Applying :
                  /\ apply[p].now \cap (apply[p].todo \cup apply[p].tracked) = {}
                  /\ (apply[p].read = None) = (apply[p].step # "merge")

ProposalsOK == /\ proposal \in [Proposals -> {None} \cup Changes]
               /\ decision \in [Deciders -> {None} \cup Decisions]
               /\ \A q \in Deciders : decision[q] # None =>
                    /\ proposal[decision[q].id] # None
                    /\ decision[q].step = "write" => decision[q].accept

CountsOK == /\ changes \in [changes : 0..MaxChanges, cuts : 0..MaxCuts, applies : 0..MaxApplies]
            /\ disturbed \subseteq Appliers /\ overlap \subseteq Proposals

PInv == /\ LayersOK /\ TreeOK /\ AppliesOK /\ ProposalsOK /\ CountsOK
        /\ ListedInv /\ AloneInv /\ HooksInv /\ DecidedInv

LEMMA PInvType == PInv => PresetsTypeOK
  BY DEF PInv, PresetsTypeOK, LayersOK, TreeOK, AppliesOK, ProposalsOK, CountsOK

(* None is none of the things it stands beside.                              *)
LEMMA NoneIs == /\ None \notin Contents /\ None \notin Layers /\ None # "own" /\ None \notin Settings
                /\ None \notin Applies /\ None \notin Changes /\ None \notin Decisions
  BY NoneAssumption DEF Contents

LEMMA ApplyIs ==
  ASSUME PInv, NEW p \in Appliers, apply[p] # None
  PROVE  /\ apply[p] \in Applies /\ p \in Applying
         /\ apply[p].step \in {"copy", "manifest", "texts", "hooks", "merge"}
         /\ apply[p].todo \subseteq Items /\ apply[p].now \subseteq Items
         /\ apply[p].tracked \subseteq Items /\ apply[p].from \in [Items -> Layers]
         /\ apply[p].read \in Settings \cup {None}
         /\ apply[p].now \cap (apply[p].todo \cup apply[p].tracked) = {}
         /\ (apply[p].read = None) = (apply[p].step # "merge")
  <1>1. apply[p] \in Applies /\ p \in Applying
    BY DEF PInv, AppliesOK, Applying
  <1>2. /\ apply[p].now \cap (apply[p].todo \cup apply[p].tracked) = {}
        /\ (apply[p].read = None) = (apply[p].step # "merge")
    BY <1>1 DEF PInv, AppliesOK
  <1> QED
    BY <1>1, <1>2 DEF Applies

LEMMA SourceIs ==
  ASSUME PInv, NEW i \in Items
  PROVE  Source(i) \in Layers
  BY DEF Source, Layers

(* What stands at an item's place.                                           *)
LEMMA CopyIs ==
  ASSUME PInv, NEW i \in Items
  PROVE  /\ tree[i] \in Copies /\ tree[i].copy \in Contents \cup {None}
         /\ tree[i].rest \subseteq Contents /\ (i \notin Skills => tree[i].rest = {})
  <1>1. tree[i] \in Copies /\ (i \notin Skills => tree[i].rest = {})
    BY DEF PInv, TreeOK
  <1> QED
    BY <1>1 DEF Copies

(* A copy is there, whole, where it was written.                             *)
LEMMA OverlaidIs ==
  ASSUME PInv, NEW i \in Items, NEW content \in Contents
  PROVE  /\ Overlaid(i, content) \in Copies /\ Overlaid(i, content) # Absent
         /\ Overlaid(i, content).copy = content
         /\ i \notin Skills => Overlaid(i, content).rest = {}
  <1> DEFINE rest == IF i \in Skills THEN (tree[i].rest \cup {tree[i].copy}) \ {content, None} ELSE {}
  <1>1. rest \in SUBSET Contents /\ (i \notin Skills => rest = {})
    BY CopyIs
  <1>2. Overlaid(i, content) = [copy |-> content, rest |-> rest]
    BY DEF Overlaid
  <1>3. content # None
    BY NoneIs
  <1> HIDE DEF rest
  <1> QED
    BY <1>1, <1>2, <1>3 DEF Copies, Absent

(* The copies are where they were, and the repository's as they were.        *)
Relabels ==
  /\ tree' \in [Items -> Copies]
  /\ \A j \in Items : /\ tree[j] = Absent => tree'[j] = Absent
                      /\ tree[j].copy = "own" => tree'[j].copy = "own"
                      /\ tree[j].rest = {} => tree'[j].rest = {}

LEMMA OutdatedIs ==
  ASSUME PInv, NEW l \in Layers, NEW i \in Items, Outdated(l, i)
  PROVE  Relabels
  <1> DEFINE copy == IF tree[i].copy = l THEN "old" ELSE tree[i].copy
  <1> DEFINE rest == {IF c = l THEN "old" ELSE c : c \in tree[i].rest}
  <1>1. /\ tree[i] \in Copies /\ tree[i].copy \in Contents \cup {None}
        /\ tree[i].rest \subseteq Contents /\ tree[i] = [copy |-> tree[i].copy, rest |-> tree[i].rest]
    BY CopyIs DEF Copies
  <1>2. copy \in Contents \cup {None} /\ rest \in SUBSET Contents
    BY <1>1 DEF Contents
  <1>3. /\ tree[i].copy = "own" => copy = "own"
        /\ tree[i].copy = None => copy = None
        /\ tree[i].rest = {} => rest = {}
    BY NoneIs DEF Layers
  <1>4. tree' = [tree EXCEPT ![i] = [copy |-> copy, rest |-> rest]]
    BY DEF Outdated
  <1> HIDE DEF copy, rest
  <1>5. [copy |-> copy, rest |-> rest] \in Copies
    BY <1>2 DEF Copies
  <1>6. tree'[i] = [copy |-> copy, rest |-> rest] /\ \A j \in Items \ {i} : tree'[j] = tree[j]
    BY <1>4 DEF PInv, TreeOK
  <1>7. tree' \in [Items -> Copies]
    BY <1>4, <1>5 DEF PInv, TreeOK
  <1>8. tree[i] = Absent => tree'[i] = Absent
    BY <1>3, <1>6 DEF Absent
  <1>9. tree'[i].copy = copy /\ tree'[i].rest = rest
    BY <1>6
  <1> QED
    BY <1>3, <1>6, <1>7, <1>8, <1>9 DEF Relabels

LEMMA SameCopies ==
  ASSUME PInv, UNCHANGED tree
  PROVE  Relabels
  BY DEF PInv, TreeOK, Relabels

(* So they are still listed.                                                 *)
LEMMA RelabelKeeps ==
  ASSUME PInv, Relabels, UNCHANGED <<tracked, manifest, block, override, claude, apply, orphans>>
  PROVE  TreeOK' /\ ListedInv'
  <1>1. TreeOK'
    BY DEF PInv, TreeOK, Relabels
  <1>2. ListedInv'
    BY DEF PInv, ListedInv, Relabels, Copying, Applying
  <1> QED
    BY <1>1, <1>2

(* What the layers give is there where neither has changed.                  *)
LEMMA GivenStays ==
  ASSUME UNCHANGED <<layervars, tree>>
  PROVE  /\ merged_items' = merged_items /\ \A i \in Items : Source(i)' = Source(i)
         /\ \A i \in Items : Given(i)' <=> Given(i)
  BY DEF merged_items, Source, Given, layervars

(* What a change leaves of the bounds.                                       *)
LEMMA SpendOK ==
  ASSUME PInv, \/ Change
               \/ changes.cuts < MaxCuts /\ Spend("cuts")
  PROVE  changes' \in [changes : 0..MaxChanges, cuts : 0..MaxCuts, applies : 0..MaxApplies]
  <1>1. /\ changes.changes \in 0..MaxChanges /\ changes.cuts \in 0..MaxCuts
        /\ changes.applies \in 0..MaxApplies
        /\ changes = [changes |-> changes.changes, cuts |-> changes.cuts, applies |-> changes.applies]
    BY DEF PInv, CountsOK
  <1>2. CASE Change
    <2>1. changes' = [changes EXCEPT !.changes = @ + 1] /\ changes.changes < MaxChanges
      BY <1>2 DEF Change, Spend
    <2>2. changes' = [changes |-> changes.changes + 1, cuts |-> changes.cuts, applies |-> changes.applies]
      BY <1>1, <2>1
    <2>3. changes.changes + 1 \in 0..MaxChanges
      BY <1>1, <2>1, PresetsAssumption
    <2> QED
      BY <1>1, <2>2, <2>3
  <1>3. CASE changes.cuts < MaxCuts /\ Spend("cuts")
    <2>1. changes' = [changes EXCEPT !.cuts = @ + 1]
      BY <1>3 DEF Spend
    <2>2. changes' = [changes |-> changes.changes, cuts |-> changes.cuts + 1, applies |-> changes.applies]
      BY <1>1, <2>1
    <2>3. changes.cuts + 1 \in 0..MaxCuts
      BY <1>1, <1>3, PresetsAssumption
    <2> QED
      BY <1>1, <2>2, <2>3
  <1> QED
    BY <1>2, <1>3

(* No apply is alone and undisturbed any more.                               *)
LEMMA NoneAlone ==
  ASSUME Disturb, UNCHANGED apply
  PROVE  AloneInv'
  BY DEF Disturb, AloneInv, Applying

(* What an apply of p changes is about p alone.                              *)
LEMMA OnlyP ==
  ASSUME PInv, NEW p \in Applying, NEW q \in Applying', q \notin disturbed', UNCHANGED disturbed,
         \A o \in Appliers \ {p} : apply'[o] = apply[o]
  PROVE  q = p /\ p \notin disturbed /\ Applying = {p} /\ Applying' = {p}
  BY DEF PInv, AloneInv, Applying

-----------------------------------------------------------------------------
(* The changes from without                                                  *)

(* The layers change: no apply that is under way can tell what it leaves.    *)
LEMMA LayersKeep ==
  ASSUME PInv,
         (\E i \in Items : Disable(i) \/ \E l \in Layers : Put(l, i)) \/ ChangeTexts
  PROVE  PInv' /\ UNCHANGED tree
  <1>1. /\ Change /\ Disturb /\ UNCHANGED <<treevars, apply, decisionvars, orphans>>
        /\ LayersOK'
    <2>1. CASE \E i \in Items, l \in Layers : Put(l, i)
      <3>1. PICK i \in Items, l \in Layers : Put(l, i)
        BY <2>1
      <3>2. has[l] \subseteq Items
        BY DEF PInv, LayersOK
      <3> DEFINE new == IF i \in has[l] THEN has[l] \ {i} ELSE has[l] \cup {i}
      <3>3. new \subseteq Items
        BY <3>2
      <3>4. has' = [has EXCEPT ![l] = new]
        BY <3>1 DEF Put
      <3> HIDE DEF new
      <3> QED
        BY <3>1, <3>3, <3>4 DEF Put, PInv, LayersOK
    <2>2. CASE (\E i \in Items : Disable(i)) \/ ChangeTexts
      BY <2>2 DEF Disable, ChangeTexts, PInv, LayersOK
    <2> QED
      BY <2>1, <2>2
  <1>2. TreeOK' /\ AppliesOK' /\ ProposalsOK'
    BY <1>1 DEF PInv, TreeOK, AppliesOK, ProposalsOK, Applying, treevars, decisionvars
  <1>3. CountsOK'
    BY <1>1, SpendOK DEF PInv, CountsOK, Disturb, Applying, decisionvars
  <1>4. ListedInv' /\ HooksInv' /\ DecidedInv'
    BY <1>1 DEF PInv, ListedInv, HooksInv, DecidedInv, MergedOnly, Copying, Applying, treevars, decisionvars
  <1>5. AloneInv'
    BY <1>1, NoneAlone
  <1> QED
    BY <1>1, <1>2, <1>3, <1>4, <1>5 DEF PInv, treevars

LEMMA TrackKeeps ==
  ASSUME PInv, NEW i \in Items, Track(i)
  PROVE  PInv' /\ \A j \in tracked \cap tracked' : tree'[j] = tree[j]
  <1> DEFINE c == IF i \in tracked THEN [copy |-> None, rest |-> tree[i].rest] ELSE Overlaid(i, "own")
  <1>1. /\ Change /\ Disturb /\ tree' = [tree EXCEPT ![i] = c]
        /\ UNCHANGED <<layervars, manifest, block, override, claude, apply, decisionvars>>
        /\ \/ /\ i \in tracked /\ tracked' = tracked \ {i}
              /\ orphans' = IF tree[i].rest = {} THEN orphans \ {i} ELSE orphans \cup {i}
           \/ /\ i \notin tracked /\ tracked' = tracked \cup {i} /\ orphans' = orphans \ {i}
    BY DEF Track
  <1>c. /\ c \in Copies /\ (i \notin Skills => c.rest = {})
        /\ c # Absent => i \notin tracked \/ tree[i].rest # {}
    <2>1. CASE i \in tracked
      BY <2>1, CopyIs DEF Copies, Absent
    <2>2. CASE i \notin tracked
      BY <2>2, OverlaidIs DEF Contents
    <2> QED
      BY <2>1, <2>2
  <1> HIDE DEF c
  <1>t. tree'[i] = c /\ \A j \in Items \ {i} : tree'[j] = tree[j]
    BY <1>1 DEF PInv, TreeOK
  <1>2. TreeOK' /\ \A j \in tracked \cap tracked' : tree'[j] = tree[j]
    <2>1. tree' \in [Items -> Copies] /\ \A j \in Items \ Skills : tree'[j].rest = {}
      BY <1>1, <1>c, <1>t DEF PInv, TreeOK
    <2>2. tracked' \cup manifest' \cup orphans' \subseteq Items
      BY <1>1 DEF PInv, TreeOK
    <2>3. \A j \in tracked \cap tracked' : tree'[j] = tree[j]
      BY <1>1, <1>t DEF PInv, TreeOK
    <2> QED
      BY <1>1, <2>1, <2>2, <2>3 DEF PInv, TreeOK
  <1>3. LayersOK' /\ AppliesOK' /\ ProposalsOK'
    BY <1>1 DEF PInv, LayersOK, AppliesOK, ProposalsOK, Applying, layervars, decisionvars
  <1>4. CountsOK'
    BY <1>1, SpendOK DEF PInv, CountsOK, Disturb, Applying, decisionvars
  <1>5. HooksInv' /\ DecidedInv'
    BY <1>1 DEF PInv, HooksInv, DecidedInv, MergedOnly, Applying, decisionvars
  <1>6. ListedInv'
    <2> SUFFICES ASSUME NEW j \in Items, tree'[j] # Absent
                 PROVE  \/ j \in tracked' \cup manifest' \cup orphans'
                        \/ \E p \in Appliers : Copying(p)' /\ j \in apply'[p].now
      BY DEF ListedInv, Absent
    <2>1. CASE j = i
      BY <1>1, <1>c, <1>t, <2>1
    <2>2. CASE j # i
      <3>1. tree[j] # Absent
        BY <1>t, <2>2
      <3> QED
        BY <1>1, <2>2, <3>1 DEF PInv, ListedInv, Copying, Applying
    <2> QED
      BY <2>1, <2>2
  <1>7. AloneInv'
    BY <1>1, NoneAlone
  <1> QED
    BY <1>2, <1>3, <1>4, <1>5, <1>6, <1>7 DEF PInv

(* A layer's item is edited: what was copied of it is old.                   *)
LEMMA EditKeeps ==
  ASSUME PInv, NEW l \in Layers, NEW i \in Items, Edit(l, i)
  PROVE  PInv' /\ Relabels
  <1>1. /\ Change /\ Disturb /\ Relabels
        /\ UNCHANGED <<layervars, tracked, manifest, block, override, claude, apply,
                       decisionvars, orphans>>
    BY OutdatedIs DEF Edit
  <1>2. TreeOK' /\ ListedInv'
    BY <1>1, RelabelKeeps
  <1>3. LayersOK' /\ AppliesOK' /\ ProposalsOK'
    BY <1>1 DEF PInv, LayersOK, AppliesOK, ProposalsOK, Applying, layervars, decisionvars
  <1>4. CountsOK'
    BY <1>1, SpendOK DEF PInv, CountsOK, Disturb, Applying, decisionvars
  <1>5. HooksInv' /\ DecidedInv'
    BY <1>1 DEF PInv, HooksInv, DecidedInv, MergedOnly, Applying, decisionvars
  <1>6. AloneInv'
    BY <1>1, NoneAlone
  <1> QED
    BY <1>1, <1>2, <1>3, <1>4, <1>5, <1>6 DEF PInv

(* The user edits the settings: ours is in them as it was.                   *)
LEMMA SettingsKeep ==
  ASSUME PInv, AddHook \/ Spoil
  PROVE  PInv' /\ UNCHANGED tree
  <1>1. /\ Change /\ Disturb
        /\ claude' = [claude EXCEPT !.count["mine"] = 1]
           \/ claude' = [claude EXCEPT !.form = IF @ = "json" THEN "other" ELSE "json"]
        /\ UNCHANGED <<layervars, tree, tracked, manifest, block, override, apply, decisionvars, orphans>>
    BY DEF AddHook, Spoil
  <1>2. claude' \in Settings /\ claude'.count["preset"] = claude.count["preset"]
        /\ claude'.prev = claude.prev
    <2> DEFINE c == [claude.count EXCEPT !["mine"] = 1]
    <2> DEFINE f == IF claude.form = "json" THEN "other" ELSE "json"
    <2>1. claude.count \in [Hooks -> Nat] /\ claude.prev \in SUBSET {"preset"}
          /\ claude.form \in {"json", "other"}
          /\ claude = [count |-> claude.count, prev |-> claude.prev, form |-> claude.form]
      BY DEF PInv, TreeOK, Settings
    <2>2. c \in [Hooks -> Nat] /\ c["preset"] = claude.count["preset"] /\ f \in {"json", "other"}
      BY <2>1 DEF Hooks
    <2>3. claude' = [claude EXCEPT !.count = c] \/ claude' = [claude EXCEPT !.form = f]
      BY <1>1
    <2> HIDE DEF c, f
    <2>4. CASE claude' = [claude EXCEPT !.count = c]
      <3>1. claude' = [count |-> c, prev |-> claude.prev, form |-> claude.form]
        BY <2>1, <2>4
      <3> QED
        BY <2>1, <2>2, <3>1 DEF Settings
    <2>5. CASE claude' = [claude EXCEPT !.form = f]
      <3>1. claude' = [count |-> claude.count, prev |-> claude.prev, form |-> f]
        BY <2>1, <2>5
      <3> QED
        BY <2>1, <2>2, <3>1 DEF Settings
    <2> QED
      BY <2>3, <2>4, <2>5
  <1>3. LayersOK' /\ TreeOK' /\ AppliesOK' /\ ProposalsOK'
    BY <1>1, <1>2 DEF PInv, LayersOK, TreeOK, AppliesOK, ProposalsOK, Applying, layervars, decisionvars
  <1>4. CountsOK'
    BY <1>1, SpendOK DEF PInv, CountsOK, Disturb, Applying, decisionvars
  <1>5. ListedInv' /\ DecidedInv'
    BY <1>1 DEF PInv, ListedInv, DecidedInv, Copying, Applying, decisionvars
  <1>6. HooksInv'
    BY <1>1, <1>2 DEF PInv, HooksInv, MergedOnly, Applying
  <1>7. AloneInv'
    BY <1>1, NoneAlone
  <1> QED
    BY <1>1, <1>3, <1>4, <1>5, <1>6, <1>7 DEF PInv

-----------------------------------------------------------------------------
(* The steps of an apply                                                     *)

(* What else there is when an apply moves on.                                *)
LEMMA ApplyStays ==
  ASSUME PInv, UNCHANGED <<layervars, decisionvars, disturbed>>,
         changes' \in [changes : 0..MaxChanges, cuts : 0..MaxCuts, applies : 0..MaxApplies]
  PROVE  LayersOK' /\ ProposalsOK' /\ CountsOK' /\ DecidedInv'
  BY DEF PInv, LayersOK, ProposalsOK, CountsOK, DecidedInv, layervars, decisionvars

LEMMA BeginKeeps ==
  ASSUME PInv, NEW p \in Appliers, BeginApply(p)
  PROVE  PInv' /\ UNCHANGED tree
  <1>1. PICK listed \in ls_files :
          /\ changes' = [changes EXCEPT !.applies = @ + 1,
                                        !.cuts = IF listed = tracked THEN @ ELSE @ + 1]
          /\ apply' = [apply EXCEPT ![p] =
                        [step |-> "copy", todo |-> merged_items, now |-> {}, tracked |-> listed,
                         from |-> [i \in Items |-> Source(i)], read |-> None]]
          /\ disturbed' = IF Applying = {} /\ listed = tracked THEN disturbed \ {p}
                          ELSE disturbed \cup Applying \cup {p}
    BY DEF BeginApply
  <1>2. /\ apply[p] = None /\ changes.applies < MaxApplies
        /\ UNCHANGED <<layervars, treevars, decisionvars, orphans>>
    BY DEF BeginApply
  <1>3. listed \subseteq Items /\ (listed # tracked => changes.cuts < MaxCuts)
    BY DEF ls_files, PInv, TreeOK
  <1> DEFINE r == [step |-> "copy", todo |-> merged_items, now |-> {}, tracked |-> listed,
                   from |-> [i \in Items |-> Source(i)], read |-> None]
  <1>4. r \in Applies /\ r # None
    <2>1. merged_items \subseteq Items /\ [i \in Items |-> Source(i)] \in [Items -> Layers]
      BY SourceIs DEF merged_items
    <2>2. r \in Applies
      BY <1>3, <2>1 DEF Applies
    <2> QED
      BY <2>2, NoneIs
  <1>5. /\ r.step = "copy" /\ r.todo = merged_items /\ r.now = {} /\ r.tracked = listed
        /\ r.read = None /\ \A i \in Items : r.from[i] = Source(i)
    OBVIOUS
  <1>6. apply' = [apply EXCEPT ![p] = r]
    BY <1>1
  <1> HIDE DEF r
  <1>7. apply'[p] = r /\ \A o \in Appliers \ {p} : apply'[o] = apply[o]
    BY <1>6 DEF PInv, AppliesOK
  <1>8. Applying' = Applying \cup {p} /\ \A o \in Applying : apply'[o] = apply[o]
    BY <1>2, <1>4, <1>7 DEF Applying
  <1>9. AppliesOK'
    <2>1. apply' \in [Appliers -> {None} \cup Applies]
      BY <1>4, <1>6 DEF PInv, AppliesOK
    <2> SUFFICES ASSUME NEW q \in Applying'
                 PROVE  /\ apply'[q].now \cap (apply'[q].todo \cup apply'[q].tracked) = {}
                        /\ (apply'[q].read = None) = (apply'[q].step # "merge")
      BY <2>1 DEF AppliesOK
    <2>2. CASE q = p
      BY <1>5, <1>7, <2>2
    <2>3. CASE q \in Applying
      BY <1>8, <2>3 DEF PInv, AppliesOK
    <2> QED
      BY <1>8, <2>2, <2>3
  <1>10. CountsOK'
    <2>1. /\ changes.changes \in 0..MaxChanges /\ changes.cuts \in 0..MaxCuts
          /\ changes.applies \in 0..MaxApplies
          /\ changes = [changes |-> changes.changes, cuts |-> changes.cuts, applies |-> changes.applies]
      BY DEF PInv, CountsOK
    <2> DEFINE cuts == IF listed = tracked THEN changes.cuts ELSE changes.cuts + 1
    <2>2. cuts \in 0..MaxCuts /\ changes.applies + 1 \in 0..MaxApplies
      BY <1>2, <1>3, <2>1, PresetsAssumption
    <2>3. changes' = [changes EXCEPT !.applies = changes.applies + 1, !.cuts = cuts]
      BY <1>1
    <2> HIDE DEF cuts
    <2>4. changes' = [changes |-> changes.changes, cuts |-> cuts, applies |-> changes.applies + 1]
      BY <2>1, <2>3
    <2>5. changes' \in [changes : 0..MaxChanges, cuts : 0..MaxCuts, applies : 0..MaxApplies]
      BY <2>1, <2>2, <2>4
    <2> QED
      BY <1>1, <1>2, <2>5 DEF PInv, CountsOK, Applying, decisionvars
  <1>11. LayersOK' /\ TreeOK' /\ ProposalsOK' /\ DecidedInv'
    BY <1>2 DEF PInv, LayersOK, TreeOK, ProposalsOK, DecidedInv, layervars, treevars, decisionvars
  <1>12. ListedInv'
    <2>1. \A q \in Appliers : Copying(q) => Copying(q)' /\ apply'[q] = apply[q]
      BY <1>8 DEF Copying
    <2> QED
      BY <1>2, <2>1 DEF PInv, ListedInv, treevars
  <1>13. HooksInv'
    <2>1. MergedOnly(claude)' /\ apply'[p].step # "merge"
      BY <1>2, <1>5, <1>7 DEF PInv, HooksInv, MergedOnly, treevars
    <2>2. \A q \in Applying : apply'[q].step = "merge" => MergedOnly(apply'[q].read)
      BY <1>8 DEF PInv, HooksInv
    <2> QED
      BY <1>8, <2>1, <2>2 DEF HooksInv, MergedOnly
  <1>14. AloneInv'
    <2> SUFFICES ASSUME NEW q \in Applying', q \notin disturbed'
                 PROVE  /\ Applying' = {q}
                        /\ apply'[q].tracked = tracked'
                        /\ \A i \in Items : apply'[q].from[i] = Source(i)'
                        /\ apply'[q].step = "copy" /\ apply'[q].now = {}
                        /\ apply'[q].todo = merged_items'
      BY DEF AloneInv
    <2>1. Applying = {} /\ listed = tracked /\ q = p
      BY <1>1, <1>8
    <2>2. merged_items' = merged_items /\ \A i \in Items : Source(i)' = Source(i)
      BY <1>2 DEF merged_items, Source, layervars
    <2> QED
      BY <1>2, <1>5, <1>7, <1>8, <2>1, <2>2 DEF treevars
  <1> QED
    BY <1>2, <1>9, <1>10, <1>11, <1>12, <1>13, <1>14 DEF PInv, treevars

(* An apply that ends before it has written the manifest: nothing lists what *)
(* it has copied.                                                            *)
LEMMA AbandonKeeps ==
  ASSUME PInv, NEW p \in Appliers, apply[p] # None, apply' = [apply EXCEPT ![p] = None],
         \/ Abandon(p)
         \/ apply[p].step \notin {"copy", "manifest"} /\ UNCHANGED orphans,
         UNCHANGED <<layervars, treevars, decisionvars, disturbed>>,
         changes' \in [changes : 0..MaxChanges, cuts : 0..MaxCuts, applies : 0..MaxApplies]
  PROVE  PInv' /\ UNCHANGED tree
  <1>1. apply'[p] = None /\ \A o \in Appliers \ {p} : apply'[o] = apply[o]
    BY DEF PInv, AppliesOK
  <1>2. Applying' = Applying \ {p} /\ p \in Applying
    BY <1>1 DEF Applying
  <1>3. AppliesOK' /\ LayersOK' /\ ProposalsOK' /\ CountsOK' /\ DecidedInv'
    BY <1>1, <1>2, ApplyStays DEF PInv, AppliesOK
  <1>4. TreeOK'
    BY ApplyIs DEF PInv, TreeOK, Abandon, treevars
  <1>5. ListedInv'
    <2> SUFFICES ASSUME NEW i \in Items, tree[i] # Absent, i \notin tracked \cup manifest \cup orphans'
                 PROVE  \E q \in Appliers : Copying(q)' /\ i \in apply'[q].now
      BY DEF ListedInv, treevars, Absent
    <2>1. orphans \subseteq orphans'
      BY DEF Abandon
    <2>2. PICK q \in Appliers : Copying(q) /\ i \in apply[q].now
      BY <2>1 DEF PInv, ListedInv
    <2>3. q # p
      BY <2>2 DEF Abandon, Copying
    <2> QED
      BY <1>1, <1>2, <2>2, <2>3 DEF Copying
  <1>6. HooksInv'
    BY <1>1, <1>2 DEF PInv, HooksInv, MergedOnly, treevars
  <1>7. AloneInv'
    BY <1>1, <1>2, OnlyP DEF AloneInv
  <1> QED
    BY <1>3, <1>4, <1>5, <1>6, <1>7 DEF PInv, treevars

(* A step of p's apply which goes on: the other applies are what they were.  *)
LEMMA MovesOn ==
  ASSUME PInv, NEW p \in Applying, NEW r \in Applies, apply' = [apply EXCEPT ![p] = r],
         r.now \cap (r.todo \cup r.tracked) = {}, (r.read = None) = (r.step # "merge")
  PROVE  /\ AppliesOK' /\ Applying' = Applying /\ apply'[p] = r
         /\ \A o \in Appliers \ {p} : apply'[o] = apply[o]
         /\ disturbed' = disturbed =>
              \A q \in Applying' \ disturbed' : q = p /\ p \notin disturbed /\ Applying' = {p}
  <1>1. p \in Appliers /\ apply[p] # None /\ r # None
    BY NoneIs DEF Applying
  <1>2. apply'[p] = r /\ \A o \in Appliers \ {p} : apply'[o] = apply[o]
    BY <1>1 DEF PInv, AppliesOK
  <1>3. Applying' = Applying
    BY <1>1, <1>2 DEF Applying
  <1>4. AppliesOK'
    <2>1. apply' \in [Appliers -> {None} \cup Applies]
      BY DEF PInv, AppliesOK
    <2> SUFFICES ASSUME NEW q \in Applying'
                 PROVE  /\ apply'[q].now \cap (apply'[q].todo \cup apply'[q].tracked) = {}
                        /\ (apply'[q].read = None) = (apply'[q].step # "merge")
      BY <2>1 DEF AppliesOK
    <2>2. CASE q = p
      BY <1>2, <2>2
    <2>3. CASE q # p
      BY <1>2, <1>3, <2>3 DEF PInv, AppliesOK, Applying
    <2> QED
      BY <2>2, <2>3
  <1>5. ASSUME NEW q \in Applying' \ disturbed', UNCHANGED disturbed
        PROVE  q = p /\ p \notin disturbed /\ Applying' = {p}
    BY <1>2, <1>3, <1>5, OnlyP
  <1> QED
    BY <1>2, <1>3, <1>4, <1>5

(* A step gives p's apply these fields, and leaves what it listed.           *)
With(p, step, todo, now, read) ==
  [step |-> step, todo |-> todo, now |-> now, tracked |-> apply[p].tracked,
   from |-> apply[p].from, read |-> read]

(* So it is there afterwards, and the other applies are what they were.      *)
MovedTo(p, step, todo, now, read) ==
  /\ AppliesOK' /\ Applying' = Applying /\ p \in Applying
  /\ \A o \in Appliers \ {p} : apply'[o] = apply[o]
  /\ apply'[p].step = step /\ apply'[p].todo = todo /\ apply'[p].now = now
  /\ apply'[p].read = read /\ apply'[p].tracked = apply[p].tracked
  /\ apply'[p].from = apply[p].from
  /\ disturbed' = disturbed =>
       \A q \in Applying' \ disturbed' : q = p /\ p \notin disturbed /\ Applying' = {p}

LEMMA Moved ==
  ASSUME PInv, NEW p \in Appliers, apply[p] # None,
         NEW step \in {"copy", "manifest", "texts", "hooks", "merge"},
         NEW todo \in SUBSET Items, NEW now \in SUBSET Items, NEW read \in Settings \cup {None},
         now \cap (todo \cup apply[p].tracked) = {}, read = None <=> step # "merge",
         apply' = [apply EXCEPT ![p] = With(p, step, todo, now, read)]
  PROVE  MovedTo(p, step, todo, now, read)
  <1> DEFINE r == With(p, step, todo, now, read)
  <1>1. /\ r.step = step /\ r.todo = todo /\ r.now = now /\ r.read = read
        /\ r.tracked = apply[p].tracked /\ r.from = apply[p].from /\ r \in Applies
    BY ApplyIs DEF With, Applies
  <1>2. apply' = [apply EXCEPT ![p] = r]
    OBVIOUS
  <1>3. p \in Applying
    BY DEF Applying
  <1> HIDE DEF r
  <1> QED
    BY <1>1, <1>2, <1>3, MovesOn DEF MovedTo

LEMMA WholeApply ==
  ASSUME PInv, NEW p \in Appliers, apply[p] # None
  PROVE  apply[p] = With(p, apply[p].step, apply[p].todo, apply[p].now, apply[p].read)
  BY ApplyIs DEF With, Applies

LEMMA Stepped ==
  ASSUME PInv, NEW p \in Appliers, apply[p] # None, NEW step, Step(p, step)
  PROVE  apply' = [apply EXCEPT ![p] = With(p, step, apply[p].todo, apply[p].now, apply[p].read)]
  <1>1. [apply[p] EXCEPT !.step = step] = With(p, step, apply[p].todo, apply[p].now, apply[p].read)
    <2>1. apply[p] \in Applies
      BY ApplyIs
    <2> QED
      BY <2>1 DEF With, Applies
  <1>2. apply' = [apply EXCEPT ![p] = [apply[p] EXCEPT !.step = step]]
    BY DEF Step
  <1> QED
    BY <1>1, <1>2

LEMMA CopyKeeps ==
  ASSUME PInv, NEW p \in Appliers, NEW i \in Items, Copy(p, i)
  PROVE  /\ PInv'
         /\ \A j \in Items : tree'[j] # tree[j] => j \notin apply[p].tracked
         /\ apply'[p] = None => apply[p].step = "copy"
  <1>1. /\ apply[p] # None /\ apply[p].step = "copy" /\ i \in apply[p].todo
        /\ UNCHANGED <<layervars, tracked, manifest, block, override, claude, decisionvars, changes, disturbed>>
    BY DEF Copy
  <1>2. /\ apply[p] \in Applies /\ p \in Applying
        /\ apply[p].todo \subseteq Items /\ apply[p].now \subseteq Items
        /\ apply[p].from \in [Items -> Layers] /\ apply[p].read = None
        /\ apply[p].now \cap (apply[p].todo \cup apply[p].tracked) = {}
    BY <1>1, ApplyIs
  <1>3. LayersOK' /\ ProposalsOK' /\ CountsOK' /\ DecidedInv'
    BY <1>1, ApplyStays DEF PInv, CountsOK
  <1>4. CASE i \notin apply[p].tracked /\ i \notin has[apply[p].from[i]]
    <2>1. Abandon(p) /\ UNCHANGED tree
      BY <1>4 DEF Copy
    <2>2. UNCHANGED treevars /\ apply' = [apply EXCEPT ![p] = None]
      BY <1>1, <2>1 DEF treevars, Abandon
    <2>3. PInv' /\ UNCHANGED tree
      BY <1>1, <1>3, <2>1, <2>2, AbandonKeeps DEF CountsOK
    <2> QED
      BY <1>1, <2>3
  <1>5. CASE ~(i \notin apply[p].tracked /\ i \notin has[apply[p].from[i]])
    <2> DEFINE n == IF i \in apply[p].tracked THEN apply[p].now ELSE apply[p].now \cup {i}
    <2> DEFINE t == apply[p].todo \ {i}
    <2>1. UNCHANGED orphans /\ apply' = [apply EXCEPT ![p] = With(p, "copy", t, n, None)]
      <3>1. apply[p] = With(p, "copy", apply[p].todo, apply[p].now, None)
        BY <1>1, <1>2, WholeApply
      <3>2. CASE i \in apply[p].tracked
        <4>1. apply' = [apply EXCEPT ![p].todo = t] /\ UNCHANGED orphans
          BY <3>2 DEF Copy
        <4>2. [apply[p] EXCEPT !.todo = t] = With(p, "copy", t, apply[p].now, None)
          BY <3>1 DEF With
        <4> QED
          BY <3>2, <4>1, <4>2
      <3>3. CASE i \notin apply[p].tracked
        <4>1. apply' = [apply EXCEPT ![p].todo = t, ![p].now = n] /\ UNCHANGED orphans
          BY <1>5, <3>3 DEF Copy
        <4>2. [[apply[p] EXCEPT !.todo = t] EXCEPT !.now = n] = With(p, "copy", t, n, None)
          <5> HIDE DEF t, n
          <5>1. [apply[p] EXCEPT !.todo = t] = With(p, "copy", t, apply[p].now, None)
            BY <3>1 DEF With
          <5>2. [With(p, "copy", t, apply[p].now, None) EXCEPT !.now = n] = With(p, "copy", t, n, None)
            BY DEF With
          <5> QED
            BY <5>1, <5>2
        <4>3. apply' = [apply EXCEPT ![p] = [[apply[p] EXCEPT !.todo = t] EXCEPT !.now = n]]
          BY <1>2, <4>1 DEF PInv, AppliesOK, Applying
        <4> QED
          BY <4>1, <4>2, <4>3
      <3> QED
        BY <3>2, <3>3
    <2>2. IF i \in apply[p].tracked THEN UNCHANGED tree
          ELSE tree' = [tree EXCEPT ![i] = Overlaid(i, apply[p].from[i])]
      BY <1>5 DEF Copy
    <2>3. /\ n \subseteq Items /\ t \subseteq Items /\ n \cap (t \cup apply[p].tracked) = {}
          /\ apply[p].now \subseteq n /\ i \in n \cup apply[p].tracked
          /\ apply[p].todo \subseteq t \cup {i} /\ t \subseteq apply[p].todo
          /\ n \subseteq apply[p].now \cup {i}
      BY <1>2
    <2> HIDE DEF n, t
    <2>4. /\ AppliesOK' /\ Applying' = Applying
          /\ \A o \in Appliers \ {p} : apply'[o] = apply[o]
          /\ apply'[p].step = "copy" /\ apply'[p].todo = t /\ apply'[p].now = n
          /\ apply'[p].tracked = apply[p].tracked /\ apply'[p].from = apply[p].from
          /\ \A q \in Applying' \ disturbed' : q = p /\ p \notin disturbed /\ Applying' = {p}
      <3>1. None \in Settings \cup {None} /\ "copy" \in {"copy", "manifest", "texts", "hooks", "merge"}
        OBVIOUS
      <3>2. t \in SUBSET Items /\ n \in SUBSET Items /\ disturbed' = disturbed
        BY <1>1, <2>3
      <3>3. None = None <=> "copy" # "merge"
        OBVIOUS
      <3>4. n \cap (t \cup apply[p].tracked) = {}
        BY <2>3
      <3>5. apply[p] # None /\ apply' = [apply EXCEPT ![p] = With(p, "copy", t, n, None)]
        BY <1>1, <2>1
      <3>6. MovedTo(p, "copy", t, n, None)
        BY <3>1, <3>2, <3>3, <3>4, <3>5, Moved
      <3> QED
        BY <3>2, <3>6 DEF MovedTo
    <2>5. /\ \A j \in Items : tree'[j] # tree[j] => j = i /\ j \notin apply[p].tracked
          /\ i \notin apply[p].tracked => /\ tree'[i].copy = apply[p].from[i]
                                          /\ tree'[i] \in Copies
                                          /\ i \notin Skills => tree'[i].rest = {}
      <3> DEFINE c == Overlaid(i, apply[p].from[i])
      <3>1. /\ c \in Copies /\ c.copy = apply[p].from[i]
            /\ i \notin Skills => c.rest = {}
        <4>1. apply[p].from[i] \in Contents
          BY <1>2 DEF Contents
        <4> QED
          BY <4>1, OverlaidIs
      <3>2. i \notin apply[p].tracked => tree' = [tree EXCEPT ![i] = c]
        BY <2>2
      <3>3. i \in apply[p].tracked => UNCHANGED tree
        BY <2>2
      <3> HIDE DEF c
      <3>4. CASE i \in apply[p].tracked
        BY <3>3, <3>4
      <3>5. CASE i \notin apply[p].tracked
        <4>1. tree'[i] = c /\ \A j \in Items \ {i} : tree'[j] = tree[j]
          BY <3>2, <3>5 DEF PInv, TreeOK
        <4> QED
          BY <3>1, <3>5, <4>1
      <3> QED
        BY <3>4, <3>5
    <2>6. TreeOK'
      <3>1. \A j \in Items : tree'[j] \in Copies /\ (j \notin Skills => tree'[j].rest = {})
        BY <2>5, CopyIs
      <3>2. tree' \in [Items -> Copies]
        <4>1. tree' = [j \in Items |-> tree'[j]]
          BY <2>2 DEF PInv, TreeOK
        <4> QED
          BY <3>1, <4>1
      <3> QED
        BY <1>1, <2>1, <3>1, <3>2 DEF PInv, TreeOK
    <2>7. ListedInv'
      <3> SUFFICES ASSUME NEW j \in Items, tree'[j] # Absent, j \notin tracked \cup manifest \cup orphans
                   PROVE  \E q \in Appliers : Copying(q)' /\ j \in apply'[q].now
        BY <1>1, <2>1 DEF ListedInv, Absent
      <3>1. CASE tree'[j] # tree[j]
        BY <1>2, <2>3, <2>4, <2>5, <3>1 DEF Copying
      <3>2. CASE tree'[j] = tree[j]
        <4>1. PICK q \in Appliers : Copying(q) /\ j \in apply[q].now
          BY <3>2 DEF PInv, ListedInv
        <4>2. CASE q = p
          BY <1>2, <2>3, <2>4, <4>1, <4>2 DEF Copying
        <4>3. CASE q # p
          BY <2>4, <4>1, <4>3 DEF Copying
        <4> QED
          BY <4>2, <4>3
      <3> QED
        BY <3>1, <3>2
    <2>8. HooksInv'
      <3>1. \A q \in Applying : apply'[q].step = "merge" => apply'[q] = apply[q]
        BY <2>4 DEF Applying
      <3> QED
        BY <1>1, <2>4, <3>1 DEF PInv, HooksInv, MergedOnly
    <2>9. AloneInv'
      <3> SUFFICES ASSUME NEW q \in Applying' \ disturbed'
                   PROVE  /\ Applying' = {q}
                          /\ apply'[q].tracked = tracked'
                          /\ \A j \in Items : apply'[q].from[j] = Source(j)'
                          /\ apply'[q].now \subseteq merged_items'
                          /\ \A j \in apply'[q].now : tree'[j].copy = Source(j)'
                          /\ merged_items' \ tracked' \subseteq apply'[q].now \cup apply'[q].todo
                          /\ apply'[q].todo \subseteq merged_items'
                          /\ apply'[q].step = "copy"
        BY DEF AloneInv
      <3>1. q = p /\ p \notin disturbed /\ Applying' = {p}
        BY <2>4
      <3>2. merged_items' = merged_items /\ \A j \in Items : Source(j)' = Source(j)
        BY <1>1 DEF merged_items, Source, layervars
      <3>3. /\ apply[p].tracked = tracked /\ \A j \in Items : apply[p].from[j] = Source(j)
            /\ apply[p].now \subseteq merged_items /\ \A j \in apply[p].now : tree[j].copy = Source(j)
            /\ merged_items \ tracked \subseteq apply[p].now \cup apply[p].todo
            /\ apply[p].todo \subseteq merged_items
        BY <1>1, <1>2, <3>1 DEF PInv, AloneInv
      <3>4. n \subseteq merged_items /\ t \subseteq merged_items
            /\ merged_items \ tracked \subseteq n \cup t
        BY <1>1, <2>3, <3>3
      <3>5. \A j \in n : tree'[j].copy = Source(j)
        BY <2>3, <2>5, <3>3
      <3>6. \A j \in apply'[q].now : tree'[j].copy = Source(j)'
        BY <2>3, <2>4, <3>1, <3>2, <3>5
      <3>7. \A j \in Items : apply'[q].from[j] = Source(j)'
        BY <2>4, <3>1, <3>2, <3>3
      <3> QED
        BY <1>1, <2>4, <3>1, <3>2, <3>3, <3>4, <3>6, <3>7
    <2> QED
      BY <1>1, <1>3, <2>4, <2>5, <2>6, <2>7, <2>8, <2>9, NoneIs, ApplyIs DEF PInv
  <1> QED
    BY <1>4, <1>5

LEMMA DropStaleKeeps ==
  ASSUME PInv, NEW p \in Appliers, DropStale(p)
  PROVE  /\ PInv'
         /\ \A j \in Items : tree'[j] # tree[j] => j \notin apply[p].tracked
         /\ apply'[p] # None
  <1>1. /\ apply[p] # None /\ apply[p].step = "copy" /\ apply[p].todo = {}
        /\ apply' = [apply EXCEPT ![p].step = "manifest"]
        /\ tree' = [i \in Items |-> IF i \in Stale(p) THEN Absent ELSE tree[i]]
        /\ orphans' = orphans \ (off \ apply[p].tracked)
        /\ UNCHANGED <<layervars, tracked, manifest, block, override, claude, decisionvars, changes, disturbed>>
    BY DEF DropStale, Step
  <1>2. /\ apply[p].now \subseteq Items /\ apply[p].read = None
        /\ apply[p].now \cap apply[p].tracked = {} /\ p \in Applying
    BY <1>1, ApplyIs
  <1> DEFINE n == apply[p].now
  <1>3. MovedTo(p, "manifest", {}, n, None)
    <2>2. apply' = [apply EXCEPT ![p] = With(p, "manifest", {}, n, None)]
      BY <1>1, <1>2, Stepped DEF Step
    <2>3. None \in Settings \cup {None} /\ "manifest" \in {"copy", "manifest", "texts", "hooks", "merge"}
          /\ n \in SUBSET Items /\ {} \in SUBSET Items
      BY <1>2
    <2>4. None = None <=> "manifest" # "merge"
      OBVIOUS
    <2>5. n \cap ({} \cup apply[p].tracked) = {}
      BY <1>2
    <2> HIDE DEF n
    <2> QED
      BY <1>1, <2>2, <2>3, <2>4, <2>5, Moved
  <1>4. LayersOK' /\ ProposalsOK' /\ CountsOK' /\ DecidedInv'
    BY <1>1, ApplyStays DEF PInv, CountsOK
  <1>5. /\ \A j \in Items : tree'[j] = IF j \in Stale(p) THEN Absent ELSE tree[j]
        /\ \A j \in Stale(p) : j \notin apply[p].tracked
    BY <1>1 DEF Stale
  <1>6. TreeOK'
    <2>1. Absent \in Copies /\ Absent.rest = {}
      BY DEF Absent, Copies
    <2>2. \A j \in Items : tree'[j] \in Copies /\ (j \notin Skills => tree'[j].rest = {})
      BY <1>5, <2>1, CopyIs
    <2> QED
      BY <1>1, <2>1, <2>2 DEF PInv, TreeOK
  <1>7. ListedInv'
    <2> SUFFICES ASSUME NEW j \in Items, tree'[j] # Absent, j \notin tracked \cup manifest \cup orphans'
                 PROVE  \E q \in Appliers : Copying(q)' /\ j \in apply'[q].now
      BY <1>1 DEF ListedInv, Absent
    <2>1. j \notin Stale(p) /\ tree[j] # Absent /\ j \notin orphans
      BY <1>1, <1>5 DEF Stale
    <2>2. PICK q \in Appliers : Copying(q) /\ j \in apply[q].now
      BY <2>1 DEF PInv, ListedInv
    <2> QED
      BY <1>3, <2>2 DEF MovedTo, Copying
  <1>8. HooksInv'
    <2>1. \A q \in Applying : apply'[q].step = "merge" => apply'[q] = apply[q]
      BY <1>3 DEF MovedTo, Applying
    <2> QED
      BY <1>1, <1>3, <2>1 DEF MovedTo, PInv, HooksInv, MergedOnly
  <1>9. AloneInv'
    <2> SUFFICES ASSUME NEW q \in Applying' \ disturbed'
                 PROVE  /\ Applying' = {q}
                        /\ apply'[q].tracked = tracked'
                        /\ \A j \in Items : apply'[q].from[j] = Source(j)'
                        /\ apply'[q].now \subseteq merged_items'
                        /\ \A j \in apply'[q].now : tree'[j].copy = Source(j)'
                        /\ apply'[q].step = "manifest"
                        /\ \A j \in manifest' \ apply'[q].now : j \in tracked' \/ tree'[j] = Absent
                        /\ \A j \in Items \ (tracked' \cup orphans') : Given(j)'
      BY DEF AloneInv, Absent
    <2>1. q = p /\ p \notin disturbed /\ Applying' = {p} /\ Applying = {p}
      BY <1>1, <1>3 DEF MovedTo
    <2>2. merged_items' = merged_items /\ \A j \in Items : Source(j)' = Source(j)
      BY <1>1 DEF merged_items, Source, layervars
    <2>3. /\ apply[p].tracked = tracked /\ \A j \in Items : apply[p].from[j] = Source(j)
          /\ n \subseteq merged_items /\ \A j \in n : tree[j].copy = Source(j)
          /\ merged_items \ tracked \subseteq n
      BY <1>1, <1>2, <2>1 DEF PInv, AloneInv
    <2>4. \A j \in n : j \notin Stale(p) /\ tree'[j].copy = Source(j)
      BY <1>2, <1>5, <2>3 DEF Stale, merged_items
    <2>5. \A j \in manifest \ n : j \in tracked \/ tree'[j] = Absent
      BY <1>5, <2>3 DEF Stale, PInv, TreeOK
    <2>6. ASSUME NEW j \in Items \ (tracked \cup orphans')
          PROVE  Given(j)'
      <3> SUFFICES IF j \in merged_items
                   THEN tree'[j].copy = Source(j) /\ (tree'[j].rest = {} \/ j \in Skills)
                   ELSE tree'[j] = Absent
        BY <2>2 DEF Given, Absent
      <3>1. CASE j \in Stale(p)
        <4>1. j \notin merged_items
          BY <2>3, <2>6, <3>1 DEF Stale, merged_items
        <4> QED
          BY <1>5, <3>1, <4>1
      <3>2. CASE j \notin Stale(p) /\ j \in n
        <4>1. tree'[j].rest = {} \/ j \in Skills
          BY <1>5, <3>2, CopyIs
        <4> QED
          BY <2>3, <2>4, <3>2, <4>1
      <3>3. CASE j \notin Stale(p) /\ j \notin n
        <4>1. j \notin off /\ j \notin orphans /\ j \notin manifest
          BY <1>1, <2>3, <2>6, <3>3 DEF Stale
        <4>2. tree[j] = Absent
          BY <2>1, <2>6, <3>3, <4>1 DEF PInv, ListedInv, Copying
        <4>3. j \notin merged_items
          BY <2>3, <2>6, <3>3
        <4> QED
          BY <1>5, <3>3, <4>2, <4>3
      <3> QED
        BY <3>1, <3>2, <3>3
    <2> HIDE DEF n
    <2>7. apply'[p].now = n /\ apply'[p].step = "manifest" /\ apply'[p].tracked = apply[p].tracked
          /\ apply'[p].from = apply[p].from
      BY <1>3 DEF MovedTo
    <2>8. \A j \in n : tree'[j].copy = Source(j)'
      BY <2>2, <2>3, <2>4 DEF merged_items
    <2> QED
      BY <1>1, <2>1, <2>2, <2>3, <2>5, <2>6, <2>7, <2>8
  <1>10. apply'[p] # None
    BY <1>3 DEF MovedTo, Applying
  <1> QED
    BY <1>3, <1>4, <1>5, <1>6, <1>7, <1>8, <1>9, <1>10 DEF PInv, MovedTo

LEMMA WriteManifestKeeps ==
  ASSUME PInv, NEW p \in Appliers, WriteManifest(p)
  PROVE  PInv' /\ UNCHANGED tree /\ apply'[p] # None
  <1>1. /\ apply[p] # None /\ apply[p].step = "manifest"
        /\ apply' = [apply EXCEPT ![p].step = "texts"]
        /\ manifest' = apply[p].now
        /\ orphans' = (orphans \ apply[p].now)
                      \cup (IF p \in disturbed THEN manifest \ apply[p].now ELSE {})
        /\ UNCHANGED <<layervars, tree, tracked, block, override, claude, decisionvars, changes, disturbed>>
    BY DEF WriteManifest, Step
  <1> DEFINE n == apply[p].now
  <1> DEFINE t == apply[p].todo
  <1>2. /\ n \subseteq Items /\ t \subseteq Items /\ apply[p].read = None
        /\ n \cap (t \cup apply[p].tracked) = {} /\ p \in Applying
    BY <1>1, ApplyIs
  <1>3. MovedTo(p, "texts", t, n, None)
    <2>2. apply' = [apply EXCEPT ![p] = With(p, "texts", t, n, None)]
      BY <1>1, <1>2, Stepped DEF Step
    <2> HIDE DEF n, t
    <2>3. None \in Settings \cup {None} /\ "texts" \in {"copy", "manifest", "texts", "hooks", "merge"}
          /\ n \in SUBSET Items /\ t \in SUBSET Items
      BY <1>2
    <2>4. None = None <=> "texts" # "merge"
      OBVIOUS
    <2> QED
      BY <1>1, <1>2, <2>2, <2>3, <2>4, Moved
  <1>4. LayersOK' /\ ProposalsOK' /\ CountsOK' /\ DecidedInv'
    BY <1>1, ApplyStays DEF PInv, CountsOK
  <1>5. TreeOK'
    BY <1>1, <1>2 DEF PInv, TreeOK
  <1>6. ListedInv'
    <2> SUFFICES ASSUME NEW j \in Items, tree[j] # Absent, j \notin tracked \cup n \cup orphans'
                 PROVE  \E q \in Appliers : Copying(q)' /\ j \in apply'[q].now
      BY <1>1 DEF ListedInv, Absent
    <2>1. j \notin orphans /\ (p \in disturbed => j \notin manifest)
      BY <1>1
    <2>2. p \notin disturbed => j \notin manifest
      BY <1>1, <1>2 DEF PInv, AloneInv
    <2>3. PICK q \in Appliers : Copying(q) /\ j \in apply[q].now
      BY <2>1, <2>2 DEF PInv, ListedInv
    <2> QED
      BY <1>3, <2>3 DEF MovedTo, Copying
  <1>7. HooksInv'
    <2>1. \A q \in Applying : apply'[q].step = "merge" => apply'[q] = apply[q]
      BY <1>3 DEF MovedTo, Applying
    <2> QED
      BY <1>1, <1>3, <2>1 DEF MovedTo, PInv, HooksInv, MergedOnly
  <1>8. AloneInv'
    <2> SUFFICES ASSUME NEW q \in Applying' \ disturbed'
                 PROVE  /\ Applying' = {q}
                        /\ apply'[q].tracked = tracked'
                        /\ \A j \in Items : apply'[q].from[j] = Source(j)'
                        /\ apply'[q].step = "texts"
                        /\ \A j \in Items \ (tracked' \cup orphans') : Given(j)'
      BY DEF AloneInv
    <2>1. q = p /\ p \notin disturbed /\ Applying' = {p} /\ Applying = {p}
      BY <1>1, <1>3 DEF MovedTo
    <2>2. \A j \in Items : Source(j)' = Source(j) /\ (Given(j)' <=> Given(j))
      BY <1>1, GivenStays
    <2>3. /\ apply[p].tracked = tracked /\ \A j \in Items : apply[p].from[j] = Source(j)
          /\ n \subseteq merged_items /\ \A j \in n : tree[j].copy = Source(j)
          /\ \A j \in Items \ (tracked \cup orphans) : Given(j)
      BY <1>1, <1>2, <2>1 DEF PInv, AloneInv
    <2>4. \A j \in n : Given(j)
      BY <1>2, <2>3, CopyIs DEF Given
    <2>5. \A j \in Items \ (tracked \cup orphans') : Given(j)
      BY <1>1, <2>3, <2>4
    <2>6. \A j \in Items \ (tracked' \cup orphans') : Given(j)'
      BY <1>1, <2>2, <2>5
    <2> QED
      BY <1>1, <1>3, <2>1, <2>2, <2>3, <2>6 DEF MovedTo
  <1>9. apply'[p] # None
    BY <1>3 DEF MovedTo, Applying
  <1> QED
    BY <1>1, <1>3, <1>4, <1>5, <1>6, <1>7, <1>8, <1>9 DEF PInv, MovedTo

(* Settings that are not JSON are taken for none.                            *)
LEMMA ParsedIs ==
  ASSUME NEW settings \in Settings
  PROVE  Parsed(settings) \in Settings /\ (MergedOnly(settings) => MergedOnly(Parsed(settings)))
  <1>1. NoSettings \in Settings /\ NoSettings.count["preset"] = 0
    <2>1. [h \in Hooks |-> 0] \in [Hooks -> Nat] /\ [h \in Hooks |-> 0]["preset"] = 0
      BY DEF Hooks
    <2> QED
      BY <2>1 DEF NoSettings, Settings
  <1> QED
    BY <1>1 DEF Parsed, MergedOnly

(* The texts are written, then the settings are read.                        *)
LEMMA TextsKeep ==
  ASSUME PInv, NEW p \in Appliers, SyncTexts(p) \/ ReadHooks(p)
  PROVE  PInv' /\ UNCHANGED tree /\ apply'[p] # None
  <1> DEFINE n == apply[p].now
  <1> DEFINE t == apply[p].todo
  <1>1. /\ apply[p] # None /\ apply[p].step \in {"texts", "hooks"}
        /\ UNCHANGED <<layervars, tree, tracked, manifest, claude, decisionvars, changes, disturbed, orphans>>
    BY DEF SyncTexts, ReadHooks, treevars
  <1>2. /\ n \subseteq Items /\ t \subseteq Items /\ apply[p].read = None
        /\ n \cap (t \cup apply[p].tracked) = {} /\ p \in Applying
    BY <1>1, ApplyIs
  <1>c. Parsed(claude) \in Settings /\ Parsed(claude)' = Parsed(claude) /\ MergedOnly(Parsed(claude))
    BY <1>1, ParsedIs DEF PInv, TreeOK, HooksInv, Parsed
  <1>3. PICK read \in {None, Parsed(claude)}, step \in {"hooks", "merge"} :
          (read = None <=> step # "merge") /\ MovedTo(p, step, t, n, read)
    <2>1. CASE SyncTexts(p)
      <3>1. apply' = [apply EXCEPT ![p] = With(p, "hooks", t, n, None)]
        BY <1>1, <1>2, <2>1, Stepped DEF SyncTexts
      <3>2. None \in Settings \cup {None} /\ "hooks" \in {"copy", "manifest", "texts", "hooks", "merge"}
            /\ n \in SUBSET Items /\ t \in SUBSET Items
        BY <1>2
      <3>3. None = None <=> "hooks" # "merge"
        OBVIOUS
      <3> HIDE DEF n, t
      <3>4. MovedTo(p, "hooks", t, n, None)
        BY <1>1, <1>2, <3>1, <3>2, <3>3, Moved
      <3> QED
        BY <3>3, <3>4
    <2>2. CASE ReadHooks(p)
      <3>1. apply' = [apply EXCEPT ![p] = With(p, "merge", t, n, Parsed(claude))]
        <4>1. [[apply[p] EXCEPT !.step = "merge"] EXCEPT !.read = Parsed(claude)] = With(p, "merge", t, n, Parsed(claude))
          <5>1. apply[p] \in Applies
            BY <1>1, ApplyIs
          <5>2. [apply[p] EXCEPT !.step = "merge"] = With(p, "merge", t, n, apply[p].read)
            BY <5>1 DEF With, Applies
          <5>3. [With(p, "merge", t, n, apply[p].read) EXCEPT !.read = Parsed(claude)] = With(p, "merge", t, n, Parsed(claude))
            BY DEF With
          <5> HIDE DEF n, t
          <5> QED
            BY <5>2, <5>3
        <4>2. apply' = [apply EXCEPT ![p] = [[apply[p] EXCEPT !.step = "merge"] EXCEPT !.read = Parsed(claude)]]
          BY <2>2 DEF ReadHooks, PInv, AppliesOK
        <4> HIDE DEF n, t
        <4> QED
          BY <4>1, <4>2
      <3>2. Parsed(claude) \in Settings \cup {None} /\ "merge" \in {"copy", "manifest", "texts", "hooks", "merge"}
            /\ n \in SUBSET Items /\ t \in SUBSET Items
        BY <1>2, <1>c
      <3>3. Parsed(claude) = None <=> "merge" # "merge"
        BY <1>c, NoneIs
      <3> HIDE DEF n, t
      <3>4. MovedTo(p, "merge", t, n, Parsed(claude))
        BY <1>1, <1>2, <3>1, <3>2, <3>3, Moved
      <3> QED
        BY <3>3, <3>4
    <2> QED
      BY <2>1, <2>2
  <1>4. LayersOK' /\ ProposalsOK' /\ CountsOK' /\ DecidedInv'
    BY <1>1, ApplyStays DEF PInv, CountsOK
  <1>5. TreeOK'
    BY <1>1 DEF PInv, TreeOK, SyncTexts, ReadHooks, LayersOK, treevars
  <1>6. ListedInv'
    <2>1. \A q \in Appliers : Copying(q) => Copying(q)' /\ apply'[q].now = apply[q].now
      BY <1>1, <1>3 DEF MovedTo, Copying
    <2> QED
      BY <1>1, <2>1 DEF PInv, ListedInv
  <1>7. HooksInv'
    <2>1. MergedOnly(claude)' /\ MergedOnly(claude)
      BY <1>1 DEF PInv, HooksInv, MergedOnly
    <2> SUFFICES ASSUME NEW q \in Applying', apply'[q].step = "merge"
                 PROVE  MergedOnly(apply'[q].read)
      BY <2>1 DEF HooksInv, MergedOnly
    <2>2. CASE q = p
      <3>1. apply'[q].read = Parsed(claude)
        BY <1>3, <2>2 DEF MovedTo
      <3> QED
        BY <1>c, <3>1 DEF MergedOnly
    <2>3. CASE q # p
      <3>1. q \in Applying /\ apply'[q] = apply[q]
        BY <1>3, <2>3 DEF MovedTo, Applying
      <3> QED
        BY <3>1 DEF PInv, HooksInv
    <2> QED
      BY <2>2, <2>3
  <1>8. AloneInv'
    <2> SUFFICES ASSUME NEW q \in Applying' \ disturbed'
                 PROVE  /\ Applying' = {q}
                        /\ apply'[q].tracked = tracked'
                        /\ \A j \in Items : apply'[q].from[j] = Source(j)'
                        /\ apply'[q].step \in {"hooks", "merge"}
                        /\ \A j \in Items \ (tracked' \cup orphans') : Given(j)'
                        /\ apply'[q].step = "merge" => apply'[q].read = Parsed(claude)'
      BY DEF AloneInv
    <2>1. q = p /\ p \notin disturbed /\ Applying' = {p} /\ Applying = {p}
      BY <1>1, <1>3 DEF MovedTo
    <2>2. \A j \in Items : Source(j)' = Source(j) /\ (Given(j)' <=> Given(j))
      BY <1>1, GivenStays
    <2>3. /\ apply[p].tracked = tracked /\ \A j \in Items : apply[p].from[j] = Source(j)
          /\ \A j \in Items \ (tracked \cup orphans) : Given(j)
      BY <1>1, <1>2, <2>1 DEF PInv, AloneInv
    <2>4. \A j \in Items \ (tracked' \cup orphans') : Given(j)'
      BY <1>1, <2>2, <2>3
    <2>5. apply'[p].step \in {"hooks", "merge"}
          /\ (apply'[p].step = "merge" => apply'[p].read = Parsed(claude)')
      BY <1>c, <1>3 DEF MovedTo
    <2> QED
      BY <1>1, <1>3, <2>1, <2>2, <2>3, <2>4, <2>5 DEF MovedTo
  <1>9. apply'[p] # None
    BY <1>3 DEF MovedTo, Applying
  <1> QED
    BY <1>1, <1>3, <1>4, <1>5, <1>6, <1>7, <1>8, <1>9 DEF PInv, MovedTo

(* What is merged again are settings, with the layers' hook once.            *)
LEMMA MergedIs ==
  ASSUME PInv, NEW read \in Settings, MergedOnly(read)
  PROVE  /\ MergedHooks(read) \in Settings /\ MergedOnly(MergedHooks(read))
         /\ MergedHooks(read).count["preset"] = (IF extra THEN 1 ELSE 0)
         /\ MergedHooks(read).count["mine"] = read.count["mine"]
         /\ MergedHooks(read).form = "json"
  <1> DEFINE c == [h \in Hooks |-> (IF h \in read.prev THEN 0 ELSE read.count[h])
                                   + (IF h \in Layered THEN 1 ELSE 0)]
  <1>1. read.count \in [Hooks -> Nat] /\ read.prev \subseteq {"preset"}
    BY DEF Settings
  <1>2. c \in [Hooks -> Nat]
    BY <1>1
  <1>3. c["preset"] = (IF extra THEN 1 ELSE 0) /\ c["mine"] = read.count["mine"]
    BY <1>1 DEF Hooks, Layered, MergedOnly
  <1>4. Layered \subseteq {"preset"} /\ (extra => "preset" \in Layered)
    BY DEF Layered
  <1>5. MergedHooks(read).count = c /\ MergedHooks(read).prev = Layered
        /\ MergedHooks(read) = [count |-> c, prev |-> Layered, form |-> "json"]
    BY DEF MergedHooks
  <1> HIDE DEF c
  <1> QED
    BY <1>2, <1>3, <1>4, <1>5 DEF Settings, MergedOnly

LEMMA SyncHooksKeeps ==
  ASSUME PInv, NEW p \in Appliers, SyncHooks(p)
  PROVE  PInv' /\ UNCHANGED tree
  <1>1. /\ apply[p] # None /\ apply[p].step = "merge"
        /\ apply' = [apply EXCEPT ![p] = None]
        /\ claude' \in Written(apply[p].read)
        /\ UNCHANGED <<layervars, tree, tracked, manifest, block, override, decisionvars, changes, disturbed, orphans>>
    BY DEF SyncHooks
  <1>2. apply'[p] = None /\ \A o \in Appliers \ {p} : apply'[o] = apply[o]
    BY <1>1 DEF PInv, AppliesOK
  <1>3. Applying' = Applying \ {p} /\ p \in Applying
    BY <1>1, <1>2 DEF Applying
  <1>4. claude' \in Settings /\ MergedOnly(claude')
    <2>1. apply[p].read \in Settings
      BY <1>1, ApplyIs
    <2>2. MergedOnly(apply[p].read)
      BY <1>1, <1>3 DEF PInv, HooksInv
    <2>3. claude \in Settings /\ MergedOnly(claude)
      BY DEF PInv, TreeOK, HooksInv
    <2>4. claude' \in {MergedHooks(apply[p].read), claude, apply[p].read}
      BY <1>1 DEF Written
    <2> QED
      BY <2>1, <2>2, <2>3, <2>4, MergedIs
  <1>5. AppliesOK'
    BY <1>1, <1>2, <1>3 DEF PInv, AppliesOK
  <1>6. LayersOK' /\ ProposalsOK' /\ CountsOK' /\ DecidedInv'
    BY <1>1, ApplyStays DEF PInv, CountsOK
  <1>7. TreeOK'
    BY <1>1, <1>4 DEF PInv, TreeOK
  <1>8. ListedInv'
    <2>1. \A q \in Appliers : Copying(q) => Copying(q)' /\ apply'[q].now = apply[q].now
      BY <1>1, <1>2, <1>3 DEF Copying
    <2> QED
      BY <1>1, <2>1 DEF PInv, ListedInv
  <1>9. HooksInv'
    <2>1. \A q \in Applying' : q \in Applying /\ apply'[q] = apply[q]
      BY <1>2, <1>3 DEF Applying
    <2> QED
      BY <1>4, <2>1 DEF PInv, HooksInv, MergedOnly
  <1>10. AloneInv'
    <2>1. \A q \in Applying' : q \in disturbed'
      BY <1>1, <1>2, <1>3, OnlyP
    <2> QED
      BY <2>1 DEF AloneInv
  <1> QED
    BY <1>1, <1>5, <1>6, <1>7, <1>8, <1>9, <1>10 DEF PInv

LEMMA KillApplyKeeps ==
  ASSUME PInv, NEW p \in Appliers, KillApply(p)
  PROVE  PInv' /\ UNCHANGED tree /\ changes'.cuts # changes.cuts
  <1>1. changes' \in [changes : 0..MaxChanges, cuts : 0..MaxCuts, applies : 0..MaxApplies]
    BY SpendOK DEF KillApply
  <1>2. changes'.cuts # changes.cuts
    <2>1. changes \in [changes : 0..MaxChanges, cuts : 0..MaxCuts, applies : 0..MaxApplies]
      BY DEF PInv, CountsOK
    <2>2. changes' = [changes EXCEPT !.cuts = changes.cuts + 1]
      BY DEF KillApply, Spend
    <2>3. changes'.cuts = changes.cuts + 1 /\ changes.cuts \in Nat
      BY <2>1, <2>2
    <2> QED
      BY <2>3
  <1>3. /\ apply[p] # None /\ apply' = [apply EXCEPT ![p] = None]
        /\ \/ Abandon(p)
           \/ apply[p].step \notin {"copy", "manifest"} /\ UNCHANGED orphans
        /\ UNCHANGED <<layervars, treevars, decisionvars, disturbed>>
    BY DEF KillApply, Abandon
  <1> QED
    BY <1>1, <1>2, <1>3, AbandonKeeps

-----------------------------------------------------------------------------
(* Proposals and decisions                                                   *)

(* What else there is when only proposals and decisions change.              *)
LEMMA CopiesStay ==
  ASSUME PInv, UNCHANGED <<layervars, treevars, apply, disturbed, orphans>>
  PROVE  LayersOK' /\ TreeOK' /\ AppliesOK' /\ ListedInv' /\ AloneInv' /\ HooksInv' /\ UNCHANGED tree
  <1>1. LayersOK' /\ TreeOK' /\ AppliesOK' /\ UNCHANGED tree
    BY DEF PInv, LayersOK, TreeOK, AppliesOK, Applying, layervars, treevars
  <1>2. ListedInv' /\ HooksInv'
    BY DEF PInv, ListedInv, HooksInv, MergedOnly, Copying, Applying, treevars
  <1>3. AloneInv'
    <2>1. merged_items' = merged_items /\ Applying' = Applying
          /\ \A i \in Items : Source(i)' = Source(i) /\ (Given(i)' <=> Given(i))
      BY <1>1, GivenStays DEF Applying
    <2> SUFFICES ASSUME NEW p \in Applying \ disturbed
                 PROVE  /\ Applying = {p}
                        /\ apply[p].tracked = tracked
                        /\ \A i \in Items : apply[p].from[i] = Source(i)'
                        /\ apply[p].step \in {"copy", "manifest"} =>
                             /\ apply[p].now \subseteq merged_items
                             /\ \A i \in apply[p].now : tree[i].copy = Source(i)'
                        /\ apply[p].step = "copy" =>
                             merged_items \ tracked \subseteq apply[p].now \cup apply[p].todo
                             /\ apply[p].todo \subseteq merged_items
                        /\ apply[p].step = "manifest" =>
                             \A i \in manifest \ apply[p].now : i \in tracked \/ tree[i] = Absent
                        /\ apply[p].step # "copy" =>
                             \A i \in Items \ (tracked \cup orphans) : Given(i)
                        /\ apply[p].step = "merge" => apply[p].read = Parsed(claude)
      BY <2>1 DEF AloneInv, treevars, Absent, Parsed, NoSettings
    <2>2. apply[p].now \subseteq Items
      BY ApplyIs DEF Applying
    <2> QED
      BY <2>1, <2>2 DEF PInv, AloneInv
  <1> QED
    BY <1>1, <1>2, <1>3

LEMMA DecisionIs ==
  ASSUME PInv, NEW q \in Deciders, decision[q] # None
  PROVE  /\ decision[q] \in Decisions /\ decision[q].id \in Proposals
         /\ decision[q].accept \in BOOLEAN /\ decision[q].step \in {"write", "save"}
         /\ proposal[decision[q].id] # None /\ proposal[decision[q].id] \in Changes
  <1>1. decision[q] \in Decisions /\ proposal[decision[q].id] # None
    BY DEF PInv, ProposalsOK
  <1>2. decision[q].id \in Proposals /\ decision[q].step \in {"write", "save"}
    BY <1>1 DEF Decisions
  <1>3. decision[q].accept \in BOOLEAN
    BY <1>1 DEF Decisions
  <1>4. proposal[decision[q].id] \in Changes
    BY <1>1, <1>2 DEF PInv, ProposalsOK
  <1> QED
    BY <1>1, <1>2, <1>3, <1>4

LEMMA ProposeKeeps ==
  ASSUME PInv, NEW d \in Proposals, NEW l \in Targets, NEW i \in Items, NEW delete \in BOOLEAN,
         Propose(d, l, i, delete)
  PROVE  PInv' /\ UNCHANGED tree
  <1> DEFINE r == [layer |-> l, item |-> i, delete |-> delete, state |-> "pending"]
  <1>1. /\ proposal[d] = None /\ proposal' = [proposal EXCEPT ![d] = r]
        /\ UNCHANGED <<layervars, treevars, apply, decision, changes, disturbed, orphans, overlap>>
    BY DEF Propose
  <1>2. r \in Changes /\ r # None
    <2>1. r \in Changes
      BY DEF Changes
    <2> QED
      BY <2>1, NoneIs
  <1> HIDE DEF r
  <1>3. proposal' \in [Proposals -> {None} \cup Changes] /\ proposal'[d] = r
        /\ \A e \in Proposals \ {d} : proposal'[e] = proposal[e]
    BY <1>1, <1>2 DEF PInv, ProposalsOK
  <1>4. \A q \in Deciders : decision[q] # None =>
          decision[q].id \in Proposals /\ proposal'[decision[q].id] = proposal[decision[q].id]
    BY <1>1, <1>3, DecisionIs
  <1>5. ProposalsOK'
    BY <1>1, <1>3, <1>4 DEF PInv, ProposalsOK
  <1>6. DecidedInv'
    BY <1>1, <1>4 DEF PInv, DecidedInv
  <1>7. CountsOK'
    BY <1>1 DEF PInv, CountsOK
  <1> QED
    BY <1>1, <1>5, <1>6, <1>7, CopiesStay DEF PInv

LEMMA LoadKeeps ==
  ASSUME PInv, NEW q \in Deciders, NEW d \in Proposals, NEW accept \in BOOLEAN,
         LoadProposal(q, d, accept)
  PROVE  PInv' /\ UNCHANGED tree
  <1> DEFINE r == [id |-> d, accept |-> accept, step |-> IF accept THEN "write" ELSE "save"]
  <1>1. /\ decision[q] = None /\ proposal[d] # None
        /\ accept => proposal[d].state = "pending"
        /\ Change /\ decision' = [decision EXCEPT ![q] = r]
        /\ overlap' = IF \E o \in Deciders : decision[o] # None /\ decision[o].id = d
                      THEN overlap \cup {d} ELSE overlap
        /\ UNCHANGED <<layervars, treevars, apply, proposal, disturbed, orphans>>
    BY DEF LoadProposal
  <1>2. r \in Decisions /\ r # None
    <2>1. r \in Decisions
      BY DEF Decisions
    <2> QED
      BY <2>1, NoneIs
  <1>3. r.id = d /\ (r.step = "write" => r.accept) /\ (r.step = "write" => proposal[d].state = "pending")
    BY <1>1
  <1> HIDE DEF r
  <1>4. decision' \in [Deciders -> {None} \cup Decisions] /\ decision'[q] = r
        /\ \A o \in Deciders \ {q} : decision'[o] = decision[o]
    BY <1>1, <1>2 DEF PInv, ProposalsOK
  <1>5. ProposalsOK'
    BY <1>1, <1>3, <1>4 DEF PInv, ProposalsOK
  <1>6. DecidedInv'
    <2> SUFFICES ASSUME NEW o \in Deciders, decision'[o] # None, decision'[o].id \notin overlap'
                 PROVE  /\ decision'[o].step = "write" => proposal[decision'[o].id].state = "pending"
                        /\ \A c \in Deciders \ {o} : decision'[c] # None => decision'[c].id # decision'[o].id
      BY <1>1 DEF DecidedInv
    <2>1. overlap \subseteq overlap'
      BY <1>1
    <2>2. CASE o = q
      <3>1. d \notin overlap'
        BY <1>3, <1>4, <2>2
      <3>2. \A c \in Deciders : decision[c] # None => decision[c].id # d
        BY <1>1, <3>1
      <3> QED
        BY <1>3, <1>4, <2>2, <3>2
    <2>3. CASE o # q
      <3>1. decision'[o] = decision[o] /\ decision[o] # None /\ decision[o].id \notin overlap
        BY <1>4, <2>1, <2>3
      <3>2. decision[o].id # d
        BY <1>1, <3>1
      <3> QED
        BY <1>3, <1>4, <3>1, <3>2 DEF PInv, DecidedInv
    <2> QED
      BY <2>2, <2>3
  <1>7. CountsOK'
    BY <1>1, SpendOK DEF PInv, CountsOK
  <1> QED
    BY <1>1, <1>5, <1>6, <1>7, CopiesStay DEF PInv

LEMMA WriteTargetKeeps ==
  ASSUME PInv, NEW q \in Deciders, WriteTarget(q)
  PROVE  PInv' /\ Relabels
  <1> DEFINE d == decision[q].id
  <1> DEFINE c == proposal[d]
  <1>1. /\ decision[q] # None /\ decision[q].step = "write"
        /\ \/ has' = [has EXCEPT ![c.layer] = @ \ {c.item}] /\ UNCHANGED tree
           \/ has' = [has EXCEPT ![c.layer] = @ \cup {c.item}] /\ Outdated(c.layer, c.item)
        /\ decision' = [decision EXCEPT ![q].step = "save"]
        /\ Disturb
        /\ UNCHANGED <<off, extra, tracked, manifest, block, override, claude, apply, proposal, changes,
                       orphans, overlap>>
    BY DEF WriteTarget
  <1>2. c.layer \in Layers /\ c.item \in Items
    BY <1>1, DecisionIs, PresetsAssumption DEF Changes, Layers
  <1>t. Relabels
    BY <1>1, <1>2, OutdatedIs, SameCopies
  <1>3. LayersOK'
    <2>1. PICK s \in {has[c.layer] \ {c.item}, has[c.layer] \cup {c.item}} : has' = [has EXCEPT ![c.layer] = s]
      BY <1>1
    <2>2. s \subseteq Items
      BY <1>2 DEF PInv, LayersOK
    <2> QED
      BY <1>1, <2>1, <2>2 DEF PInv, LayersOK
  <1> HIDE DEF d
  <1> DEFINE r == [decision[q] EXCEPT !.step = "save"]
  <1>4. r \in Decisions /\ r # None /\ r.id = decision[q].id /\ r.step = "save"
    <2>1. r \in Decisions /\ r.id = decision[q].id /\ r.step = "save"
      BY <1>1, DecisionIs DEF Decisions
    <2> QED
      BY <2>1, NoneIs
  <1>5. decision' = [decision EXCEPT ![q] = r]
    BY <1>1
  <1> HIDE DEF r
  <1>6. decision' \in [Deciders -> {None} \cup Decisions] /\ decision'[q] = r
        /\ \A o \in Deciders \ {q} : decision'[o] = decision[o]
    BY <1>4, <1>5 DEF PInv, ProposalsOK
  <1>7. ProposalsOK'
    <2>1. \A o \in Deciders : decision'[o] # None =>
            decision[o] # None /\ decision'[o].id = decision[o].id
            /\ (decision'[o].step = "write" => decision'[o] = decision[o])
      BY <1>1, <1>4, <1>6
    <2> QED
      BY <1>1, <1>6, <2>1 DEF PInv, ProposalsOK
  <1>8. DecidedInv'
    <2>1. \A o \in Deciders : decision'[o] # None =>
            decision[o] # None /\ decision'[o].id = decision[o].id
            /\ (decision'[o].step = "write" => decision[o].step = "write")
      BY <1>1, <1>4, <1>6
    <2> QED
      BY <1>1, <2>1 DEF PInv, DecidedInv
  <1>9. TreeOK' /\ AppliesOK' /\ ListedInv' /\ HooksInv'
    <2>1. TreeOK' /\ ListedInv'
      BY <1>1, <1>t, RelabelKeeps
    <2>2. AppliesOK' /\ HooksInv'
      BY <1>1 DEF PInv, AppliesOK, HooksInv, MergedOnly, Applying
    <2> QED
      BY <2>1, <2>2
  <1>10. CountsOK'
    BY <1>1 DEF PInv, CountsOK, Disturb, Applying
  <1>11. AloneInv'
    BY <1>1, NoneAlone
  <1> QED
    BY <1>t, <1>3, <1>7, <1>8, <1>9, <1>10, <1>11 DEF PInv

(* A decision ends: the others are what they were.                           *)
LEMMA SaveKeeps ==
  ASSUME PInv, NEW q \in Deciders, SaveProposal(q) \/ KillDecision(q)
  PROVE  PInv' /\ UNCHANGED tree
  <1>1. /\ decision[q] # None /\ decision' = [decision EXCEPT ![q] = None]
        /\ UNCHANGED <<layervars, treevars, apply, disturbed, orphans>>
    BY DEF SaveProposal, KillDecision
  <1>2. decision' \in [Deciders -> {None} \cup Decisions] /\ decision'[q] = None
        /\ \A o \in Deciders \ {q} : decision'[o] = decision[o]
    BY <1>1 DEF PInv, ProposalsOK
  <1>3. CASE SaveProposal(q)
    <2> DEFINE d == decision[q].id
    <2> DEFINE r == [proposal[d] EXCEPT !.state = IF decision[q].accept THEN "accepted" ELSE "rejected"]
    <2>1. d \in Proposals /\ proposal[d] \in Changes
      BY <1>1, DecisionIs
    <2>2. r \in Changes /\ r # None
      <3>1. r \in Changes
        BY <2>1 DEF Changes
      <3> QED
        BY <3>1, NoneIs
    <2>3. proposal' = [proposal EXCEPT ![d] = r] /\ UNCHANGED <<changes, overlap>>
      BY <1>3 DEF SaveProposal
    <2> HIDE DEF r
    <2>4. proposal' \in [Proposals -> {None} \cup Changes] /\ proposal'[d] = r
          /\ \A e \in Proposals \ {d} : proposal'[e] = proposal[e]
      BY <2>1, <2>2, <2>3 DEF PInv, ProposalsOK
    <2>5. ProposalsOK'
      <3>1. \A o \in Deciders : decision'[o] # None =>
              /\ decision[o] # None /\ decision'[o] = decision[o]
              /\ proposal'[decision[o].id] # None
        BY <1>2, <2>2, <2>4, DecisionIs
      <3> QED
        BY <1>2, <2>4, <3>1 DEF PInv, ProposalsOK
    <2>6. DecidedInv'
      <3> SUFFICES ASSUME NEW o \in Deciders, decision'[o] # None, decision'[o].id \notin overlap
                   PROVE  /\ decision'[o].step = "write" => proposal'[decision'[o].id].state = "pending"
                          /\ \A c \in Deciders \ {o} : decision'[c] # None => decision'[c].id # decision'[o].id
        BY <2>3 DEF DecidedInv
      <3>1. o # q /\ decision'[o] = decision[o] /\ decision[o].id \in Proposals
        BY <1>2, DecisionIs
      <3>2. decision[o].id # d
        BY <1>1, <3>1 DEF PInv, DecidedInv
      <3>3. proposal'[decision[o].id] = proposal[decision[o].id]
        BY <2>4, <3>1, <3>2
      <3> QED
        BY <1>2, <3>1, <3>3 DEF PInv, DecidedInv
    <2>7. CountsOK'
      BY <1>1, <2>3 DEF PInv, CountsOK
    <2> QED
      BY <1>1, <2>5, <2>6, <2>7, CopiesStay DEF PInv
  <1>4. CASE KillDecision(q)
    <2>1. /\ overlap' = overlap \cup {decision[q].id} /\ UNCHANGED proposal
          /\ changes.cuts < MaxCuts /\ Spend("cuts")
      BY <1>4 DEF KillDecision
    <2>2. ProposalsOK' /\ DecidedInv'
      BY <1>2, <2>1 DEF PInv, ProposalsOK, DecidedInv
    <2>3. CountsOK'
      BY <1>1, <2>1, SpendOK, DecisionIs DEF PInv, CountsOK
    <2> QED
      BY <1>1, <2>2, <2>3, CopiesStay DEF PInv
  <1> QED
    BY <1>3, <1>4

-----------------------------------------------------------------------------
(* The invariant                                                             *)

LEMMA InitPresets == PresetsInit => PInv
  <1> SUFFICES ASSUME PresetsInit PROVE PInv
    OBVIOUS
  <1>1. Applying = {} /\ \A q \in Deciders : decision[q] = None
    BY DEF PresetsInit, Applying
  <1>2. LayersOK
    BY PresetsAssumption DEF PresetsInit, LayersOK, Layers
  <1>3. TreeOK
    <2>1. [h \in Hooks |-> 0] \in [Hooks -> Nat]
      OBVIOUS
    <2>2. claude \in Settings
      BY <2>1 DEF PresetsInit, Settings, NoSettings
    <2>3. Absent \in Copies /\ Absent.rest = {}
      BY DEF Absent, Copies
    <2>4. tree \in [Items -> Copies] /\ \A i \in Items : tree[i] = Absent
      BY <2>3 DEF PresetsInit
    <2> QED
      BY <2>2, <2>3, <2>4 DEF PresetsInit, TreeOK
  <1>4. AppliesOK /\ ProposalsOK
    BY <1>1 DEF PresetsInit, AppliesOK, ProposalsOK
  <1>5. CountsOK
    BY PresetsAssumption DEF PresetsInit, CountsOK
  <1>6. ListedInv
    BY DEF PresetsInit, ListedInv
  <1>7. AloneInv
    BY <1>1 DEF AloneInv
  <1>8. HooksInv
    BY <1>1 DEF PresetsInit, HooksInv, MergedOnly, Hooks, NoSettings
  <1>9. DecidedInv
    BY <1>1 DEF DecidedInv
  <1> QED
    BY <1>2, <1>3, <1>4, <1>5, <1>6, <1>7, <1>8, <1>9 DEF PInv

LEMMA PInvStutters ==
  ASSUME PInv, UNCHANGED presetvars
  PROVE  PInv'
  <1>1. /\ UNCHANGED <<layervars, treevars, apply, disturbed, orphans>>
        /\ UNCHANGED <<decisionvars, changes>>
    BY DEF presetvars, layervars, treevars, decisionvars
  <1>2. ProposalsOK' /\ CountsOK' /\ DecidedInv'
    BY <1>1 DEF PInv, ProposalsOK, CountsOK, DecidedInv, decisionvars
  <1> QED
    BY <1>1, <1>2, CopiesStay DEF PInv

(* Every step keeps the invariant, changes no copy that its apply was told   *)
(* is tracked, and ends an apply that has got to its last write only there   *)
(* or by a kill.                                                             *)
LEMMA StepPresets ==
  ASSUME PInv, PresetsNext
  PROVE  /\ PInv'
         /\ \A i \in tracked \cap tracked' :
              tree[i].copy = "own" /\ tree'[i].copy # "own"
                => \E p \in Applying : i \notin apply[p].tracked
         /\ \A p \in Appliers : Applied(p) => SyncHooks(p)
  <1>1. CASE \/ \E i \in Items : (\E l \in Layers : Put(l, i) \/ Edit(l, i)) \/ Disable(i) \/ Track(i)
             \/ ChangeTexts \/ AddHook \/ Spoil
             \/ \E d \in Proposals : \/ \E l \in Targets, i \in Items, delete \in BOOLEAN :
                                          Propose(d, l, i, delete)
                                     \/ \E q \in Deciders, accept \in BOOLEAN : LoadProposal(q, d, accept)
             \/ \E q \in Deciders : WriteTarget(q) \/ SaveProposal(q) \/ KillDecision(q)
    <2>1. PInv' /\ (Relabels \/ \A i \in tracked \cap tracked' : tree'[i] = tree[i])
      BY <1>1, LayersKeep, EditKeeps, TrackKeeps, SettingsKeep, ProposeKeeps, LoadKeeps, WriteTargetKeeps,
         SaveKeeps
    <2>3. \A i \in tracked \cap tracked' : tree[i].copy = "own" => tree'[i].copy = "own"
      BY <2>1 DEF Relabels, PInv, TreeOK
    <2>2. UNCHANGED apply
      BY <1>1 DEF Put, Edit, Disable, Track, ChangeTexts, AddHook, Spoil, Propose, LoadProposal, WriteTarget,
                  SaveProposal, KillDecision
    <2> QED
      BY <2>1, <2>2, <2>3 DEF Applied
  <1>2. ASSUME NEW o \in Appliers,
               \/ BeginApply(o) \/ DropStale(o) \/ WriteManifest(o) \/ SyncTexts(o)
               \/ ReadHooks(o) \/ SyncHooks(o) \/ KillApply(o)
               \/ \E i \in Items : Copy(o, i)
        PROVE  /\ PInv'
               /\ \A i \in tracked \cap tracked' :
                    tree[i].copy = "own" /\ tree'[i].copy # "own"
                      => \E p \in Applying : i \notin apply[p].tracked
               /\ \A p \in Appliers : Applied(p) => SyncHooks(p)
    <2>1. PInv'
      BY <1>2, BeginKeeps, DropStaleKeeps, WriteManifestKeeps, TextsKeep, SyncHooksKeeps,
         KillApplyKeeps, CopyKeeps
    <2>2. ASSUME NEW i \in tracked \cap tracked', tree'[i] # tree[i]
          PROVE  \E p \in Applying : i \notin apply[p].tracked
      <3>1. i \in Items
        BY DEF PInv, TreeOK
      <3>2. DropStale(o) \/ \E j \in Items : Copy(o, j)
        BY <1>2, <2>2, BeginKeeps, WriteManifestKeeps, TextsKeep, SyncHooksKeeps, KillApplyKeeps
      <3>3. o \in Applying
        BY <3>2 DEF DropStale, Copy, Applying
      <3>4. i \notin apply[o].tracked
        BY <2>2, <3>1, <3>2, DropStaleKeeps, CopyKeeps
      <3> QED
        BY <3>3, <3>4
    <2>3. ASSUME NEW p \in Appliers, Applied(p)
          PROVE  SyncHooks(p)
      <3>1. apply[p] # None /\ apply[p].step = "merge" /\ apply'[p] = None /\ changes'.cuts = changes.cuts
        BY <2>3 DEF Applied
      <3>2. p = o
        <4> SUFFICES ASSUME p # o PROVE apply'[p] = apply[p]
          BY <3>1
        <4>1. CASE BeginApply(o) \/ DropStale(o) \/ WriteManifest(o) \/ SyncTexts(o) \/ ReadHooks(o)
          BY <4>1 DEF BeginApply, DropStale, WriteManifest, SyncTexts, ReadHooks, Step, PInv, AppliesOK
        <4>2. CASE SyncHooks(o) \/ KillApply(o) \/ \E i \in Items : Copy(o, i)
          BY <4>2 DEF SyncHooks, KillApply, Copy, Abandon, PInv, AppliesOK
        <4> QED
          BY <1>2, <4>1, <4>2
      <3>3. ~BeginApply(o)
        BY <3>1, <3>2 DEF BeginApply
      <3>4. ~(DropStale(o) \/ WriteManifest(o) \/ SyncTexts(o) \/ ReadHooks(o))
        BY <3>1, <3>2, DropStaleKeeps, WriteManifestKeeps, TextsKeep
      <3>5. ~KillApply(o) /\ ~\E i \in Items : Copy(o, i)
        BY <3>1, <3>2, KillApplyKeeps DEF Copy
      <3> QED
        BY <1>2, <3>2, <3>3, <3>4, <3>5
    <2> QED
      BY <2>1, <2>2, <2>3
  <1> QED
    BY <1>1, <1>2 DEF PresetsNext

(* An apply that ends undisturbed has left what the layers give, and merged  *)
(* their hooks once.                                                         *)
LEMMA AppliedLeaves ==
  ASSUME PInv, PresetsNext, NEW p \in Appliers, Applied(p)
  PROVE  /\ \A i \in Items \ (tracked' \cup orphans') : Given(i)'
         /\ claude'.form = "json" => claude'.count["preset"] = (IF extra THEN 1 ELSE 0)
         /\ claude.form = "json" => /\ claude'.form = "json"
                                    /\ claude'.count["mine"] = claude.count["mine"]
         /\ claude.form # "json" /\ ~extra => claude' = claude
  <1>1. SyncHooks(p) /\ p \notin disturbed /\ p \in Applying
    BY StepPresets DEF Applied, Applying
  <1>2. apply[p].step = "merge" /\ apply[p].read = Parsed(claude)
        /\ \A i \in Items \ (tracked \cup orphans) : Given(i)
    BY <1>1 DEF PInv, AloneInv, SyncHooks
  <1>3. \A i \in Items \ (tracked' \cup orphans') : Given(i)'
    BY <1>1, <1>2, GivenStays DEF SyncHooks
  <1> DEFINE read == Parsed(claude)
  <1> DEFINE merged == MergedHooks(read)
  <1>4. claude' \in Written(read) /\ claude \in Settings /\ read \in Settings /\ MergedOnly(read)
    BY <1>1, <1>2, ParsedIs DEF SyncHooks, PInv, TreeOK, HooksInv
  <1>5. /\ merged.count["preset"] = (IF extra THEN 1 ELSE 0)
        /\ merged.count["mine"] = read.count["mine"] /\ merged.form = "json"
    BY <1>4, MergedIs
  <1>6. CASE claude.form = "json"
    <2>1. read = claude
      BY <1>6 DEF Parsed
    <2>2. claude' = merged
      <3> HIDE DEF read
      <3> QED
        BY <1>4, <2>1 DEF Written
    <2> QED
      BY <1>3, <1>5, <1>6, <2>1, <2>2
  <1>7. CASE claude.form # "json"
    <2>1. read = NoSettings
      BY <1>7 DEF Parsed
    <2>2. CASE extra
      <3>1. merged # read
        <4>1. read.count["preset"] = 0
          BY <2>1 DEF NoSettings, Hooks
        <4> QED
          BY <1>5, <2>2, <4>1
      <3>2. claude' = merged
        BY <1>4, <3>1 DEF Written
      <3> QED
        BY <1>3, <1>5, <1>7, <2>2, <3>2
    <2>3. CASE ~extra
      <3>1. merged = NoSettings
        <4>1. Layered = {}
          BY <2>3 DEF Layered
        <4> DEFINE c == [h \in Hooks |-> (IF h \in {} THEN 0 ELSE [g \in Hooks |-> 0][h])
                                         + (IF h \in {} THEN 1 ELSE 0)]
        <4>2. c = [h \in Hooks |-> 0]
          OBVIOUS
        <4>3. merged = [count |-> c, prev |-> {}, form |-> "json"]
          BY <2>1, <4>1 DEF MergedHooks, NoSettings
        <4> HIDE DEF c
        <4> QED
          BY <4>2, <4>3 DEF NoSettings
      <3>2. read.prev = {}
        BY <2>1 DEF NoSettings
      <3>3. claude' = claude
        BY <1>4, <2>1, <3>1, <3>2 DEF Written
      <3> QED
        BY <1>3, <1>7, <2>3, <3>3
    <2> QED
      BY <2>2, <2>3
  <1> QED
    BY <1>6, <1>7

(* Whatever else is applied, decided, changed or killed meanwhile: presets   *)
(* replace nothing the repository tracks, leave what the layers give (with   *)
(* only what a skill's folder held before beside it), stand once in settings *)
(* that are JSON, and hold no proposal the user rejected (custom.rs,         *)
(* proposal.rs).                                                             *)
THEOREM PresetsAreKept == PresetsSpec => PresetsKept
  <1>1. PresetsInit => PInv
    BY InitPresets
  <1>2. PInv /\ [PresetsNext]_presetvars => PInv'
    BY StepPresets, PInvStutters
  <1>3. PInv => PresetsTypeOK
    BY PInvType
  <1>4. PInv /\ [PresetsNext]_presetvars
          => [\A i \in tracked \cap tracked' :
                tree[i].copy = "own" /\ tree'[i].copy # "own"
                  => \E p \in Applying : i \notin apply[p].tracked]_presetvars
    BY StepPresets
  <1>5. PInv /\ [PresetsNext]_presetvars
          => [\A p \in Appliers : Applied(p) =>
                \A i \in Items \ (tracked' \cup orphans') : Given(i)']_presetvars
    BY AppliedLeaves
  <1>6. PInv /\ [PresetsNext]_presetvars
          => [\A p \in Appliers : Applied(p) =>
                /\ claude'.form = "json" => claude'.count["preset"] = (IF extra THEN 1 ELSE 0)
                /\ claude.form = "json" => /\ claude'.form = "json"
                                           /\ claude'.count["mine"] = claude.count["mine"]
                /\ claude.form # "json" /\ ~extra => claude' = claude]_presetvars
    BY AppliedLeaves
  <1>7. PInv /\ [PresetsNext]_presetvars
          => [\A q \in Deciders :
                decision[q] # None /\ decision[q].step = "write" /\ has' # has
                  /\ decision'[q] # decision[q] /\ decision[q].id \notin overlap
                => proposal[decision[q].id].state = "pending"]_presetvars
    BY DEF PInv, DecidedInv
  <1> QED
    BY <1>1, <1>2, <1>3, <1>4, <1>5, <1>6, <1>7, PTL
       DEF PresetsSpec, PresetsKept, TrackedKept, CopiesCurrent, HooksOnce, RejectionHolds
=============================================================================
