------------------------------- MODULE Fleet -------------------------------
(***************************************************************************)
(* The daemon's fleet map, daemon/mod.rs with scan.rs and store.rs: what   *)
(* is on disk is scanned without the lock and merged under it, groups and  *)
(* parents come from the store, every change is pushed, a subscriber folds *)
(* the pushes (tray.rs watch_daemon) and gets a new snapshot when it lags. *)
(* Removing and archiving a worktree drop its watcher first, since on      *)
(* Windows an open handle blocks the move; a rescan that is under way may  *)
(* open another.                                                           *)
(*                                                                         *)
(* The 10 s loop and the handlers' rescans are two processes, `loop` and   *)
(* `call`.  A worktree's files are its status and its plan title.          *)
(***************************************************************************)
EXTENDS Naturals, Sequences, FiniteSets, SequencesExt

CONSTANTS Ids,         \* worktree ids
          Linux,       \* those registered as WSL worktrees
          Delegators,  \* those of the form delegate/<slug>
          Statuses, Titles,
          Absent,
          Cap,         \* bound: pushes the broadcast channel retains (1024)
          MaxGroups,   \* bound: groups ever created
          MaxOps       \* bound: requests, and changes made by others

ASSUME FleetAssumption ==
  /\ Linux \subseteq Ids /\ Delegators \subseteq Ids /\ Absent \notin Ids \cup Titles
  /\ Cap \in Nat \ {0} /\ MaxGroups \in Nat \ {0} /\ MaxOps \in Nat

VARIABLES
  disk,     \* whether each worktree is absent, active or archived
  files,    \* each worktree's status and title
  mirror,   \* the Windows-side copy of each status
  distro,   \* whether the WSL distro runs
  daemon,   \* "down", "boot" (its first rescan) or "up"
  known,    \* inner.worktrees
  store,    \* groups, membership, parents and the last group id
  watched,  \* the keys of watchers
  ring,     \* the pushes retained
  client,   \* a subscriber: how far behind it is, and what it shows
  proc,     \* the rescans, and the remove or archive under way
  asking,   \* a WORKTREE_PARENT request: the worktree, its parent and how far it is
  ops,
  strayed   \* history: worktrees that went, or got a parent, behind the daemon's back

fvars == <<disk, files, mirror, distro, daemon, known, store, watched, ring, client, proc,
           asking, ops, strayed>>
world == <<disk, files, mirror, distro>>

FileTexts == [status : Statuses, title : Titles \cup {Absent}]
Row == [status : Statuses, title : Titles \cup {Absent}, group : 0..MaxGroups, parent : Ids \cup {Absent}]
Rows(m) == DOMAIN m \subseteq Ids /\ \A i \in DOMAIN m : m[i] \in Row

NoWork == [at |-> "idle", id |-> Absent, kind |-> "none", found |-> <<>>, up |-> FALSE,
           gone |-> {}, want |-> {}]
Off == [on |-> FALSE, behind |-> 0, rows |-> <<>>, groups |-> <<>>]

Active == {i \in Ids : disk[i] = "active"}
GroupIds == {store.groups[n] : n \in DOMAIN store.groups}
Spend == ops < MaxOps /\ ops' = ops + 1

-----------------------------------------------------------------------------
(* The broadcast channel. *)

UpsertRow(i, row) == [kind |-> "upsert", id |-> i, row |-> row]
Removal(i) == [kind |-> "remove", id |-> i]
GroupsPush(gs) == [kind |-> "groups", groups |-> gs]

LastCap(s) == IF Len(s) > Cap THEN SubSeq(s, Len(s) - Cap + 1, Len(s)) ELSE s
AtMostN(n, m) == IF n < m THEN n ELSE m

(* tx.send for each of ps; without a receiver nothing is retained. *)
Send(ps) ==
  IF client.on
  THEN /\ ring' = LastCap(ring \o ps)
       /\ client' = [client EXCEPT !.behind = AtMostN(@ + Len(ps), Cap + 1)]
  ELSE UNCHANGED <<ring, client>>

Snapshot == [on |-> TRUE, behind |-> 0, rows |-> known, groups |-> store.groups]

(* subscribe: the receiver and the snapshot under one lock. *)
Subscribe ==
  /\ daemon = "up" /\ ~client.on
  /\ client' = Snapshot /\ ring' = <<>>
  /\ UNCHANGED <<world, daemon, known, store, watched, proc, asking, ops, strayed>>

(* What a client makes of a push. *)
Fold(c, push) ==
  CASE push.kind = "upsert" -> [c EXCEPT !.rows = [i \in DOMAIN @ \cup {push.id} |->
                                                    IF i = push.id THEN push.row ELSE @[i]]]
    [] push.kind = "remove" -> [c EXCEPT !.rows = [i \in DOMAIN @ \ {push.id} |-> @[i]]]
    [] push.kind = "groups" -> [c EXCEPT !.groups = push.groups]

Receive ==
  /\ client.on /\ client.behind \in 1..Cap
  /\ client' = [Fold(client, ring[Len(ring) - client.behind + 1]) EXCEPT !.behind = @ - 1]
  /\ UNCHANGED <<world, daemon, known, store, watched, ring, proc, asking, ops, strayed>>

\* mutant: goes on with the oldest push, without a snapshot
LagSilently ==
  /\ client.on /\ client.behind > Cap
  /\ client' = [client EXCEPT !.behind = Cap]
  /\ UNCHANGED <<world, daemon, known, store, watched, ring, proc, asking, ops, strayed>>

(* RecvError::Lagged: a snapshot of now, then the older pushes still retained. *)
Lag ==
  /\ client.on /\ client.behind > Cap
  /\ client' = [Snapshot EXCEPT !.behind = Cap]
  /\ UNCHANGED <<world, daemon, known, store, watched, ring, proc, asking, ops, strayed>>

Unsubscribe ==
  /\ client.on /\ Spend
  /\ client' = Off /\ ring' = <<>>
  /\ UNCHANGED <<world, daemon, known, store, watched, proc, asking, strayed>>

-----------------------------------------------------------------------------
(* rescan. *)

(* What scan::scan finds if every directory can be read: a stopped distro is not touched, its
   worktrees' status is the mirror's. *)
Scanned ==
  [i \in Active |-> IF i \in Linux /\ ~distro THEN [status |-> mirror[i], title |-> Absent]
                                             ELSE files[i]]

(* What a directory that cannot be read hides: `worktrees/` every Windows worktree, one of its
   subdirectories some of them (scan.rs:14 and 65). *)
Hidden == {{}, Active \ Linux} \cup {{i} : i \in Active \ Linux}

(* A request and a failing read each count against the bound. *)
ScanRead(p) ==
  /\ daemon # "down" /\ proc[p].at \in {"idle", "settled"}
  /\ p = "call" /\ proc[p].at = "idle" => daemon = "up"
  /\ \E hidden \in Hidden :
       /\ ops' = ops + (IF p = "call" /\ proc[p].at = "idle" THEN 1 ELSE 0) + (IF hidden = {} THEN 0 ELSE 1)
       /\ ops' > ops => ops' <= MaxOps
       /\ proc' = [proc EXCEPT ![p] = [NoWork EXCEPT !.at = "read", !.up = distro,
                                                     !.found = [i \in Active \ hidden |-> Scanned[i]]]]
  /\ UNCHANGED <<world, daemon, known, store, watched, ring, client, asking, strayed>>

\* mutant: shows a stopped distro's worktree without a title
MergedBlank(i, f) ==
  [status |-> f.status, group |-> store.members[i], parent |-> store.parents[i], title |-> f.title]

(* A found worktree with what the store and the old row add to it. *)
Merged(i, f) ==
  [status |-> f.status, group |-> store.members[i], parent |-> store.parents[i],
   title |-> IF i \in DOMAIN known /\ i \in Linux /\ f.title = Absent THEN known[i].title
                                                                      ELSE f.title]

\* mutant: keeps what is gone from the disk
ScanMergeAdds(p) ==
  /\ proc[p].at = "read"
  /\ LET found == proc[p].found
         new == [i \in DOMAIN found \cup DOMAIN known |->
                   IF i \in DOMAIN found THEN Merged(i, found[i]) ELSE known[i]]
         told == {i \in DOMAIN new : i \notin DOMAIN known \/ known[i] # new[i]}
     IN /\ known' = new
        /\ Send([n \in 1..Cardinality(told) |-> UpsertRow(SetToSeq(told)[n], new[SetToSeq(told)[n]])])
        /\ proc' = [proc EXCEPT ![p].at = "merged", ![p].want = DOMAIN new \ Linux]
  /\ UNCHANGED <<world, daemon, store, watched, asking, ops, strayed>>

(* The merge, under the lock: what was found replaces the rows, what was not is removed. *)
ScanMerge(p) ==
  /\ proc[p].at = "read"
  /\ LET found == proc[p].found
         new == [i \in DOMAIN found |-> Merged(i, found[i])]
         told == SetToSeq({i \in DOMAIN new : i \notin DOMAIN known \/ known[i] # new[i]})
         gone == DOMAIN known \ DOMAIN found
         went == SetToSeq(gone)
     IN /\ known' = new
        /\ Send([n \in DOMAIN told |-> UpsertRow(told[n], new[told[n]])]
                  \o [n \in DOMAIN went |-> Removal(went[n])])
        /\ proc' = [proc EXCEPT ![p] = [@ EXCEPT !.at = "merged", !.found = <<>>, !.gone = gone,
                                                !.want = DOMAIN new \ Linux]]
  /\ UNCHANGED <<world, daemon, store, watched, asking, ops, strayed>>

ScanUnwatch(p) ==
  /\ proc[p].at = "merged"
  /\ watched' = watched \ proc[p].gone
  /\ proc' = [proc EXCEPT ![p] = [@ EXCEPT !.at = "unwatched", !.gone = {}]]
  /\ UNCHANGED <<world, daemon, known, store, ring, client, asking, ops, strayed>>

(* A folder that is gone by now cannot be watched; after the first rescan the daemon serves. *)
ScanWatch(p) ==
  /\ proc[p].at = "unwatched"
  /\ watched' = watched \cup (proc[p].want \cap Active)
  /\ proc' = [proc EXCEPT ![p] = NoWork]
  /\ daemon' = "up"
  /\ UNCHANGED <<world, known, store, ring, client, asking, ops, strayed>>

-----------------------------------------------------------------------------
(* WORKTREE_REMOVE and WORKTREE_ARCHIVE. *)

Calls(step) == proc' = [proc EXCEPT !["call"].at = step]

(* Push::Release, the sessions' end and the wait for editors, then unwatch. *)
MoveUnwatch(i, kind) ==
  /\ daemon = "up" /\ proc["call"].at = "idle" /\ Spend
  /\ proc' = [proc EXCEPT !["call"] = [NoWork EXCEPT !.at = "asked", !.id = i, !.kind = kind]]
  /\ watched' = watched \ {i}
  /\ UNCHANGED <<world, daemon, known, store, ring, client, asking, strayed>>

(* wt::remove and wt::archive: they fail for a folder with an open handle, and can always fail;
   removing what is not there succeeds, archiving needs an active worktree. *)
MoveFolder ==
  /\ proc["call"].at = "asked"
  /\ LET i == proc["call"].id
         archive == proc["call"].kind = "archive"
     IN \/ /\ disk[i] = "active" /\ i \notin watched
           /\ disk' = [disk EXCEPT ![i] = IF archive THEN "archived" ELSE "absent"]
           /\ files' = IF archive THEN files ELSE [files EXCEPT ![i] = [status |-> CHOOSE s \in Statuses : TRUE, title |-> Absent]]
           /\ mirror' = [mirror EXCEPT ![i] = CHOOSE s \in Statuses : TRUE]
           /\ Calls(IF archive THEN "settled" ELSE "removed")
        \/ /\ disk[i] # "active" /\ ~archive
           /\ Calls("removed")
           /\ UNCHANGED <<disk, files, mirror>>
        \/ /\ Calls("settled")
           /\ UNCHANGED <<disk, files, mirror>>
  /\ UNCHANGED <<distro, daemon, known, store, watched, ring, client, asking, ops, strayed>>

\* mutant: forgets the group instead of the parent
ForgetGroup ==
  /\ proc["call"].at = "removed" /\ Calls("settled")
  /\ store' = [store EXCEPT !.members[proc["call"].id] = 0]
  /\ UNCHANGED <<world, daemon, known, watched, ring, client, asking, ops, strayed>>

(* Only a remove that succeeded clears the parent; the row shows it until the rescan. *)
ForgetParent ==
  /\ proc["call"].at = "removed" /\ Calls("settled")
  /\ store' = [store EXCEPT !.parents[proc["call"].id] = Absent]
  /\ UNCHANGED <<world, daemon, known, watched, ring, client, asking, ops, strayed>>

-----------------------------------------------------------------------------
(* Groups and parents: under the lock, saved, then pushed. *)

(* apply_membership of each of is, then ps. *)
Apply(is, st, ps) ==
  LET new == [i \in DOMAIN known |-> IF i \in is THEN [known[i] EXCEPT !.group = st.members[i],
                                                                       !.parent = st.parents[i]]
                                                 ELSE known[i]]
      told == SetToSeq({i \in DOMAIN known : new[i] # known[i]})
  IN /\ store' = st /\ known' = new
     /\ Send([n \in DOMAIN told |-> UpsertRow(told[n], new[told[n]])] \o ps)

GroupsChanged(is, st) == Apply(is, st, <<GroupsPush(st.groups)>>)

Handles == daemon = "up" /\ Spend /\ UNCHANGED <<world, daemon, watched, proc, asking, strayed>>

GroupCreate ==
  /\ Handles /\ store.last < MaxGroups
  /\ GroupsChanged({}, [store EXCEPT !.groups = Append(@, store.last + 1), !.last = @ + 1])

(* GROUP_UPDATE: a new name or a folded group is pushed with the others. *)
GroupUpdate == Handles /\ GroupIds # {} /\ GroupsChanged({}, store)

\* mutant: leaves the members in the group
GroupDeleteKeeps(g) ==
  /\ Handles /\ g \in GroupIds
  /\ GroupsChanged({}, [store EXCEPT !.groups = SelectSeq(@, LAMBDA x : x # g)])

GroupDelete(g) ==
  /\ Handles /\ g \in GroupIds
  /\ LET members == {i \in Ids : store.members[i] = g}
     IN GroupsChanged(members, [store EXCEPT !.groups = SelectSeq(@, LAMBDA x : x # g),
                                             !.members = [i \in Ids |-> IF i \in members THEN 0 ELSE @[i]]])

(* The named groups first; the others keep their order at the end. *)
Reordered(named) ==
  SelectSeq(named, LAMBDA g : g \in GroupIds) \o SelectSeq(store.groups, LAMBDA g : ~Contains(named, g))

GroupReorder(named) == Handles /\ GroupsChanged({}, [store EXCEPT !.groups = Reordered(named)])

GroupAssign(i, g) ==
  /\ Handles /\ i \in DOMAIN known /\ g \in GroupIds \cup {0}
  /\ Apply({i}, [store EXCEPT !.members[i] = g], <<>>)

(* The request of `wtd agent`, Windows or WSL, run from a delegator, or of `wtd worktree parent`. *)
ParentAsk(i, par) ==
  /\ daemon = "up" /\ asking = <<>> /\ Spend
  /\ i \in Active /\ par \in (Active \cap Delegators) \cup {Absent}
  /\ asking' = <<i, par, "sent">>
  /\ UNCHANGED <<world, daemon, known, store, watched, ring, client, proc, strayed>>

(* check_parent looks at folders under worktrees/, before the lock is taken. *)
Nestable(i, par) ==
  /\ i \in Active \ (Delegators \cup Linux)
  /\ par \in (Active \cap Delegators) \cup {Absent}

ParentCheck ==
  /\ asking # <<>> /\ asking[3] = "sent"
  /\ asking' = IF Nestable(asking[1], asking[2]) THEN [asking EXCEPT ![3] = "checked"] ELSE <<>>
  /\ UNCHANGED <<world, daemon, known, store, watched, ring, client, proc, ops, strayed>>

ParentSet ==
  /\ asking # <<>> /\ asking[3] = "checked" /\ asking' = <<>>
  /\ Apply({asking[1]}, [store EXCEPT !.parents[asking[1]] = asking[2]], <<>>)
  /\ strayed' = IF disk[asking[1]] = "absent" THEN strayed \cup {asking[1]} ELSE strayed
  /\ UNCHANGED <<world, daemon, watched, proc, ops>>

-----------------------------------------------------------------------------
(* The disk's other users, the distro, and the daemon's own end. *)

Others == Spend /\ UNCHANGED <<daemon, known, store, watched, ring, client, proc, asking>>

(* wtd agent add: a new worktree; or the restore of an archived one. *)
Create(i) ==
  /\ Others /\ disk[i] # "active"
  /\ disk' = [disk EXCEPT ![i] = "active"]
  /\ UNCHANGED <<files, mirror, distro, strayed>>

(* The session's files change; a hook also writes the mirror, if it reaches Windows. *)
Write(i, f) ==
  /\ Others /\ disk[i] = "active" /\ files[i] # f /\ (i \in Linux => distro)
  /\ files' = [files EXCEPT ![i] = f]
  /\ \E st \in {mirror[i], f.status} : mirror' = [mirror EXCEPT ![i] = st]
  /\ UNCHANGED <<disk, distro, strayed>>

(* A folder is deleted by hand: not while it is watched. *)
Vanish(i) ==
  /\ Others /\ disk[i] = "active" /\ i \notin watched
  /\ disk' = [disk EXCEPT ![i] = "absent"]
  /\ files' = [files EXCEPT ![i] = [status |-> CHOOSE s \in Statuses : TRUE, title |-> Absent]]
  /\ strayed' = strayed \cup {i}
  /\ UNCHANGED <<mirror, distro>>

DistroFlip ==
  /\ Others /\ Linux # {}
  /\ distro' = ~distro
  /\ UNCHANGED <<disk, files, mirror, strayed>>

(* Everything but the store is lost; a remove between its move and the store's save is cut. *)
Crash ==
  /\ daemon # "down" /\ Spend
  /\ daemon' = "down" /\ known' = <<>> /\ watched' = {} /\ ring' = <<>> /\ client' = Off
  /\ proc' = [p \in DOMAIN proc |-> NoWork] /\ asking' = <<>>
  /\ strayed' = IF proc["call"].at = "removed" THEN strayed \cup {proc["call"].id} ELSE strayed
  /\ UNCHANGED <<world, store>>

Boot ==
  /\ daemon = "down" /\ daemon' = "boot"
  /\ UNCHANGED <<world, known, store, watched, ring, client, proc, asking, ops, strayed>>

-----------------------------------------------------------------------------
(* A daemon starts on what earlier ones left: worktrees, and groups without members. *)
FInit ==
  /\ disk = [i \in Ids |-> "active"]
  /\ files \in [Ids -> FileTexts] /\ \A i \in Ids \ Linux : files[i].title = Absent
  /\ mirror = [i \in Ids |-> CHOOSE s \in Statuses : TRUE]
  /\ distro = TRUE /\ daemon = "down" /\ known = <<>>
  /\ store = [groups |-> [n \in 1..MaxGroups - 1 |-> n], last |-> MaxGroups - 1,
              members |-> [i \in Ids |-> 0], parents |-> [i \in Ids |-> Absent]]
  /\ watched = {} /\ ring = <<>> /\ client = Off
  /\ proc = [p \in {"loop", "call"} |-> NoWork]
  /\ asking = <<>> /\ ops = 0 /\ strayed = {}

Scan(p) == ScanRead(p) \/ ScanMerge(p) \/ ScanUnwatch(p) \/ ScanWatch(p)

FNext ==
  \/ \E p \in {"loop", "call"} : Scan(p)
  \/ \E i \in Ids, kind \in {"remove", "archive"} : MoveUnwatch(i, kind)
  \/ MoveFolder \/ ForgetParent
  \/ Subscribe \/ Receive \/ Lag \/ Unsubscribe
  \/ GroupCreate \/ GroupUpdate
  \/ \E g \in 1..MaxGroups : GroupDelete(g)
  \/ \E named \in SeqOf(1..MaxGroups, 1) : GroupReorder(named)
  \/ \E i \in Ids, g \in 0..MaxGroups : GroupAssign(i, g)
  \/ \E i \in Ids, par \in Ids \cup {Absent} : ParentAsk(i, par)
  \/ ParentCheck \/ ParentSet
  \/ \E i \in Ids : Create(i) \/ Vanish(i)
  \/ \E i \in Ids, f \in FileTexts : Write(i, f)
  \/ DistroFlip \/ Crash \/ Boot

FSpec == FInit /\ [][FNext]_fvars

(* The next step of a request under way. *)
CallGoesOn == (Scan("call") /\ proc["call"].at # "idle") \/ MoveFolder \/ ForgetParent

(* The loop's timer keeps firing and what was begun is finished. *)
FFair ==
  /\ WF_fvars(Scan("loop")) /\ WF_fvars(CallGoesOn)
  /\ WF_fvars(ParentCheck \/ ParentSet) /\ WF_fvars(Receive \/ Lag)

FFairSpec == FSpec /\ FFair

-----------------------------------------------------------------------------
(* Type correctness. *)
FleetTypeOK ==
  /\ disk \in [Ids -> {"absent", "active", "archived"}]
  /\ files \in [Ids -> FileTexts] /\ mirror \in [Ids -> Statuses] /\ distro \in BOOLEAN
  /\ daemon \in {"down", "boot", "up"}
  /\ Rows(known) /\ Rows(client.rows)
  /\ store.members \in [Ids -> 0..MaxGroups] /\ store.parents \in [Ids -> Ids \cup {Absent}]
  /\ watched \subseteq Ids /\ client.behind \in 0..Cap + 1 /\ Len(ring) <= Cap
  /\ ops \in 0..MaxOps

(* A subscriber that has read every push shows the fleet and the groups, also when it lagged and
   got the older pushes after a newer snapshot (mod.rs:423). *)
InSync == client.on /\ client.behind = 0 => client.rows = known /\ client.groups = store.groups

(* A row's group exists and is the store's, and its parent is the store's but for a worktree that
   was just removed (upsert, apply_membership, rescan and the group handlers). *)
AsStored ==
  /\ \A i \in Ids : store.members[i] \in GroupIds \cup {0}
  /\ \A i \in DOMAIN known :
       /\ known[i].group = store.members[i]
       /\ known[i].parent # store.parents[i] => store.parents[i] = Absent

(* What is in `parents` is of a worktree there is: one that is created again under an old name does
   not inherit its delegator, unless it went, or its request raced, behind the daemon's back. *)
ParentsReal ==
  \A i \in Ids : store.parents[i] # Absent /\ disk[i] = "absent" =>
    i \in strayed \/ (proc["call"].at = "removed" /\ proc["call"].id = i)

(* A title that was shown for a WSL worktree is not blanked because its distro has stopped. *)
TitleKept ==
  [][\A i \in Linux \cap DOMAIN known \cap DOMAIN known' :
       known[i].title # Absent => known'[i].title # Absent]_fvars

(* "Id of the delegator that started this worktree; the roster nests it there" (model.rs:125): a
   worktree there is, that is no delegator itself, is nested when its launch asks for it. *)
NestedWhenAsked ==
  [][(asking # <<>> /\ asking[3] = "sent" /\ asking' = <<>> /\ daemon' = "up")
       => ~(asking[1] \in Active \ Delegators /\ asking[2] \in Active \cap Delegators)]_fvars

(* What the fleet can know of the disk. *)
Current ==
  /\ DOMAIN known = Active
  /\ \A i \in Active :
       /\ known[i].status = Scanned[i].status
       /\ Scanned[i].title # Absent \/ i \notin Linux => known[i].title = Scanned[i].title

(* Whatever rescans overlapped, a daemon that stays up ends up showing what is on disk, with a
   watcher on each Windows worktree and on nothing else, and so does its subscriber. *)
Converges ==
  <>[](daemon = "up") =>
    <>[](/\ Current /\ watched = Active \ Linux
         /\ (client.on => client.behind = 0))

(* The map of the fleet, whatever the order of scans, moves, requests and restarts: what a client
   mirrors, what the groups and parents of its rows are, and which titles stay (daemon/mod.rs). *)
FleetTrue == [](FleetTypeOK /\ InSync /\ AsStored /\ ParentsReal) /\ TitleKept
=============================================================================
