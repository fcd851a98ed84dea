---------------------------- MODULE MessageStore ----------------------------
(***************************************************************************)
(* Agent-to-agent messages, daemon/messages.rs, in the daemon's durable    *)
(* store, daemon/store.rs.  An agent only requests a send; the user        *)
(* decides; an approved message is handed to a thread that types it into   *)
(* the target's hosted session; a message whose target is gone expires.    *)
(*                                                                         *)
(* Every operation runs under the daemon's one lock and saves store.json   *)
(* before it releases it, so an operation is one step; the call of         *)
(* deliver_next that follows a decision takes the lock again, so it is a   *)
(* step of its own, owed in `calls`.  A save can fail (the code logs it    *)
(* and goes on) and a load can fail (the code starts from an empty store): *)
(* `faults` counts both.                                                   *)
(*                                                                         *)
(* What the rest of the daemon does to the fleet map, the sessions and the *)
(* shown statuses is left open here: every value they could have.          *)
(* Delivery closes it with the real handlers.                              *)
(***************************************************************************)
EXTENDS Status, Functions, FiniteSets

CONSTANTS Worktrees,   \* worktree ids
          Removable,   \* the worktrees whose folder comes and goes
          SessionIds,  \* connection ids of registered sessions
          MaxPending,  \* MAX_PENDING_PER_SENDER
          KeepClosed,  \* KEEP_CLOSED
          Shown,       \* the statuses the fleet map may show
          MaxId,       \* bound: ids the store hands out
          MaxCalls,    \* bound: deliver_next calls owed by hooks and timers
          MaxFaults    \* bound: saves and loads that fail

ASSUME MessageAssumption ==
  /\ MaxPending \in Nat \ {0} /\ KeepClosed \in Nat
  /\ Shown \subseteq Statuses /\ Removable \subseteq Worktrees
  /\ MaxId \in Nat /\ MaxCalls \in Nat /\ MaxFaults \in Nat

VARIABLES
  messages,  \* inner.store.messages: a function from the ids it holds
  nextId,    \* inner.store.next_id
  store,     \* store.json: the messages and next_id last written
  fleet,     \* the keys of inner.worktrees
  folders,   \* the worktrees whose folder exists on disk
  status,    \* the status the fleet map shows for each worktree
  sessions,  \* inner.sessions
  calls,     \* calls[w]: deliver_next(w) calls owed, outside the lock
  pastes,    \* threads that have yet to type a message into a session
  sent,      \* history: messages requested; numbers them across lost stores
  approved,  \* history: what the user approved, as it was then
  handed,    \* history: the numbers of the messages handed to a thread
  aside,     \* stores moved aside as store.json.bad-<time>
  faults     \* saves and loads that failed

storeVars == <<messages, nextId, store, aside, faults>>
aroundVars == <<fleet, folders, sessions>>
mvars == <<messages, nextId, store, fleet, folders, status, sessions, calls,
           pastes, sent, approved, handed, aside, faults>>

Ids == 1..MaxId

Bodies == {"asked", "edited"}   \* as the sender wrote it; as the user changed it

OpenStates == {"pending", "queued"}
ClosedStates == {"delivered", "denied", "expired"}

(* `nth` is history: it tells a message from an earlier one whose id the
   store has handed out again. *)
Message == [nth : Nat, from : Worktrees, to : Worktrees, body : Bodies,
            state : OpenStates \cup ClosedStates]

Session == [id : SessionIds, wt : Worktrees, hosted : BOOLEAN]

Paste == [nth : Nat, to : Worktrees, body : Bodies, session : SessionIds]

NoMessages == [i \in {} |-> {}]

InState(ms, states) == {i \in DOMAIN ms : ms[i].state \in states}

-----------------------------------------------------------------------------
(* store.rs *)

\* mutant: trims open messages like closed ones
TrimAny(ms) ==
  Restrict(ms, {i \in DOMAIN ms : Cardinality({j \in DOMAIN ms : j >= i}) <= KeepClosed})

(* The open messages and the KeepClosed newest closed ones. *)
Trim(ms) ==
  LET closed == InState(ms, ClosedStates) IN
  Restrict(ms, InState(ms, OpenStates)
                 \cup {i \in closed : Cardinality({j \in closed : j >= i}) <= KeepClosed})

\* mutant: trims, and leaves the file as it was
SaveInMemoryOnly(ms, n) ==
  /\ messages' = Trim(ms) /\ nextId' = n
  /\ UNCHANGED <<store, aside, faults>>

(* Store::save: trims, then writes the file, or fails and is only logged. *)
Save(ms, n) ==
  /\ messages' = Trim(ms) /\ nextId' = n
  /\ \/ /\ store' = [messages |-> Trim(ms), nextId |-> n]
        /\ UNCHANGED faults
     \/ /\ faults < MaxFaults
        /\ faults' = faults + 1
        /\ UNCHANGED store
  /\ UNCHANGED aside

-----------------------------------------------------------------------------
(* messages.rs *)

Send(from, to) ==
  /\ nextId < MaxId /\ sent < MaxId
  /\ from \in folders /\ to \in fleet /\ to # from
  /\ Cardinality({i \in InState(messages, {"pending"}) : messages[i].from = from}) < MaxPending
  /\ LET m == [nth |-> sent + 1, from |-> from, to |-> to, body |-> "asked",
               state |-> "pending"]
         id == nextId + 1 IN
     Save([i \in DOMAIN messages \cup {id} |-> IF i = id THEN m ELSE messages[i]], id)
  /\ sent' = sent + 1
  /\ UNCHANGED <<aroundVars, status, calls, pastes, approved, handed>>

AsApproved(m) == [nth |-> m.nth, to |-> m.to, body |-> m.body]

Approved(i, body) == [nth |-> messages[i].nth, to |-> messages[i].to, body |-> body]

Handed(i, w, s) == [nth |-> messages[i].nth, to |-> w, body |-> messages[i].body, session |-> s.id]

Owe(targets) == [w \in Worktrees |-> IF w \in targets THEN calls[w] + 1 ELSE calls[w]]

(* One id: the user may also change the body of what is approved. *)
Decide(i, approve, body) ==
  /\ i \in InState(messages, {"pending"})
  /\ body = "edited" => approve
  /\ LET new == IF body = "edited" THEN body ELSE messages[i].body IN
     /\ Save([messages EXCEPT ![i].state = IF approve THEN "queued" ELSE "denied",
                              ![i].body = new], nextId)
     /\ approved' = IF approve THEN approved \cup {Approved(i, new)} ELSE approved
  /\ calls' = IF approve THEN Owe({messages[i].to}) ELSE calls
  /\ UNCHANGED <<aroundVars, status, pastes, sent, handed>>

(* Many ids: those that are not pending are skipped; deliver_next is called
   for every target, denied or not. *)
DecideMany(ids, approve) ==
  LET decided == ids \cap InState(messages, {"pending"}) IN
  /\ decided # {}
  /\ Save([i \in DOMAIN messages |->
             IF i \in decided
               THEN [messages[i] EXCEPT !.state = IF approve THEN "queued" ELSE "denied"]
               ELSE messages[i]], nextId)
  /\ approved' = IF approve THEN approved \cup {Approved(i, messages[i].body) : i \in decided}
                            ELSE approved
  /\ calls' = Owe({messages[i].to : i \in decided})
  /\ UNCHANGED <<aroundVars, status, pastes, sent, handed>>

(* expire_orphans, in a step that leaves `fl` in the fleet map and starts
   from the messages ms: nothing is saved when no message is orphaned. *)
Orphans(ms, fl) == {i \in InState(ms, OpenStates) : ms[i].to \notin fl \cup folders}

Expired(ms, fl) ==
  [i \in DOMAIN ms |-> IF i \in Orphans(ms, fl) THEN [ms[i] EXCEPT !.state = "expired"]
                                                ELSE ms[i]]

\* mutant: takes a working agent for an idle one
BusyUnderReview(w) == w \in fleet /\ status[w] = "reviewing"

Busy(w) == w \in fleet /\ status[w] \in {"working", "reviewing"}

Queued(w) == {i \in InState(messages, {"queued"}) : messages[i].to = w}

Oldest(ids) == {i \in ids : \A j \in ids : i <= j}

Delivered(i) == [messages EXCEPT ![i].state = "delivered"]

\* mutant: hands over what is pending as well
DeliverUndecided(w, s) ==
  LET waiting == {i \in InState(messages, OpenStates) : messages[i].to = w} IN
  /\ s.wt = w /\ s.hosted /\ ~Busy(w) /\ waiting # {}
  /\ \E i \in Oldest(waiting) :
     /\ Save(Delivered(i), nextId)
     /\ pastes' = pastes \cup {Handed(i, w, s)}
     /\ handed' = handed \cup {messages[i].nth}
  /\ status' = IF w \in fleet THEN [status EXCEPT ![w] = "working"] ELSE status

\* mutant: hands the message over and leaves it queued
DeliverKeepsQueued(w, s) ==
  /\ s.wt = w /\ s.hosted /\ ~Busy(w) /\ Queued(w) # {}
  /\ \E i \in Oldest(Queued(w)) :
     /\ Save(messages, nextId)
     /\ pastes' = pastes \cup {Handed(i, w, s)}
     /\ handed' = handed \cup {messages[i].nth}
  /\ status' = IF w \in fleet THEN [status EXCEPT ![w] = "working"] ELSE status

\* mutant: does not mark the target as working
DeliverLeavesIdle(w, s) ==
  /\ s.wt = w /\ s.hosted /\ ~Busy(w) /\ Queued(w) # {}
  /\ \E i \in Oldest(Queued(w)) :
     /\ Save(Delivered(i), nextId)
     /\ pastes' = pastes \cup {Handed(i, w, s)}
     /\ handed' = handed \cup {messages[i].nth}
  /\ UNCHANGED status

(* deliver_next, when the session it finds is hosted and idle: the oldest
   queued message goes to a thread and the worktree is shown as working. *)
Deliver(w, s) ==
  /\ s.wt = w /\ s.hosted /\ ~Busy(w) /\ Queued(w) # {}
  /\ \E i \in Oldest(Queued(w)) :
     /\ Save(Delivered(i), nextId)
     /\ pastes' = pastes \cup {Handed(i, w, s)}
     /\ handed' = handed \cup {messages[i].nth}
  /\ status' = IF w \in fleet THEN [status EXCEPT ![w] = "working"] ELSE status

(* ... and when there is nothing to do: no session, the session found first
   (in no order) is not hosted, the target is busy, or nothing is queued. *)
NothingToDeliver(w) ==
  /\ \/ \A s \in sessions : s.wt # w
     \/ \E s \in sessions : s.wt = w /\ ~s.hosted
     \/ Busy(w) \/ Queued(w) = {}
  /\ UNCHANGED <<storeVars, status, pastes, handed>>

DeliverNext(w) ==
  /\ calls[w] > 0
  /\ calls' = [calls EXCEPT ![w] = @ - 1]
  /\ (\E s \in sessions : Deliver(w, s)) \/ NothingToDeliver(w)
  /\ UNCHANGED <<aroundVars, sent, approved>>

(* The thread types its message, or finds the session's console gone. *)
PasteEnds(p) ==
  /\ p \in pastes
  /\ pastes' = pastes \ {p}
  /\ UNCHANGED <<storeVars, aroundVars, status, calls, sent, approved, handed>>

-----------------------------------------------------------------------------
(* The rest of the daemon. *)

(* rescan: any fleet map, any statuses, then expire_orphans. *)
Rescan(fl, st) ==
  /\ fleet' = fl /\ status' = st
  /\ IF Orphans(messages, fl) = {} THEN UNCHANGED storeVars
                                   ELSE Save(Expired(messages, fl), nextId)
  /\ UNCHANGED <<folders, sessions, calls, pastes, sent, approved, handed>>

(* A group, a parent or a job is saved with the messages; some take an id. *)
OtherSave(n) ==
  /\ n \in {nextId, nextId + 1} /\ n <= MaxId
  /\ Save(messages, n)
  /\ UNCHANGED <<aroundVars, status, calls, pastes, sent, approved, handed>>

FolderChanges(w) ==
  /\ folders' = IF w \in folders THEN folders \ {w} ELSE folders \cup {w}
  /\ UNCHANGED <<storeVars, fleet, sessions, status, calls, pastes, sent, approved, handed>>

SessionOpens(s) ==
  /\ s.id \notin {t.id : t \in sessions}
  /\ sessions' = sessions \cup {s}
  /\ UNCHANGED <<storeVars, fleet, folders, status, calls, pastes, sent, approved, handed>>

(* A hosted session's end also reports what its agent can no longer report. *)
SessionCloses(s) ==
  /\ s \in sessions
  /\ sessions' = sessions \ {s}
  /\ status' \in {status} \cup {[status EXCEPT ![s.wt] = shown] : shown \in Shown}
  /\ UNCHANGED <<storeVars, fleet, folders, calls, pastes, sent, approved, handed>>

(* A hook reports a status: deliver_next is called for some of them. *)
StatusReported(w, s) ==
  /\ status' = [status EXCEPT ![w] = s]
  /\ \/ calls' = calls
     \/ calls[w] < MaxCalls /\ calls' = Owe({w})
  /\ UNCHANGED <<storeVars, aroundVars, pastes, sent, approved, handed>>

(* The timer of a session that has just started. *)
CallDeliver(w) ==
  /\ calls[w] < MaxCalls
  /\ calls' = [calls EXCEPT ![w] = @ + 1]
  /\ UNCHANGED <<storeVars, aroundVars, status, pastes, sent, approved, handed>>

(***************************************************************************)
(* The daemon ends, by a crash or a shutdown, and starts again: it loads   *)
(* the store and rescans before it serves anyone.  A store it cannot read  *)
(* is taken for an empty one; one it reads but cannot parse is moved aside *)
(* as well.                                                                *)
(***************************************************************************)
EmptyStore == [messages |-> NoMessages, nextId |-> 0]

Restart(st) ==
  /\ fleet' = folders /\ status' = st
  /\ \/ IF Orphans(store.messages, folders) = {}
          THEN /\ messages' = store.messages /\ nextId' = store.nextId
               /\ UNCHANGED <<store, aside, faults>>
          ELSE Save(Expired(store.messages, folders), store.nextId)
     \/ /\ messages' = NoMessages /\ nextId' = 0
        /\ \/ UNCHANGED <<store, aside>>
           \/ store' = EmptyStore /\ aside' = aside \cup {store}
        /\ faults < MaxFaults /\ faults' = faults + 1
  /\ sessions' = {} /\ calls' = [w \in Worktrees |-> 0] /\ pastes' = {}
  /\ UNCHANGED <<folders, sent, approved, handed>>

-----------------------------------------------------------------------------
MInit ==
  /\ messages = NoMessages /\ nextId = 0
  /\ store = EmptyStore
  /\ fleet = Worktrees /\ folders = Worktrees
  /\ status = [w \in Worktrees |-> "none"]
  /\ sessions = {} /\ calls = [w \in Worktrees |-> 0] /\ pastes = {}
  /\ sent = 0 /\ approved = {} /\ handed = {} /\ aside = {} /\ faults = 0

Operation ==
  \/ \E from, to \in Worktrees : Send(from, to)
  \/ \E i \in DOMAIN messages, approve \in BOOLEAN, body \in Bodies : Decide(i, approve, body)
  \/ \E ids \in SUBSET DOMAIN messages, approve \in BOOLEAN : DecideMany(ids, approve)
  \/ \E w \in Worktrees : DeliverNext(w)
  \/ \E p \in pastes : PasteEnds(p)

Surroundings ==
  \/ \E gone \in SUBSET Removable, st \in [Worktrees -> Shown] : Rescan(Worktrees \ gone, st)
  \/ \E n \in {nextId, nextId + 1} : OtherSave(n)
  \/ \E w \in Removable : FolderChanges(w)
  \/ \E w \in Worktrees : CallDeliver(w) \/ \E s \in Shown : StatusReported(w, s)
  \/ \E s \in Session : SessionOpens(s) \/ SessionCloses(s)
  \/ \E st \in [Worktrees -> Shown] : Restart(st)

MNext == Operation \/ Surroundings

MSpec == MInit /\ [][MNext]_mvars

-----------------------------------------------------------------------------
(* The store in memory and on disk, and what is in flight, are well typed,
   and no message has an id the store has yet to hand out. *)
Kept(ms, n) == ms \in [DOMAIN ms -> Message] /\ DOMAIN ms \subseteq 1..n /\ n \in 0..MaxId

MTypeOK ==
  /\ Kept(messages, nextId)
  /\ store = [messages |-> store.messages, nextId |-> store.nextId]
  /\ Kept(store.messages, store.nextId)
  /\ fleet \subseteq Worktrees /\ folders \subseteq Worktrees
  /\ status \in [Worktrees -> Statuses] /\ sessions \subseteq Session
  /\ calls \in [Worktrees -> Nat] /\ pastes \subseteq Paste
  /\ sent \in 0..MaxId /\ handed \subseteq Nat /\ faults \in 0..MaxFaults
  /\ approved \subseteq [nth : Nat, to : Worktrees, body : Bodies]

(***************************************************************************)
(* "Nothing is delivered until the user approves it" (messages.rs:1-2):    *)
(* what is about to be typed into a session is a message the user          *)
(* approved, for that worktree and in those words, even after saves were   *)
(* lost and the daemon restarted from an older store.                      *)
(***************************************************************************)
NothingUnapproved ==
  \A p \in pastes : AsApproved(p) \in approved

(* Why: only the user's decision queues a message, whether it is in memory or
   in the file a restart would load. *)
QueueApproved(ms) == \A i \in InState(ms, {"queued"}) : AsApproved(ms[i]) \in approved

(***************************************************************************)
(* A message is handed to a session at most once, whatever deliver_next    *)
(* calls overlap and however often the daemon restarts, unless a save      *)
(* failed.                                                                 *)
(***************************************************************************)
AtMostOnce == [][faults' = 0 => \A p \in pastes' \ pastes : p.nth \notin handed]_mvars

(***************************************************************************)
(* While no save fails, what a restart would load is what the daemon holds *)
(* in memory: no operation changes a message, an id or the trimming of     *)
(* closed ones without saving it (store.rs:3 "written atomically on every  *)
(* change").                                                               *)
(***************************************************************************)
Durable == faults = 0 => store = [messages |-> messages, nextId |-> nextId]

(***************************************************************************)
(* "keep the unreadable file for inspection rather than silently           *)
(* overwriting it" (store.rs:55): an undecided or undelivered message in   *)
(* store.json leaves it only when the daemon that holds it closes it, or   *)
(* with the file itself.                                                   *)
(***************************************************************************)
StoreKept == [][\A i \in InState(store.messages, OpenStates) :
                  \/ i \in DOMAIN messages \/ i \in DOMAIN store'.messages
                  \/ store \in aside']_mvars

(***************************************************************************)
(* While no save and no load has failed, every message goes through what   *)
(* MessageApproval allows: requested, decided once by the user, delivered  *)
(* at most once or expired, and forgotten only when closed.                *)
(***************************************************************************)
Phase(i) == CASE i \in DOMAIN messages                     -> messages[i].state
              [] i \notin DOMAIN messages /\ i <= nextId    -> "gone"
              [] OTHER                                     -> "unsent"

Phases == [i \in Ids |-> Phase(i)]

Approval == INSTANCE MessageApproval WITH phase <- Phases

Approvals == Approval!Init /\ [][faults' = 0 => Approval!Next \/ UNCHANGED Phases]_mvars
=============================================================================
