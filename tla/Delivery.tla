------------------------------ MODULE Delivery ------------------------------
(***************************************************************************)
(* How an approved message reaches an agent: the message queue             *)
(* (MessageStore) with the parts of the daemon it waits for.  An agent in  *)
(* a hosted session takes turns; its hooks apply events to the status      *)
(* files and send the daemon a notice; the daemon's HOOK handler shows the *)
(* status and calls deliver_next when a turn has ended; rescans show what  *)
(* they read from the files; a new session's timer calls deliver_next.     *)
(* Each hook connects for itself and sends best effort: a notice may be    *)
(* lost, and those under way at once are handled in any order.             *)
(*                                                                         *)
(* Each event is applied to the files in one step, as StatusFiles shows    *)
(* for hooks that do not overlap.  Crashes, expiry and denials are         *)
(* MessageStore's.                                                         *)
(***************************************************************************)
EXTENDS MessageStore, Sequences

CONSTANTS Target,        \* the worktree that messages are sent to
          HostedId,      \* the connection id of its hosted session
          Unhosted,      \* ids of its other sessions: terminals, reviews
          Marks,         \* the marks its agent may make during a turn
          MaxNotices,    \* bound: HOOK lines under way at once
          MaxExtras      \* bound: the user's own prompts, marks, rescans and
                         \* lost notices, together

ASSUME DeliveryAssumption ==
  /\ Target \in Worktrees /\ {HostedId} \cup Unhosted \subseteq SessionIds
  /\ HostedId \notin Unhosted /\ Marks \subseteq MarkWords
  /\ Shown = Statuses
  /\ MaxNotices \in Nat /\ MaxExtras \in Nat

VARIABLES
  cur,      \* the target's status files
  agent,    \* its hosted agent: "none" yet, "idle" between turns, in a "turn",
            \* or "ended"
  timers,   \* timers of sessions that started, 10 s ago at most
  notices,  \* HOOK lines under way, each on a connection of its own
  scan,     \* the status a running rescan has read, or "idle"
  extras,   \* prompts of the user's own, marks, rescans, lost notices so far
  since,    \* history: messages handed over since the last turn ended
  late,     \* history: a hook ran before the daemon had handled the last notice
  marked,   \* history: the agent has made a mark
  lost,     \* history: a notice was lost
  rewound,  \* history: a rescan changed what the daemon showed
  unheard   \* history: the end of the last turn, or the call it should have
            \* led to, did not reach the queue

history == <<since, late, marked, lost, rewound, unheard>>
dvars == <<cur, agent, timers, notices, scan, extras, history>>
allVars == <<mvars, dvars>>

Hosted == [id |-> HostedId, wt |-> Target, hosted |-> TRUE]

DInit ==
  /\ MInit
  /\ cur = StatusDefault /\ agent = "none" /\ timers = 0
  /\ notices = <<>> /\ scan = "idle" /\ extras = 0
  /\ since = 0 /\ late = FALSE /\ marked = FALSE /\ lost = FALSE /\ rewound = FALSE /\ unheard = FALSE

Extra(n) == extras' = extras + n /\ extras' <= MaxExtras

-----------------------------------------------------------------------------
(* The agent and its hooks. *)

(* A hook applies one event to the files and notifies the daemon, or finds
   that it cannot: the error is dropped. *)
Hook(word, extra) ==
  /\ Len(notices) < MaxNotices
  /\ cur' = Apply(cur, Event(word))
  /\ \/ /\ notices' = Append(notices, Apply(cur, Event(word)).status)
        /\ lost' = lost /\ Extra(extra)
     \/ notices' = notices /\ lost' = TRUE /\ Extra(1)
  /\ late' = (late \/ notices # <<>>)
  /\ UNCHANGED rewound

(* A turn begins, and its end is to come. *)
TurnBegins(extra) ==
  /\ agent = "idle" /\ agent' = "turn"
  /\ Hook("working", extra)
  /\ unheard' = FALSE

Prompt ==
  /\ TurnBegins(1)
  /\ UNCHANGED <<mvars, timers, scan, marked, since>>

ToolCall ==
  /\ agent = "turn"
  /\ Apply(cur, Event("tool")) # cur
  /\ Hook("tool", 0)
  /\ UNCHANGED <<mvars, agent, timers, scan, marked, since, unheard>>

Mark(word) ==
  /\ agent = "turn"
  /\ Hook(word, 1)
  /\ marked' = TRUE
  /\ UNCHANGED <<mvars, agent, timers, scan, since, unheard>>

TurnEnds ==
  /\ agent = "turn" /\ agent' = "idle"
  /\ Hook("stop", 0)
  /\ since' = 0
  /\ unheard' = (notices' = notices \/ cur'.status # "input")
  /\ UNCHANGED <<mvars, timers, scan, marked>>

(* The thread pastes its text and presses Enter: a prompt between turns, one
   more instruction during a turn, and nothing once the session has ended. *)
PasteLands(p) ==
  /\ PasteEnds(p)
  /\ \/ TurnBegins(0)
     \/ agent # "idle" /\ UNCHANGED <<agent, cur, notices, extras, late, lost, rewound, unheard>>
  /\ UNCHANGED <<timers, scan, marked, since>>

-----------------------------------------------------------------------------
(* Sessions. *)

Spawn ==
  /\ agent = "none" /\ agent' = "idle"
  /\ SessionOpens(Hosted)
  /\ timers' = timers + 1
  /\ UNCHANGED <<cur, notices, scan, extras, history>>

TimerFires ==
  /\ timers > 0 /\ timers' = timers - 1
  /\ CallDeliver(Target)
  /\ UNCHANGED <<cur, agent, notices, scan, extras, history>>

\* mutant: forgets the messages that waited for the session
ExitedDropsQueue ==
  /\ agent \in {"idle", "turn"} /\ agent' = "ended"
  /\ cur' = Apply(cur, Event("sessionend"))
  /\ status' = [status EXCEPT ![Target] = cur'.status]
  /\ sessions' = sessions \ {Hosted}
  /\ messages' = Restrict(messages, DOMAIN messages \ Queued(Target))
  /\ since' = 0
  /\ UNCHANGED <<nextId, store, aside, faults, fleet, folders, calls, pastes, sent,
                 approved, handed, timers, notices, scan, extras, late,
                 marked, lost, rewound, unheard>>

(* host.rs `exited`: the session ends, and the daemon reports it. *)
Exited ==
  /\ agent \in {"idle", "turn"} /\ agent' = "ended"
  /\ SessionCloses(Hosted)
  /\ cur' = Apply(cur, Event("sessionend"))
  /\ status' = [status EXCEPT ![Target] = cur'.status]
  /\ since' = 0
  /\ UNCHANGED <<timers, notices, scan, extras, late, marked, lost, rewound, unheard>>

Other(id) == [id |-> id, wt |-> Target, hosted |-> FALSE]

Terminal(id) ==
  /\ \/ SessionOpens(Other(id))
     \/ SessionCloses(Other(id)) /\ UNCHANGED status
  /\ UNCHANGED dvars

-----------------------------------------------------------------------------
(* The daemon. *)

(* What is shown would be a turn, though the files say there is none. *)
Stale(shown) ==
  shown \in {"working", "reviewing"} /\ cur.status \notin {"working", "reviewing"}

Received(k) ==
  /\ notices' = SubSeq(notices, 1, k - 1) \o SubSeq(notices, k + 1, Len(notices))
  /\ StatusReported(Target, notices[k])
  /\ unheard' = (notices[k] # "input" /\ (unheard \/ Stale(notices[k])))
  /\ UNCHANGED <<cur, agent, timers, scan, extras, since, late, marked, lost, rewound>>

\* mutant: shows the status, and leaves the queue for the next decision
HandleNoticeOnlyShows ==
  \E k \in DOMAIN notices : Received(k) /\ calls' = calls

(* HOOK: only a turn that ended in `input` is followed by deliver_next. *)
HandleNotice ==
  \E k \in DOMAIN notices :
    /\ Received(k)
    /\ calls' = IF notices[k] = "input" THEN Owe({Target}) ELSE calls

ScanRead ==
  /\ scan = "idle" /\ scan' = cur.status
  /\ Extra(1)
  /\ UNCHANGED <<mvars, cur, agent, timers, notices, history>>

ScanApply ==
  /\ scan # "idle" /\ scan' = "idle"
  /\ Rescan(fleet, [status EXCEPT ![Target] = scan])
  /\ rewound' = (rewound \/ scan # status[Target])
  /\ unheard' = (unheard \/ Stale(scan))
  /\ UNCHANGED <<cur, agent, timers, notices, extras, since, late, marked, lost>>

(* The user approves, and the daemon delivers. *)
Request == \E from \in Worktrees \ {Target} : Send(from, Target) /\ UNCHANGED dvars

Approve == \E i \in DOMAIN messages : Decide(i, TRUE, messages[i].body) /\ UNCHANGED dvars

(* The call passes over a session that could take a message, if it finds
   another one of the worktree's first. *)
PassedOver ==
  handed' = handed /\ Hosted \in sessions /\ ~Busy(Target) /\ Queued(Target) # {}

DeliverStep ==
  /\ DeliverNext(Target)
  /\ since' = since + Cardinality(handed' \ handed)
  /\ unheard' = (unheard \/ PassedOver)
  /\ UNCHANGED <<cur, agent, timers, notices, scan, extras, late, marked, lost, rewound>>

-----------------------------------------------------------------------------
Agent == Prompt \/ ToolCall \/ (\E word \in Marks : Mark(word)) \/ TurnEnds

Daemon == HandleNotice \/ ScanRead \/ ScanApply \/ TimerFires \/ DeliverStep

DNext ==
  \/ Agent \/ Daemon \/ Request \/ Approve
  \/ \E p \in pastes : PasteLands(p)
  \/ Spawn \/ Exited \/ \E id \in Unhosted : Terminal(id)

(***************************************************************************)
(* A turn ends, a prompt that is typed lands, a notice is handled, a timer *)
(* fires, and a task that waits for the lock gets it.  Nothing makes the   *)
(* user prompt, approve or start a session.                                *)
(***************************************************************************)
DFairness ==
  /\ WF_allVars(TurnEnds) /\ WF_allVars(\E p \in pastes : PasteLands(p))
  /\ WF_allVars(HandleNotice) /\ WF_allVars(TimerFires) /\ WF_allVars(DeliverStep)
  /\ WF_allVars(ScanApply)

DSpec == DInit /\ [][DNext]_allVars /\ DFairness

-----------------------------------------------------------------------------
(* MessageStore's environment is general enough: the daemon with its hooks,
   sessions and rescans does nothing to the queue that it does not allow. *)
QueueUndisturbed == MSpec

(***************************************************************************)
(* Four things disturb delivery: a rescan that puts back a status it read  *)
(* before the hand-over, or shows the end of a turn before its notice is   *)
(* handled; a mark, which shows a running turn as ended and its end as     *)
(* nothing; a turn shorter than the handling of a notice; and a notice     *)
(* that is lost.  A rescan that finds what is shown does not.              *)
(***************************************************************************)
Undisturbed == ~marked /\ ~late /\ ~lost /\ ~rewound

(***************************************************************************)
(* "never mid-turn" (messages.rs:3): once the daemon has heard all the     *)
(* hooks have to tell, a message is handed over only between turns.        *)
(***************************************************************************)
NeverMidTurn ==
  [][handed' # handed /\ notices = <<>> => agent # "turn"]_allVars

BetweenTurns ==
  [][handed' # handed /\ notices = <<>> /\ Undisturbed => agent # "turn"]_allVars

(***************************************************************************)
(* "one per turn" (messages.rs:3-4), "a second queued message waits for    *)
(* the next turn end" (messages.rs:155).                                   *)
(***************************************************************************)
OnePerTurn == Undisturbed => since <= 1

(***************************************************************************)
(* "Deliver the oldest queued message ... if its hosted session is idle    *)
(* (its turn has ended).  Called on approval, on the target's turn ending, *)
(* and shortly after its session starts" (messages.rs:141-142): a queued   *)
(* message whose target has a hosted session is delivered, or the session  *)
(* ends first.  It is, whatever rescans, marks and lost or overtaken       *)
(* notices there were before, unless of the last turn itself the end did   *)
(* not come through: its notice was lost or told of a milestone, what was  *)
(* shown afterwards is a turn there was not, or another session of the     *)
(* target's hid the hosted one from the call (`unheard`).                  *)
(***************************************************************************)
Waiting(i) == i \in Queued(Target) /\ agent \in {"idle", "turn"}

EventuallyDelivered == \A i \in Ids : []<>(~Waiting(i) \/ unheard)

(***************************************************************************)
(* A message is handed over between turns, and handing over does to the    *)
(* queue only what the store's own operations do (messages.rs:141-170).    *)
(***************************************************************************)
DeliveryOrderly == QueueUndisturbed /\ BetweenTurns
=============================================================================
