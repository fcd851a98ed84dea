-------------------------------- MODULE Tui --------------------------------
(***************************************************************************)
(* The terminal interface `wtd tui` (crates/wtd/src: tui/mod.rs App and    *)
(* watch, tui/session.rs Session and pump).                                *)
(*                                                                         *)
(* One thread handles the keys.  Beside it a thread mirrors the daemon's   *)
(* worktrees, one thread per start waits for a detached `wtd agent`, and   *)
(* one per attached session relays its output: the interface changes under *)
(* the user's hands when their results are taken up.  What the changes     *)
(* pane shows is modelled in Changes.                                      *)
(*                                                                         *)
(* The row under the highlight is kept as a worktree: the code keeps an    *)
(* index into rows sorted by status, so any push may put another row there.*)
(***************************************************************************)
EXTENDS Integers, Sequences

CONSTANTS Worktrees,   \* the worktrees of the roster
          MaxStarts,   \* bound: detached starts, by this interface or another
          MaxStops     \* bound: how often the daemon stops

ASSUME TuiAssumption == {MaxStarts, MaxStops} \subseteq Nat

VARIABLES real,      \* worktree -> "off", "hosted" by the daemon or live in an "other" terminal
          serving,   \* is the daemon running?
          row,       \* worktree -> the mirror of real
          cursor,    \* the worktree under the highlight
          pending,   \* the worktree to open once its row is there (`wtd tui <id>`)
          focus,     \* "roster" or "main"
          front,     \* "session" or "changes"
          dialog,    \* the form shown, if any
          session,   \* the session shown, if any
          starting,  \* worktree -> its starts under way
          arrived,   \* the results of starts not taken up yet
          eyes,      \* ghost: the agent the user expects the keys to reach
          stolen,    \* ghost: a session came to the front since the user looked
          covered,   \* ghost: one came to the front under the form that is open
          left       \* what remains of the bounds

agents == <<real, serving, row, starting, left>>
screen == <<cursor, pending, focus, front, dialog, session>>
vars   == <<real, serving, row, cursor, pending, focus, front, dialog, session, starting,
            arrived, eyes, stolen, covered, left>>

Nobody    == "nobody"
NoSession == [id |-> Nobody]

NewForm     == [id |-> Nobody, asks |-> "repo and branch"]
StopForm(w) == [id |-> w, asks |-> "stop"]

(* A relay connection: "asking", "on", or how it ended: "exit" and         *)
(* "closed" say so to the interface, "cut" (in the middle of a frame) not. *)
Live(s) == s # NoSession /\ ~s.exited

(* A mutant for Typing: the pane in front is not looked at. *)
TypingBehind == focus = "main" /\ Live(session)

(* Keys that are no command go to the agent. *)
Typing == focus = "main" /\ front = "session" /\ Live(session)

(* Where a key typed now goes.  Keys while a form is open are the form's.  *)
Target == IF dialog = NoSession /\ Typing THEN session.id ELSE Nobody

(* Where a paste goes now: to the session in front, also under a form. *)
PastedTo == IF focus = "main" /\ front = "session" /\ session # NoSession THEN session.id ELSE Nobody

(* The agent whose screen is drawn with the focus on it. *)
Shown == IF dialog = NoSession /\ focus = "main" /\ front = "session" /\ Live(session)
         THEN session.id ELSE Nobody

TuiInit ==
    /\ real \in [Worktrees -> {"off", "hosted"}]
    /\ serving = TRUE
    /\ row = real
    /\ cursor \in Worktrees
    /\ pending \in Worktrees \cup {Nobody}
    /\ focus = "roster"
    /\ front = "session"
    /\ dialog = NoSession
    /\ session = NoSession
    /\ starting = [w \in Worktrees |-> 0]
    /\ arrived = <<>>
    /\ eyes = Nobody
    /\ stolen = FALSE
    /\ covered = FALSE
    /\ left = [starts |-> MaxStarts, stops |-> MaxStops]

-----------------------------------------------------------------------------
(***************************************************************************)
(* The agents, the daemon and the mirror of it.                            *)
(***************************************************************************)
Begin(w, where) ==
  /\ real[w] = "off" /\ left.starts > 0 /\ (where = "hosted" => serving)
  /\ real' = [real EXCEPT ![w] = where]
  /\ left' = [left EXCEPT !.starts = @ - 1]
  /\ UNCHANGED <<serving, row, screen, starting, arrived, eyes, stolen, covered>>

(* The agent of w ends; its terminals are told by an exit frame. *)
End(w) ==
  /\ real[w] # "off"
  /\ real' = [real EXCEPT ![w] = "off"]
  /\ session' = IF session # NoSession /\ session.id = w /\ session.conn = "on"
                THEN [session EXCEPT !.conn = "exit"] ELSE session
  /\ UNCHANGED <<serving, row, cursor, pending, focus, front, dialog, starting, arrived, eyes, stolen, covered, left>>

DaemonStops ==
  /\ serving /\ left.stops > 0
  /\ serving' = FALSE
  /\ real' = [w \in Worktrees |-> IF real[w] = "hosted" THEN "off" ELSE real[w]]
  /\ IF session # NoSession /\ session.conn = "on"
     THEN \E how \in {"closed", "cut"} : session' = [session EXCEPT !.conn = how]
     ELSE UNCHANGED session
  /\ left' = [left EXCEPT !.stops = @ - 1]
  /\ UNCHANGED <<row, cursor, pending, focus, front, dialog, starting, arrived, eyes, stolen, covered>>

DaemonStarts ==
  /\ ~serving
  /\ serving' = TRUE
  /\ UNCHANGED <<real, row, screen, starting, arrived, eyes, stolen, covered, left>>

(* A push, or the snapshot after a reconnection: the rows are sorted anew. *)
Mirror(w) ==
   /\ serving /\ row[w] # real[w]
   /\ row' = [row EXCEPT ![w] = real[w]]
   /\ cursor' \in Worktrees
   /\ UNCHANGED <<real, serving, pending, focus, front, dialog, session, starting, arrived, eyes, stolen, covered, left>>

-----------------------------------------------------------------------------
(***************************************************************************)
(* The threads of the interface.                                           *)
(***************************************************************************)
(* A detached `wtd agent` starts the session of w, or finds it, or fails.  *)
StartEnds(w) ==
  /\ starting[w] > 0
  /\ starting' = [starting EXCEPT ![w] = @ - 1]
  /\ \/ /\ serving /\ real[w] # "other"
        /\ real' = [real EXCEPT ![w] = "hosted"]
        /\ arrived' = Append(arrived, [id |-> w, ok |-> TRUE])
     \/ /\ arrived' = Append(arrived, [id |-> w, ok |-> FALSE])
        /\ UNCHANGED real
  /\ UNCHANGED <<serving, row, screen, eyes, stolen, covered, left>>

(* The relay's request is answered: keys typed meanwhile wait for it.      *)
Connect ==
  /\ session # NoSession /\ session.conn = "asking"
  /\ session' = [session EXCEPT !.conn =
                   IF serving /\ real[session.id] = "hosted" THEN "on" ELSE "closed"]
  /\ UNCHANGED <<agents, cursor, pending, focus, front, dialog, arrived, eyes, stolen, covered>>

-----------------------------------------------------------------------------
(***************************************************************************)
(* The loop of the interface, between two keys.                            *)
(***************************************************************************)
(* A mutant for Drain: a connection that closes is not noticed. *)
DrainExit ==
  /\ Live(session) /\ session.conn = "exit"
  /\ session' = [session EXCEPT !.exited = TRUE]
  /\ UNCHANGED <<agents, cursor, pending, focus, front, dialog, arrived, eyes, stolen, covered>>

Drain ==
  /\ Live(session) /\ session.conn \in {"exit", "closed"}
  /\ session' = [session EXCEPT !.exited = TRUE]
  /\ UNCHANGED <<agents, cursor, pending, focus, front, dialog, arrived, eyes, stolen, covered>>

(* Replaces the session shown, whatever the user is doing.  The relay of   *)
(* the old one ends with the next output it cannot hand over.              *)
Attach(w) ==
  /\ session' = [id |-> w, conn |-> "asking", exited |-> FALSE]
  /\ front' = "session"
  /\ focus' = "main"

StartSession(w) ==
         /\ left.starts > 0
         /\ starting' = [starting EXCEPT ![w] = @ + 1]
         /\ left' = [left EXCEPT !.starts = @ - 1]

(* What the row says decides: back to the session shown, refused, attached *)
(* or started.                                                             *)
Opens(w) ==
  IF Live(session) /\ session.id = w
  THEN /\ front' = "session" /\ focus' = "main"
       /\ UNCHANGED <<agents, session>>
  ELSE \/ row[w] = "hosted" /\ Attach(w) /\ UNCHANGED agents
       \/ row[w] = "off" /\ StartSession(w) /\ UNCHANGED <<real, serving, row, session, front, focus>>
       \/ row[w] = "other" /\ UNCHANGED <<agents, session, front, focus>>

(* The user did not do this: he may be typing, or filling in a form. *)
BroughtUp == stolen' = TRUE /\ covered' = (dialog # NoSession)

(* The worktree the interface was started for, as soon as it has a row. *)
OpenPending ==
  /\ pending # Nobody
  /\ Opens(pending)
  /\ cursor' = pending
  /\ pending' = Nobody
  /\ BroughtUp
  /\ UNCHANGED <<dialog, arrived, eyes>>

TakeUp ==
  /\ arrived # <<>>
  /\ arrived' = Tail(arrived)
  /\ IF Head(arrived).ok
     THEN Attach(Head(arrived).id) /\ BroughtUp
     ELSE UNCHANGED <<session, front, focus, stolen, covered>>
  /\ UNCHANGED <<agents, cursor, pending, dialog, eyes>>

-----------------------------------------------------------------------------
(***************************************************************************)
(* The user.  A key is meant for what the keys before it and the last look *)
(* at the screen say.                                                      *)
(***************************************************************************)
Knows ==
  /\ eyes' = Shown'
  /\ stolen' = stolen
  /\ covered' = (covered /\ dialog' # NoSession)

LookAway ==
      /\ eyes # Shown \/ stolen
      /\ eyes' = Shown
      /\ stolen' = FALSE
      /\ UNCHANGED <<agents, screen, arrived, covered>>

LeaveSession ==
         /\ dialog = NoSession /\ Typing
         /\ focus' = "roster"
         /\ UNCHANGED <<agents, cursor, pending, front, dialog, session, arrived>>
         /\ Knows

(* Any other key is a command: also with a session that ended in front. *)
Command == dialog = NoSession /\ ~Typing

Move ==
  /\ Command /\ focus = "roster"
  /\ cursor' \in Worktrees \ {cursor}
  /\ UNCHANGED <<agents, pending, focus, front, dialog, session, arrived, eyes, stolen, covered>>

Tab ==
  /\ Command
  /\ focus' = IF focus = "roster" THEN "main" ELSE "roster"
  /\ UNCHANGED <<agents, cursor, pending, front, dialog, session, arrived>>
  /\ Knows

OpenRow(w) ==
     /\ Command /\ cursor = w
     /\ Opens(w)
     /\ UNCHANGED <<cursor, pending, dialog, arrived>>
     /\ Knows

ShowChanges(w) ==
  /\ Command /\ cursor = w
  /\ front' = "changes" /\ focus' = "main"
  /\ UNCHANGED <<agents, cursor, pending, dialog, session, arrived>>
  /\ Knows

AskNew ==
  /\ Command
  /\ dialog' = NewForm
  /\ UNCHANGED <<agents, cursor, pending, focus, front, session, arrived>>
  /\ Knows

AskStop(w) ==
  /\ Command /\ cursor = w /\ row[w] # "off"
  /\ dialog' = StopForm(w)
  /\ UNCHANGED <<agents, cursor, pending, focus, front, session, arrived>>
  /\ Knows

(* The form's own keys: a start, a stop (by a process that is not waited   *)
(* for: the agent ends, see End), or nothing.                              *)
FormKey ==
  /\ dialog # NoSession
  /\ \/ /\ dialog = NewForm
        /\ dialog' = NoSession
        /\ \E w \in Worktrees : StartSession(w)
        /\ UNCHANGED <<real, serving, row, session>>
     \/ /\ dialog.asks = "stop"
        /\ dialog' = NoSession
        /\ session' = IF session.id = dialog.id THEN NoSession ELSE session
        /\ UNCHANGED agents
     \/ /\ dialog' = NoSession
        /\ UNCHANGED <<agents, session>>
  /\ UNCHANGED <<cursor, pending, focus, front, arrived>>
  /\ Knows

User ==
  \/ LookAway \/ LeaveSession \/ Move \/ Tab \/ AskNew \/ FormKey
  \/ \E w \in Worktrees : OpenRow(w) \/ ShowChanges(w) \/ AskStop(w)

Loop == Drain \/ OpenPending \/ TakeUp

World ==
  \/ DaemonStops \/ DaemonStarts
  \/ \E w \in Worktrees :
       \/ \E where \in {"hosted", "other"} : Begin(w, where)
       \/ End(w)

TuiNext == User \/ Loop \/ World \/ Connect \/ \E w \in Worktrees : Mirror(w) \/ StartEnds(w)

TuiSpec == TuiInit /\ [][TuiNext]_vars

(* The loop runs whatever the user does, and the threads end. *)
TuiFair == /\ WF_vars(Drain) /\ WF_vars(TakeUp) /\ WF_vars(Connect)
           /\ \A w \in Worktrees : WF_vars(Mirror(w)) /\ WF_vars(StartEnds(w))

TuiFairSpec == TuiSpec /\ TuiFair

-----------------------------------------------------------------------------
(* The interface shows no session that it did not ask for, and counts no   *)
(* fewer starts than there are.                                            *)
Places == {"off", "hosted", "other"}

TuiTypeOK ==
  /\ real \in [Worktrees -> Places] /\ row \in [Worktrees -> Places]
  /\ serving \in BOOLEAN /\ (~serving => \A w \in Worktrees : real[w] # "hosted")
  /\ cursor \in Worktrees /\ {pending, eyes} \subseteq Worktrees \cup {Nobody}
  /\ focus \in {"roster", "main"} /\ front \in {"session", "changes"}
  /\ dialog \in {NoSession, NewForm} \cup {StopForm(w) : w \in Worktrees}
  /\ session = NoSession
     \/ /\ session \in [id : Worktrees, conn : {"asking", "on", "exit", "closed", "cut"}, exited : BOOLEAN]
        /\ session.exited => session.conn \in {"exit", "closed"}
        /\ session.conn = "on" => real[session.id] = "hosted"
  /\ starting \in [Worktrees -> Nat]
  /\ arrived \in Seq([id : Worktrees, ok : BOOLEAN])
  /\ {stolen, covered} \subseteq BOOLEAN
  /\ left \in [starts : 0..MaxStarts, stops : 0..MaxStops]

(* A key reaches the agent the user saw with the focus, or none, unless a  *)
(* session the user had asked for was brought up since: it takes the       *)
(* screen and the focus from whatever is there (mod.rs:199 and 206).  What *)
(* is pasted while a form is open reaches no agent, unless a session was   *)
(* brought up under that form: then the agent gets it (mod.rs:222), and    *)
(* the user who sees the form cannot know.                                 *)
Reachable == session # NoSession /\ session.conn \in {"asking", "on"}

KeysWhereMeant ==
  /\ (Target # Nobody /\ Reachable => Target = eyes \/ stolen)
  /\ (dialog # NoSession /\ PastedTo # Nobody /\ Reachable => covered)

(* A session that ended is shown as ended, unless its connection was cut   *)
(* in the middle of a frame (session.rs:132); and every start the user     *)
(* asked for is answered.                                                  *)
Unseen(w) == Live(session) /\ session.id = w /\ session.conn \notin {"on", "cut"}

Answered == arrived = <<>> /\ \A w \in Worktrees : starting[w] = 0

ScreenSettles ==
  /\ []TuiTypeOK
  /\ []<>Answered
  /\ \A w \in Worktrees : []<>~Unseen(w)
=============================================================================
