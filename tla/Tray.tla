-------------------------------- MODULE Tray --------------------------------
(* The tray icon: a process of its own beside the daemon.  One runs per      *)
(* sign-in (a named mutex that the system frees when the process ends), the  *)
(* registry remembers for the sign-in whether it is meant to run, the        *)
(* daemon's watchdog brings a crashed one back, and the update helper closes *)
(* it and starts it again.  A thread of the tray mirrors the daemon's        *)
(* sessions into the window as messages; the ⚙ menu and the daemon buttons   *)
(* act on that mirror.                                                       *)
(*                                                                           *)
(* Icons, balloons and texts are left out; the daemon's part is external.    *)
EXTENDS Naturals, Sequences

CONSTANTS Trays,       \* tray processes
          Sessions,    \* sessions the daemon may host
          Nothing,
          MaxFaults,   \* bound: kills, sign-outs and updates
          MaxOps       \* bound: other acts of the user and the daemon

ASSUME TAssumption == Nothing \notin Trays /\ MaxFaults \in Nat /\ MaxOps \in Nat

VARIABLES phase,     \* [process -> where its main thread is]
          close,     \* processes whose window has a WM_CLOSE waiting
          tray,      \* HKCU ...\Session "Tray", volatile: "none" | "running" | "quit"
          logon,     \* the Run entry exists
          off,       \* TrayLogonOff: the user turned it off
          entries,   \* what is about to be done to the Run entry: "write", "delete"
          overtaken, \* history: the user's last "off" met such a write, or was cut off
          watchdog,  \* tray_loop of the daemon: "idle" | "dead" | "spawn"
          helper,    \* the update helper: "idle" | "waits" | "starts", and what it found
          daemon,    \* "up" | "down"
          hosted,    \* sessions the daemon hosts
          pipe,      \* pushes on their way to the tray's thread
          posted,    \* WM_STATE messages on their way to the window
          view,      \* the view of the window: [running, hosted]
          linked,    \* the thread's subscription: "no" | "yes" | "cut" (the daemon has gone)
          box,       \* the question on screen: [act, told] or Nothing
          ordered,   \* history: a quit handled, and nobody but the watchdog started one since
          early,     \* history: the watchdog had decided before that quit
          order,     \* the button's `wtd daemon ...`, and the sessions it asked about
          ended,     \* history: sessions a button ended unasked
          faults, ops

life == <<phase, close, tray, watchdog, helper, ordered, early>>
runkey == <<logon, off, entries, overtaken>>
link == <<pipe, posted, view, linked, box, order>>
tvars == <<phase, close, tray, runkey, watchdog, helper, daemon, hosted, pipe, posted,
           view, linked, box, order, ordered, early, ended, faults, ops>>

Blank == [running |-> FALSE, hosted |-> {}]

(* What the registry says of the tray; nothing at the sign-in.               *)
SessionState == {"running", "quit"}

TInit == /\ phase = [t \in Trays |-> "absent"]
         /\ close = {} /\ tray = "none"
         /\ logon \in BOOLEAN /\ off = ~logon /\ entries = {} /\ overtaken = FALSE
         /\ watchdog = "idle" /\ helper = "idle"
         /\ daemon = "down" /\ hosted = {}
         /\ pipe = <<>> /\ posted = <<>> /\ view = Blank /\ linked = "no" /\ box = Nothing /\ order = Nothing
         /\ ordered = FALSE /\ early = FALSE /\ ended = {}
         /\ faults = 0 /\ ops = 0

(* The mutex is held from its creation to the end of the process; the window *)
(* stands from its creation to its destruction, or to that end.              *)
Owns(t)   == phase[t] \notin {"absent", "started"}
Window(t) == phase[t] \in {"up", "closing", "quitting", "leaving"}
tray_alive == \E t \in Trays : Window(t)
Up == {t \in Trays : phase[t] = "up"}

Fault == faults < MaxFaults /\ faults' = faults + 1 /\ UNCHANGED ops
Act   == ops < MaxOps /\ ops' = ops + 1 /\ UNCHANGED faults
Free  == UNCHANGED <<faults, ops>>

(* The daemon ends, and its pipes with it.                                   *)
Cut == linked' = IF linked = "yes" THEN "cut" ELSE linked

-----------------------------------------------------------------------------
(* The tray's main thread.                                                   *)
Started(t) == phase[t] = "absent" /\ phase' = [phase EXCEPT ![t] = "started"]

(* One tray per user session: the second one ends.                           *)
Mutex(t) ==
  /\ phase[t] = "started"
  /\ phase' = [phase EXCEPT ![t] = IF \E o \in Trays : Owns(o) THEN "absent" ELSE "owner"]
  /\ Free
  /\ UNCHANGED <<close, tray, runkey, watchdog, helper, daemon, hosted, link, ordered, early, ended>>

(* "running" is recorded, then the window is created and the thread starts.  *)
Record(t) == /\ phase[t] = "owner"
             /\ phase' = [phase EXCEPT ![t] = "recorded"]
             /\ tray' = "running"
             /\ Free
             /\ UNCHANGED <<close, runkey, watchdog, helper, daemon, hosted, link, ordered, early, ended>>

Show(t) == /\ phase[t] = "recorded"
           /\ phase' = [phase EXCEPT ![t] = "up"]
           /\ pipe' = <<>> /\ posted' = <<>> /\ view' = Blank /\ linked' = "no"
           /\ Free
           /\ UNCHANGED <<close, tray, runkey, watchdog, helper, daemon, hosted, box, order, ordered, early, ended>>

(* A quit is recorded: what the watchdog, or a start still on its way, had   *)
(* decided before is not undone by it.                                       *)
Quits == /\ ordered' = TRUE
         /\ early' = (watchdog = "spawn" \/ \E t \in Trays : phase[t] = "started")

(* Plausible bug: WM_CLOSE leaves the record to the end of the loop.         *)
CloseUnrecorded(t) ==
  /\ phase[t] = "up" /\ t \in close
  /\ phase' = [phase EXCEPT ![t] = "closing"]
  /\ close' = close \ {t}
  /\ box' = Nothing /\ Quits /\ Free
  /\ UNCHANGED <<tray, runkey, watchdog, helper, daemon, hosted, pipe, posted, view, linked, order, ended>>

(* WM_CLOSE: the quit is recorded before the window goes.                    *)
Close(t) == /\ phase[t] = "up" /\ t \in close
            /\ phase' = [phase EXCEPT ![t] = "closing"]
            /\ close' = close \ {t}
            /\ tray' = "quit"
            /\ box' = Nothing /\ Quits /\ Free
            /\ UNCHANGED <<runkey, watchdog, helper, daemon, hosted, pipe, posted, view, linked, order, ended>>

Destroy(t) == /\ phase[t] = "closing"
              /\ phase' = [phase EXCEPT ![t] = "destroyed"]
              /\ Free
              /\ UNCHANGED <<close, tray, runkey, watchdog, helper, daemon, hosted, link, ordered, early, ended>>

(* After the message loop the quit is recorded (again); with the ⚙ menu's    *)
(* Quit the window still stands.                                             *)
LoopEnds(t) == /\ phase[t] \in {"destroyed", "quitting"}
               /\ phase' = [phase EXCEPT ![t] = IF @ = "destroyed" THEN "gone" ELSE "leaving"]
               /\ tray' = "quit"
               /\ IF phase[t] = "quitting" THEN Quits ELSE UNCHANGED <<ordered, early>>
               /\ Free
               /\ UNCHANGED <<close, runkey, watchdog, helper, daemon, hosted, link, ended>>

Exit(t) == /\ phase[t] \in {"gone", "leaving"}
           /\ phase' = [phase EXCEPT ![t] = "absent"]
           /\ close' = close \ {t}
           /\ Free
           /\ UNCHANGED <<tray, runkey, watchdog, helper, daemon, hosted, link, ordered, early, ended>>

(* ⚙ menu, Quit tray.                                                        *)
GearQuit(t) == /\ phase[t] = "up" /\ box = Nothing
               /\ phase' = [phase EXCEPT ![t] = "quitting"]
               /\ Act
               /\ UNCHANGED <<close, tray, runkey, watchdog, helper, daemon, hosted, link, ordered, early, ended>>

(* The tray crashes or is killed, at any point.                              *)
Crash(t) == /\ phase[t] # "absent"
            /\ phase' = [phase EXCEPT ![t] = "absent"]
            /\ close' = close \ {t}
            /\ box' = IF Window(t) THEN Nothing ELSE box
            /\ Fault
            /\ UNCHANGED <<tray, runkey, watchdog, helper, daemon, hosted, pipe, posted, view,
                           linked, order, ordered, early, ended>>

-----------------------------------------------------------------------------
(* Starting and quitting from outside.                                       *)

(* `wtd tray --spawn`, setup, the start menu.                                *)
Spawn == /\ \E t \in Trays : Started(t)
         /\ ordered' = FALSE
         /\ Act
         /\ UNCHANGED <<close, tray, runkey, watchdog, helper, daemon, hosted, link, early, ended>>

(* `wtd tray --quit`: a message to the window, if there is one.              *)
Quit == /\ tray_alive
        /\ close' = close \cup {t \in Trays : Window(t)}
        /\ Act
        /\ UNCHANGED <<phase, tray, runkey, watchdog, helper, daemon, hosted, link, ordered, early, ended>>

(* The user turns the start at logon on or off: the flag first, the Run      *)
(* entry by another access to the registry.                                  *)
SetLogon(on) == /\ off' = ~on
                /\ entries' = entries \cup {IF on THEN "write" ELSE "delete"}
                /\ overtaken' = (~on /\ "write" \in entries)
                /\ Act
                /\ UNCHANGED <<life, logon, daemon, hosted, link, ended>>

(* An install writes the Run entry unless the user had turned it off when it *)
(* looked.                                                                   *)
RefreshAlways == /\ entries' = entries \cup {"write"}
                 /\ Act
                 /\ UNCHANGED <<life, logon, off, overtaken, daemon, hosted, link, ended>>

Refresh == /\ ~off
           /\ entries' = entries \cup {"write"}
           /\ Act
           /\ UNCHANGED <<life, logon, off, overtaken, daemon, hosted, link, ended>>

RunEntry(what) == /\ what \in entries
                  /\ entries' = entries \ {what} /\ logon' = (what = "write")
                  /\ Free
                  /\ UNCHANGED <<life, off, overtaken, daemon, hosted, link, ended>>

(* The process that was to do it is killed.                                  *)
CutEntry(what) == /\ what \in entries
                  /\ entries' = entries \ {what}
                  /\ overtaken' = (overtaken \/ what = "delete")
                  /\ Fault
                  /\ UNCHANGED <<life, logon, off, daemon, hosted, link, ended>>

(* Uninstall drops it without recording a choice.                            *)
RemoveLogon == /\ logon' = FALSE
               /\ Act
               /\ UNCHANGED <<life, off, entries, overtaken, daemon, hosted, link, ended>>

(* Sign-out ends every process and drops the volatile key; the next sign-in  *)
(* starts the tray if the Run entry is there.                                *)
SignIn == /\ \E t \in Trays :
               phase' = [o \in Trays |-> IF o = t /\ logon THEN "started" ELSE "absent"]
          /\ close' = {} /\ tray' = "none"
          /\ watchdog' = "idle" /\ helper' = "idle" /\ daemon' = "down" /\ hosted' = {}
          /\ pipe' = <<>> /\ posted' = <<>> /\ view' = Blank /\ linked' = "no"
          /\ box' = Nothing /\ order' = Nothing /\ ordered' = FALSE /\ early' = FALSE
          /\ entries' = {} /\ overtaken' = (overtaken \/ "delete" \in entries)
          /\ Fault
          /\ UNCHANGED <<logon, off, ended>>

(* The watchdog reads whether a window stands, then the record and the Run   *)
(* entry, then starts a tray.                                                *)
Look == /\ daemon = "up" /\ watchdog = "idle" /\ ~tray_alive
        /\ watchdog' = "dead"
        /\ Free
        /\ UNCHANGED <<phase, close, tray, runkey, helper, daemon, hosted, link, ordered, early, ended>>

RelaunchNew == tray = "none" /\ logon

should_relaunch == \/ tray = "running"
                   \/ tray = "none" /\ logon

Ensure == /\ watchdog = "dead"
          /\ watchdog' = IF should_relaunch THEN "spawn" ELSE "idle"
          /\ Free
          /\ UNCHANGED <<phase, close, tray, runkey, helper, daemon, hosted, link, ordered, early, ended>>

Relaunch == /\ watchdog = "spawn"
            /\ \E t \in Trays : Started(t)
            /\ watchdog' = "idle"
            /\ Free
            /\ UNCHANGED <<close, tray, runkey, helper, daemon, hosted, link, ordered, early, ended>>

(* The update helper stops the daemon, closes the tray and waits up to ten   *)
(* seconds for its window to go, and starts both again.                      *)
HelperStops == /\ helper = "idle"
               /\ helper' = IF tray_alive THEN "closed" ELSE "none"
               /\ close' = close \cup {t \in Trays : Window(t)}
               /\ daemon' = "down" /\ hosted' = {} /\ watchdog' = "idle"
               /\ Cut
               /\ Fault
               /\ UNCHANGED <<phase, tray, runkey, pipe, posted, view, box, order, ordered, early, ended>>

HelperStarts == /\ helper # "idle"
                /\ IF helper = "closed" \/ logon
                   THEN (\E t \in Trays : Started(t)) /\ ordered' = FALSE
                   ELSE UNCHANGED <<phase, ordered>>
                /\ helper' = "idle" /\ daemon' = "up"
                /\ Free
                /\ UNCHANGED <<close, tray, runkey, watchdog, hosted, link, early, ended>>

-----------------------------------------------------------------------------
(* The mirror.  A push carries what the map of the thread becomes: the set   *)
(* of hosted sessions.                                                       *)
Subscribe == /\ Up # {} /\ daemon = "up" /\ linked = "no"
             /\ linked' = "yes" /\ pipe' = <<hosted>>
             /\ Free
             /\ UNCHANGED <<life, runkey, daemon, hosted, posted, view, box, order, ended>>

Push == /\ Up # {} /\ pipe # <<>>
        /\ posted' = Append(posted, [running |-> TRUE, hosted |-> Head(pipe)])
        /\ pipe' = Tail(pipe)
        /\ Free
        /\ UNCHANGED <<life, runkey, daemon, hosted, view, linked, box, order, ended>>

(* Plausible bug: the thread reconnects without dropping what it knew.       *)
LostKept == /\ Up # {} /\ linked = "cut"
            /\ linked' = "no" /\ pipe' = <<>>
            /\ Free
            /\ UNCHANGED <<life, runkey, daemon, hosted, posted, view, box, order, ended>>

(* The pipe closed: everything known is dropped; retry in 2 seconds.         *)
Lost == /\ Up # {} /\ linked = "cut"
        /\ linked' = "no" /\ pipe' = <<>>
        /\ posted' = Append(posted, Blank)
        /\ Free
        /\ UNCHANGED <<life, runkey, daemon, hosted, view, box, order, ended>>

(* WM_STATE, handled under an open question too.                             *)
State == /\ Up # {} /\ posted # <<>>
         /\ view' = Head(posted) /\ posted' = Tail(posted)
         /\ Free
         /\ UNCHANGED <<life, runkey, daemon, hosted, pipe, linked, box, order, ended>>

(* The daemon buttons.  Sessions the view knows of are asked about first.    *)
Button(act) ==
  /\ Up # {} /\ box = Nothing /\ order = Nothing
  /\ act = IF act = "restart" THEN act ELSE IF view.running THEN "stop" ELSE "start"
  /\ IF act = "start" \/ view.hosted = {}
     THEN order' = [act |-> act, told |-> {}] /\ UNCHANGED box
     ELSE box' = [act |-> act, told |-> view.hosted] /\ UNCHANGED order
  /\ Act
  /\ UNCHANGED <<life, runkey, daemon, hosted, pipe, posted, view, linked, ended>>

Answer(yes) == /\ Up # {} /\ box # Nothing
               /\ box' = Nothing /\ order' = IF yes THEN box ELSE Nothing
               /\ Free
               /\ UNCHANGED <<life, runkey, daemon, hosted, pipe, posted, view, linked, ended>>

(* `wtd daemon stop --force`, `restart` or `start`.                          *)
Obey == /\ order # Nothing
        /\ daemon' = IF order.act = "stop" THEN "down" ELSE "up"
        /\ IF order.act = "start" /\ daemon = "up" THEN UNCHANGED <<hosted, ended, linked>>
           ELSE /\ hosted' = {}
                /\ ended' = ended \cup (hosted \ order.told)
                /\ Cut
        /\ order' = Nothing
        /\ watchdog' = IF daemon' = "down" THEN "idle" ELSE watchdog
        /\ Free
        /\ UNCHANGED <<phase, close, tray, helper, ordered, early, runkey, pipe, posted, view, box>>

(* The daemon is started or a session begins or ends in it.                  *)
Host(s) == /\ daemon = "up"
           /\ hosted' = IF s \in hosted THEN hosted \ {s} ELSE hosted \cup {s}
           /\ pipe' = IF linked = "yes" THEN Append(pipe, hosted') ELSE pipe
           /\ Act
           /\ UNCHANGED <<life, runkey, daemon, posted, view, linked, box, order, ended>>

Start == /\ daemon = "down" /\ helper = "idle"
         /\ daemon' = "up"
         /\ Act
         /\ UNCHANGED <<life, runkey, hosted, link, ended>>

-----------------------------------------------------------------------------
Main(t) == Mutex(t) \/ Record(t) \/ Show(t) \/ Close(t) \/ Destroy(t) \/ LoopEnds(t) \/ Exit(t)

Thread == Subscribe \/ Push \/ Lost \/ State

Watch == Look \/ Ensure \/ Relaunch

TNext == \/ \E t \in Trays : Main(t) \/ GearQuit(t) \/ Crash(t)
         \/ Spawn \/ Quit \/ Refresh \/ RemoveLogon \/ SignIn \/ Watch
         \/ \E b \in BOOLEAN : SetLogon(b) \/ Answer(b)
         \/ \E what \in {"write", "delete"} : RunEntry(what) \/ CutEntry(what)
         \/ HelperStops \/ HelperStarts \/ Thread
         \/ \E act \in {"start", "stop", "restart"} : Button(act)
         \/ Obey \/ Start \/ \E s \in Sessions : Host(s)

TSpec == TInit /\ [][TNext]_tvars

(* Threads run, a command that was started runs, the watchdog's timer ticks. *)
TFairSpec == /\ TSpec
             /\ \A t \in Trays : WF_tvars(Main(t))
             /\ WF_tvars(Subscribe) /\ WF_tvars(Push) /\ WF_tvars(Lost) /\ WF_tvars(State)
             /\ WF_tvars(Obey) /\ WF_tvars(HelperStarts) /\ WF_tvars(Watch)

-----------------------------------------------------------------------------
TTypeOK == /\ phase \in [Trays -> {"absent", "started", "owner", "recorded", "up", "closing",
                                   "destroyed", "gone", "quitting", "leaving"}]
           /\ close \subseteq Trays
           /\ tray \in SessionState \cup {"none"} /\ logon \in BOOLEAN /\ off \in BOOLEAN
           /\ entries \subseteq {"write", "delete"} /\ overtaken \in BOOLEAN
           /\ watchdog \in {"idle", "dead", "spawn"} /\ helper \in {"idle", "closed", "none"}
           /\ daemon \in {"up", "down"} /\ hosted \subseteq Sessions
           /\ linked \in {"no", "yes", "cut"} /\ view.hosted \subseteq Sessions

(* A tray the user quit is gone until the next sign-in: no window comes up   *)
(* after a recorded quit unless somebody started one, or a start had been    *)
(* decided before the quit.                                                  *)
NoRevival == ordered /\ ~early => Up = {}

(* An install or an update never undoes the user's "no start at logon" once  *)
(* that is done, unless it was already past its look at the user's choice    *)
(* (or a start turned on was still to be written), or "off" was cut short.   *)
LogonOff == off /\ "delete" \notin entries /\ ~overtaken => ~logon

(* While the daemon runs, a tray that crashed comes back: "running" with no  *)
(* window does not last.                                                     *)
ComesBack == <>[](daemon = "up") => []<>(tray = "running" => tray_alive)

(* The window ends up showing the daemon's sessions, none when it is down.   *)
MirrorConverges == <>[](Up # {}) =>
                     <>[](view = IF daemon = "up" THEN [running |-> TRUE, hosted |-> hosted] ELSE Blank)

(* "Hosted sessions end with the daemon: ask first when there are any."      *)
EndsAsked == ended = {}

(* The user's word on the tray holds: quit is quit, off is off.              *)
TrayObeys == TTypeOK /\ NoRevival /\ LogonOff

(* While the daemon runs the tray is there, and shows what the daemon has.   *)
TrayConverges == ComesBack /\ MirrorConverges
=============================================================================
