---------------------------- MODULE HostSessions ----------------------------
(***************************************************************************)
(* Sessions, daemon/host.rs: agents that run in consoles of the daemon,    *)
(* with terminals that attach to them (attach.rs, tui/session.rs), and     *)
(* agents that run in a terminal of their own under `wtd run` and register *)
(* over a connection that they hold (run.rs).  The daemon shows a worktree *)
(* as live while it knows of a session there (mod.rs refresh_liveness).    *)
(*                                                                         *)
(* Opening a session looks for one under the lock, starts the process      *)
(* without it, and registers it under the lock again; the process's end is *)
(* told to the attached terminals and then takes the lock to drop the      *)
(* session.  These are separate steps here.                                *)
(***************************************************************************)
EXTENDS Naturals, FiniteSets

CONSTANTS Terminals,  \* connections of terminals, one attach stream each
          Worktrees,
          Consoles,   \* ids of hosted sessions, each used once
          Runs,       \* sessions under `wtd run`
          Home,       \* the worktree of each session
          Reviews,    \* the sessions of kind review or ask
          MaxStops    \* bound: ends of the daemon

Sessions == Consoles \cup Runs

ASSUME HostAssumption ==
  /\ Home \in [Sessions -> Worktrees] /\ Reviews \subseteq Sessions
  /\ Consoles \cap Runs = {} /\ MaxStops \in Nat

VARIABLES
  daemon,    \* "up", "stopping" (200 ms from its exit) or "down"
  forced,    \* whether the shutdown under way was forced
  fleet,     \* the keys of inner.worktrees
  live,      \* the worktrees the fleet map shows as live
  sessions,  \* the keys of inner.sessions
  phase,     \* each console's process and what its end has led to
  pc,        \* what the handler of each terminal's connection does next
  wants,     \* the worktree each terminal asked for
  at,        \* the sessions each terminal's handler holds: none or one
  mail,      \* the terminals with an exit event in their receiver
  runs,      \* the `wtd run` processes that are alive
  stops,     \* ends of the daemon
  late,      \* history: terminals that subscribed after the exit was told
  hasty,     \* history: consoles whose end was handled before they were registered
  overlap,   \* history: worktrees two spawns were starting a session for
  settled    \* history: sessions that ran, registered, when shutdown was asked

hvars == <<daemon, forced, fleet, live, sessions, phase, pc, wants, at, mail, runs, stops,
           late, hasty, overlap, settled>>
daemonVars == <<daemon, forced, stops, settled>>
terminalVars == <<pc, wants, at, mail, late>>

Phases == {"unborn", "running", "dead", "told", "ended", "cut"}
Steps == {"off", "spawning", "joining", "starting", "started", "answered", "attached"}

Hosted(w) == {s \in sessions \cap Consoles : Home[s] = w}

InPhase(phases) == {s \in Consoles : phase[s] \in phases}

-----------------------------------------------------------------------------
(* What the fleet map shows. *)

Shows(w, ss) == \E s \in ss \ Reviews : Home[s] = w

(* refresh_liveness, when ss are the sessions: nothing for an unknown worktree. *)
Refreshed(w, ss) ==
  IF w \notin fleet THEN live ELSE IF Shows(w, ss) THEN live \cup {w} ELSE live \ {w}

\* mutant: leaves the worktrees that are gone live
RescanKeepsGone(fl) ==
  /\ daemon # "down" /\ fleet' = fl
  /\ live' = live \cup {w \in fl \ fleet : Shows(w, sessions)}
  /\ UNCHANGED <<daemonVars, terminalVars, sessions, phase, runs, hasty, overlap>>

(* rescan: keeps what it knows of a worktree, and looks for sessions of a new one. *)
Rescan(fl) ==
  /\ daemon # "down" /\ fleet' = fl
  /\ live' = (live \cap fl) \cup {w \in fl \ fleet : Shows(w, sessions)}
  /\ UNCHANGED <<daemonVars, terminalVars, sessions, phase, runs, hasty, overlap>>

-----------------------------------------------------------------------------
(* Opening: `wtd host` spawns, `wtd attach` and the TUI join. *)

Goes(t, step) == pc' = [pc EXCEPT ![t] = step]

Ask(t, w, step) ==
  /\ daemon # "down" /\ pc[t] = "off" /\ step \in {"spawning", "joining"}
  /\ Goes(t, step) /\ wants' = [wants EXCEPT ![t] = w]
  /\ UNCHANGED <<daemonVars, fleet, live, sessions, phase, at, mail, runs, late, hasty, overlap>>

Opening(w) == {t \in Terminals : wants[t] = w /\ pc[t] \in {"starting", "started"}}

(* find, and what `open` makes of its answer. *)
Find(t) ==
  /\ pc[t] \in {"spawning", "joining"}
  /\ \/ /\ \E s \in Hosted(wants[t]) : at' = [at EXCEPT ![t] = {s}]
        /\ Goes(t, "answered")
        /\ UNCHANGED overlap
     \/ /\ Hosted(wants[t]) = {} /\ pc[t] = "joining"
        /\ Goes(t, "off")
        /\ UNCHANGED <<at, overlap>>
     \/ /\ Hosted(wants[t]) = {} /\ pc[t] = "spawning"
        /\ Goes(t, "starting")
        /\ overlap' = IF Opening(wants[t]) = {} THEN overlap ELSE overlap \cup {wants[t]}
        /\ UNCHANGED at
  /\ UNCHANGED <<daemonVars, fleet, live, sessions, phase, wants, mail, runs, late, hasty>>

(* Pty::spawn, which can fail. *)
Start(t) ==
  /\ pc[t] = "starting"
  /\ \/ \E s \in InPhase({"unborn"}) :
          /\ Home[s] = wants[t]
          /\ phase' = [phase EXCEPT ![s] = "running"]
          /\ at' = [at EXCEPT ![t] = {s}]
          /\ Goes(t, "started")
     \/ /\ Goes(t, "off")
        /\ UNCHANGED <<phase, at>>
  /\ UNCHANGED <<daemonVars, fleet, live, sessions, wants, mail, runs, late, hasty, overlap>>

\* mutant: registers the session and does not refresh
InsertUnseen(t) ==
  /\ pc[t] = "started" /\ Goes(t, "answered")
  /\ sessions' = sessions \cup at[t]
  /\ UNCHANGED <<daemonVars, fleet, live, phase, wants, at, mail, runs, late, hasty, overlap>>

Insert(t) ==
  /\ pc[t] = "started" /\ Goes(t, "answered")
  /\ sessions' = sessions \cup at[t]
  /\ live' = Refreshed(wants[t], sessions')
  /\ UNCHANGED <<daemonVars, fleet, phase, wants, at, mail, runs, late, hasty, overlap>>

(* attach: from here on the terminal's receiver gets what the console tells. *)
Subscribe(t) ==
  /\ pc[t] = "answered" /\ Goes(t, "attached")
  /\ late' = IF at[t] \subseteq InPhase({"told", "ended"}) THEN late \cup {t} ELSE late
  /\ UNCHANGED <<daemonVars, fleet, live, sessions, phase, wants, at, mail, runs, hasty, overlap>>

(* The terminals in ts are gone, for whatever reason: their sessions stay. *)
Leave(ts) ==
  /\ pc' = [t \in Terminals |-> IF t \in ts THEN "off" ELSE pc[t]]
  /\ at' = [t \in Terminals |-> IF t \in ts THEN {} ELSE at[t]]
  /\ mail' = mail \ ts /\ late' = late \ ts /\ UNCHANGED wants

\* mutant: drops the session with the connection, as for `wtd run`
DetachDrops(t) ==
  /\ pc[t] \in {"answered", "attached"} /\ Leave({t})
  /\ sessions' = sessions \ at[t]
  /\ live' = Refreshed(wants[t], sessions')
  /\ UNCHANGED <<daemonVars, fleet, phase, runs, hasty, overlap>>

(* The user closes the terminal, or its client has heard the exit. *)
Detach(t) ==
  /\ pc[t] \in {"answered", "attached"} /\ Leave({t})
  /\ UNCHANGED <<daemonVars, fleet, live, sessions, phase, runs, hasty, overlap>>

Hear(t) == t \in mail /\ Detach(t)

-----------------------------------------------------------------------------
(* The end of a hosted process. *)

Kill(ss) == phase' = [s \in Consoles |-> IF s \in ss /\ phase[s] = "running" THEN "dead" ELSE phase[s]]

ProcessEnds(s) ==
  /\ phase[s] = "running" /\ Kill({s})
  /\ UNCHANGED <<daemonVars, terminalVars, fleet, live, sessions, runs, hasty, overlap>>

(* stop_sessions: every session of the worktree that is registered. *)
Stop(w) ==
  /\ daemon # "down"
  /\ Kill(Hosted(w))
  /\ runs' = {r \in runs : r \notin sessions \/ Home[r] # w}
  /\ UNCHANGED <<daemonVars, terminalVars, fleet, live, sessions, hasty, overlap>>

Attached(s) == {t \in Terminals : pc[t] = "attached" /\ at[t] = {s}}

\* mutant: tells nobody
TellNobody(s) ==
  /\ phase[s] = "dead"
  /\ phase' = [phase EXCEPT ![s] = "told"]
  /\ UNCHANGED <<daemonVars, terminalVars, fleet, live, sessions, runs, hasty, overlap>>

(* on_exit: the exit event goes to the receivers there are. *)
Tell(s) ==
  /\ phase[s] = "dead"
  /\ phase' = [phase EXCEPT ![s] = "told"]
  /\ mail' = mail \cup Attached(s)
  /\ UNCHANGED <<daemonVars, fleet, live, sessions, pc, wants, at, runs, late, hasty, overlap>>

\* mutant: refreshes the worktree and keeps the session
ExitedKeeps(s) ==
  /\ phase[s] = "told"
  /\ phase' = [phase EXCEPT ![s] = "ended"]
  /\ live' = Refreshed(Home[s], sessions)
  /\ hasty' = IF s \in sessions THEN hasty ELSE hasty \cup {s}
  /\ UNCHANGED <<daemonVars, terminalVars, fleet, sessions, runs, overlap>>

(* exited: drops the session. *)
Exited(s) ==
  /\ phase[s] = "told"
  /\ phase' = [phase EXCEPT ![s] = "ended"]
  /\ sessions' = sessions \ {s}
  /\ live' = Refreshed(Home[s], sessions')
  /\ hasty' = IF s \in sessions THEN hasty ELSE hasty \cup {s}
  /\ UNCHANGED <<daemonVars, terminalVars, fleet, runs, overlap>>

-----------------------------------------------------------------------------
(* `wtd run`. *)

RunStarts(r) ==
  /\ r \notin runs \cup sessions /\ runs' = runs \cup {r}
  /\ UNCHANGED <<daemonVars, terminalVars, fleet, live, sessions, phase, hasty, overlap>>

\* mutant: gives up when the daemon it registered with is gone
RegisterOnce(r) ==
  /\ daemon # "down" /\ r \in runs \ sessions /\ stops = 0
  /\ sessions' = sessions \cup {r}
  /\ live' = Refreshed(Home[r], sessions')
  /\ UNCHANGED <<daemonVars, terminalVars, fleet, phase, runs, hasty, overlap>>

(* hold_registration, tried again every 3 s while there is no daemon. *)
Register(r) ==
  /\ daemon # "down" /\ r \in runs \ sessions
  /\ sessions' = sessions \cup {r}
  /\ live' = Refreshed(Home[r], sessions')
  /\ UNCHANGED <<daemonVars, terminalVars, fleet, phase, runs, hasty, overlap>>

RunEnds(r) ==
  /\ r \in runs /\ runs' = runs \ {r}
  /\ UNCHANGED <<daemonVars, terminalVars, fleet, live, sessions, phase, hasty, overlap>>

(* The end of handle: the connection was the registration. *)
Gone(r) ==
  /\ r \in sessions \ runs
  /\ sessions' = sessions \ {r}
  /\ live' = Refreshed(Home[r], sessions')
  /\ UNCHANGED <<daemonVars, terminalVars, fleet, phase, runs, hasty, overlap>>

-----------------------------------------------------------------------------
(* The daemon's own end. *)

Registered == {s \in InPhase({"running"}) : \A t \in Terminals : pc[t] = "started" => at[t] # {s}}

\* mutant: does not count sessions that are not agents'
ShutdownCountsAgents(force) ==
  /\ daemon = "up" /\ stops < MaxStops
  /\ force \/ (sessions \cap Consoles) \ Reviews = {}
  /\ daemon' = "stopping" /\ forced' = force /\ settled' = Registered
  /\ UNCHANGED <<terminalVars, fleet, live, sessions, phase, runs, stops, hasty, overlap>>

(* shutdown: refused while hosted sessions are registered, unless forced. *)
Shutdown(force) ==
  /\ daemon = "up" /\ stops < MaxStops
  /\ force \/ sessions \cap Consoles = {}
  /\ daemon' = "stopping" /\ forced' = force /\ settled' = Registered
  /\ UNCHANGED <<terminalVars, fleet, live, sessions, phase, runs, stops, hasty, overlap>>

(* It exits, 200 ms after it was asked to or by a crash; its consoles' job
   objects end every process in them, and no handler runs any more. *)
Down ==
  /\ daemon # "down" /\ stops < MaxStops
  /\ daemon' = "down" /\ stops' = stops + 1
  /\ phase' = [s \in Consoles |-> IF phase[s] \in {"running", "dead", "told"} THEN "cut" ELSE phase[s]]
  /\ sessions' = {} /\ fleet' = {} /\ live' = {}
  /\ Leave(Terminals)
  /\ UNCHANGED <<forced, settled, runs, hasty, overlap>>

Up ==
  /\ daemon = "down"
  /\ daemon' = "up" /\ forced' = FALSE /\ settled' = {}
  /\ UNCHANGED <<terminalVars, fleet, live, sessions, phase, runs, stops, hasty, overlap>>

-----------------------------------------------------------------------------
HInit ==
  /\ daemon = "up" /\ forced = FALSE /\ fleet = Worktrees /\ live = {}
  /\ sessions = {} /\ phase = [s \in Consoles |-> "unborn"]
  /\ pc = [t \in Terminals |-> "off"] /\ at = [t \in Terminals |-> {}]
  /\ wants \in [Terminals -> Worktrees]
  /\ mail = {} /\ runs = {} /\ stops = 0
  /\ late = {} /\ hasty = {} /\ overlap = {} /\ settled = {}

Handler(t) == Find(t) \/ Start(t) \/ Insert(t) \/ Subscribe(t)

Ending(s) == Tell(s) \/ Exited(s)

Connection(r) == Register(r) \/ Gone(r)

HNext ==
  \/ \E fl \in SUBSET Worktrees : Rescan(fl)
  \/ \E t \in Terminals : \/ \E w \in Worktrees, step \in Steps : Ask(t, w, step)
                          \/ Handler(t) \/ Detach(t) \/ Hear(t)
  \/ \E s \in Consoles : ProcessEnds(s) \/ Ending(s)
  \/ \E w \in Worktrees : Stop(w)
  \/ \E r \in Runs : RunStarts(r) \/ RunEnds(r) \/ Connection(r)
  \/ \E force \in BOOLEAN : Shutdown(force)
  \/ Down \/ Up

(* Handlers, waiter threads and connections go on; users, agents and the
   daemon's end are left open. *)
HFairness ==
  /\ \A t \in Terminals : WF_hvars(Handler(t)) /\ WF_hvars(Hear(t))
  /\ \A s \in Consoles : WF_hvars(Ending(s))
  /\ \A r \in Runs : WF_hvars(Register(r)) /\ WF_hvars(Gone(r))

HSpec == HInit /\ [][HNext]_hvars /\ HFairness

-----------------------------------------------------------------------------
HTypeOK ==
  /\ daemon \in {"up", "stopping", "down"} /\ forced \in BOOLEAN /\ stops \in 0..MaxStops
  /\ live \subseteq fleet /\ fleet \subseteq Worktrees
  /\ sessions \subseteq Sessions /\ runs \subseteq Runs
  /\ phase \in [Consoles -> Phases] /\ sessions \cap InPhase({"unborn"}) = {}
  /\ pc \in [Terminals -> Steps] /\ wants \in [Terminals -> Worktrees]
  /\ at \in [Terminals -> SUBSET Consoles]
  /\ \A t \in Terminals :
       IF pc[t] \in {"started", "answered", "attached"}
         THEN \E s \in Consoles : at[t] = {s} /\ Home[s] = wants[t] /\ phase[s] # "unborn"
         ELSE at[t] = {}
  /\ mail \cup late \subseteq Terminals
  /\ hasty \cup settled \subseteq Consoles /\ overlap \subseteq Worktrees

(***************************************************************************)
(* "the daemon's liveness for this worktree is that connection" (run.rs)   *)
(* and the same for consoles: whatever sessions open and end, and whenever *)
(* a worktree comes to the fleet or leaves it, it is shown as live exactly *)
(* while a session that is not a review is registered for it.              *)
(***************************************************************************)
LiveMatches == \A w \in fleet : w \in live <=> Shows(w, sessions)

(***************************************************************************)
(* A worktree has one hosted agent (host.rs:79 "attach to the worktree's   *)
(* hosted session if it has one, else start it"), but for the one gap      *)
(* there is: a second spawn that looks for a session while the first is    *)
(* starting its process.                                                   *)
(***************************************************************************)
OneAgent ==
  \A s, u \in InPhase({"running"}) : s # u /\ Home[s] = Home[u] => Home[s] \in overlap

(***************************************************************************)
(* What `find` returns is "the live hosted session" (host.rs:74): a        *)
(* session whose end has been handled is not found, shown or counted any   *)
(* more, but for a process that ended before it was registered.            *)
(***************************************************************************)
NoGhosts == \A s \in sessions \cap Consoles : phase[s] \in {"ended", "cut"} => s \in hasty

(***************************************************************************)
(* "hosted session(s) are running and would end - stop with force to       *)
(* confirm" (mod.rs:538): a shutdown that was not forced ends no session   *)
(* that was running and registered when it was asked for.                  *)
(***************************************************************************)
AskedFirst == [][daemon = "stopping" /\ daemon' = "down" /\ ~forced
                   => settled \cap InPhase({"running"}) = {}]_hvars

(***************************************************************************)
(* "until the client disconnects or the session ends" (host.rs:163): no    *)
(* terminal stays attached to a session that has ended, but for one that   *)
(* subscribed after the exit was told.                                     *)
(***************************************************************************)
EndHeard ==
  []<>(\A t \in Terminals :
         pc[t] = "attached" => at[t] \cap InPhase({"running"}) # {} \/ t \in late)

(***************************************************************************)
(* A session under `wtd run` comes to be known for as long as it runs,     *)
(* after a restart of the daemon too, and forgotten once it has ended.     *)
(***************************************************************************)
RunsFollowed ==
  \A r \in Runs : []<>(daemon = "down" \/ (r \in sessions <=> r \in runs))

(***************************************************************************)
(* What the daemon knows of its sessions is what there is: the fleet map   *)
(* (mod.rs refresh_liveness), one hosted agent a worktree (host.rs:79), no *)
(* session that has ended (host.rs:74).                                    *)
(***************************************************************************)
SessionsTrue == HTypeOK /\ LiveMatches /\ OneAgent /\ NoGhosts

(***************************************************************************)
(* No order of spawns, ends, shutdowns and restarts ends a session nobody  *)
(* was asked about (mod.rs:538), leaves a terminal at a session that has   *)
(* ended (host.rs:163), or a `wtd run` unknown or remembered (run.rs).     *)
(***************************************************************************)
SessionsFollowed == AskedFirst /\ EndHeard /\ RunsFollowed
=============================================================================
