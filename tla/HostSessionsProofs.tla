------------------------- MODULE HostSessionsProofs -------------------------
(***************************************************************************)
(* What host.rs and the session handlers of mod.rs promise for any number  *)
(* of terminals, worktrees, consoles and `wtd run` sessions: the state is  *)
(* well typed, worktrees are shown as live exactly when they are, a dead   *)
(* session is known only if it died before it was registered, and there is *)
(* one hosted agent per worktree unless two spawns overlapped.  Then what  *)
(* Console adds, the size of one console that any number of terminals show *)
(* in windows of any sizes: input is written to a console of the size its  *)
(* terminal has.                                                           *)
(***************************************************************************)
EXTENDS HostSessions, Console, SequenceTheorems, TLAPS

LEMMA InitHost == HInit => HTypeOK
  <1> SUFFICES ASSUME HInit
               PROVE  HTypeOK
    OBVIOUS
  <1>1. pc \in [Terminals -> Steps] /\ phase \in [Consoles -> Phases]
    BY DEF HInit, Steps, Phases
  <1>2. \A t \in Terminals : pc[t] = "off" /\ at[t] = {}
    BY DEF HInit
  <1>3. stops \in 0..MaxStops
    BY HostAssumption DEF HInit
  <1> QED
    BY <1>1, <1>2, <1>3 DEF HInit, HTypeOK

(* Each action preserves the types. *)
LEMMA OpeningType ==
  ASSUME HTypeOK, NEW t \in Terminals,
         Find(t) \/ Start(t) \/ Insert(t) \/ Subscribe(t) \/ Detach(t) \/ Hear(t)
  PROVE  HTypeOK'
  <1>1. CASE Find(t)
    <2>1. CASE pc' = [pc EXCEPT ![t] = "answered"] /\ \E s \in Hosted(wants[t]) : at' = [at EXCEPT ![t] = {s}]
      <3>1. PICK s \in Hosted(wants[t]) : at' = [at EXCEPT ![t] = {s}]
        BY <2>1
      <3>2. s \in Consoles /\ s \in sessions /\ Home[s] = wants[t] /\ phase[s] # "unborn"
        BY <3>1 DEF Hosted, HTypeOK, InPhase
      <3> QED
        BY <1>1, <2>1, <3>1, <3>2 DEF Find, HTypeOK, Steps, daemonVars, InPhase
    <2>2. CASE pc' = [pc EXCEPT ![t] = "off"] /\ UNCHANGED <<at, overlap>>
      BY <1>1, <2>2 DEF Find, HTypeOK, Steps, daemonVars, InPhase
    <2>3. CASE pc' = [pc EXCEPT ![t] = "starting"] /\ UNCHANGED at
      BY <1>1, <2>3 DEF Find, HTypeOK, Steps, daemonVars, InPhase
    <2> QED
      BY <1>1, <2>1, <2>2, <2>3 DEF Find, Goes
  <1>2. CASE Start(t)
    BY <1>2 DEF Start, Goes, InPhase, HTypeOK, Steps, Phases, daemonVars
  <1>3. CASE Insert(t)
    BY <1>3 DEF Insert, Goes, Refreshed, HTypeOK, Steps, Sessions, daemonVars, InPhase
  <1>4. CASE Subscribe(t)
    BY <1>4 DEF Subscribe, Goes, HTypeOK, Steps, daemonVars, InPhase
  <1>5. CASE Detach(t) \/ Hear(t)
    BY <1>5 DEF Hear, Detach, Leave, HTypeOK, Steps, daemonVars, InPhase
  <1> QED
    BY <1>1, <1>2, <1>3, <1>4, <1>5

(* A phase that a console leaves behind is one it had been given. *)
LEMMA EndingType ==
  ASSUME HTypeOK, NEW s \in Consoles, ProcessEnds(s) \/ Tell(s) \/ Exited(s)
  PROVE  HTypeOK'
  <1>1. CASE ProcessEnds(s)
    BY <1>1 DEF ProcessEnds, Kill, HTypeOK, Phases, daemonVars, terminalVars, InPhase
  <1>2. CASE Tell(s)
    BY <1>2 DEF Tell, Attached, HTypeOK, Phases, daemonVars, InPhase
  <1>3. CASE Exited(s)
    BY <1>3 DEF Exited, Refreshed, HTypeOK, Phases, daemonVars, terminalVars, InPhase
  <1> QED
    BY <1>1, <1>2, <1>3

LEMMA DownType ==
  ASSUME HTypeOK, Down
  PROVE  HTypeOK'
  <1>1. stops' \in 0..MaxStops
    BY HostAssumption DEF Down, HTypeOK
  <1> QED
    BY <1>1 DEF Down, Leave, HTypeOK, Phases, Steps, InPhase

LEMMA StepHost == HTypeOK /\ [HNext]_hvars => HTypeOK'
  <1> SUFFICES ASSUME HTypeOK, [HNext]_hvars
               PROVE  HTypeOK'
    OBVIOUS
  <1> USE DEF HTypeOK, InPhase, daemonVars, terminalVars
  <1>1. ASSUME NEW fl \in SUBSET Worktrees, Rescan(fl)
        PROVE  HTypeOK'
    BY <1>1 DEF Rescan
  <1>2. ASSUME NEW t \in Terminals, NEW w \in Worktrees, NEW step \in Steps, Ask(t, w, step)
        PROVE  HTypeOK'
    BY <1>2 DEF Ask, Goes, Steps
  <1>3. ASSUME NEW w \in Worktrees, Stop(w)
        PROVE  HTypeOK'
    BY <1>3 DEF Stop, Kill, Phases
  <1>4. ASSUME NEW r \in Runs, RunStarts(r) \/ RunEnds(r)
        PROVE  HTypeOK'
    BY <1>4 DEF RunStarts, RunEnds
  <1>5. ASSUME NEW r \in Runs, Connection(r)
        PROVE  HTypeOK'
    BY <1>5, HostAssumption DEF Connection, Register, Gone, Refreshed, Sessions
  <1>6. ASSUME NEW force \in BOOLEAN, Shutdown(force)
        PROVE  HTypeOK'
    BY <1>6 DEF Shutdown, Registered
  <1>7. CASE Up
    BY <1>7 DEF Up
  <1>8. CASE UNCHANGED hvars
    BY <1>8 DEF hvars
  <1> HIDE DEF HTypeOK, InPhase, daemonVars, terminalVars
  <1> QED
    BY <1>1, <1>2, <1>3, <1>4, <1>5, <1>6, <1>7, <1>8, OpeningType, EndingType, DownType
    DEF HNext, Handler, Ending

(* In every reachable state the session tables are well typed, and a terminal
   that holds a session holds one of the worktree it asked for. *)
THEOREM TypeCorrect == HSpec => []HTypeOK
  BY InitHost, StepHost, PTL DEF HSpec

-----------------------------------------------------------------------------
(* Only a change of the fleet or of the sessions can make the map wrong; each
   handler that changes the sessions of one worktree refreshes that one. *)
LEMMA RefreshMatches ==
  ASSUME HTypeOK, LiveMatches, NEW w \in Worktrees, NEW ss \in SUBSET Sessions,
         fleet' = fleet, live' = Refreshed(w, ss), sessions' = ss,
         \A s \in Sessions : Home[s] # w => (s \in ss <=> s \in sessions)
  PROVE  LiveMatches'
  <1>1. \A v \in Worktrees : v # w => (Shows(v, ss) <=> Shows(v, sessions))
    BY DEF Shows, HTypeOK
  <1>2. \A v \in fleet : v # w => (v \in live' <=> v \in live)
    BY DEF Refreshed
  <1>3. w \in fleet => (w \in live' <=> Shows(w, ss))
    BY DEF Refreshed
  <1> QED
    BY <1>1, <1>2, <1>3 DEF LiveMatches, HTypeOK

LEMMA InitLive == HInit => LiveMatches
  BY DEF HInit, LiveMatches, Shows

LEMMA StepLive == HTypeOK /\ LiveMatches /\ [HNext]_hvars => LiveMatches'
  <1> SUFFICES ASSUME HTypeOK, LiveMatches, [HNext]_hvars
               PROVE  LiveMatches'
    OBVIOUS
  <1>1. ASSUME UNCHANGED <<fleet, live, sessions>>
        PROVE  LiveMatches'
    BY <1>1 DEF LiveMatches, Shows
  <1>2. ASSUME NEW fl \in SUBSET Worktrees, Rescan(fl)
        PROVE  LiveMatches'
    BY <1>2 DEF Rescan, LiveMatches, Shows, HTypeOK
  <1>3. ASSUME NEW t \in Terminals, Insert(t)
        PROVE  LiveMatches'
    <2>1. PICK s \in Consoles : at[t] = {s} /\ Home[s] = wants[t]
      BY <1>3 DEF Insert, HTypeOK
    <2>2. wants[t] \in Worktrees /\ sessions' \in SUBSET Sessions
      BY <1>3, <2>1 DEF Insert, HTypeOK, Sessions
    <2>3. \A u \in Sessions : Home[u] # wants[t] => (u \in sessions' <=> u \in sessions)
      BY <1>3, <2>1 DEF Insert
    <2> QED
      BY <1>3, <2>2, <2>3, RefreshMatches DEF Insert
  <1>4. ASSUME NEW s \in Consoles, Exited(s)
        PROVE  LiveMatches'
    <2>1. Home[s] \in Worktrees /\ sessions' \in SUBSET Sessions
      BY <1>4, HostAssumption DEF Exited, HTypeOK, Sessions
    <2>2. \A u \in Sessions : Home[u] # Home[s] => (u \in sessions' <=> u \in sessions)
      BY <1>4 DEF Exited
    <2> QED
      BY <1>4, <2>1, <2>2, RefreshMatches DEF Exited
  <1>5. ASSUME NEW r \in Runs, Connection(r)
        PROVE  LiveMatches'
    <2>1. Home[r] \in Worktrees /\ sessions' \in SUBSET Sessions
      BY <1>5, HostAssumption DEF Connection, Register, Gone, HTypeOK, Sessions
    <2>2. \A u \in Sessions : Home[u] # Home[r] => (u \in sessions' <=> u \in sessions)
      BY <1>5 DEF Connection, Register, Gone
    <2>3. fleet' = fleet /\ live' = Refreshed(Home[r], sessions')
      BY <1>5 DEF Connection, Register, Gone
    <2> QED
      BY <2>1, <2>2, <2>3, RefreshMatches
  <1>6. CASE Down
    BY <1>6 DEF Down, LiveMatches
  <1> QED
    BY <1>1, <1>2, <1>3, <1>4, <1>5, <1>6
    DEF HNext, Handler, Ending, hvars, daemonVars, Ask, Find, Start, Subscribe, Detach, Hear,
        ProcessEnds, Tell, Stop, RunStarts, RunEnds, Shutdown, Up

(* A worktree of the fleet is shown as live exactly while a session that is
   not a review is registered for it: what refresh_liveness is called for in
   every handler, for any number of sessions, and rescan for new worktrees. *)
THEOREM LivenessShown == HSpec => []LiveMatches
  BY InitLive, StepLive, TypeCorrect, PTL DEF HSpec

-----------------------------------------------------------------------------
(***************************************************************************)
(* OneAgent and NoGhosts speak of what is registered; what makes them      *)
(* inductive is what is about to be: a process that runs is registered or  *)
(* its opener is about to register it, no two openers hold the same one,   *)
(* and while a worktree is being opened by one terminal alone, nothing     *)
(* else runs there.                                                        *)
(***************************************************************************)
Started(t, s) == pc[t] = "started" /\ at[t] = {s}

Unregistered ==
  \A t \in Terminals, s \in Consoles :
    Started(t, s) => /\ s \notin sessions /\ phase[s] # "cut"
                     /\ phase[s] = "ended" => s \in hasty
                     /\ \A u \in Terminals : Started(u, s) => u = t

Known ==
  \A s \in InPhase({"running"}) : s \in sessions \/ \E t \in Terminals : Started(t, s)

OneOpener ==
  \A t \in Terminals :
    pc[t] \in {"starting", "started"} /\ wants[t] \notin overlap
      => /\ \A u \in Opening(wants[t]) : u = t
         /\ \A s \in InPhase({"running"}) : Home[s] = wants[t] => Started(t, s)

AgentInv == Unregistered /\ Known /\ OneOpener /\ OneAgent /\ NoGhosts

LEMMA InitAgent == HInit => AgentInv
  BY DEF HInit, AgentInv, Unregistered, Known, OneOpener, OneAgent, NoGhosts, Started, InPhase

(* What a step that opens nothing, registers nothing and starts no process
   has to leave alone. *)
LEMMA AgentKept ==
  ASSUME HTypeOK, AgentInv,
         sessions' \cap Consoles \subseteq sessions, overlap' = overlap, hasty \subseteq hasty',
         \A s \in Consoles : phase'[s] = "running" =>
            phase[s] = "running" /\ (s \in sessions => s \in sessions'),
         \A s \in Consoles : phase'[s] = "ended" =>
            phase[s] = "ended" \/ (s \notin sessions' /\ (s \notin sessions => s \in hasty')),
         \A s \in Consoles : phase'[s] = "cut" => phase[s] = "cut",
         \A t \in Terminals, s \in Consoles : Started(t, s)' <=> Started(t, s),
         \A t \in Terminals : pc'[t] \in {"starting", "started"} =>
            pc[t] = pc'[t] /\ wants'[t] = wants[t]
  PROVE  AgentInv'
  <1>1. Unregistered'
    BY DEF AgentInv, Unregistered
  <1>2. Known'
    BY DEF AgentInv, Known, InPhase
  <1>3. OneOpener'
    BY DEF AgentInv, OneOpener, Opening, InPhase
  <1>4. OneAgent'
    BY DEF AgentInv, OneAgent, InPhase
  <1>5. NoGhosts'
    BY DEF AgentInv, NoGhosts
  <1> QED
    BY <1>1, <1>2, <1>3, <1>4, <1>5 DEF AgentInv

(* A spawn that finds nothing: nothing runs there, or another spawn is on
   its way there. *)
LEMMA FindAgent ==
  ASSUME HTypeOK, AgentInv, NEW t \in Terminals, Find(t)
  PROVE  AgentInv'
  <1>1. CASE pc' = [pc EXCEPT ![t] = "starting"] /\ UNCHANGED at
    <2>1. Hosted(wants[t]) = {} /\ pc[t] = "spawning"
          /\ overlap' = IF Opening(wants[t]) = {} THEN overlap ELSE overlap \cup {wants[t]}
      BY <1>1 DEF Find, Goes, HTypeOK, Steps
    <2>2. \A u \in Terminals, s \in Consoles : Started(u, s)' <=> Started(u, s)
      BY <1>1, <2>1 DEF Started, HTypeOK
    <2>3. ASSUME NEW s \in InPhase({"running"}), Home[s] = wants[t]
          PROVE  Opening(wants[t]) # {}
      <3>1. s \notin sessions
        BY <2>1, <2>3 DEF Hosted, InPhase
      <3>2. PICK u \in Terminals : Started(u, s)
        BY <3>1 DEF AgentInv, Known
      <3>3. wants[u] = wants[t] /\ pc[u] = "started"
        BY <2>3, <3>2 DEF Started, HTypeOK
      <3> QED
        BY <3>3 DEF Opening
    <2>4. OneOpener'
      BY <1>1, <2>1, <2>2, <2>3 DEF AgentInv, OneOpener, Opening, Find, HTypeOK, InPhase
    <2>5. Unregistered' /\ Known' /\ OneAgent' /\ NoGhosts'
      BY <1>1, <2>1, <2>2 DEF AgentInv, Unregistered, Known, OneAgent, NoGhosts, Find, InPhase
    <2> QED
      BY <2>4, <2>5 DEF AgentInv
  <1>2. CASE pc'[t] \in {"answered", "off"} /\ UNCHANGED overlap
    <2>1. \A u \in Terminals, s \in Consoles : Started(u, s)' <=> Started(u, s)
      BY <1>2 DEF Find, Goes, Started, HTypeOK
    <2>2. \A u \in Terminals : pc'[u] \in {"starting", "started"} => pc[u] = pc'[u]
      BY <1>2 DEF Find, Goes, HTypeOK
    <2> QED
      BY <1>2, <2>1, <2>2, AgentKept DEF Find
  <1> QED
    BY <1>1, <1>2 DEF Find, Goes, HTypeOK

LEMMA StartAgent ==
  ASSUME HTypeOK, AgentInv, NEW t \in Terminals, Start(t)
  PROVE  AgentInv'
  <1>1. CASE pc' = [pc EXCEPT ![t] = "off"] /\ UNCHANGED <<phase, at>>
    <2>1. \A u \in Terminals, s \in Consoles : Started(u, s)' <=> Started(u, s)
      BY <1>1 DEF Start, Started, HTypeOK
    <2>2. \A u \in Terminals : pc'[u] \in {"starting", "started"} => pc[u] = pc'[u]
      BY <1>1 DEF HTypeOK
    <2> QED
      BY <1>1, <2>1, <2>2, AgentKept DEF Start
  <1>2. CASE pc' = [pc EXCEPT ![t] = "started"]
    <2>1. PICK s \in InPhase({"unborn"}) :
            /\ Home[s] = wants[t] /\ phase' = [phase EXCEPT ![s] = "running"]
            /\ at' = [at EXCEPT ![t] = {s}]
      BY <1>2 DEF Start, Goes, HTypeOK
    <2>2. s \in Consoles /\ phase[s] = "unborn" /\ s \notin sessions
      BY <2>1 DEF InPhase, HTypeOK
    <2>3. \A u \in Terminals, v \in Consoles :
            Started(u, v)' <=> (Started(u, v) \/ (u = t /\ v = s))
      BY <1>2, <2>1 DEF Start, Started, HTypeOK
    <2>4. \A u \in Terminals : ~Started(u, s)
      BY <2>2 DEF Started, HTypeOK
    <2>5. \A v \in Consoles : v # s => phase'[v] = phase[v]
      BY <2>1 DEF HTypeOK
    <2>6. phase'[s] = "running"
      BY <2>1, <2>2 DEF HTypeOK
    <2>7. Unregistered'
      BY <2>2, <2>3, <2>4, <2>5, <2>6 DEF AgentInv, Unregistered, Start
    <2>8. Known'
      BY <2>3, <2>5 DEF AgentInv, Known, InPhase, Start
    <2>9. OneOpener'
      BY <1>2, <2>1, <2>3, <2>5, <2>6 DEF AgentInv, OneOpener, Opening, InPhase, Start, HTypeOK
    <2>10. OneAgent'
      <3>1. wants[t] \notin overlap => \A v \in InPhase({"running"}) : Home[v] # wants[t]
        BY DEF AgentInv, OneOpener, Start, Started
      <3>2. \A v \in InPhase({"running"})' : v = s \/ v \in InPhase({"running"})
        BY <2>5 DEF InPhase
      <3>3. overlap' = overlap /\ Home[s] = wants[t]
        BY <2>1 DEF Start
      <3> QED
        BY <3>1, <3>2, <3>3 DEF AgentInv, OneAgent
    <2>11. NoGhosts'
      BY <2>2, <2>5 DEF AgentInv, NoGhosts, Start
    <2> QED
      BY <2>7, <2>8, <2>9, <2>10, <2>11 DEF AgentInv
  <1> QED
    BY <1>1, <1>2 DEF Start, Goes

LEMMA InsertAgent ==
  ASSUME HTypeOK, AgentInv, NEW t \in Terminals, Insert(t)
  PROVE  AgentInv'
  <1>1. PICK s \in Consoles : at[t] = {s} /\ Home[s] = wants[t]
    BY DEF Insert, HTypeOK
  <1>2. Started(t, s) /\ pc' = [pc EXCEPT ![t] = "answered"] /\ sessions' = sessions \cup {s}
    BY <1>1 DEF Insert, Started, Goes
  <1>3. \A u \in Terminals, v \in Consoles : Started(u, v)' => Started(u, v) /\ u # t /\ v # s
    BY <1>2 DEF Insert, Started, HTypeOK, AgentInv, Unregistered
  <1>4. \A u \in Terminals, v \in Consoles : Started(u, v) => Started(u, v)' \/ v = s
    BY <1>1, <1>2 DEF Insert, Started, HTypeOK
  <1>5. Unregistered'
    BY <1>2, <1>3 DEF AgentInv, Unregistered, Insert
  <1>6. Known'
    BY <1>2, <1>4 DEF AgentInv, Known, InPhase, Insert
  <1>7. OneOpener'
    BY <1>1, <1>2, <1>4 DEF AgentInv, OneOpener, Opening, InPhase, Insert, HTypeOK, Started
  <1>8. OneAgent'
    BY DEF AgentInv, OneAgent, InPhase, Insert
  <1>9. NoGhosts'
    BY <1>2 DEF AgentInv, NoGhosts, Unregistered, Insert
  <1> QED
    BY <1>5, <1>6, <1>7, <1>8, <1>9 DEF AgentInv

LEMMA DownAgent ==
  ASSUME HTypeOK, AgentInv, Down
  PROVE  AgentInv'
  <1>1. \A s \in Consoles : phase'[s] # "running"
    BY DEF Down
  <1>2. \A t \in Terminals : pc'[t] = "off"
    BY DEF Down, Leave
  <1> QED
    BY <1>1, <1>2 DEF Down, AgentInv, Unregistered, Known, OneOpener, OneAgent, NoGhosts,
                      Started, InPhase

(* A connection that ends leaves the opener of no session. *)
LEMMA LeaveAgent ==
  ASSUME HTypeOK, AgentInv, NEW t \in Terminals, Detach(t) \/ Hear(t)
  PROVE  AgentInv'
  <1>1. pc[t] \in {"answered", "attached"} /\ Leave({t})
    BY DEF Hear, Detach
  <1>2. \A u \in Terminals, s \in Consoles : Started(u, s)' <=> Started(u, s)
    BY <1>1 DEF Leave, Started, HTypeOK
  <1>3. \A u \in Terminals : pc'[u] \in {"starting", "started"} => pc[u] = pc'[u]
    BY <1>1 DEF Leave
  <1> QED
    BY <1>1, <1>2, <1>3, AgentKept DEF Hear, Detach, Leave

LEMMA EndingAgent ==
  ASSUME HTypeOK, AgentInv, NEW s \in Consoles, ProcessEnds(s) \/ Tell(s) \/ Exited(s)
  PROVE  AgentInv'
  <1> USE DEF Started
  <1>1. CASE ProcessEnds(s)
    BY <1>1, AgentKept DEF ProcessEnds, Kill, HTypeOK, daemonVars, terminalVars
  <1>2. CASE Tell(s)
    BY <1>2, AgentKept DEF Tell, HTypeOK, daemonVars
  <1>3. CASE Exited(s)
    BY <1>3, AgentKept DEF Exited, HTypeOK, daemonVars, terminalVars
  <1> QED
    BY <1>1, <1>2, <1>3

LEMMA StepAgent == HTypeOK /\ AgentInv /\ [HNext]_hvars => AgentInv'
  <1> SUFFICES ASSUME HTypeOK, AgentInv, [HNext]_hvars
               PROVE  AgentInv'
    OBVIOUS
  <1>1. ASSUME UNCHANGED <<sessions, phase, pc, wants, at, hasty, overlap>>
        PROVE  AgentInv'
    BY <1>1, AgentKept DEF Started
  <1>2. ASSUME NEW t \in Terminals, NEW w \in Worktrees, NEW step \in Steps, Ask(t, w, step)
        PROVE  AgentInv'
    <2>1. \A u \in Terminals, s \in Consoles : Started(u, s)' <=> Started(u, s)
      BY <1>2 DEF Ask, Goes, Started, HTypeOK
    <2>2. \A u \in Terminals : pc'[u] \in {"starting", "started"} => pc[u] = pc'[u] /\ wants'[u] = wants[u]
      BY <1>2 DEF Ask, Goes, HTypeOK
    <2> QED
      BY <1>2, <2>1, <2>2, AgentKept DEF Ask
  <1>3. ASSUME NEW t \in Terminals, Subscribe(t)
        PROVE  AgentInv'
    <2>1. \A u \in Terminals, s \in Consoles : Started(u, s)' <=> Started(u, s)
      BY <1>3 DEF Subscribe, Goes, Started, HTypeOK
    <2>2. \A u \in Terminals : pc'[u] \in {"starting", "started"} => pc[u] = pc'[u]
      BY <1>3 DEF Subscribe, Goes, HTypeOK
    <2> QED
      BY <1>3, <2>1, <2>2, AgentKept DEF Subscribe
  <1>4. ASSUME NEW w \in Worktrees, Stop(w)
        PROVE  AgentInv'
    BY <1>4, AgentKept DEF Stop, Kill, HTypeOK, daemonVars, terminalVars, Started
  <1>5. ASSUME NEW r \in Runs, Connection(r)
        PROVE  AgentInv'
    <2>1. r \notin Consoles
      BY HostAssumption
    <2> QED
      BY <1>5, <2>1, AgentKept
      DEF Connection, Register, Gone, HTypeOK, daemonVars, terminalVars, Started
  <1> QED
    BY <1>1, <1>2, <1>3, <1>4, <1>5, FindAgent, StartAgent, InsertAgent, LeaveAgent,
       EndingAgent, DownAgent
    DEF HNext, Handler, Ending, hvars, daemonVars, terminalVars, Rescan, RunStarts, RunEnds,
        Shutdown, Up

THEOREM AgentInvariant == HSpec => []AgentInv
  BY InitAgent, StepAgent, TypeCorrect, PTL DEF HSpec

(* Two hosted agents run in one worktree only if two spawns overlapped there,
   for any number of terminals that spawn, attach and leave. *)
THEOREM OneAgentEach == HSpec => []OneAgent
  <1>1. AgentInv => OneAgent
    BY DEF AgentInv
  <1> QED
    BY <1>1, AgentInvariant, PTL

(* A session whose end has been handled is known to the daemon only if it
   ended before it was registered. *)
THEOREM EndedForgotten == HSpec => []NoGhosts
  <1>1. AgentInv => NoGhosts
    BY DEF AgentInv
  <1> QED
    BY <1>1, AgentInvariant, PTL

(* All of it together: what the daemon knows of its sessions is what there is,
   for any number of terminals, worktrees and sessions (mod.rs, host.rs:79). *)
THEOREM SessionsAsTheyAre == HSpec => []SessionsTrue
  BY TypeCorrect, LivenessShown, OneAgentEach, EndedForgotten, PTL DEF SessionsTrue

-----------------------------------------------------------------------------
(* What a task has still to do: each size it records it applies at once, and
   what it writes it writes last. *)
Calls == {Write} \cup {Record(s) : s \in Sizes} \cup {Apply(s) : s \in Sizes}
Frames == {Typed} \cup {NewSize(s) : s \in Sizes}

PlanOK(q) ==
  /\ q \in Seq(Calls)
  /\ \A i \in 1..Len(q) : /\ q[i] = Write => i = Len(q)
                          /\ q[i].call = "record" => /\ i + 1 \in 1..Len(q)
                                                     /\ q[i + 1] = Apply(q[i].size)
                          /\ q[i].call = "apply" /\ i < Len(q) => q[i + 1].call # "apply"

LEMMA Elements ==
  ASSUME NEW S, NEW q \in Seq(S), NEW i \in DOMAIN q
  PROVE  q[i] \in S
  OBVIOUS

LEMMA PlanEmpty == PlanOK(<<>>)
  BY DEF PlanOK

LEMMA PlanResize ==
  ASSUME NEW s \in Sizes
  PROVE  PlanOK(Resize(s)) /\ Len(Resize(s)) = 2 /\ Resize(s)[1] = Record(s) /\ Resize(s)[2] = Apply(s)
  BY DEF PlanOK, Resize, Calls, Record, Apply, Write

LEMMA AppendCall ==
  ASSUME NEW q \in Seq(Calls), NEW c \in Calls
  PROVE  /\ Append(q, c) \in Seq(Calls) /\ Len(Append(q, c)) = Len(q) + 1
         /\ \A i \in 1..Len(q) : Append(q, c)[i] = q[i]
         /\ Append(q, c)[Len(q) + 1] = c
  BY AppendProperties

LEMMA PlanClaim ==
  ASSUME NEW s \in Sizes
  PROVE  LET q == Append(Resize(s), Write) IN
         PlanOK(q) /\ Len(q) = 3 /\ q[1] = Record(s) /\ q[2] = Apply(s) /\ q[3] = Write
  <1> DEFINE q == Append(Resize(s), Write)
  <1>1. Resize(s) \in Seq(Calls) /\ Write \in Calls /\ Len(Resize(s)) = 2
    BY DEF Resize, Calls
  <1>a. /\ q \in Seq(Calls) /\ Len(q) = Len(Resize(s)) + 1
        /\ \A i \in 1..Len(Resize(s)) : q[i] = Resize(s)[i]
        /\ q[Len(Resize(s)) + 1] = Write
    BY <1>1, AppendCall
  <1> HIDE DEF q
  <1>2. /\ q \in Seq(Calls) /\ Len(q) = 3 /\ q[3] = Write
        /\ q[1] = Record(s) /\ q[2] = Apply(s)
    BY <1>a, <1>1, PlanResize
  <1> HIDE DEF q
  <1>3. PlanOK(q)
    BY <1>2 DEF PlanOK, Calls, Record, Apply, Write
  <1> QED
    BY <1>2, <1>3 DEF q

LEMMA PlanWrite == PlanOK(Append(<<>>, Write)) /\ Append(<<>>, Write) = <<Write>>
  BY DEF PlanOK, Calls, Record, Apply, Write

LEMMA PlanRepaint ==
  ASSUME NEW s \in Sizes
  PROVE  LET q == Repaint(s) IN
         PlanOK(q) /\ Len(q) = 4 /\ q[1].call = "record" /\ q[4] = Apply(s)
  <1>1. Short[s] \in Sizes
    BY SizesAssumption
  <1> DEFINE a == Resize(Short[s])
             b == Resize(s)
             q == Repaint(s)
  <1>2. /\ a \in Seq(Calls) /\ Len(a) = 2 /\ a[1] = Record(Short[s]) /\ a[2] = Apply(Short[s])
        /\ b \in Seq(Calls) /\ Len(b) = 2 /\ b[1] = Record(s) /\ b[2] = Apply(s)
    BY <1>1, PlanResize DEF PlanOK
  <1> HIDE DEF a, b
  <1>3. /\ a \o b \in Seq(Calls) /\ Len(a \o b) = Len(a) + Len(b)
        /\ \A i \in 1..Len(a) + Len(b) : (a \o b)[i] = IF i <= Len(a) THEN a[i] ELSE b[i - Len(a)]
    BY <1>2, ConcatProperties
  <1>4. q = a \o b
    BY DEF Repaint, a, b
  <1> HIDE DEF q
  <1>5. /\ q \in Seq(Calls) /\ Len(q) = 4 /\ q[1] = Record(Short[s]) /\ q[2] = Apply(Short[s])
        /\ q[3] = Record(s) /\ q[4] = Apply(s)
    BY <1>2, <1>3, <1>4
  <1>6. \A i \in 1..Len(q) : i = 1 \/ i = 2 \/ i = 3 \/ i = 4
    BY <1>5
  <1>7. PlanOK(q)
    BY <1>5, <1>6 DEF PlanOK, Record, Apply, Write
  <1> QED
    BY <1>5, <1>7 DEF q, Record

-----------------------------------------------------------------------------
(***************************************************************************)
(* The invariant of one console.  While no two resizes crossed, at most    *)
(* one task is resizing, what it is about to apply is what was recorded,   *)
(* and otherwise the console has the size that was recorded.  Input that   *)
(* waits behind a claim finds the size of its terminal applied just        *)
(* before, unless another task touched the console meanwhile.              *)
(***************************************************************************)
Resizing(k) == \E i \in 1..Len(todo[k]) : todo[k][i] # Write

Applying(k) == Len(todo[k]) > 0 /\ todo[k][1].call = "apply"

Budgets == [window : 0..MaxWindow, typed : 0..MaxTyped, lags : 0..MaxLags, attach : 0..MaxAttach]

ConsoleTypes ==
  /\ window \in [Viewers -> Sizes] /\ client \in [Viewers -> {"off", "asking", "on"}]
  /\ sent \in [Viewers -> {NoSize} \cup Sizes] /\ told \in [Viewers -> {NoSize} \cup Sizes]
  /\ wire \in [Viewers -> Seq(Frames)] /\ todo \in [Tasks -> Seq(Calls)]
  /\ {recorded, console} \subseteq {NoSize} \cup Sizes
  /\ owner \in Viewers \cup {NoOwner} /\ crossed \in BOOLEAN /\ alone \in [Viewers -> BOOLEAN]
  /\ budget \in Budgets

(* Who is attached has said its size, and before anyone is there is no console. *)
Joined ==
  /\ \A t \in Viewers :
       /\ sent[t] = NoSize <=> client[t] = "off"
       /\ told[t] = NoSize <=> client[t] # "on"
       /\ client[t] # "on" => wire[t] = <<>> /\ todo[<<t, "read">>] = <<>>
  /\ recorded = NoSize <=> console = NoSize
  /\ console = NoSize => /\ \A t \in Viewers : client[t] # "on"
                         /\ \A k \in Tasks : todo[k] = <<>>

Uncrossed ==
  ~crossed => /\ \A j, k \in Tasks : Resizing(j) /\ Resizing(k) => j = k
              /\ \A k \in Tasks : Applying(k) => recorded = todo[k][1].size
              /\ (\A k \in Tasks : ~Resizing(k)) => recorded = console

InputFound(t) ==
  LET q == todo[<<t, "read">>] IN
  Len(q) > 0 /\ q[Len(q)] = Write =>
    /\ Len(q) > 1 => q[Len(q) - 1] = Apply(told[t])
    /\ Len(q) = 1 /\ alone[t] /\ ~crossed => console = told[t]

ConsoleInv ==
  /\ ConsoleTypes /\ Joined /\ Uncrossed
  /\ \A k \in Tasks : PlanOK(todo[k])
  /\ \A t \in Viewers : InputFound(t)

LEMMA CallFacts ==
  /\ Write \in Calls /\ Write.call = "write"
  /\ \A s : Record(s).call = "record" /\ Record(s).size = s /\ Record(s) # Write
  /\ \A s : Apply(s).call = "apply" /\ Apply(s).size = s /\ Apply(s) # Write
  /\ \A c \in Calls : \/ c = Write
                     \/ (c.call = "record" /\ c.size \in Sizes /\ c = Record(c.size))
                     \/ (c.call = "apply" /\ c.size \in Sizes /\ c = Apply(c.size))
  <1>1. \A s : Record(s).call = "record" /\ Record(s).size = s /\ Record(s) # Write
    BY DEF Record, Write
  <1>2. \A s : Apply(s).call = "apply" /\ Apply(s).size = s /\ Apply(s) # Write
    BY DEF Apply, Write
  <1>3. Write \in Calls /\ Write.call = "write"
    BY DEF Calls, Write
  <1>4. \A c \in Calls : c = Write \/ (\E s \in Sizes : c = Record(s) \/ c = Apply(s))
    BY DEF Calls
  <1> QED
    BY <1>1, <1>2, <1>3, <1>4

LEMMA PlanTail ==
  ASSUME NEW q, PlanOK(q), q # <<>>
  PROVE  /\ PlanOK(Tail(q)) /\ Len(q) \in Nat \ {0} /\ Len(Tail(q)) = Len(q) - 1
         /\ \A i \in 1..Len(Tail(q)) : Tail(q)[i] = q[i + 1]
         /\ Head(q) = q[1] /\ q[1] \in Calls
  <1>1. q \in Seq(Calls)
    BY DEF PlanOK
  <1>2. /\ Tail(q) \in Seq(Calls) /\ Len(q) \in Nat \ {0} /\ Len(Tail(q)) = Len(q) - 1
        /\ \A i \in 1..Len(Tail(q)) : Tail(q)[i] = q[i + 1]
        /\ Head(q) = q[1] /\ q[1] \in Calls
    BY <1>1
  <1>3. ASSUME NEW i \in 1..Len(Tail(q))
        PROVE  /\ i + 1 \in 1..Len(q) /\ Tail(q)[i] = q[i + 1]
               /\ i + 1 \in 1..Len(Tail(q)) => Tail(q)[i + 1] = q[i + 1 + 1]
    BY <1>2
  <1>4. PlanOK(Tail(q))
    <2> SUFFICES ASSUME NEW i \in 1..Len(Tail(q))
                 PROVE  /\ Tail(q)[i] = Write => i = Len(Tail(q))
                        /\ Tail(q)[i].call = "record" =>
                             /\ i + 1 \in 1..Len(Tail(q))
                             /\ Tail(q)[i + 1] = Apply(Tail(q)[i].size)
                        /\ Tail(q)[i].call = "apply" /\ i < Len(Tail(q)) => Tail(q)[i + 1].call # "apply"
      BY <1>2 DEF PlanOK
    <2>1. /\ q[i + 1] = Write => i + 1 = Len(q)
          /\ q[i + 1].call = "record" => i + 1 + 1 \in 1..Len(q) /\ q[i + 1 + 1] = Apply(q[i + 1].size)
          /\ q[i + 1].call = "apply" /\ i + 1 < Len(q) => q[i + 1 + 1].call # "apply"
      BY <1>3 DEF PlanOK
    <2>2. i + 1 \in 1..Len(Tail(q)) <=> i + 1 + 1 \in 1..Len(q)
      BY <1>2
    <2>3. i < Len(Tail(q)) <=> i + 1 < Len(q)
      BY <1>2
    <2>4. i < Len(Tail(q)) => i + 1 \in 1..Len(Tail(q))
      BY <1>2
    <2>5. Tail(q)[i] = Write => i = Len(Tail(q))
      <3>1. i + 1 = Len(q) => i = Len(Tail(q))
        <4> DEFINE n == Len(q)
                   m == Len(Tail(q))
        <4>1. n \in Nat /\ m = n - 1 /\ i \in 1..m
          BY <1>2
        <4> HIDE DEF n, m
        <4>2. i + 1 = n => i = m
          BY <4>1
        <4> QED
          BY <4>2 DEF n, m
      <3>2. Tail(q)[i] = q[i + 1]
        BY <1>3
      <3> QED
        BY <2>1, <3>1, <3>2
    <2>6. Tail(q)[i].call = "record" => /\ i + 1 \in 1..Len(Tail(q))
                                       /\ Tail(q)[i + 1] = Apply(Tail(q)[i].size)
      BY <1>3, <2>1, <2>2
    <2>7. Tail(q)[i].call = "apply" /\ i < Len(Tail(q)) => Tail(q)[i + 1].call # "apply"
      BY <1>3, <2>1, <2>3, <2>4
    <2> QED
      BY <2>5, <2>6, <2>7
  <1> QED
    BY <1>2, <1>4

LEMMA BudgetSpent ==
  ASSUME budget \in Budgets
  PROVE  /\ budget.window > 0 => [budget EXCEPT !.window = @ - 1] \in Budgets
         /\ budget.typed > 0 => [budget EXCEPT !.typed = @ - 1] \in Budgets
         /\ budget.lags > 0 => [budget EXCEPT !.lags = @ - 1] \in Budgets
         /\ budget.attach > 0 => [budget EXCEPT !.attach = @ - 1] \in Budgets
  <1>1. MaxWindow \in Nat /\ MaxTyped \in Nat /\ MaxLags \in Nat /\ MaxAttach \in Nat
    BY BoundsAssumption
  <1> QED
    BY <1>1 DEF Budgets

LEMMA InitConsole == CInit => ConsoleInv
  <1> SUFFICES ASSUME CInit
               PROVE  ConsoleInv
    OBVIOUS
  <1>1. ConsoleTypes
    <2>1. budget \in Budgets
      BY BoundsAssumption DEF CInit, Budgets
    <2>2. <<>> \in Seq(Frames) /\ <<>> \in Seq(Calls)
      OBVIOUS
    <2>3. wire \in [Viewers -> Seq(Frames)] /\ todo \in [Tasks -> Seq(Calls)]
      BY <2>2 DEF CInit
    <2> QED
      BY <2>1, <2>3 DEF CInit, ConsoleTypes
  <1>2. \A k \in Tasks : todo[k] = <<>> /\ Len(todo[k]) = 0
    BY DEF CInit
  <1>3. \A t \in Viewers : <<t, "read">> \in Tasks
    BY DEF Tasks
  <1>4. Joined
    BY <1>2, <1>3 DEF CInit, Joined
  <1>5. Uncrossed
    BY <1>2 DEF CInit, Uncrossed, Resizing, Applying
  <1>6. \A t \in Viewers : InputFound(t)
    BY <1>2, <1>3 DEF InputFound
  <1> QED
    BY <1>1, <1>2, <1>4, <1>5, <1>6, PlanEmpty DEF ConsoleInv

(* What a step that leaves the tasks and the console alone preserves. *)
LEMMA TerminalOnly ==
  ASSUME ConsoleInv, ConsoleTypes', Joined',
         UNCHANGED <<told, todo, recorded, console, crossed, alone>>
  PROVE  ConsoleInv'
  <1>1. Uncrossed'
    BY DEF ConsoleInv, Uncrossed, Resizing, Applying
  <1>2. \A t \in Viewers : InputFound(t)'
    BY DEF ConsoleInv, InputFound
  <1>3. \A k \in Tasks : PlanOK(todo[k])'
    BY DEF ConsoleInv
  <1> QED
    BY <1>1, <1>2, <1>3 DEF ConsoleInv

LEMMA TerminalConsole ==
  ASSUME ConsoleInv, NEW t \in Viewers,
         ChangeWindow(t) \/ AskResize(t) \/ Notice(t) \/ Type(t)
  PROVE  ConsoleInv'
  <1> USE DEF ConsoleInv
  <1>1. CASE ChangeWindow(t)
    <2>1. ConsoleTypes'
      <3>1. budget' \in Budgets
        BY <1>1, BudgetSpent DEF ChangeWindow, ConsoleTypes
      <3>2. window' \in [Viewers -> Sizes]
        BY <1>1 DEF ChangeWindow, ConsoleTypes
      <3> QED
        BY <1>1, <3>1, <3>2 DEF ChangeWindow, ConsoleTypes
    <2>2. Joined'
      BY <1>1 DEF ChangeWindow, Joined
    <2> QED
      BY <1>1, <2>1, <2>2, TerminalOnly DEF ChangeWindow
  <1>2. CASE AskResize(t)
    <2>1. ConsoleTypes'
      BY <1>2, BudgetSpent DEF AskResize, ConsoleTypes
    <2>2. Joined'
      BY <1>2, SizesAssumption DEF AskResize, Joined, ConsoleTypes
    <2> QED
      BY <1>2, <2>1, <2>2, TerminalOnly DEF AskResize
  <1>3. CASE Notice(t)
    <2>1. NewSize(window[t]) \in Frames /\ wire[t] \in Seq(Frames)
      BY DEF ConsoleTypes, Frames
    <2>2. ConsoleTypes'
      BY <1>3, <2>1 DEF Notice, ConsoleTypes
    <2>3. Joined'
      BY <1>3, SizesAssumption DEF Notice, Joined, ConsoleTypes
    <2> QED
      BY <1>3, <2>2, <2>3, TerminalOnly DEF Notice
  <1>4. CASE Type(t)
    <2>1. Typed \in Frames /\ wire[t] \in Seq(Frames)
      BY DEF ConsoleTypes, Frames
    <2>2. ConsoleTypes'
      BY <1>4, <2>1, BudgetSpent DEF Type, ConsoleTypes
    <2>3. Joined'
      BY <1>4 DEF Type, Joined, ConsoleTypes
    <2> QED
      BY <1>4, <2>2, <2>3, TerminalOnly DEF Type
  <1> QED
    BY <1>1, <1>2, <1>3, <1>4

(* Taking on a plan: one that resizes, or only to write what was typed. *)
LEMMA TakesPlan ==
  ASSUME ConsoleInv, NEW k \in Tasks, todo[k] = <<>>, NEW q, Takes(k, q), PlanOK(q),
         \/ q = <<Write>>
         \/ (q # <<Write>> /\ Len(q) > 0 /\ q[1].call = "record"),
         UNCHANGED <<recorded, console>>
  PROVE  /\ Uncrossed'
         /\ \A j \in Tasks : PlanOK(todo[j])'
         /\ \A t \in Viewers : told'[t] = told[t] /\ <<t, "read">> # k => InputFound(t)'
  <1>1. /\ todo \in [Tasks -> Seq(Calls)] /\ \A j \in Tasks : todo'[j] = IF j = k THEN q ELSE todo[j]
    BY DEF ConsoleInv, ConsoleTypes, Takes
  <1>2. ~crossed' => /\ \A j \in Tasks \ {k} : ~Resizing(j) /\ ~Resizing(j)'
                     /\ q = <<Write>> => ~crossed
    <2>1. ~crossed' => ~Busy(k)
      BY DEF Takes
    <2>2. ~crossed' /\ q = <<Write>> => ~crossed
      BY DEF Takes
    <2>3. ~Busy(k) => \A j \in Tasks \ {k} : ~Resizing(j) /\ ~Resizing(j)'
      BY <1>1 DEF Busy, Resizing
    <2> QED
      BY <2>1, <2>2, <2>3
  <1>3. ~Resizing(k)
    BY DEF Resizing
  <1>4. \A j \in Tasks : Applying(j)' => Resizing(j)'
    BY <1>1, CallFacts DEF Applying, Resizing, PlanOK, Write
  <1>5. Uncrossed'
    <2>1. CASE q = <<Write>>
      <3>1. ~Resizing(k)'
        BY <1>1, <2>1 DEF Resizing
      <3>2. ~crossed' => \A j \in Tasks : ~Resizing(j) /\ ~Resizing(j)'
        BY <1>2, <1>3, <3>1
      <3>3. ~crossed' => recorded' = console'
        BY <1>2, <3>2, <2>1 DEF ConsoleInv, Uncrossed
      <3> QED
        BY <1>4, <3>2, <3>3 DEF Uncrossed
    <2>2. CASE q # <<Write>>
      <3>1. Resizing(k)'
        BY <1>1, <2>2, CallFacts DEF Resizing, PlanOK
      <3>2. ~Applying(k)'
        BY <1>1, <2>2 DEF Applying
      <3> QED
        BY <1>2, <1>4, <3>1, <3>2 DEF Uncrossed
    <2> QED
      BY <2>1, <2>2
  <1>6. \A j \in Tasks : PlanOK(todo[j])'
    BY <1>1 DEF ConsoleInv
  <1>7. ASSUME NEW t \in Viewers, told'[t] = told[t], <<t, "read">> # k
        PROVE  InputFound(t)'
    <2>1. <<t, "read">> \in Tasks /\ todo'[<<t, "read">>] = todo[<<t, "read">>]
      BY <1>1, <1>7 DEF Tasks
    <2>2. alone'[t] /\ ~crossed' => alone[t] /\ ~crossed
      BY <1>2, <1>7 DEF Takes
    <2> QED
      BY <1>7, <2>1, <2>2 DEF ConsoleInv, InputFound
  <1> QED
    BY <1>5, <1>6, <1>7

LEMMA AttachConsole ==
  ASSUME ConsoleInv, NEW t \in Viewers, AttachTerminal(t)
  PROVE  ConsoleInv'
  <1> DEFINE k == <<t, "read">>
  <1>1. k \in Tasks /\ k[2] = "read" /\ sent[t] \in Sizes /\ todo[k] = <<>>
    BY DEF AttachTerminal, ConsoleInv, ConsoleTypes, Joined, Tasks
  <1>2. CASE console = NoSize
    <2>1. \A j \in Tasks : todo'[j] = <<>>
      BY <1>2 DEF AttachTerminal, ConsoleInv, Joined
    <2>2. ConsoleTypes'
      BY <1>1, <1>2 DEF AttachTerminal, ConsoleInv, ConsoleTypes
    <2>3. Joined'
      BY <1>1, <1>2, SizesAssumption DEF AttachTerminal, ConsoleInv, ConsoleTypes, Joined
    <2>4. Uncrossed'
      BY <1>2, <2>1 DEF AttachTerminal, Uncrossed, Resizing, Applying
    <2>5. \A v \in Viewers : InputFound(v)'
      BY <2>1 DEF InputFound, Tasks
    <2>6. \A j \in Tasks : PlanOK(todo[j])'
      BY <2>1, PlanEmpty
    <2> QED
      BY <2>2, <2>3, <2>4, <2>5, <2>6 DEF ConsoleInv
  <1>3. CASE console # NoSize
    <2> DEFINE q == Repaint(sent[t])
    <2>1. PlanOK(q) /\ Len(q) = 4 /\ q[1].call = "record" /\ q[4] = Apply(sent[t])
      BY <1>1, PlanRepaint
    <2>2. q # <<Write>> /\ q \in Seq(Calls)
      BY <2>1 DEF PlanOK
    <2>3. Takes(k, q) /\ UNCHANGED <<recorded, console, window, sent, wire, budget>>
      BY <1>3 DEF AttachTerminal
    <2> HIDE DEF q, k
    <2>4. /\ Uncrossed' /\ \A j \in Tasks : PlanOK(todo[j])'
          /\ \A v \in Viewers : told'[v] = told[v] /\ <<v, "read">> # k => InputFound(v)'
      BY <1>1, <2>1, <2>2, <2>3, TakesPlan
    <2>5. /\ client' = [client EXCEPT ![t] = "on"] /\ told' = [told EXCEPT ![t] = sent[t]]
          /\ owner' = t /\ client[t] = "asking"
      BY DEF AttachTerminal
    <2>6. ConsoleTypes'
      BY <1>1, <2>2, <2>3, <2>5 DEF Takes, ConsoleInv, ConsoleTypes
    <2>7. \A j \in Tasks : todo'[j] = IF j = k THEN q ELSE todo[j]
      BY <2>3 DEF Takes, ConsoleInv, ConsoleTypes
    <2>8. Joined'
      BY <1>1, <1>3, <2>3, <2>5, <2>7, SizesAssumption DEF ConsoleInv, ConsoleTypes, Joined, k, Tasks
    <2>9. InputFound(t)'
      <3>1. todo'[<<t, "read">>] = q
        BY <1>1, <2>7 DEF k
      <3>2. q[Len(q)] # Write
        BY <2>1, CallFacts
      <3> QED
        BY <3>1, <3>2 DEF InputFound
    <2>10. ASSUME NEW v \in Viewers
           PROVE  InputFound(v)'
      BY <2>4, <2>5, <2>9 DEF ConsoleInv, ConsoleTypes, k
    <2> QED
      BY <2>4, <2>6, <2>8, <2>10 DEF ConsoleInv
  <1> QED
    BY <1>2, <1>3

LEMMA LagConsole ==
  ASSUME ConsoleInv, NEW t \in Viewers, Lag(t)
  PROVE  ConsoleInv'
  <1> DEFINE k == <<t, "pump">>
             q == Repaint(recorded)
  <1>1. k \in Tasks /\ recorded \in Sizes /\ todo[k] = <<>> /\ console # NoSize
    BY DEF Lag, ConsoleInv, ConsoleTypes, Joined, Tasks
  <1>2. PlanOK(q) /\ Len(q) = 4 /\ q[1].call = "record"
    BY <1>1, PlanRepaint
  <1>3. q # <<Write>> /\ q \in Seq(Calls)
    BY <1>2 DEF PlanOK
  <1>4. Takes(k, q) /\ UNCHANGED <<window, client, sent, wire, told, recorded, console, owner>>
    BY DEF Lag
  <1>5. \A v \in Viewers : <<v, "read">> # k
    OBVIOUS
  <1> HIDE DEF k, q
  <1>6. /\ Uncrossed' /\ \A j \in Tasks : PlanOK(todo[j])'
        /\ \A v \in Viewers : InputFound(v)'
    BY <1>1, <1>2, <1>3, <1>4, <1>5, TakesPlan
  <1>7. ConsoleTypes'
    BY <1>1, <1>3, <1>4, BudgetSpent DEF Lag, Takes, ConsoleInv, ConsoleTypes
  <1>8. \A j \in Tasks : todo'[j] = IF j = k THEN q ELSE todo[j]
    BY <1>4 DEF Takes, ConsoleInv, ConsoleTypes
  <1>9. Joined'
    BY <1>1, <1>4, <1>5, <1>8 DEF ConsoleInv, ConsoleTypes, Joined, Tasks
  <1> QED
    BY <1>6, <1>7, <1>9 DEF ConsoleInv

LEMMA ReadConsole ==
  ASSUME ConsoleInv, NEW t \in Viewers, Read(t)
  PROVE  ConsoleInv'
  <1> DEFINE k == <<t, "read">>
             f == Head(wire[t])
  <1>1. /\ k \in Tasks /\ k[2] = "read" /\ todo[k] = <<>> /\ console # NoSize
        /\ told[t] \in Sizes /\ recorded \in Sizes
    BY DEF Read, ConsoleInv, ConsoleTypes, Joined, Tasks
  <1>2. wire[t] \in Seq(Frames) /\ wire[t] # <<>>
    BY DEF Read, ConsoleInv, ConsoleTypes
  <1>3. f \in Frames /\ Tail(wire[t]) \in Seq(Frames)
    BY <1>2
  <1>4. wire' \in [Viewers -> Seq(Frames)] /\ wire' = [wire EXCEPT ![t] = Tail(wire[t])]
    BY <1>3 DEF Read, ConsoleInv, ConsoleTypes
  <1> HIDE DEF k, f
  <1>5. ASSUME NEW q, Takes(k, q), PlanOK(q),
               \/ q = <<Write>>
               \/ (q # <<Write>> /\ Len(q) > 0 /\ q[1].call = "record"),
               told' \in [Viewers -> {NoSize} \cup Sizes],
               told'[t] \in Sizes, \A v \in Viewers \ {t} : told'[v] = told[v],
               q[Len(q)] = Write =>
                 /\ Len(q) > 1 => q[Len(q) - 1] = Apply(told'[t])
                 /\ Len(q) = 1 => recorded = told'[t]
        PROVE  ConsoleInv'
    <2>1. UNCHANGED <<window, client, sent, recorded, console, budget>> /\ owner' = t /\ client[t] = "on"
      BY DEF Read
    <2>2. /\ Uncrossed' /\ \A j \in Tasks : PlanOK(todo[j])'
          /\ \A v \in Viewers : told'[v] = told[v] /\ <<v, "read">> # k => InputFound(v)'
      BY <1>1, <1>5, <2>1, TakesPlan
    <2>3. q \in Seq(Calls)
      BY <1>5 DEF PlanOK
    <2>4. ConsoleTypes'
      BY <1>1, <1>4, <1>5, <2>1, <2>3 DEF Takes, ConsoleInv, ConsoleTypes
    <2>5. \A j \in Tasks : todo'[j] = IF j = k THEN q ELSE todo[j]
      BY <1>5 DEF Takes, ConsoleInv, ConsoleTypes
    <2>6. Joined'
      BY <1>1, <1>4, <1>5, <2>1, <2>5, SizesAssumption DEF ConsoleInv, ConsoleTypes, Joined, k, Tasks
    <2>7. todo'[<<t, "read">>] = q /\ Len(q) \in Nat
      BY <1>1, <2>3, <2>5 DEF k
    <2>8. ASSUME q[Len(q)] = Write, Len(q) = 1, alone'[t], ~crossed'
          PROVE  console' = told'[t]
      <3>1. q[1] = Write
        BY <2>8
      <3>2. q = <<Write>>
        BY <1>5, <3>1, CallFacts
      <3>3. ~Busy(k) /\ ~crossed
        BY <1>5, <2>8, <3>2 DEF Takes
      <3>4. \A j \in Tasks : ~Resizing(j)
        BY <1>1, <3>3 DEF Busy, Resizing
      <3>5. recorded = console
        BY <3>3, <3>4 DEF ConsoleInv, Uncrossed
      <3> QED
        BY <1>5, <2>1, <2>8, <3>5
    <2>9. InputFound(t)'
      BY <1>5, <2>7, <2>8 DEF InputFound
    <2>10. \A v \in Viewers : InputFound(v)'
      BY <1>5, <2>2, <2>9 DEF k
    <2> QED
      BY <2>2, <2>4, <2>6, <2>10 DEF ConsoleInv
  <1>6. CASE f.frame = "data"
    <2>1. Takes(k, Append(Claim(t), Write)) /\ UNCHANGED told
      BY <1>6 DEF Read, k, f
    <2>4. /\ told' \in [Viewers -> {NoSize} \cup Sizes] /\ told'[t] \in Sizes
          /\ \A v \in Viewers \ {t} : told'[v] = told[v]
      BY <1>1, <2>1 DEF ConsoleInv, ConsoleTypes
    <2>2. CASE recorded = told[t]
      <3> DEFINE q == <<Write>>
      <3>1. Takes(k, q) /\ PlanOK(q) /\ Len(q) = 1 /\ q = <<Write>>
        BY <2>1, <2>2, PlanWrite DEF Claim
      <3> HIDE DEF q
      <3>2. recorded = told'[t] /\ ~(Len(q) > 1)
        BY <2>1, <2>2, <3>1
      <3> QED
        BY <1>5, <2>4, <3>1, <3>2
    <2>3. CASE recorded # told[t]
      <3> DEFINE q == Append(Resize(told[t]), Write)
      <3>1. PlanOK(q) /\ Len(q) = 3 /\ q[1] = Record(told[t]) /\ q[2] = Apply(told[t]) /\ q[3] = Write
        BY <1>1, PlanClaim
      <3>2. Takes(k, q)
        BY <2>1, <2>3 DEF Claim
      <3> HIDE DEF q
      <3>3. /\ q # <<Write>> /\ Len(q) > 0 /\ q[1].call = "record"
            /\ Len(q) # 1 /\ q[Len(q) - 1] = Apply(told'[t])
        BY <2>1, <3>1, CallFacts
      <3> QED
        BY <1>5, <2>4, <3>1, <3>2, <3>3
    <2> QED
      BY <2>2, <2>3
  <1>7. CASE f.frame # "data"
    <2>1. Takes(k, Resize(f.size)) /\ told' = [told EXCEPT ![t] = f.size]
      BY <1>7 DEF Read, k, f
    <2>2. f.size \in Sizes
      BY <1>3, <1>7 DEF Frames, Typed, NewSize
    <2> DEFINE q == Resize(f.size)
    <2>3. PlanOK(q) /\ Len(q) = 2 /\ q[1] = Record(f.size) /\ q[2] = Apply(f.size)
      BY <2>2, PlanResize
    <2>4. Takes(k, q)
      BY <2>1
    <2> HIDE DEF q
    <2>5. q # <<Write>> /\ q[1].call = "record" /\ q[Len(q)] # Write
      BY <2>3, CallFacts
    <2>6. /\ told' \in [Viewers -> {NoSize} \cup Sizes] /\ told'[t] \in Sizes
          /\ \A v \in Viewers \ {t} : told'[v] = told[v]
      BY <2>1, <2>2 DEF ConsoleInv, ConsoleTypes
    <2> QED
      BY <1>5, <2>3, <2>4, <2>5, <2>6
  <1> QED
    BY <1>6, <1>7

LEMMA HangUpConsole ==
  ASSUME ConsoleInv, NEW t \in Viewers, HangUp(t)
  PROVE  ConsoleInv'
  <1>1. ConsoleTypes'
    BY DEF HangUp, ConsoleInv, ConsoleTypes
  <1>2. Joined'
    BY SizesAssumption DEF HangUp, ConsoleInv, ConsoleTypes, Joined
  <1>3. Uncrossed'
    BY DEF HangUp, ConsoleInv, Uncrossed, Resizing, Applying
  <1>4. \A k \in Tasks : PlanOK(todo[k])'
    BY DEF HangUp, ConsoleInv
  <1>5. ASSUME NEW v \in Viewers
        PROVE  InputFound(v)'
    <2>1. CASE v = t
      <3>1. todo'[<<v, "read">>] = <<>>
        BY <2>1 DEF HangUp
      <3> QED
        BY <3>1 DEF InputFound
    <2>2. CASE v # t
      <3>1. told'[v] = told[v] /\ alone'[v] = alone[v] /\ UNCHANGED <<todo, console, crossed>>
        BY <2>2 DEF HangUp, ConsoleInv, ConsoleTypes
      <3> QED
        BY <3>1 DEF InputFound, ConsoleInv
    <2> QED
      BY <2>1, <2>2
  <1> QED
    BY <1>1, <1>2, <1>3, <1>4, <1>5 DEF ConsoleInv

(* One call of a task. *)
LEMMA CallConsole ==
  ASSUME ConsoleInv, NEW k \in Tasks, Call(k)
  PROVE  ConsoleInv'
  <1> DEFINE q == todo[k]
             c == Head(todo[k])
  <1>1. /\ q # <<>> /\ PlanOK(q) /\ PlanOK(Tail(q)) /\ Len(q) \in Nat \ {0} /\ Len(Tail(q)) = Len(q) - 1
        /\ \A i \in 1..Len(Tail(q)) : Tail(q)[i] = q[i + 1]
        /\ c = q[1] /\ c \in Calls
    BY PlanTail DEF Call, ConsoleInv
  <1>2. \A j \in Tasks : todo'[j] = IF j = k THEN Tail(q) ELSE todo[j]
    BY DEF Call, ConsoleInv, ConsoleTypes
  <1>3. /\ recorded' = (IF c.call = "record" THEN c.size ELSE recorded)
        /\ console' = (IF c.call = "apply" THEN c.size ELSE console)
        /\ alone' = [t \in Viewers |-> alone[t] /\ (c = Write \/ k = <<t, "read">>)]
        /\ UNCHANGED <<window, client, sent, wire, told, owner, crossed, budget>>
    BY DEF Call
  <1>4. console # NoSize /\ recorded # NoSize
    BY <1>1 DEF ConsoleInv, Joined
  <1> HIDE DEF c
  <1>5. \/ c = Write
        \/ (c.call = "record" /\ c.size \in Sizes /\ c = Record(c.size))
        \/ (c.call = "apply" /\ c.size \in Sizes /\ c = Apply(c.size))
    BY <1>1, CallFacts
  <1>6. ConsoleTypes'
    <2>1. todo' \in [Tasks -> Seq(Calls)]
      BY <1>1 DEF Call, ConsoleInv, ConsoleTypes, PlanOK
    <2>2. alone' \in [Viewers -> BOOLEAN]
      BY <1>3 DEF ConsoleInv, ConsoleTypes
    <2>3. {recorded', console'} \subseteq {NoSize} \cup Sizes
      BY <1>3, <1>5, CallFacts DEF ConsoleInv, ConsoleTypes
    <2> QED
      BY <1>3, <2>1, <2>2, <2>3 DEF ConsoleInv, ConsoleTypes
  <1>7. Joined'
    <2>1. console' # NoSize /\ recorded' # NoSize
      BY <1>3, <1>4, <1>5, CallFacts, SizesAssumption
    <2>2. \A t \in Viewers : client[t] # "on" => <<t, "read">> \in Tasks /\ <<t, "read">> # k
      BY <1>1 DEF ConsoleInv, Joined, Tasks
    <2>3. \A t \in Viewers : client[t] # "on" => todo'[<<t, "read">>] = <<>>
      BY <1>2, <2>2 DEF ConsoleInv, Joined
    <2> QED
      BY <1>3, <2>1, <2>3 DEF ConsoleInv, Joined
  <1>8. \A j \in Tasks : PlanOK(todo[j])'
    BY <1>1, <1>2 DEF ConsoleInv
  <1>9. \A j \in Tasks : Resizing(j)' => Resizing(j)
    <2>1. ASSUME NEW i \in 1..Len(Tail(q)), Tail(q)[i] # Write
          PROVE  i + 1 \in 1..Len(q) /\ q[i + 1] # Write
      BY <1>1, <2>1
    <2>2. Resizing(k)' => Resizing(k)
      BY <1>2, <2>1 DEF Resizing
    <2>3. \A j \in Tasks \ {k} : Resizing(j)' => Resizing(j)
      BY <1>2 DEF Resizing
    <2> QED
      BY <2>2, <2>3
  <1>10. \A j \in Tasks \ {k} : /\ Resizing(j)' <=> Resizing(j)
                                /\ Applying(j)' <=> Applying(j)
    BY <1>2 DEF Resizing, Applying
  <1>11. \A j \in Tasks : Applying(j) => Resizing(j)
    BY CallFacts DEF Applying, Resizing, ConsoleInv, PlanOK
  <1>12. c # Write => Resizing(k)
    BY <1>1 DEF Resizing
  <1>13. Uncrossed'
    <2> SUFFICES ASSUME ~crossed
                 PROVE  /\ \A i, j \in Tasks : Resizing(i)' /\ Resizing(j)' => i = j
                        /\ \A j \in Tasks : Applying(j)' => recorded' = todo'[j][1].size
                        /\ (\A j \in Tasks : ~Resizing(j)') => recorded' = console'
      BY <1>3 DEF Uncrossed
    <2>1. \A i, j \in Tasks : Resizing(i) /\ Resizing(j) => i = j
      BY DEF ConsoleInv, Uncrossed
    <2>2. \A i, j \in Tasks : Resizing(i)' /\ Resizing(j)' => i = j
      BY <1>9, <2>1
    <2>3. CASE c = Write
      <3>0. 1 \in 1..Len(q) /\ q[1] = Write
        BY <1>1, <2>3
      <3>1. Len(q) = 1
        BY <1>1, <3>0 DEF PlanOK
      <3>2. ~Resizing(k) /\ ~Applying(k)'
        <4>1. ~Resizing(k)
          BY <3>0, <3>1 DEF Resizing
        <4>2. todo'[k] = Tail(q) /\ Len(Tail(q)) = 0
          BY <1>1, <1>2, <3>1
        <4> QED
          BY <4>1, <4>2 DEF Applying
      <3>3. recorded' = recorded /\ console' = console
        BY <1>3, <2>3, CallFacts
      <3>4. \A j \in Tasks : Applying(j)' => recorded' = todo'[j][1].size
        BY <1>2, <1>10, <3>2, <3>3 DEF ConsoleInv, Uncrossed
      <3>5. (\A j \in Tasks : ~Resizing(j)') => recorded' = console'
        BY <1>10, <3>2, <3>3 DEF ConsoleInv, Uncrossed
      <3> QED
        BY <2>2, <3>4, <3>5
    <2>4. CASE c.call = "record" /\ c.size \in Sizes /\ c = Record(c.size)
      <3>1. c # Write /\ recorded' = c.size
        BY <1>3, <2>4, CallFacts
      <3>2. \A j \in Tasks \ {k} : ~Resizing(j) /\ ~Applying(j)'
        BY <1>10, <1>11, <1>12, <2>1, <3>1
      <3>3. /\ 2 \in 1..Len(q) /\ q[2] = Apply(c.size) /\ Len(Tail(q)) > 0 /\ Tail(q)[1] = q[2]
        <4>1. 1 \in 1..Len(q) /\ q[1].call = "record"
          BY <1>1, <2>4
        <4>2. 1 + 1 \in 1..Len(q) /\ q[1 + 1] = Apply(q[1].size)
          BY <1>1, <4>1 DEF PlanOK
        <4>3. 2 \in 1..Len(q) /\ q[2] = Apply(c.size)
          BY <1>1, <4>2
        <4> QED
          BY <1>1, <4>3
      <3>4. Resizing(k)' /\ todo'[k][1].size = c.size
        <4>1. todo'[k] = Tail(q) /\ Tail(q)[1] = Apply(c.size) /\ 1 \in 1..Len(Tail(q))
          BY <1>1, <1>2, <3>3
        <4> QED
          BY <4>1, CallFacts DEF Resizing
      <3> QED
        BY <2>2, <3>1, <3>2, <3>4
    <2>5. CASE c.call = "apply" /\ c.size \in Sizes /\ c = Apply(c.size)
      <3>1. c # Write /\ recorded' = recorded /\ console' = c.size
        BY <1>3, <2>5, CallFacts
      <3>2. \A j \in Tasks \ {k} : ~Resizing(j) /\ ~Applying(j)'
        BY <1>10, <1>11, <1>12, <2>1, <3>1
      <3>3. Applying(k) /\ recorded = c.size
        BY <1>1, <2>5 DEF Applying, ConsoleInv, Uncrossed
      <3>4. ~Applying(k)'
        <4>1. Len(Tail(q)) > 0 => Tail(q)[1] = q[2] /\ 1 < Len(q)
          BY <1>1
        <4>2. 1 < Len(q) => q[2].call # "apply"
          <5>1. 1 < Len(q) => q[1 + 1].call # "apply"
            BY <1>1, <2>5 DEF PlanOK
          <5> QED
            BY <5>1
        <4> QED
          BY <1>2, <4>1, <4>2 DEF Applying
      <3> QED
        BY <2>2, <3>1, <3>2, <3>3, <3>4
    <2> QED
      BY <1>5, <2>3, <2>4, <2>5
  <1>14. ASSUME NEW t \in Viewers
         PROVE  InputFound(t)'
    <2>1. <<t, "read">> \in Tasks /\ told'[t] = told[t]
      BY <1>3 DEF Tasks
    <2>2. CASE <<t, "read">> # k
      <3>1. todo'[<<t, "read">>] = todo[<<t, "read">>]
        BY <1>2, <2>1, <2>2
      <3>2. alone'[t] => alone[t] /\ c = Write
        BY <1>3, <2>2
      <3>3. c = Write => console' = console
        BY <1>3, CallFacts
      <3> QED
        BY <1>3, <2>1, <3>1, <3>2, <3>3 DEF ConsoleInv, InputFound
    <2>3. CASE <<t, "read">> = k
      <3>1. todo'[<<t, "read">>] = Tail(q) /\ Len(Tail(q)) = Len(q) - 1
        BY <1>1, <1>2, <2>1, <2>3
      <3> SUFFICES ASSUME Len(Tail(q)) > 0, Tail(q)[Len(Tail(q))] = Write
                   PROVE  /\ Len(Tail(q)) > 1 => Tail(q)[Len(Tail(q)) - 1] = Apply(told'[t])
                          /\ Len(Tail(q)) = 1 => console' = told'[t]
        BY <3>1 DEF InputFound
      <3>2. q[Len(q)] = Write /\ Len(q) > 1
        BY <1>1
      <3>3. q[Len(q) - 1] = Apply(told[t])
        BY <2>3, <3>2 DEF ConsoleInv, InputFound
      <3>4. Len(Tail(q)) > 1 => Tail(q)[Len(Tail(q)) - 1] = q[Len(q) - 1]
        BY <1>1
      <3>5. ASSUME Len(Tail(q)) = 1
            PROVE  console' = told'[t]
        <4>1. c = Apply(told[t])
          BY <1>1, <3>3, <3>5
        <4> QED
          BY <1>3, <2>1, <4>1, CallFacts
      <3> QED
        BY <2>1, <3>3, <3>4, <3>5
    <2> QED
      BY <2>2, <2>3
  <1> QED
    BY <1>6, <1>7, <1>8, <1>13, <1>14 DEF ConsoleInv

LEMMA StepConsole == ConsoleInv /\ [CNext]_consolevars => ConsoleInv'
  <1> SUFFICES ASSUME ConsoleInv, [CNext]_consolevars
               PROVE  ConsoleInv'
    OBVIOUS
  <1>1. CASE UNCHANGED consolevars
    <2>1. ConsoleTypes' /\ Joined'
      BY <1>1 DEF consolevars, ConsoleInv, ConsoleTypes, Joined
    <2> QED
      BY <1>1, <2>1, TerminalOnly DEF consolevars
  <1> QED
    BY <1>1, TerminalConsole, AttachConsole, ReadConsole, LagConsole, HangUpConsole, CallConsole DEF CNext

(* What is typed is written to a console of the size its terminal told,
   unless another task resized meanwhile or two resizes had crossed: input
   claims the console (host.rs:165).  For any terminals, sizes and number of
   repaints, whatever a repaint does to the size in between. *)
THEOREM InputClaimsConsole == CSpec => InputClaims
  <1>1. CSpec => []ConsoleInv
    BY InitConsole, StepConsole, PTL DEF CSpec
  <1>2. ConsoleInv => ConsoleTypeOK
    <2> SUFFICES ASSUME ConsoleInv
                 PROVE  ConsoleTypeOK
      OBVIOUS
    <2>1. \A t \in Viewers :
            /\ sent[t] \in IF client[t] = "off" THEN {NoSize} ELSE Sizes
            /\ told[t] \in IF client[t] = "on" THEN Sizes ELSE {NoSize}
            /\ \A i \in DOMAIN wire[t] : wire[t][i] \in {Typed} \cup {NewSize(s) : s \in Sizes}
            /\ client[t] # "on" => wire[t] = <<>>
      <3>1. \A t \in Viewers : wire[t] \in Seq({Typed} \cup {NewSize(s) : s \in Sizes})
        BY DEF ConsoleInv, ConsoleTypes, Frames
      <3>2. \A t \in Viewers : \A i \in DOMAIN wire[t] :
              wire[t][i] \in {Typed} \cup {NewSize(s) : s \in Sizes}
        BY <3>1, Elements
      <3>3. \A t \in Viewers : /\ sent[t] \in IF client[t] = "off" THEN {NoSize} ELSE Sizes
                               /\ told[t] \in IF client[t] = "on" THEN Sizes ELSE {NoSize}
                               /\ client[t] # "on" => wire[t] = <<>>
        BY DEF ConsoleInv, ConsoleTypes, Joined
      <3> QED
        BY <3>2, <3>3
    <2>2. \A k \in Tasks : \A i \in DOMAIN todo[k] :
            todo[k][i] \in {Write} \cup {Record(s) : s \in Sizes} \cup {Apply(s) : s \in Sizes}
      <3>1. \A k \in Tasks : todo[k] \in Seq({Write} \cup {Record(s) : s \in Sizes} \cup {Apply(s) : s \in Sizes})
        BY DEF ConsoleInv, ConsoleTypes, Calls
      <3> QED
        BY <3>1, Elements
    <2>3. (\A k \in Tasks : todo[k] = <<>>) /\ ~crossed => recorded = console
      BY DEF ConsoleInv, Uncrossed, Resizing
    <2> QED
      BY <2>1, <2>2, <2>3 DEF ConsoleInv, ConsoleTypes, ConsoleTypeOK, Budgets
  <1>3. ConsoleInv /\ [CNext]_consolevars
          => [\A t \in Viewers : Writes(t) /\ alone[t] /\ ~crossed => console = told[t]]_consolevars
    <2> SUFFICES ASSUME ConsoleInv, NEW t \in Viewers, Writes(t), alone[t], ~crossed
                 PROVE  console = told[t]
      OBVIOUS
    <2>1. <<t, "read">> \in Tasks
      BY DEF Tasks
    <2>2. PlanOK(todo[<<t, "read">>]) /\ todo[<<t, "read">>] # <<>>
      BY <2>1 DEF Writes, ConsoleInv
    <2>3. Len(todo[<<t, "read">>]) \in Nat \ {0} /\ todo[<<t, "read">>][1] = Write
      BY <2>2, PlanTail DEF Writes
    <2>a. 1 \in 1..Len(todo[<<t, "read">>])
      BY <2>3
    <2>4. Len(todo[<<t, "read">>]) = 1
      BY <2>2, <2>3, <2>a DEF PlanOK
    <2> QED
      BY <2>3, <2>4 DEF ConsoleInv, InputFound
  <1> QED
    BY <1>1, <1>2, <1>3, PTL DEF CSpec, InputClaims, WritesAtSize
=============================================================================
