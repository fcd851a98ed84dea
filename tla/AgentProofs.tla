---------------------------- MODULE AgentProofs ----------------------------
(* What `agent pr` marks has passed the guardrails, and each session is      *)
(* reminded of its plan as often as it should: PrGate of Guard and           *)
(* RemindersRight of Nudge, for any number of processes, commits, trees,     *)
(* lists of commands, sessions and edits.                                    *)
EXTENDS Guard, Nudge, TLAPS

-----------------------------------------------------------------------------
(* The guardrails                                                            *)

Labels == {"idle", "clean", "commands", "passed", "failed", "gate", "mark"}

(* What GuardTypeOK says of the processes.                                   *)
AgentsOK ==
  /\ step \in [Agents -> Labels]
  /\ began \in [Agents -> {None} \cup Reads]
  /\ \A p \in Agents : IF step[p] = "idle" THEN began[p] = None ELSE began[p] \in Reads
  /\ \A p \in Agents : step[p] \in {"gate", "mark"} => began[p].pr
  /\ moved \in [Agents -> BOOLEAN]

(* ... and of the rest.                                                      *)
RepoOK ==
  /\ config \in Configs /\ good \in [Commands -> SUBSET Trees]
  /\ work \in Trees /\ head \in [n : 0..MaxCommits, tree : Trees]
  /\ {pushed, preflight} \subseteq (0..head.n) \cup {None}
  /\ sound \in BOOLEAN

LEMMA TypeParts == GuardTypeOK <=> RepoOK /\ AgentsOK
  BY DEF GuardTypeOK, RepoOK, AgentsOK, Labels, Reads

(* A process under way whose worktree and settings have not moved reads what *)
(* is there; past the commands, what is there passes them; past the gate,    *)
(* what it marks is clean and pushed as the settings ask.                    *)
Knows(p) ==
  step[p] # "idle" /\ ~moved[p] =>
    /\ began[p].settings = config
    /\ step[p] = "passed" => work \in good[config.commands]
    /\ step[p] \in {"gate", "mark"} /\ config.enabled /\ began[p].sound
         => head.tree \in good[config.commands]
    /\ step[p] = "mark" /\ config.enabled
         => /\ config.requireClean /\ ~began[p].blind => ~dirty
            /\ config.requirePushed => pushed = head.n

(* A sound stamp on HEAD is deserved.                                        *)
StampTrue == sound /\ preflight = head.n => head.tree \in good[config.commands]

GInv == GuardTypeOK /\ StampTrue /\ \A p \in Agents : Knows(p)

-----------------------------------------------------------------------------
(* Initially nothing is under way and nothing is stamped (guard.rs).         *)
LEMMA InitGuard == GInit => GInv
  <1> SUFFICES ASSUME GInit PROVE GInv
    OBVIOUS
  <1>1. head \in [n : 0..MaxCommits, tree : Trees] /\ head.n = 0
    BY GAssumption DEF GInit
  <1>2. AgentsOK /\ \A p \in Agents : Knows(p)
    BY DEF GInit, AgentsOK, Labels, Knows
  <1>3. RepoOK /\ StampTrue
    BY <1>1 DEF GInit, RepoOK, StampTrue
  <1> QED BY <1>2, <1>3, TypeParts DEF GInv

(* A step of one process leaves what the others know alone, as long as the   *)
(* worktree, HEAD, the upstream and the settings stay.                       *)
LEMMA ProcessStep ==
  ASSUME GInv, NEW p \in Agents, NEW label \in Labels, NEW read,
         step' = [step EXCEPT ![p] = label],
         began' = [began EXCEPT ![p] = read],
         \E m \in BOOLEAN : moved' = [moved EXCEPT ![p] = m],
         IF label = "idle" THEN read = None ELSE read \in Reads,
         label \in {"gate", "mark"} => read.pr,
         UNCHANGED <<good, config, work, head, pushed>>,
         RepoOK', StampTrue',
         Knows(p)'
  PROVE  GInv'
  <1>1. AgentsOK'
    BY TypeParts DEF GInv, AgentsOK
  <1>2. ASSUME NEW q \in Agents PROVE Knows(q)'
    <2>1. CASE q = p
      BY <2>1
    <2>2. CASE q # p
      <3>1. step'[q] = step[q] /\ began'[q] = began[q] /\ moved'[q] = moved[q]
        BY <2>2, TypeParts DEF GInv, AgentsOK
      <3> QED BY <3>1 DEF GInv, Knows, dirty
    <2> QED BY <2>1, <2>2
  <1> QED BY <1>1, <1>2 DEF GInv, GuardTypeOK, AgentsOK, RepoOK, Labels

(* A step of the agent or of the settings moves every process under way.     *)
LEMMA MovingStep ==
  ASSUME GInv, Moves, UNCHANGED <<step, began, good>>, RepoOK', StampTrue'
  PROVE  GInv'
  <1>1. AgentsOK'
    BY TypeParts DEF GInv, AgentsOK, Moves
  <1>2. ASSUME NEW q \in Agents PROVE Knows(q)'
    BY DEF Knows, Moves
  <1> QED BY <1>1, <1>2 DEF GInv, GuardTypeOK, AgentsOK, RepoOK, Labels

(* Every step keeps what the processes know and what the stamp means         *)
(* (guard.rs, agent.rs).                                                     *)
LEMMA StepGuard == GInv /\ [GNext]_gvars => GInv'
  <1> SUFFICES ASSUME GInv, [GNext]_gvars PROVE GInv'
    OBVIOUS
  <1>0. RepoOK /\ AgentsOK /\ StampTrue /\ \A p \in Agents : Knows(p)
    BY TypeParts DEF GInv
  <1>1. ASSUME NEW t \in Trees, Edit(t) PROVE GInv'
    <2>1. RepoOK' /\ StampTrue'
      BY <1>0, <1>1 DEF Edit, RepoOK, StampTrue
    <2> QED BY <1>1, <2>1, MovingStep DEF Edit
  <1>2. CASE Commit
    <2>1. head' = [n |-> head.n + 1, tree |-> work] /\ head.n + 1 \in 0..MaxCommits
      BY <1>0, <1>2, GAssumption DEF Commit, RepoOK
    <2>2. head' \in [n : 0..MaxCommits, tree : Trees] /\ 0..head.n \subseteq 0..head'.n
      BY <1>0, <2>1 DEF RepoOK
    <2>3. RepoOK'
      BY <1>0, <1>2, <2>2 DEF Commit, RepoOK
    <2>4. preflight' # head'.n
      BY <1>0, <1>2, <2>1, GAssumption DEF Commit, RepoOK
    <2> QED BY <1>2, <2>3, <2>4, MovingStep DEF Commit, StampTrue
  <1>3. CASE Push
    <2>1. RepoOK' /\ StampTrue' /\ AgentsOK'
      BY <1>0, <1>3 DEF Push, RepoOK, StampTrue, AgentsOK
    <2>2. ASSUME NEW q \in Agents PROVE Knows(q)'
      BY <1>0, <1>3 DEF Push, Knows, dirty
    <2> QED BY <2>1, <2>2 DEF GInv, GuardTypeOK, AgentsOK, RepoOK, Labels
  <1>4. ASSUME NEW s \in Configs, Configure(s) PROVE GInv'
    <2>1. RepoOK' /\ StampTrue'
      BY <1>0, <1>4 DEF Configure, RepoOK, StampTrue
    <2> QED BY <1>4, <2>1, MovingStep DEF Configure
  <1>5. ASSUME NEW p \in Agents, NEW pr \in BOOLEAN, BeginCheck(p, pr) PROVE GInv'
    <2> DEFINE next == IF ~config.enabled THEN "mark" ELSE IF pr /\ Stamped THEN "gate" ELSE "clean"
               read == [pr |-> pr, settings |-> config, sound |-> sound, blind |-> FALSE]
    <2>1. /\ step' = [step EXCEPT ![p] = next] /\ began' = [began EXCEPT ![p] = read]
          /\ moved' = [moved EXCEPT ![p] = FALSE]
          /\ config.enabled \/ pr
          /\ UNCHANGED <<good, config, work, head, pushed, preflight, sound>>
      BY <1>5 DEF BeginCheck
    <2>2. next \in Labels /\ next # "idle" /\ (next \in {"gate", "mark"} => read.pr)
      BY <2>1 DEF Labels
    <2>3. read \in Reads
      BY <1>0 DEF Reads, RepoOK
    <2>4. RepoOK' /\ StampTrue'
      BY <1>0, <2>1 DEF RepoOK, StampTrue
    <2>5. step'[p] = next /\ began'[p] = read
      BY <1>0, <2>1 DEF AgentsOK
    <2>6. Knows(p)'
      BY <1>0, <2>1, <2>5 DEF Knows, StampTrue, Stamped
    <2> HIDE DEF next, read
    <2> QED BY <2>1, <2>2, <2>3, <2>4, <2>6, ProcessStep
  <1>6. ASSUME NEW p \in Agents, Clean(p) \/ RunCommands(p) \/ Gate(p) \/ MarkPr(p) PROVE GInv'
    <2>1. PICK label \in Labels : To(p, label) /\ (label = "mark" => step[p] = "gate") /\ label # "gate"
      BY <1>6 DEF Clean, RunCommands, Gate, MarkPr, Labels
    <2>2. UNCHANGED <<good, config, work, head, pushed, preflight, sound>>
      BY <1>6 DEF Clean, RunCommands, Gate, MarkPr
    <2>3. RepoOK' /\ StampTrue'
      BY <1>0, <2>2 DEF RepoOK, StampTrue
    <2> DEFINE read == IF label = "idle" THEN None ELSE began[p]
    <2>4. /\ step' = [step EXCEPT ![p] = label] /\ began' = [began EXCEPT ![p] = read]
          /\ \E m \in BOOLEAN : moved' = [moved EXCEPT ![p] = m]
      <3>1. CASE label = "idle"
        BY <2>1, <3>1 DEF To
      <3>2. CASE label # "idle"
        BY <1>0, <2>1, <3>2 DEF To, AgentsOK
      <3> QED BY <3>1, <3>2
    <2>5. IF label = "idle" THEN read = None ELSE read \in Reads
      BY <1>0, <1>6 DEF AgentsOK, Clean, RunCommands, Gate, MarkPr
    <2>6. label \in {"gate", "mark"} => read.pr
      BY <1>0, <2>1 DEF AgentsOK
    <2>7. Knows(p)'
      <3>1. CASE label = "idle"
        BY <1>0, <2>4, <3>1 DEF Knows, AgentsOK
      <3>2. CASE label # "idle"
        <4>1. step'[p] = label /\ began'[p] = began[p] /\ moved'[p] = moved[p]
          BY <1>0, <2>1, <3>2 DEF To, AgentsOK
        <4>2. ~moved[p] => began[p].settings = config
          BY <1>0, <1>6 DEF Knows, Clean, RunCommands, Gate, MarkPr
        <4>3. label = "passed" /\ ~moved[p] => work \in good[config.commands]
          BY <1>0, <1>6, <2>1, <4>1, <4>2 DEF Clean, RunCommands, Gate, MarkPr, To, AgentsOK
        <4>4. label = "mark" /\ ~moved[p] => ~Refused(p) /\ step[p] = "gate"
          BY <1>0, <1>6, <2>1, <4>1 DEF Clean, RunCommands, Gate, MarkPr, To, AgentsOK
        <4> QED BY <1>0, <2>1, <2>2, <4>1, <4>2, <4>3, <4>4 DEF Knows, Refused, Unpushed, dirty
      <3> QED BY <3>1, <3>2
    <2> HIDE DEF read
    <2> QED BY <2>2, <2>3, <2>4, <2>5, <2>6, <2>7, ProcessStep
  <1>7. ASSUME NEW p \in Agents, Failed(p) PROVE GInv'
    <2>1. RepoOK' /\ StampTrue'
      BY <1>0, <1>7, GAssumption DEF Failed, RepoOK, StampTrue
    <2>2. /\ step' = [step EXCEPT ![p] = "idle"] /\ began' = [began EXCEPT ![p] = None]
          /\ moved' = [moved EXCEPT ![p] = FALSE]
      BY <1>7 DEF Failed, To
    <2>3. Knows(p)'
      BY <1>0, <2>2 DEF Knows, AgentsOK
    <2> QED BY <1>7, <2>1, <2>2, <2>3, ProcessStep DEF Failed, Labels
  <1>8. ASSUME NEW p \in Agents, Passed(p) PROVE GInv'
    <2>1. /\ step[p] = "passed" /\ preflight' = head.n /\ sound' = (~moved[p] /\ ~dirty)
          /\ UNCHANGED <<good, config, work, head, pushed>>
      BY <1>8 DEF Passed
    <2>2. began[p] \in Reads /\ sound' \in BOOLEAN
      BY <1>0, <2>1 DEF AgentsOK, dirty
    <2>3. RepoOK'
      BY <1>0, <2>1, <2>2 DEF RepoOK
    <2>4. sound' => head.tree \in good[config.commands]
      BY <1>0, <2>1 DEF Knows, dirty
    <2>5. StampTrue'
      BY <2>1, <2>4 DEF StampTrue
    <2>6. CASE began[p].pr
      <3> DEFINE read == [began[p] EXCEPT !.sound = sound']
      <3>1. /\ step' = [step EXCEPT ![p] = "gate"] /\ began' = [began EXCEPT ![p] = read]
            /\ moved' = [moved EXCEPT ![p] = moved[p]]
        BY <1>0, <1>8, <2>6 DEF Passed, AgentsOK
      <3>2. read \in Reads /\ read.pr /\ read.sound = sound' /\ read.settings = began[p].settings
        BY <2>2, <2>6 DEF Reads
      <3>3. step'[p] = "gate" /\ began'[p] = read /\ moved'[p] = moved[p] /\ moved[p] \in BOOLEAN
        BY <1>0, <3>1 DEF AgentsOK
      <3> HIDE DEF read
      <3>4. Knows(p)'
        BY <1>0, <2>1, <2>4, <3>2, <3>3 DEF Knows
      <3> QED BY <2>1, <2>3, <2>5, <3>1, <3>2, <3>3, <3>4, ProcessStep DEF Labels
    <2>7. CASE ~began[p].pr
      <3>1. /\ step' = [step EXCEPT ![p] = "idle"] /\ began' = [began EXCEPT ![p] = None]
            /\ moved' = [moved EXCEPT ![p] = FALSE]
        BY <1>8, <2>7 DEF Passed, To
      <3>2. Knows(p)'
        BY <1>0, <3>1 DEF Knows, AgentsOK
      <3> QED BY <2>1, <2>3, <2>5, <3>1, <3>2, ProcessStep DEF Labels
    <2> QED BY <2>6, <2>7
  <1>12. ASSUME NEW p \in Agents, GateBlind(p) PROVE GInv'
    <2>1. /\ step[p] = "gate" /\ step' = [step EXCEPT ![p] = "mark"] /\ ~Unpushed(p)
          /\ UNCHANGED <<good, config, work, head, pushed, preflight, moved, sound>>
      BY <1>12 DEF GateBlind
    <2>2. began[p] \in Reads /\ began[p].pr
      BY <1>0, <2>1 DEF AgentsOK
    <2>3. RepoOK' /\ StampTrue'
      BY <1>0, <2>1 DEF RepoOK, StampTrue
    <2> DEFINE read == [began[p] EXCEPT !.blind = TRUE]
    <2>4. /\ began' = [began EXCEPT ![p] = read] /\ moved' = [moved EXCEPT ![p] = moved[p]]
          /\ moved[p] \in BOOLEAN
      BY <1>0, <1>12 DEF GateBlind, AgentsOK
    <2>5. /\ read \in Reads /\ read.pr /\ read.sound = began[p].sound
          /\ read.settings = began[p].settings /\ read.blind
      BY <2>2 DEF Reads
    <2>6. step'[p] = "mark" /\ began'[p] = read /\ moved'[p] = moved[p]
      BY <1>0, <2>1, <2>4 DEF AgentsOK
    <2> HIDE DEF read
    <2>7. Knows(p)'
      BY <1>0, <2>1, <2>5, <2>6 DEF Knows, Unpushed
    <2> QED BY <2>1, <2>3, <2>4, <2>5, <2>7, ProcessStep DEF Labels
  <1>9. CASE UNCHANGED gvars
    BY <1>0, <1>9 DEF gvars, GInv, GuardTypeOK, StampTrue, Knows, dirty
  <1>10. ASSUME NEW c \in Commands PROVE [config EXCEPT !.commands = c] \in Configs
    BY <1>0 DEF RepoOK, Configs
  <1>11. ASSUME NEW flag \in {"enabled", "requireClean", "requirePushed", "blocked"}
         PROVE  [config EXCEPT ![flag] = ~@] \in Configs
    BY <1>0 DEF RepoOK, Configs
  <1> QED BY <1>1, <1>2, <1>3, <1>4, <1>5, <1>6, <1>7, <1>8, <1>9, <1>10, <1>11, <1>12 DEF GNext

(* The types, the stamp and what the processes know hold always.             *)
THEOREM GuardKept == GSpec => []GInv
  BY InitGuard, StepGuard, PTL DEF GSpec

(* What `agent pr` marks has passed, is what the worktree holds and is       *)
(* pushed, as far as the settings ask for it (guard.rs, agent.rs).           *)
THEOREM PrMarkedPassed == GSpec => PrGate
  <1>1. GInv /\ [GNext]_gvars =>
          [\A p \in Agents : Marking(p) /\ ~moved[p] /\ began[p].sound =>
             /\ head.tree \in good[config.commands]
             /\ config.requireClean /\ ~began[p].blind => ~dirty
             /\ config.requirePushed => pushed = head.n]_gvars
    BY DEF GInv, Knows, Marking
  <1>2. GInv => GuardTypeOK
    BY DEF GInv
  <1> QED BY <1>1, <1>2, GuardKept, PTL DEF GSpec, PrGate, MarkedPassed

-----------------------------------------------------------------------------
(* The reminders                                                             *)

(* Counting modulo: the remainder grows by one until it starts anew.         *)
LEMMA RemainderSteps ==
  ASSUME NEW n \in Nat, NEW m \in Nat \ {0}
  PROVE  /\ n % m \in 0..(m - 1)
         /\ (n + 1) % m # 0 => (n + 1) % m = (n % m) + 1
  <1> DEFINE q == n \div m
             k == (n + 1) \div m
  <1>1. /\ n = m * q + (n % m) /\ n % m \in 0..(m - 1) /\ q \in Int
        /\ n + 1 = m * k + ((n + 1) % m) /\ (n + 1) % m \in 0..(m - 1) /\ k \in Int
    BY SMT
  <1>2. ASSUME NEW a \in Int, NEW b \in Int, NEW r \in 0..(m - 1), NEW t \in 1..(m - 1),
               m * b + t = m * a + r + 1
        PROVE  a = b
    <2>1. CASE b >= a + 1
      <3>1. m * b >= m * (a + 1) /\ m * (a + 1) = m * a + m
        BY <2>1, SMT
      <3> QED BY <1>2, <3>1
    <2>2. CASE b <= a - 1
      <3>1. m * b <= m * (a - 1) /\ m * (a - 1) = m * a - m
        BY <2>2, SMT
      <3> QED BY <1>2, <3>1
    <2> QED BY <2>1, <2>2
  <1>3. (n + 1) % m # 0 => q = k
    <2> HIDE DEF q, k
    <2> QED BY <1>1, <1>2
  <1> HIDE DEF q, k
  <1> QED BY <1>1, <1>3

(* The state of a session that another one wrote over counts for nothing.    *)
LEMMA OfIsItsOwn ==
  ASSUME NEW st \in States \cup {Fresh}, NEW s \in Sessions
  PROVE  /\ Of(st, s) \in States /\ Of(st, s).session = s
         /\ st.session = s => Of(st, s) = st
         /\ st.session # s => ~Of(st, s).warned /\ Of(st, s).edits = 0
  <1>1. Fresh = [session |-> NoSession, warned |-> FALSE, edits |-> 0] /\ NoSession \notin Sessions
    BY NudgeAssumption DEF Fresh, NoSession
  <1>2. CASE st.session = s
    BY <1>1, <1>2 DEF Of, States
  <1>3. CASE st.session # s
    <2>1. Of(st, s) = [session |-> s, warned |-> FALSE, edits |-> 0]
      BY <1>1, <1>3 DEF Of
    <2> QED BY <1>3, <2>1 DEF States
  <1> QED BY <1>2, <1>3

(* What an edit adds to the count, since the last reminder or edited plan.   *)
Counts(n, path) == IF path = "plan" THEN 0 ELSE IF path = "source" /\ plan THEN n + 1 ELSE n

(* One edit keeps the session, is warned of a missing plan once, and is      *)
(* reminded of a stale one when the count is full (nudge.rs step).           *)
LEMMA OneEdit ==
  ASSUME NEW st \in States \cup {Fresh}, NEW s \in Sessions, NEW path \in Paths, plan \in BOOLEAN
  PROVE  LET cur == Of(st, s)
             r == Stepped(st, s, path)
         IN /\ r.st \in States /\ r.st.session = s /\ r.says \in {"nothing", "no plan", "stale"}
            /\ cur.warned => r.st.warned
            /\ r.says = "no plan" => r.st.warned /\ ~cur.warned
            /\ r.st.warned /\ ~cur.warned => r.says = "no plan"
            /\ IF r.says = "stale" THEN r.st.edits % StaleEvery = 0
               ELSE r.st.edits % StaleEvery = Counts(cur.edits % StaleEvery, path)
  <1> DEFINE cur == Of(st, s)
  <1>1. cur \in States /\ cur.session = s
    BY OfIsItsOwn
  <1> HIDE DEF cur
  <1>2. /\ cur.edits \in Nat /\ cur.warned \in BOOLEAN
        /\ cur = [session |-> s, warned |-> cur.warned, edits |-> cur.edits]
    BY <1>1 DEF States
  <1>3. /\ 0 % StaleEvery = 0
        /\ (cur.edits + 1) % StaleEvery # 0
             => (cur.edits + 1) % StaleEvery = (cur.edits % StaleEvery) + 1
    BY <1>2, NudgeAssumption, RemainderSteps
  <1>4. CASE path = "plan"
    BY <1>2, <1>3, <1>4 DEF Stepped, States, Counts, cur
  <1>5. CASE path = "scratch"
    BY <1>1, <1>2, <1>5 DEF Stepped, Counts, cur
  <1>6. CASE path = "source" /\ ~plan
    <2> DEFINE next == [session |-> s, warned |-> TRUE, edits |-> cur.edits]
    <2>1. [cur EXCEPT !.warned = TRUE] = next /\ next \in States
      <3>1. ASSUME NEW w \in BOOLEAN
            PROVE  LET st1 == [session |-> s, warned |-> w, edits |-> cur.edits]
                   IN [cur EXCEPT !.warned = w] = st1 /\ st1 \in States
        BY <1>2 DEF States
      <3> QED BY <3>1
    <2>2. Stepped(st, s, path) = [st |-> [cur EXCEPT !.warned = TRUE],
                                  says |-> IF cur.warned THEN "nothing" ELSE "no plan"]
      BY <1>6 DEF Stepped, cur
    <2>3. /\ Stepped(st, s, path).st = next
          /\ Stepped(st, s, path).says = IF cur.warned THEN "nothing" ELSE "no plan"
      <3> DEFINE says == IF cur.warned THEN "nothing" ELSE "no plan"
                 stepped == [cur EXCEPT !.warned = TRUE]
      <3>1. Stepped(st, s, path) = [st |-> stepped, says |-> says]
        BY <2>2
      <3> HIDE DEF says, stepped
      <3>2. Stepped(st, s, path).st = stepped /\ Stepped(st, s, path).says = says
        BY <3>1
      <3> QED BY <2>1, <3>2 DEF says, stepped
    <2>4. next.session = s /\ next.warned /\ next.edits = cur.edits
      OBVIOUS
    <2> HIDE DEF next
    <2> QED BY <1>2, <1>6, <2>1, <2>3, <2>4 DEF Counts, cur
  <1>7. CASE path = "source" /\ plan
    BY <1>2, <1>3, <1>7 DEF Stepped, States, Counts, cur
  <1> QED BY <1>4, <1>5, <1>6, <1>7 DEF Paths

-----------------------------------------------------------------------------
(* While hooks do not run at once: the state that stands, read or about to   *)
(* be written, is of the last caller, remembers whether it was told that     *)
(* there is no plan, and counts what is due.                                 *)
Stands(st) ==
  /\ st.session = caller
  /\ \/ caller = NoSession \/ caller \in back
     \/ told[caller] = 0 \/ (st.warned /\ told[caller] = 1)

OneAtATime == \A g, h \in Callers : edit[g] # NoCall /\ edit[h] # NoCall => g = h

AtRest ==
  (\A h \in Callers : edit[h] = NoCall)
    => Stands(noted) /\ due = noted.edits % StaleEvery

UnderWay(h) ==
  edit[h] # NoCall =>
    /\ Stands(edit[h].next)
    /\ edit[h].says = "no plan" => caller \in back \/ (edit[h].next.warned /\ told[caller] = 0)
    /\ edit[h].next.edits % StaleEvery = IF edit[h].says = "stale" THEN 0 ELSE due
    /\ edit[h].at = "print" => noted = edit[h].next

(* A session that has not called since another one did is in back.           *)
OthersUntold == \A s \in Sessions : s # caller /\ s \notin back => told[s] = 0

NudgeInv ==
  /\ NudgeTypeOK
  /\ ~together => /\ OneAtATime /\ AtRest /\ OthersUntold
                  /\ \A h \in Callers : UnderWay(h)

LEMMA InitNudge == NudgeInit => NudgeInv
  <1> SUFFICES ASSUME NudgeInit PROVE NudgeInv
    OBVIOUS
  <1>1. NudgeTypeOK
    <2>1. together \in BOOLEAN
      BY DEF NudgeInit
    <2>2. calls \in 0..MaxCalls /\ noted \in States \cup {Fresh} /\ plan \in BOOLEAN
      BY NudgeAssumption DEF NudgeInit
    <2>3. edit \in [Callers -> {NoCall} \cup Working]
      BY DEF NudgeInit
    <2>4. told \in [Sessions -> Nat] /\ due \in Nat /\ caller \in Sessions \cup {NoSession} /\ back \subseteq Sessions
      BY DEF NudgeInit
    <2> QED BY <2>1, <2>2, <2>3, <2>4 DEF NudgeTypeOK
  <1>2. 0 % StaleEvery = 0
    BY NudgeAssumption, RemainderSteps
  <1>3. AtRest
    BY <1>2 DEF NudgeInit, AtRest, Stands, Fresh
  <1>4. OneAtATime /\ OthersUntold /\ \A h \in Callers : UnderWay(h)
    BY DEF NudgeInit, OneAtATime, OthersUntold, UnderWay
  <1> QED BY <1>1, <1>3, <1>4 DEF NudgeInv

(* The bounds of RemindersRight follow.                                      *)
LEMMA RemindersFollow == NudgeInv => RemindersRight
  <1> SUFFICES ASSUME NudgeInv PROVE RemindersRight
    OBVIOUS
  <1> USE DEF NudgeInv, NudgeTypeOK
  <1>1. CASE together
    BY <1>1 DEF RemindersRight, RemindedOnce, StaleNoticed
  <1>2. CASE ~together
    <2>1. (\A h \in Callers : edit[h] = NoCall) => due < StaleEvery
      <3> SUFFICES ASSUME \A h \in Callers : edit[h] = NoCall PROVE due < StaleEvery
        OBVIOUS
      <3>1. due = noted.edits % StaleEvery
        BY <1>2 DEF AtRest
      <3>2. noted.edits \in Nat
        BY DEF States, Fresh
      <3> QED BY <3>1, <3>2, RemainderSteps, NudgeAssumption
    <2>2. \E st : Stands(st)
      BY <1>2 DEF AtRest, UnderWay
    <2>3. ASSUME NEW s \in Sessions, s \notin back PROVE told[s] <= 1
      <3>1. CASE s # caller
        BY <1>2, <2>3, <3>1 DEF OthersUntold
      <3>2. CASE s = caller
        BY <2>2, <2>3, <3>2, NudgeAssumption DEF Stands, NoSession
      <3> QED BY <3>1, <3>2
    <2> QED BY <2>1, <2>3 DEF RemindersRight, RemindedOnce, StaleNoticed
  <1> QED BY <1>1, <1>2

(* A call that is the only one begins from what stands and is due.           *)
LEMMA BeginNudge ==
  ASSUME NudgeInv, NEW h \in Callers, NEW s \in Sessions, NEW path \in Paths, Begin(h, s, path)
  PROVE  NudgeInv'
  <1> DEFINE r == Stepped(noted, s, path)
             at == IF r.st = noted THEN "print" ELSE "write"
             new == [at |-> at, path |-> path, next |-> r.st, says |-> r.says]
             cur == Of(noted, s)
  <1>0. NudgeTypeOK
    BY DEF NudgeInv
  <1>1. /\ edit[h] = NoCall /\ edit' = [edit EXCEPT ![h] = new]
        /\ caller' = s /\ calls > 0 /\ calls' = calls - 1
        /\ UNCHANGED <<noted, plan, told>>
    BY DEF Begin
  <1>2. noted \in States \cup {Fresh} /\ plan \in BOOLEAN
    BY <1>0 DEF NudgeTypeOK
  <1>3. /\ r.st \in States /\ r.st.session = s /\ r.says \in {"nothing", "no plan", "stale"}
        /\ cur.warned => r.st.warned
        /\ r.says = "no plan" => r.st.warned /\ ~cur.warned
        /\ r.st.warned /\ ~cur.warned => r.says = "no plan"
        /\ IF r.says = "stale" THEN r.st.edits % StaleEvery = 0
           ELSE r.st.edits % StaleEvery = Counts(cur.edits % StaleEvery, path)
    BY <1>2, OneEdit
  <1> HIDE DEF r
  <1>4. new \in Working /\ new # NoCall
    BY <1>3 DEF Working, NoCall
  <1>5. /\ new.at = "print" => noted = r.st
        /\ new.next = r.st /\ new.says = r.says
    OBVIOUS
  <1>6. due' \in Nat /\ back' \subseteq Sessions /\ together' \in BOOLEAN
    BY <1>0 DEF Begin, NudgeTypeOK
  <1> HIDE DEF new
  <1>7. NudgeTypeOK'
    <2>1. edit' \in [Callers -> {NoCall} \cup Working]
      BY <1>0, <1>1, <1>4 DEF NudgeTypeOK
    <2>2. calls' \in 0..MaxCalls
      BY <1>0, <1>1, NudgeAssumption DEF NudgeTypeOK
    <2> QED BY <1>0, <1>1, <1>6, <2>1, <2>2 DEF NudgeTypeOK
  <1>8. SUFFICES ASSUME ~together'
                 PROVE  (OneAtATime /\ AtRest /\ OthersUntold /\ \A g \in Callers : UnderWay(g))'
    BY <1>7 DEF NudgeInv
  <1>9. ~together /\ \A g \in Callers : edit[g] = NoCall
    BY <1>8 DEF Begin
  <1>10. /\ Stands(noted) /\ due = noted.edits % StaleEvery /\ OthersUntold
    BY <1>9 DEF NudgeInv, AtRest
  <1>11. edit'[h] = new /\ \A g \in Callers : g # h => edit'[g] = NoCall
    BY <1>0, <1>1, <1>9 DEF NudgeTypeOK
  <1>12. OneAtATime' /\ AtRest'
    BY <1>4, <1>11 DEF OneAtATime, AtRest
  <1>13. OthersUntold'
    <2>1. caller \in Sessions \cup {NoSession}
      BY <1>0 DEF NudgeTypeOK
    <2>2. back' = IF caller \in {NoSession, s} THEN back ELSE back \cup {caller}
      BY DEF Begin
    <2> QED BY <1>1, <1>10, <2>1, <2>2, NudgeAssumption DEF OthersUntold, NoSession
  <1>14. /\ cur \in States /\ cur.session = s
         /\ noted.session = s => cur = noted
         /\ noted.session # s => ~cur.warned /\ cur.edits = 0
    BY <1>2, OfIsItsOwn
  <1> HIDE DEF cur
  <1>15. caller' \in back' \/ told[s] = 0 \/ (cur.warned /\ told[s] = 1)
    <2>1. CASE noted.session = s
      BY <1>1, <1>10, <1>14, <2>1, NudgeAssumption DEF Stands, Begin, NoSession
    <2>2. CASE noted.session # s
      BY <1>1, <1>10, <2>2 DEF Stands, OthersUntold, Begin
    <2> QED BY <2>1, <2>2
  <1>16. due' = Counts(cur.edits % StaleEvery, path)
    <2>1. CASE noted.session = s
      BY <1>2, <1>10, <1>14, <2>1 DEF Stands, Begin, Counts
    <2>2. CASE noted.session # s
      <3>1. caller # s /\ cur.edits % StaleEvery = 0
        BY <1>10, <1>14, <2>2, RemainderSteps, NudgeAssumption DEF Stands
      <3> QED BY <1>2, <3>1 DEF Begin, Counts
    <2> QED BY <2>1, <2>2
  <1>17. UnderWay(h)'
    <2>1. edit'[h].next = r.st /\ edit'[h].says = r.says /\ (edit'[h].at = "print" => noted = r.st)
      BY <1>5, <1>11
    <2>2. r.says = "no plan" => caller' \in back' \/ (r.st.warned /\ told'[caller'] = 0)
      BY <1>1, <1>3, <1>15
    <2>3. r.st.edits % StaleEvery = IF r.says = "stale" THEN 0 ELSE due'
      BY <1>3, <1>16
    <2>4. Stands(edit[h].next)'
      BY <1>1, <1>3, <1>15, <2>1 DEF Stands
    <2> QED BY <1>1, <2>1, <2>2, <2>3, <2>4 DEF UnderWay
  <1> QED BY <1>4, <1>11, <1>12, <1>13, <1>17 DEF UnderWay

(* The writes of a call keep what it is about to make stand.                 *)
LEMMA WriteNudge ==
  ASSUME NudgeInv, NEW h \in Callers, Empty(h) \/ Fill(h)
  PROVE  NudgeInv'
  <1>0. NudgeTypeOK
    BY DEF NudgeInv
  <1>1. edit[h] # NoCall /\ edit[h] \in Working
    BY <1>0 DEF NudgeTypeOK, Empty, Fill, NoCall
  <1>2. PICK at \in {"fill", "print"} : /\ edit' = [edit EXCEPT ![h].at = at]
                                       /\ noted' = IF at = "fill" THEN Fresh ELSE edit[h].next
    BY DEF Empty, Fill
  <1>3. UNCHANGED <<plan, calls, told, due, caller, together, back>>
    BY DEF Empty, Fill
  <1> DEFINE new == [edit[h] EXCEPT !.at = at]
  <1>4. /\ new \in Working /\ new.at = at /\ new.next = edit[h].next /\ new.says = edit[h].says
        /\ new # NoCall
    BY <1>1 DEF Working, NoCall
  <1>5. edit' = [edit EXCEPT ![h] = new]
    BY <1>0, <1>2 DEF NudgeTypeOK
  <1> HIDE DEF new
  <1>6. NudgeTypeOK'
    <2>1. edit' \in [Callers -> {NoCall} \cup Working]
      BY <1>0, <1>4, <1>5 DEF NudgeTypeOK
    <2>2. noted' \in States \cup {Fresh}
      BY <1>1, <1>2 DEF Working
    <2> QED BY <1>0, <1>3, <2>1, <2>2 DEF NudgeTypeOK
  <1>7. SUFFICES ASSUME ~together
                 PROVE  (OneAtATime /\ AtRest /\ OthersUntold /\ \A g \in Callers : UnderWay(g))'
    BY <1>3, <1>6 DEF NudgeInv
  <1>8. edit'[h] = new /\ \A g \in Callers : g # h => edit'[g] = NoCall /\ edit[g] = NoCall
    BY <1>0, <1>1, <1>5, <1>7 DEF NudgeInv, NudgeTypeOK, OneAtATime
  <1>9. UnderWay(h)'
    <2>1. edit'[h].next = edit[h].next /\ edit'[h].says = edit[h].says /\ edit'[h].at = at
      BY <1>4, <1>8
    <2>2. UnderWay(h) /\ edit[h] # NoCall
      BY <1>1, <1>7 DEF NudgeInv
    <2>3. Stands(edit[h].next)'
      BY <1>3, <2>1, <2>2 DEF UnderWay, Stands
    <2>4. at = "print" => noted' = edit[h].next
      BY <1>2
    <2> QED BY <1>3, <2>1, <2>2, <2>3, <2>4 DEF UnderWay
  <1>10. OneAtATime' /\ AtRest'
    BY <1>4, <1>8 DEF OneAtATime, AtRest
  <1>11. OthersUntold'
    BY <1>3, <1>7 DEF NudgeInv, OthersUntold
  <1> QED BY <1>8, <1>9, <1>10, <1>11 DEF UnderWay

(* A call that ends leaves what it made stand, and the reminder it gave is   *)
(* counted.                                                                  *)
LEMMA AnswerNudge ==
  ASSUME NudgeInv, NEW h \in Callers, Answer(h)
  PROVE  NudgeInv'
  <1>0. NudgeTypeOK
    BY DEF NudgeInv
  <1>1. edit[h].at = "print" /\ edit[h] # NoCall /\ edit[h] \in Working
    <2>1. edit[h].at = "print" /\ edit[h] \in {NoCall} \cup Working
      BY <1>0 DEF NudgeTypeOK, Answer
    <2> QED BY <2>1 DEF NoCall
  <1>2. /\ edit' = [edit EXCEPT ![h] = NoCall]
        /\ UNCHANGED <<noted, calls, caller, together, back>>
        /\ due' = IF edit[h].says = "stale" THEN 0 ELSE due
        /\ told' = IF edit[h].says = "no plan"
                   THEN [told EXCEPT ![edit[h].next.session] = @ + 1] ELSE told
    BY DEF Answer
  <1>3. edit[h].next \in States /\ edit[h].next.session \in Sessions
    BY <1>1 DEF Working, States
  <1>4. PICK s \in Sessions :
          /\ s = edit[h].next.session
          /\ told' = IF edit[h].says = "no plan" THEN [told EXCEPT ![s] = @ + 1] ELSE told
    BY <1>2, <1>3
  <1>5. NudgeTypeOK'
    <2>1. told' \in [Sessions -> Nat]
      <3>1. told \in [Sessions -> Nat]
        BY <1>0 DEF NudgeTypeOK
      <3>2. told[s] + 1 \in Nat
        BY <3>1
      <3>3. CASE edit[h].says = "no plan"
        BY <1>4, <3>1, <3>2, <3>3
      <3> QED BY <1>4, <3>1, <3>3
    <2>2. plan' \in BOOLEAN
      BY <1>0, <1>1 DEF Answer, NudgeTypeOK
    <2>3. edit' \in [Callers -> {NoCall} \cup Working] /\ due' \in Nat
      BY <1>0, <1>2 DEF NudgeTypeOK
    <2> QED BY <1>0, <1>2, <2>1, <2>2, <2>3 DEF NudgeTypeOK
  <1>6. SUFFICES ASSUME ~together
                 PROVE  (OneAtATime /\ AtRest /\ OthersUntold /\ \A g \in Callers : UnderWay(g))'
    BY <1>2, <1>5 DEF NudgeInv
  <1>7. \A g \in Callers : edit'[g] = NoCall
    BY <1>0, <1>1, <1>2, <1>6 DEF NudgeInv, NudgeTypeOK, OneAtATime
  <1>8. UnderWay(h) /\ OthersUntold
    BY <1>6 DEF NudgeInv
  <1>9. edit[h].next.session = caller /\ noted = edit[h].next
    BY <1>1, <1>8 DEF UnderWay, Stands
  <1>10. OthersUntold'
    BY <1>0, <1>2, <1>3, <1>8, <1>9 DEF OthersUntold, NudgeTypeOK
  <1>11. Stands(noted)'
    <2>1. told \in [Sessions -> Nat] /\ caller \in Sessions
      BY <1>0, <1>3, <1>9 DEF NudgeTypeOK
    <2>2. CASE edit[h].says = "no plan"
      <3>1. told'[caller] = told[caller] + 1
        BY <1>4, <1>9, <2>1, <2>2
      <3>2. caller \in back \/ (noted.warned /\ told[caller] = 0)
        BY <1>1, <1>8, <1>9, <2>2 DEF UnderWay
      <3>3. noted.session = caller /\ UNCHANGED <<noted, caller, back>>
        BY <1>2, <1>9
      <3>4. CASE caller \in back
        BY <3>3, <3>4 DEF Stands
      <3>5. CASE noted.warned /\ told[caller] = 0
        BY <3>1, <3>3, <3>5 DEF Stands
      <3> QED BY <3>2, <3>4, <3>5
    <2>3. CASE edit[h].says # "no plan"
      <3>1. Stands(noted) /\ told' = told
        BY <1>1, <1>2, <1>8, <1>9, <2>3 DEF UnderWay
      <3> QED BY <1>2, <3>1 DEF Stands
    <2> QED BY <2>2, <2>3
  <1>12. due' = noted'.edits % StaleEvery
    BY <1>1, <1>2, <1>8, <1>9 DEF UnderWay
  <1> QED BY <1>7, <1>10, <1>11, <1>12 DEF OneAtATime, AtRest, UnderWay

(* Every step keeps what stands (nudge.rs, hook.rs).                         *)
LEMMA StepNudge == NudgeInv /\ [NudgeNext]_nvars => NudgeInv'
  <1> SUFFICES ASSUME NudgeInv, [NudgeNext]_nvars PROVE NudgeInv'
    OBVIOUS
  <1>1. CASE MovePlan
    <2>1. NudgeTypeOK'
      BY <1>1 DEF MovePlan, NudgeInv, NudgeTypeOK
    <2> QED BY <1>1, <2>1 DEF MovePlan, NudgeInv, OneAtATime, AtRest, OthersUntold, UnderWay, Stands
  <1>2. CASE UNCHANGED nvars
    BY <1>2 DEF nvars, NudgeInv, NudgeTypeOK, OneAtATime, AtRest, OthersUntold, UnderWay, Stands
  <1> QED BY <1>1, <1>2, BeginNudge, WriteNudge, AnswerNudge DEF NudgeNext

(* Each session is reminded once that there is no plan, and of a stale one   *)
(* every STALE_EVERY edits, while hooks do not run at once (nudge.rs).       *)
THEOREM RemindersAreRight == NudgeSpec => []RemindersRight
  <1>1. NudgeSpec => []NudgeInv
    BY InitNudge, StepNudge, PTL DEF NudgeSpec
  <1> QED BY <1>1, RemindersFollow, PTL
=============================================================================
