------------------------------- MODULE Guard --------------------------------
(* The PR guardrails of a repository: `wtd preflight` runs the commands of   *)
(* the settings in a worktree and stamps the commit that passed, `agent pr`  *)
(* passes only a stamped, clean and pushed commit, and the pre-push hook     *)
(* refuses blocked branches.  One worktree, whose agent edits, commits and   *)
(* pushes while the commands run.                                            *)
(*                                                                           *)
(* A tree is a model value, and Good says which trees each list of commands  *)
(* passes.                                                                   *)
EXTENDS Naturals

CONSTANTS Agents,       \* `wtd preflight` and `agent pr` processes
          Trees,        \* contents of the worktree
          Commands,     \* lists of preflight commands the settings can hold
          None,
          MaxCommits    \* bound: commits made

ASSUME GAssumption == None \notin Agents \cup Trees \cup Commands \cup Nat /\ MaxCommits \in Nat

VARIABLES good,      \* [list of commands -> trees that pass]
          config,    \* guardrails: [enabled, commands, requireClean, requirePushed, blocked]
          work,      \* the tree in the worktree
          head,      \* HEAD: [n, tree]
          pushed,    \* the commit the upstream has, or None without upstream
          preflight, \* the stamp: the commit number that passed, or None
          step,      \* [process -> where it is]
          began,     \* [process -> [pr, settings, sound, blind]]: what it read when it began,
                     \* and whether the gate took a worktree with changes for a clean one
          moved,     \* history: [process -> the worktree or the settings changed since then]
          sound      \* history: the stamp is of a clean tree that did not change while the
                     \* commands ran, and the settings still hold these commands

gvars == <<good, config, work, head, pushed, preflight, step, began, moved, sound>>

Configs == [enabled : BOOLEAN, commands : Commands, requireClean : BOOLEAN,
            requirePushed : BOOLEAN, blocked : BOOLEAN]

Reads == [pr : BOOLEAN, settings : Configs, sound : BOOLEAN, blind : BOOLEAN]

dirty == work # head.tree

GInit == /\ good \in [Commands -> SUBSET Trees]
         /\ config \in Configs
         /\ work \in Trees /\ head = [n |-> 0, tree |-> work]
         /\ pushed = None /\ preflight = None
         /\ step = [p \in Agents |-> "idle"]
         /\ began = [p \in Agents |-> None]
         /\ moved = [p \in Agents |-> FALSE]
         /\ sound = FALSE

(* A process that has ended knows nothing any more.                          *)
To(p, label) == /\ step' = [step EXCEPT ![p] = label]
                /\ IF label = "idle"
                   THEN began' = [began EXCEPT ![p] = None] /\ moved' = [moved EXCEPT ![p] = FALSE]
                   ELSE UNCHANGED <<began, moved>>

Moves == moved' = [p \in Agents |-> moved[p] \/ step[p] # "idle"]

-----------------------------------------------------------------------------
(* The worktree's agent, and the settings.                                   *)
Edit(t) == /\ work # t /\ work' = t
           /\ Moves
           /\ UNCHANGED <<good, config, head, pushed, preflight, step, began, sound>>

Commit == /\ dirty /\ head.n < MaxCommits
          /\ head' = [n |-> head.n + 1, tree |-> work]
          /\ Moves
          /\ UNCHANGED <<good, config, work, pushed, preflight, step, began, sound>>

(* The pre-push hook.                                                        *)
Push == /\ ~(config.enabled /\ config.blocked)
        /\ pushed # head.n /\ pushed' = head.n
        /\ UNCHANGED <<good, config, work, head, preflight, step, began, moved, sound>>

(* One setting is changed at a time.                                         *)
Configure(s) == /\ s # config /\ config' = s
                /\ sound' = (sound /\ s.commands = config.commands)
                /\ Moves
                /\ UNCHANGED <<good, work, head, pushed, preflight, step, began>>

-----------------------------------------------------------------------------
(* `wtd preflight` runs the commands whenever the guardrails are on;         *)
(* `agent pr` only where HEAD bears no stamp.                                *)
StampedAtAll == preflight # None

Stamped == preflight = head.n

BeginCheck(p, pr) ==
  /\ step[p] = "idle"
  /\ config.enabled \/ pr
  /\ step' = [step EXCEPT ![p] = IF ~config.enabled THEN "mark"
                             ELSE IF pr /\ Stamped THEN "gate" ELSE "clean"]
  /\ began' = [began EXCEPT ![p] = [pr |-> pr, settings |-> config, sound |-> sound, blind |-> FALSE]]
  /\ moved' = [moved EXCEPT ![p] = FALSE]
  /\ UNCHANGED <<good, config, work, head, pushed, preflight, sound>>

(* Where `git status` fails there are no changes to see.                     *)
Clean(p) == /\ step[p] = "clean"
            /\ \E seen \in {dirty, FALSE} :
                 To(p, IF began[p].settings.requireClean /\ seen THEN "failed" ELSE "commands")
            /\ UNCHANGED <<good, config, work, head, pushed, preflight, sound>>

(* The commands see the tree that is there when they run.                    *)
RunCommands(p) ==
  /\ step[p] = "commands"
  /\ To(p, IF work \in good[began[p].settings.commands] THEN "passed" ELSE "failed")
  /\ UNCHANGED <<good, config, work, head, pushed, preflight, sound>>

(* HEAD is read again, and stamped.                                          *)
Passed(p) == /\ step[p] = "passed"
             /\ preflight' = head.n
             /\ sound' = (~moved[p] /\ ~dirty)
             /\ IF began[p].pr
                THEN /\ step' = [step EXCEPT ![p] = "gate"]
                     /\ began' = [began EXCEPT ![p].sound = sound']
                     /\ UNCHANGED moved
                ELSE To(p, "idle")
             /\ UNCHANGED <<good, config, work, head, pushed>>

(* A failure takes the stamp away.                                           *)
Failed(p) == /\ step[p] = "failed"
             /\ preflight' = None
             /\ To(p, "idle")
             /\ UNCHANGED <<good, config, work, head, pushed, sound>>

(* The rest of the gate, then the mark.                                      *)
Unpushed(p) == began[p].settings.requirePushed /\ pushed # head.n

Refused(p) == (began[p].settings.requireClean /\ dirty) \/ Unpushed(p)

Gate(p) ==
  /\ step[p] = "gate"
  /\ To(p, IF Refused(p) THEN "idle" ELSE "mark")
  /\ UNCHANGED <<good, config, work, head, pushed, preflight, sound>>

(* The same with a `git status` that fails on a worktree with changes.       *)
GateBlind(p) ==
  /\ step[p] = "gate" /\ began[p].settings.requireClean /\ dirty /\ ~Unpushed(p)
  /\ step' = [step EXCEPT ![p] = "mark"]
  /\ began' = [began EXCEPT ![p].blind = TRUE]
  /\ UNCHANGED <<good, config, work, head, pushed, preflight, moved, sound>>

MarkPr(p) == /\ step[p] = "mark"
           /\ To(p, "idle")
           /\ UNCHANGED <<good, config, work, head, pushed, preflight, sound>>

-----------------------------------------------------------------------------
GNext == \/ \E t \in Trees : Edit(t)
         \/ Commit \/ Push
         \/ \E c \in Commands : Configure([config EXCEPT !.commands = c])
         \/ \E flag \in {"enabled", "requireClean", "requirePushed", "blocked"} :
              Configure([config EXCEPT ![flag] = ~@])
         \/ \E p \in Agents : \/ \E pr \in BOOLEAN : BeginCheck(p, pr)
                             \/ Clean(p) \/ RunCommands(p) \/ Passed(p) \/ Failed(p)
                             \/ Gate(p) \/ GateBlind(p) \/ MarkPr(p)

GSpec == GInit /\ [][GNext]_gvars

-----------------------------------------------------------------------------
(* A command that is under way keeps the settings it began with.             *)
GuardTypeOK ==
  /\ config \in Configs /\ good \in [Commands -> SUBSET Trees]
  /\ work \in Trees /\ head \in [n : 0..MaxCommits, tree : Trees]
  /\ {pushed, preflight} \subseteq (0..head.n) \cup {None}
  /\ step \in [Agents -> {"idle", "clean", "commands", "passed", "failed", "gate", "mark"}]
  /\ began \in [Agents -> {None} \cup Reads]
  /\ \A p \in Agents : IF step[p] = "idle" THEN began[p] = None ELSE began[p] \in Reads
  /\ \A p \in Agents : step[p] \in {"gate", "mark"} => began[p].pr
  /\ moved \in [Agents -> BOOLEAN] /\ sound \in BOOLEAN

Marking(p) == step[p] = "mark" /\ step'[p] = "idle" /\ began[p].settings.enabled

(* What `agent pr` marks has passed: where the guardrails are on, HEAD's     *)
(* tree passes their commands, is what the worktree holds and is pushed, as  *)
(* far as the settings ask for it; unless the worktree or the settings       *)
(* changed under the command, or the stamp it trusted was unsound.  Clean it *)
(* is unless the changes could not be read (guard.rs:109).                   *)
MarkedPassed ==
  [][\A p \in Agents : Marking(p) /\ ~moved[p] /\ began[p].sound =>
       /\ head.tree \in good[config.commands]
       /\ config.requireClean /\ ~began[p].blind => ~dirty
       /\ config.requirePushed => pushed = head.n]_gvars

PrGate == []GuardTypeOK /\ MarkedPassed

(* "`agent pr` ... refuses unless HEAD passed": without these exceptions.    *)
PrPassed ==
  [][\A p \in Agents : Marking(p) => head.tree \in good[began[p].settings.commands]]_gvars
=============================================================================
