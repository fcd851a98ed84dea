------------------------------- MODULE Setup --------------------------------
(* `wtd setup`: install, repair, uninstall and the wiring of a WSL distro,   *)
(* and what launching a Codex session writes.  The files belong to the user  *)
(* and to Claude Code or Codex too: they are edited or damaged while setups  *)
(* run, steps fail, and setups are killed.                                   *)
EXTENDS Naturals, Sequences

LOCAL INSTANCE Functions

CONSTANTS Entries,      \* the user's hook entries
          Procs,        \* setup and launch processes
          Skips,        \* the --skip lists that are used
          Missing,
          MaxStarts,    \* bound: processes started
          MaxEdits,     \* bound: edits and damages
          MaxCrashes    \* bound: failed steps and kills

ASSUME SetupAssumption == /\ MaxStarts \in Nat /\ MaxEdits \in Nat /\ MaxCrashes \in Nat
                          /\ Missing \notin Procs

VARIABLES settings,  \* [home -> its ~/.claude/settings.json]
          backup,    \* [home -> settings.json.bak]
          codex,     \* [torn, user, ours]: ~/.codex's config.toml and hooks.json
          placed,    \* the other parts that are installed
          proc,      \* [process -> Missing or [kind, todo, read]]
          budget,    \* [starts, edits, faults] so far
          wanted,    \* history: [home -> the user's entries, as far as a copy of them exists]
          excused    \* history: what nothing is asked of any more

setupvars == <<settings, backup, codex, placed, proc, budget, wanted, excused>>

-----------------------------------------------------------------------------
(* What `wtd setup` changes in a Claude settings file that the user owns too, *)
(* and the inverse: pure functions.  The hooks are a function from the events *)
(* the file names to the list of entries of each; an entry is one of the      *)
(* user's, one of ours, or one that an older version of ours used.            *)
Ours == {"ours", "old"}
NoHooks == [event \in {} |-> <<>>]

(* What a version installs, and what the one before it did.                   *)
Template == [event \in {"Stop", "SessionEnd"} |-> <<"ours">>]
OldTemplate == [event \in {"Stop", "Notification"} |-> <<"old">>]

List(hooks, event) == IF event \in DOMAIN hooks THEN hooks[event] ELSE <<>>

strip_our_hooks(hooks) ==
  [event \in DOMAIN hooks |-> SelectSeq(hooks[event], LAMBDA entry : entry \notin Ours)]

emptied(hooks) ==
  {event \in DOMAIN hooks : hooks[event] # <<>> /\ strip_our_hooks(hooks)[event] = <<>>}

drop_empty(hooks, events) ==
  [event \in DOMAIN hooks \ {e \in events : hooks[e] = <<>>} |-> hooks[event]]

merge_onto(hooks, template) ==
  LET kept == strip_our_hooks(hooks)
      merged == [event \in DOMAIN kept \cup DOMAIN template |->
                   List(kept, event) \o List(template, event)]
  IN drop_empty(merged, emptied(hooks) \cap DOMAIN merged)

merge_hooks(hooks) == merge_onto(hooks, Template)

unmerge_hooks(hooks) == drop_empty(strip_our_hooks(hooks), emptied(hooks))

(* The statusline is ours when it runs our script; installing replaces the    *)
(* user's, uninstalling takes only ours away.                                 *)
set_statusline(line) == "ours"
unset_statusline(line) == IF line = "ours" THEN "none" ELSE line

(* The whole file, [ok, hooks, line, refs]: installed, and taken back.        *)
InstalledText(text) == [text EXCEPT !.hooks = merge_hooks(@), !.line = set_statusline(@), !.refs = TRUE]
Removed(text) == [text EXCEPT !.hooks = unmerge_hooks(@), !.line = unset_statusline(@), !.refs = FALSE]

(* Whether the file says nothing of ours; what it holds of the user's.        *)
NoneOfOurs(text) == /\ \A event \in DOMAIN text.hooks :
                         \A i \in DOMAIN text.hooks[event] : text.hooks[event][i] \notin Ours
                    /\ text.line # "ours" /\ ~text.refs

UserOf(text) ==
  {e \in Entries : \E event \in DOMAIN text.hooks :
                     \E i \in DOMAIN text.hooks[event] : text.hooks[event][i] = e}
-----------------------------------------------------------------------------
Homes == {"windows", "distro"}
Blank == [ok |-> TRUE, hooks |-> NoHooks, line |-> "none", refs |-> FALSE]
Torn == [Blank EXCEPT !.ok = FALSE]
Readable(t) == t # Missing /\ t.ok
HomeOf(kind) == IF kind = "wsl" THEN "distro" ELSE "windows"

(* The steps of each command, in order, and the --skip name of each.         *)
Settings == <<"load", "backup", "write">>
Codex == <<"codex", "empty", "fill">>

StepsProgramFirst(kind) ==
  IF kind = "uninstall" THEN <<"program", "tray", "remove">> \o Codex \o Settings \o <<"a">>
  ELSE IF kind = "wsl" THEN Settings \o <<"wsl">>
  ELSE IF kind = "launch" THEN Codex
  ELSE <<"a">> \o Settings \o <<"d", "i", "remove", "add">> \o Codex \o <<"tray">>

StepsClaudeOnly(kind) ==
  IF kind = "uninstall" THEN <<"tray", "remove">> \o Settings \o <<"a", "data", "program">>
  ELSE IF kind = "wsl" THEN Settings \o <<"wsl">>
  ELSE IF kind = "launch" THEN Codex
  ELSE <<"a">> \o Settings \o <<"d", "i", "remove", "add">> \o Codex \o <<"tray">>

StepsOf(kind) ==
    CASE kind \in {"install", "repair"} ->
           <<"a">> \o Settings \o <<"d", "i", "remove", "add">> \o Codex \o <<"tray">>
      [] kind = "wsl" -> Settings \o <<"wsl">>
      [] kind = "uninstall" ->
           <<"tray", "remove">> \o Codex \o Settings \o <<"d", "a", "i", "data", "program">>
      [] kind = "launch" -> Codex

Group(step) == IF step \in {"load", "backup", "write"} THEN "c"
               ELSE IF step \in {"remove", "add", "codex", "empty", "fill"} THEN "mcp" ELSE step

(* Nothing is installed yet, on a machine where Claude Code has or has not   *)
(* run; or an install of an older version has ended.                         *)
Users == [Blank EXCEPT !.hooks = [event \in {"Stop"} |-> <<CHOOSE e \in Entries : TRUE>>],
                       !.line = "theirs"]
Older == [Users EXCEPT !.hooks = merge_onto(@, OldTemplate), !.line = "ours", !.refs = TRUE]

SetupInit ==
  /\ \/ /\ settings \in {[h \in Homes |-> Missing], [h \in Homes |-> Users]}
        /\ backup = [h \in Homes |-> Missing]
        /\ placed = {}
        /\ codex = [torn |-> FALSE, user |-> TRUE, ours |-> FALSE]
     \/ /\ settings = [windows |-> Older, distro |-> Users]
        /\ backup = [windows |-> Users, distro |-> Missing]
        /\ placed = {"a", "d", "i", "mcp", "tray", "data", "program"}
        /\ codex = [torn |-> FALSE, user |-> TRUE, ours |-> TRUE]
  /\ proc = [p \in Procs |-> Missing]
  /\ budget = [starts |-> 0, edits |-> 0, faults |-> 0]
  /\ wanted = [h \in Homes |-> IF settings[h] = Missing THEN {} ELSE UserOf(settings[h])]
  /\ excused = {}

Running == {p \in Procs : proc[p] # Missing}
At(p, step) == proc[p] # Missing /\ Head(proc[p].todo) = step
Excuse(reason, when) == excused' = IF when THEN excused \cup {reason} ELSE excused
Spend(what) == budget' = [budget EXCEPT ![what] = @ + 1]

(* The next step; the next group, when the rest of this one is left out.     *)
On(p, todo, read) ==
  proc' = [proc EXCEPT ![p] = IF todo = <<>> THEN Missing
                              ELSE [@ EXCEPT !.todo = todo, !.read = read]]
Done(p, read) == On(p, Tail(proc[p].todo), read)
Rest(p) == LET s == proc[p].todo
           IN SelectSeq(s, LAMBDA x : Group(x) # Group(Head(s)))
EndGroup(p) == On(p, Rest(p), Missing)

-----------------------------------------------------------------------------
(* A payload is laid down before the first step; everything else runs the    *)
(* installed program.                                                        *)
StartCommand(p, kind, skip) ==
         /\ proc[p] = Missing /\ budget.starts < MaxStarts /\ Spend("starts")
         /\ kind = "install" \/ "program" \in placed
         /\ placed' = IF kind = "install" THEN placed \cup {"program", "data"} ELSE placed
         /\ proc' = [proc EXCEPT ![p] =
                      [kind |-> kind, read |-> Missing,
                       todo |-> SelectSeq(StepsOf(kind), LAMBDA x : Group(x) \notin skip)]]
         /\ excused' = excused
              \cup (IF kind = "uninstall" /\ skip \ {"data"} # {} THEN {"left"} ELSE {})
              \cup (IF \E q \in Running : "uninstall" \in {kind, proc[q].kind} THEN {"left"} ELSE {})
              \cup (IF \E q \in Running : "wsl" \notin {kind, proc[q].kind} THEN {"codex"} ELSE {})
         /\ UNCHANGED <<settings, backup, codex, wanted>>

(* The steps that only put files of their own in place, or take them away.   *)
Put(p, step) == /\ At(p, step) /\ proc[p].kind # "uninstall"
                /\ placed' = placed \cup {step}
                /\ Done(p, Missing)
                /\ UNCHANGED <<settings, backup, codex, budget, wanted, excused>>

TakeStep(p, step) == /\ At(p, step) /\ proc[p].kind = "uninstall"
                     /\ placed' = placed \ {step}
                     /\ Done(p, Missing)
                     /\ UNCHANGED <<settings, backup, codex, budget, wanted, excused>>

InstallCommands(p) == Put(p, "a")
InstallExtension(p) == Put(p, "d")
PrepareRepos(p) == Put(p, "i")
StartAtLogon(p) == Put(p, "tray")
WireDistro(p) == Put(p, "wsl")

StopTray(p) == TakeStep(p, "tray")
RemoveExtension(p) == TakeStep(p, "d")
RemoveCommands(p) == TakeStep(p, "a")
RemoveRepoHooks(p) == TakeStep(p, "i")
DeleteData(p) == TakeStep(p, "data")
RemoveProgram(p) == TakeStep(p, "program")

(* settings.json is parsed strictly; --repair takes the backup for a broken  *)
(* one.                                                                      *)
Changed(p, text) == IF proc[p].kind = "uninstall" THEN Removed(text) ELSE InstalledText(text)

Restored(p) == LET h == HomeOf(proc[p].kind)
               IN proc[p].kind = "repair" /\ Readable(backup[h])

LoadLenient(p) ==
  /\ At(p, "load")
  /\ LET h == HomeOf(proc[p].kind)
         found == IF Readable(settings[h]) THEN settings[h] ELSE Blank
     IN Done(p, Changed(p, found))
  /\ UNCHANGED <<settings, backup, codex, placed, budget, wanted, excused>>

Load(p) ==
  /\ At(p, "load")
  /\ LET h == HomeOf(proc[p].kind)
         found == CASE settings[h] = Missing -> Blank
                    [] Readable(settings[h]) -> settings[h]
                    [] Restored(p) -> backup[h]
                    [] OTHER -> Missing
     IN IF found = Missing THEN EndGroup(p) /\ Excuse("left", proc[p].kind = "uninstall")
        ELSE Done(p, Changed(p, found)) /\ UNCHANGED excused
  /\ UNCHANGED <<settings, backup, codex, placed, budget, wanted>>

(* A file that is there and cannot be read, or is not UTF-8, is taken for an *)
(* empty one (mod.rs:391); one that is torn, too.                            *)
Misread(p) ==
  /\ At(p, "load") /\ settings[HomeOf(proc[p].kind)] # Missing
  /\ budget.faults < MaxCrashes /\ Spend("faults")
  /\ Done(p, Changed(p, Blank))
  /\ Excuse("misread", TRUE)
  /\ UNCHANGED <<settings, backup, codex, placed, wanted>>

(* Whatever the file is by now is copied aside.                              *)
Backup(p) ==
  /\ At(p, "backup")
  /\ LET h == HomeOf(proc[p].kind)
     IN IF settings[h] = proc[p].read THEN EndGroup(p) /\ UNCHANGED backup
        ELSE /\ Done(p, proc[p].read)
             /\ backup' = IF settings[h] = Missing THEN backup
                          ELSE [backup EXCEPT ![h] = settings[h]]
  /\ UNCHANGED <<settings, codex, placed, budget, wanted, excused>>

(* Written beside it and renamed.                                            *)
Write(p) ==
  /\ At(p, "write")
  /\ settings' = [settings EXCEPT ![HomeOf(proc[p].kind)] = proc[p].read]
  /\ Done(p, Missing)
  /\ UNCHANGED <<backup, codex, placed, budget, wanted, excused>>

(* `claude mcp remove`, then `add`: whether either succeeds is only printed. *)
Tried(ok) == IF ok THEN UNCHANGED budget ELSE budget.faults < MaxCrashes /\ Spend("faults")

Remove(p, ok) ==
  /\ At(p, "remove") /\ proc[p].kind # "uninstall"
  /\ IF proc[p].kind = "install" /\ "mcp" \in placed
     THEN /\ ok /\ On(p, Tail(Tail(proc[p].todo)), Missing)
          /\ UNCHANGED <<placed, budget>>
     ELSE /\ Tried(ok) /\ Done(p, Missing)
          /\ placed' = IF ok THEN placed \ {"mcp"} ELSE placed
  /\ UNCHANGED <<settings, backup, codex, wanted, excused>>

Unregister(p, ok) ==
  /\ At(p, "remove") /\ proc[p].kind = "uninstall"
  /\ Tried(ok) /\ Done(p, Missing)
  /\ placed' = IF ok THEN placed \ {"mcp"} ELSE placed
  /\ Excuse("left", ~ok)
  /\ UNCHANGED <<settings, backup, codex, wanted>>

Add(p, ok) ==
  /\ At(p, "add") /\ Tried(ok)
  /\ placed' = IF ok THEN placed \cup {"mcp"} ELSE placed
  /\ Done(p, Missing)
  /\ UNCHANGED <<settings, backup, codex, wanted, excused>>

(* Codex's files are read as they are, whatever is left of them, and written *)
(* in place: emptied, then filled.                                           *)
NewCodex(p) == [torn |-> FALSE, user |-> codex.user /\ ~codex.torn,
                ours |-> proc[p].kind # "uninstall"]

ReadCodex(p) ==
  /\ At(p, "codex")
  /\ IF NewCodex(p) = codex
     THEN On(p, SelectSeq(proc[p].todo, LAMBDA x : x \notin {"codex", "empty", "fill"}), Missing)
     ELSE Done(p, NewCodex(p))
  /\ UNCHANGED <<settings, backup, codex, placed, budget, wanted, excused>>

EmptyCodex(p) == /\ At(p, "empty")
                 /\ codex' = [codex EXCEPT !.torn = TRUE]
                 /\ Done(p, proc[p].read)
                 /\ UNCHANGED <<settings, backup, placed, budget, wanted, excused>>

FillOurs(p) == /\ At(p, "fill")
               /\ codex' = [proc[p].read EXCEPT !.user = FALSE]
               /\ Done(p, Missing)
               /\ UNCHANGED <<settings, backup, placed, budget, wanted, excused>>

FillCodex(p) == /\ At(p, "fill")
                /\ codex' = proc[p].read
                /\ Done(p, Missing)
                /\ UNCHANGED <<settings, backup, placed, budget, wanted, excused>>

-----------------------------------------------------------------------------
(* A step fails and the rest still run; or the process is killed.            *)
Lost(p) == (IF At(p, "write") /\ settings[HomeOf(proc[p].kind)] = Torn THEN {"cut"} ELSE {})
           \cup (IF At(p, "fill") THEN {"codex"} ELSE {})

Fail(p) == /\ proc[p] # Missing /\ Head(proc[p].todo) \notin {"remove", "add"}
           /\ budget.faults < MaxCrashes /\ Spend("faults")
           /\ EndGroup(p)
           /\ excused' = excused \cup Lost(p)
                         \cup (IF proc[p].kind = "uninstall" THEN {"left"} ELSE {})
           /\ UNCHANGED <<settings, backup, codex, placed, wanted>>

Kill(p) == /\ proc[p] # Missing
           /\ budget.faults < MaxCrashes /\ Spend("faults")
           /\ proc' = [proc EXCEPT ![p] = Missing]
           /\ excused' = excused \cup Lost(p)
           /\ UNCHANGED <<settings, backup, codex, placed, wanted>>

(* The user, or Claude Code, changes the settings; a change that a setup     *)
(* which has read the file writes over is lost.                              *)
Held(h) == \E p \in Running : HomeOf(proc[p].kind) = h /\ Head(proc[p].todo) \in {"backup", "write"}

EditSettings(h, e) ==
          /\ budget.edits < MaxEdits /\ Spend("edits")
          /\ settings[h] = Missing \/ Readable(settings[h])
          /\ LET now == IF settings[h] = Missing THEN Blank ELSE settings[h]
                 list == List(now.hooks, "Stop")
                 edited == IF e \in UserOf(now) THEN SelectSeq(list, LAMBDA x : x # e) ELSE <<e>> \o list
                 hooks == [event \in DOMAIN now.hooks \cup {"Stop"} |->
                             IF event = "Stop" THEN edited ELSE now.hooks[event]]
             IN /\ settings' = [settings EXCEPT ![h] = [now EXCEPT !.hooks = hooks, !.line = "theirs"]]
                /\ wanted' = [wanted EXCEPT ![h] = IF Held(h) THEN @ \ {e} ELSE UserOf(settings'[h])]
          /\ UNCHANGED <<backup, codex, placed, proc, excused>>

(* The file is damaged: what only it held is gone.                           *)
Damage(h) ==
  /\ budget.edits < MaxEdits /\ Spend("edits")
  /\ Readable(settings[h])
  /\ settings' = [settings EXCEPT ![h] = Torn]
  /\ wanted' = [wanted EXCEPT ![h] = IF Readable(backup[h]) THEN @ \cap UserOf(backup[h]) ELSE {}]
  /\ UNCHANGED <<backup, codex, placed, proc, excused>>

SetupNext ==
  \/ \E p \in Procs :
       \/ \E kind \in {"install", "repair", "wsl", "uninstall", "launch"}, skip \in Skips :
            StartCommand(p, kind, skip)
       \/ InstallCommands(p) \/ InstallExtension(p) \/ PrepareRepos(p) \/ StartAtLogon(p)
       \/ WireDistro(p)
       \/ StopTray(p) \/ RemoveExtension(p) \/ RemoveCommands(p) \/ RemoveRepoHooks(p)
       \/ DeleteData(p) \/ RemoveProgram(p)
       \/ Load(p) \/ Misread(p) \/ Backup(p) \/ Write(p)
       \/ \E ok \in BOOLEAN : Remove(p, ok) \/ Add(p, ok) \/ Unregister(p, ok)
       \/ ReadCodex(p) \/ EmptyCodex(p) \/ FillCodex(p)
       \/ Fail(p) \/ Kill(p)
  \/ \E h \in Homes : \/ \E e \in Entries : EditSettings(h, e)
                      \/ Damage(h)

SetupSpec == SetupInit /\ [][SetupNext]_setupvars

-----------------------------------------------------------------------------
TextOK(t) == /\ DOMAIN t.hooks \subseteq {"Stop", "SessionEnd", "Notification"}
             /\ \A event \in DOMAIN t.hooks : Range(t.hooks[event]) \subseteq Entries \cup Ours
             /\ t.line \in {"none", "theirs", "ours"} /\ t.refs \in BOOLEAN
             /\ ~t.ok => t = Torn

(* Every step that is left belongs to the command, a step has read what it   *)
(* needs, and a file that is torn holds nothing.                             *)
SetupTypeOK ==
  /\ \A h \in Homes : /\ settings[h] # Missing => TextOK(settings[h])
                      /\ backup[h] # Missing => TextOK(backup[h])
  /\ codex \in [torn : BOOLEAN, user : BOOLEAN, ours : BOOLEAN]
  /\ placed \subseteq {"a", "d", "i", "mcp", "tray", "wsl", "data", "program"}
  /\ \A p \in Running :
       /\ proc[p].todo # <<>>
       /\ Range(proc[p].todo) \subseteq Range(StepsOf(proc[p].kind))
       /\ At(p, "backup") \/ At(p, "write") => TextOK(proc[p].read)
       /\ (proc[p].read # Missing) = (Head(proc[p].todo) \in {"backup", "write", "empty", "fill"})
  /\ budget \in [starts : 0..MaxStarts, edits : 0..MaxEdits, faults : 0..MaxCrashes]
  /\ \A h \in Homes : wanted[h] \subseteq Entries
  /\ excused \subseteq {"left", "cut", "codex", "misread"}

(* What of ours names the program, in the Windows home.                      *)
References == (Readable(settings["windows"]) /\ ~NoneOfOurs(settings["windows"]))
              \/ codex.ours \/ placed \cap {"a", "mcp", "tray"} # {}

(* Nothing that Claude, Codex, the shell or the logon starts names a program *)
(* that is gone, wherever a setup is killed: the program comes first and     *)
(* goes last; unless an uninstall left something, or ran beside another.     *)
NothingDangling == References /\ "left" \notin excused => "program" \in placed

(* The user's settings are in settings.json or in its backup, or a running   *)
(* setup is about to write them; unless one was cut off before it did, with  *)
(* the damaged file already in the backup's place, or one could not read the *)
(* file and took it for empty.                                               *)
Copies(h) == UNION {UserOf(t) : t \in {settings[h], backup[h]} \ {Missing}}
             \cup UNION {UserOf(proc[p].read) : p \in {q \in Running : At(q, "write") /\ HomeOf(proc[q].kind) = h}}

SettingsKept == excused \cap {"cut", "misread"} = {} => \A h \in Homes : wanted[h] \subseteq Copies(h)

(* "restore the backup": without that exception.                             *)
Restorable == \A h \in Homes : wanted[h] \subseteq Copies(h)

(* What the user has in Codex's files survives every setup and every launch, *)
(* unless two of them overlap or one is cut off while it writes.             *)
CodexKept == "codex" \notin excused => codex.user

(* "the user's own are kept": while nothing fails and nothing is killed.     *)
CodexAlwaysKept == codex.user

(* An uninstall that ends in its last step, left nothing out and ran alone   *)
(* has taken everything of ours away, and nothing of the user's where the    *)
(* settings could always be read.                                            *)
Uninstalled ==
  [][\A p \in Procs :
       /\ proc[p] # Missing /\ proc'[p] = Missing /\ proc[p].kind = "uninstall"
       /\ At(p, "program") /\ "program" \notin placed'
       /\ "left" \notin excused'
       => /\ ~References' /\ placed' \subseteq {"data", "wsl"}
          /\ Readable(settings["windows"]') /\ "misread" \notin excused =>
               wanted["windows"] \subseteq UserOf(settings["windows"])]_setupvars

(* What an installation and its end keep whole: what names the program, and  *)
(* what is the user's (setup/mod.rs, setup/merge.rs, codex.rs).              *)
SetupKept == [](SetupTypeOK /\ NothingDangling /\ SettingsKept /\ CodexKept) /\ Uninstalled
=============================================================================
