------------------------------ MODULE Presets -------------------------------
(* Presets: the layers of skills, agents, commands and rules under           *)
(* `.wtd/custom`, the changes to them that agents propose and the user       *)
(* accepts or rejects, and the copy `wtd custom apply` and every launch make *)
(* of them in a worktree, whose files its agent and git change meanwhile.    *)
(*                                                                           *)
(* One worktree.  An item's copy is named by the layer it comes from; "own"  *)
(* is the content the repository tracks, "old" what a layer no longer holds. *)
(* A skill is a folder: a copy overlays it and leaves the files there that   *)
(* the copied layer does not have.                                           *)
EXTENDS Naturals

CONSTANTS Items,        \* <kind>/<name>
          Skills,       \* those of them that are folders; the others are files
          Appliers,     \* processes that apply the presets
          Deciders,     \* processes that accept or reject
          Proposals,
          None,
          MaxChanges,   \* bound: decisions, and changes to layers, worktree and settings
          MaxApplies,   \* bound: applies begun
          MaxCuts,      \* bound: applies and decisions that are killed, and failures of git
          Targets       \* the layers proposals are for

ASSUME PresetsAssumption == /\ MaxChanges \in Nat /\ MaxCuts \in Nat /\ MaxApplies \in Nat
                            /\ Targets \subseteq {"global", "repo"} /\ Skills \subseteq Items
                            /\ None \notin Items \cup Appliers \cup Deciders \cup Proposals

Layers == {"builtin", "global", "repo"}
Hooks == {"mine", "preset"}

(* What stands at an item's place: the content written there last, and what  *)
(* lies beside it of others.                                                 *)
Contents == Layers \cup {"own", "old"}
Copies == [copy : Contents \cup {None}, rest : SUBSET Contents]
Absent == [copy |-> None, rest |-> {}]

(* The worktree's settings: how often each hook stands in them, those of     *)
(* them that we merged, and whether they are JSON.                           *)
Settings == [count : [Hooks -> Nat], prev : SUBSET {"preset"}, form : {"json", "other"}]
NoSettings == [count |-> [h \in Hooks |-> 0], prev |-> {}, form |-> "json"]

Applies == [step : {"copy", "manifest", "texts", "hooks", "merge"},
            todo : SUBSET Items, now : SUBSET Items, tracked : SUBSET Items,
            from : [Items -> Layers], read : Settings \cup {None}]
Changes == [layer : Targets, item : Items, delete : BOOLEAN,
            state : {"pending", "accepted", "rejected"}]
Decisions == [id : Proposals, accept : BOOLEAN, step : {"write", "save"}]

ASSUME NoneAssumption ==
  None \notin Contents \cup Settings \cup Applies \cup Changes \cup Decisions

VARIABLES has,       \* [layer -> its items]
          off,       \* the items that are disabled
          extra,     \* whether the layers hold a hook and text for CLAUDE.md
          tree,      \* [item -> what stands at its place in the worktree]
          tracked,   \* the items git tracks there
          manifest,  \* the items an apply said it copied
          block,     \* whether CLAUDE.md has our block
          override,  \* AGENTS.override.md: "none", "theirs", "ours"
          claude,    \* the worktree's settings
          apply,     \* [applier -> None or an apply under way]
          proposal,  \* [proposal -> None or the change proposed]
          decision,  \* [decider -> None or the decision under way]
          changes,   \* [changes, cuts, applies] so far
          disturbed, \* history: the appliers that did not run alone and undisturbed
          orphans,   \* history: the items that an apply which was cut off copied
          overlap    \* history: the proposals two deciders worked on at once, or one left half done

presetvars == <<has, off, extra, tree, tracked, manifest, block, override, claude,
                apply, proposal, decision, changes, disturbed, orphans, overlap>>
layervars == <<has, off, extra>>
treevars == <<tree, tracked, manifest, block, override, claude>>
decisionvars == <<proposal, decision, overlap>>

PresetsInit ==
  /\ has = [l \in Layers |-> IF l = "builtin" THEN Skills ELSE {}]
  /\ off = {} /\ extra \in BOOLEAN
  /\ tree = [i \in Items |-> Absent] /\ tracked = {} /\ manifest = {}
  /\ block = FALSE /\ override \in {"none", "theirs"}
  /\ claude = NoSettings
  /\ apply = [p \in Appliers |-> None]
  /\ proposal = [d \in Proposals |-> None] /\ decision = [q \in Deciders |-> None]
  /\ changes = [changes |-> 0, cuts |-> 0, applies |-> 0]
  /\ disturbed = {} /\ orphans = {} /\ overlap = {}

Applying == {p \in Appliers : apply[p] # None}
Spend(what) == changes' = [changes EXCEPT ![what] = @ + 1]
Disturb == disturbed' = disturbed \cup Applying

Change == changes.changes < MaxChanges /\ Spend("changes")

(* A later layer's item replaces an earlier one; what any layer disables is  *)
(* dropped.                                                                  *)
Source(i) == IF i \in has["repo"] THEN "repo" ELSE IF i \in has["global"] THEN "global" ELSE "builtin"
merged_items == {i \in Items : i \notin off /\ \E l \in Layers : i \in has[l]}

-----------------------------------------------------------------------------
(* The user's changes to the layers, and those of an update: what is built   *)
(* in are skills.                                                            *)
Put(l, i) == /\ Change
             /\ l = "builtin" => i \in Skills
             /\ has' = [has EXCEPT ![l] = IF i \in @ THEN @ \ {i} ELSE @ \cup {i}]
             /\ Disturb
             /\ UNCHANGED <<off, extra, treevars, apply, decisionvars, orphans>>

Disable(i) == /\ Change
              /\ off' = IF i \in off THEN off \ {i} ELSE off \cup {i}
              /\ Disturb
              /\ UNCHANGED <<has, extra, treevars, apply, decisionvars, orphans>>

ChangeTexts == /\ Change
               /\ extra' = ~extra
               /\ Disturb
               /\ UNCHANGED <<has, off, treevars, apply, decisionvars, orphans>>

(* What is written over what stands at i's place: a file replaces a file,    *)
(* the files of a folder leave the others it has.                            *)
Overlaid(i, content) ==
  [copy |-> content,
   rest |-> IF i \in Skills THEN (tree[i].rest \cup {tree[i].copy}) \ {content, None} ELSE {}]

(* A layer's item gets another content: what was copied of it is old.        *)
Outdated(l, i) ==
  tree' = [tree EXCEPT ![i] = [copy |-> IF @.copy = l THEN "old" ELSE @.copy,
                               rest |-> {IF c = l THEN "old" ELSE c : c \in @.rest}]]

Edit(l, i) == /\ Change
              /\ i \in has[l]
              /\ Outdated(l, i)
              /\ Disturb
              /\ UNCHANGED <<layervars, tracked, manifest, block, override, claude, apply,
                             decisionvars, orphans>>

(* The repository begins to track a file of that name, or stops, and what    *)
(* lay beside it stays.                                                      *)
Track(i) == /\ Change
            /\ IF i \in tracked
               THEN /\ tracked' = tracked \ {i}
                    /\ tree' = [tree EXCEPT ![i] = [copy |-> None, rest |-> @.rest]]
                    /\ orphans' = IF tree[i].rest = {} THEN orphans \ {i} ELSE orphans \cup {i}
               ELSE /\ tracked' = tracked \cup {i}
                    /\ tree' = [tree EXCEPT ![i] = Overlaid(i, "own")]
                    /\ orphans' = orphans \ {i}
            /\ Disturb
            /\ UNCHANGED <<layervars, manifest, block, override, claude, apply, decisionvars>>

(* The user adds a hook of their own; an edit leaves the settings so that    *)
(* they are not JSON, or mends them.                                         *)
AddHook == /\ Change
           /\ claude.count["mine"] = 0
           /\ claude' = [claude EXCEPT !.count["mine"] = 1]
           /\ Disturb
           /\ UNCHANGED <<layervars, tree, tracked, manifest, block, override, apply, decisionvars, orphans>>

Spoil == /\ Change
         /\ claude' = [claude EXCEPT !.form = IF @ = "json" THEN "other" ELSE "json"]
         /\ Disturb
         /\ UNCHANGED <<layervars, tree, tracked, manifest, block, override, apply, decisionvars, orphans>>

-----------------------------------------------------------------------------
(* An apply lists what git tracks and what the layers hold, and copies it.   *)
Step(p, step) == apply' = [apply EXCEPT ![p].step = step]

(* What git lists as tracked: nothing when it fails, as in a folder without  *)
(* any.                                                                      *)
ls_files == IF changes.cuts < MaxCuts THEN {tracked, {}} ELSE {tracked}

BeginApply(p) ==
  /\ apply[p] = None
  /\ changes.applies < MaxApplies
  /\ \E listed \in ls_files :
       /\ changes' = [changes EXCEPT !.applies = @ + 1,
                                     !.cuts = IF listed = tracked THEN @ ELSE @ + 1]
       /\ apply' = [apply EXCEPT ![p] =
                     [step |-> "copy", todo |-> merged_items, now |-> {}, tracked |-> listed,
                      from |-> [i \in Items |-> Source(i)], read |-> None]]
       /\ disturbed' = IF Applying = {} /\ listed = tracked THEN disturbed \ {p}
                       ELSE disturbed \cup Applying \cup {p}
  /\ UNCHANGED <<layervars, treevars, decisionvars, orphans>>

(* An error ends the apply; nothing lists what it copied.                    *)
Abandon(p) == /\ apply' = [apply EXCEPT ![p] = None]
              /\ orphans' = orphans \cup (apply[p].now \ manifest)

CopyOver(p, i) ==
  /\ apply[p] # None /\ apply[p].step = "copy" /\ i \in apply[p].todo
  /\ tree' = [tree EXCEPT ![i] = Overlaid(i, apply[p].from[i])]
  /\ apply' = [apply EXCEPT ![p].todo = @ \ {i}, ![p].now = @ \cup ({i} \ apply[p].tracked)]
  /\ UNCHANGED <<layervars, tracked, manifest, block, override, claude, decisionvars, changes, disturbed, orphans>>

Copy(p, i) ==
  /\ apply[p] # None /\ apply[p].step = "copy" /\ i \in apply[p].todo
  /\ \/ /\ i \in apply[p].tracked
        /\ apply' = [apply EXCEPT ![p].todo = @ \ {i}]
        /\ UNCHANGED <<tree, orphans>>
     \/ /\ i \notin apply[p].tracked /\ i \in has[apply[p].from[i]]
        /\ tree' = [tree EXCEPT ![i] = Overlaid(i, apply[p].from[i])]
        /\ apply' = [apply EXCEPT ![p].todo = @ \ {i}, ![p].now = @ \cup {i}]
        /\ UNCHANGED orphans
     \/ /\ i \notin apply[p].tracked /\ i \notin has[apply[p].from[i]]
        /\ Abandon(p)
        /\ UNCHANGED tree
  /\ UNCHANGED <<layervars, tracked, manifest, block, override, claude, decisionvars, changes, disturbed>>

(* What the manifest lists and is not copied any more goes, and what is      *)
(* disabled.                                                                 *)
StaleListed(p) == off \ apply[p].tracked
Stale(p) == ((manifest \ apply[p].now) \cup off) \ apply[p].tracked

DropCopied(p) ==
  /\ apply[p] # None /\ apply[p].step = "copy" /\ apply[p].todo = {}
  /\ tree' = [i \in Items |-> IF i \in Stale(p) THEN [tree[i] EXCEPT !.copy = None] ELSE tree[i]]
  /\ Step(p, "manifest")
  /\ orphans' = orphans \ (off \ apply[p].tracked)
  /\ UNCHANGED <<layervars, tracked, manifest, block, override, claude, decisionvars, changes, disturbed>>

DropStale(p) ==
  /\ apply[p] # None /\ apply[p].step = "copy" /\ apply[p].todo = {}
  /\ tree' = [i \in Items |-> IF i \in Stale(p) THEN Absent ELSE tree[i]]
  /\ Step(p, "manifest")
  /\ orphans' = orphans \ (off \ apply[p].tracked)
  /\ UNCHANGED <<layervars, tracked, manifest, block, override, claude, decisionvars, changes, disturbed>>

WriteManifest(p) ==
  /\ apply[p] # None /\ apply[p].step = "manifest"
  /\ manifest' = apply[p].now
  /\ orphans' = (orphans \ apply[p].now)
                \cup (IF p \in disturbed THEN manifest \ apply[p].now ELSE {})
  /\ Step(p, "texts")
  /\ UNCHANGED <<layervars, tree, tracked, block, override, claude, decisionvars, changes, disturbed>>

(* CLAUDE.md's block is replaced; a user's AGENTS.override.md is left alone. *)
SyncTexts(p) ==
  /\ apply[p] # None /\ apply[p].step = "texts"
  /\ block' = extra
  /\ override' = IF override = "theirs" THEN "theirs" ELSE "ours"
  /\ Step(p, "hooks")
  /\ UNCHANGED <<layervars, tree, tracked, manifest, claude, decisionvars, changes, disturbed, orphans>>

(* The hooks we merged last time are replaced by those of now.  Settings     *)
(* that are not JSON are taken for none.                                     *)
Parsed(settings) == IF settings.form = "json" THEN settings ELSE NoSettings

ReadHooks(p) ==
  /\ apply[p] # None /\ apply[p].step = "hooks"
  /\ apply' = [apply EXCEPT ![p].step = "merge", ![p].read = Parsed(claude)]
  /\ UNCHANGED <<layervars, treevars, decisionvars, changes, disturbed, orphans>>

Layered == IF extra THEN {"preset"} ELSE {}

MergedOnto(read) ==
  [count |-> [h \in Hooks |-> read.count[h] + (IF h \in Layered THEN 1 ELSE 0)],
   prev |-> Layered, form |-> "json"]

MergedHooks(read) ==
  [count |-> [h \in Hooks |-> (IF h \in read.prev THEN 0 ELSE read.count[h])
                              + (IF h \in Layered THEN 1 ELSE 0)],
   prev |-> Layered, form |-> "json"]

(* Settings that would not change are not written; ours, put back behind the *)
(* user's, may have changed their place.                                     *)
Written(read) == IF MergedHooks(read) # read THEN {MergedHooks(read)}
                 ELSE IF read.prev = {} THEN {claude} ELSE {claude, read}

SyncHooks(p) ==
  /\ apply[p] # None /\ apply[p].step = "merge"
  /\ claude' \in Written(apply[p].read)
  /\ apply' = [apply EXCEPT ![p] = None]
  /\ UNCHANGED <<layervars, tree, tracked, manifest, block, override, decisionvars, changes, disturbed, orphans>>

-----------------------------------------------------------------------------
(* Proposals.                                                                *)
Propose(d, l, i, delete) ==
  /\ proposal[d] = None
  /\ proposal' = [proposal EXCEPT ![d] = [layer |-> l, item |-> i, delete |-> delete, state |-> "pending"]]
  /\ UNCHANGED <<layervars, treevars, apply, decision, changes, disturbed, orphans, overlap>>

(* Accepting looks at the state, rejecting does not.                         *)
LoadAny(q, d, accept) ==
  /\ decision[q] = None /\ proposal[d] # None
  /\ Change
  /\ decision' = [decision EXCEPT ![q] = [id |-> d, accept |-> accept,
                                          step |-> IF accept THEN "write" ELSE "save"]]
  /\ UNCHANGED <<layervars, treevars, apply, proposal, disturbed, orphans, overlap>>

LoadProposal(q, d, accept) ==
  /\ decision[q] = None /\ proposal[d] # None
  /\ accept => proposal[d].state = "pending"
  /\ Change
  /\ decision' = [decision EXCEPT ![q] = [id |-> d, accept |-> accept,
                                          step |-> IF accept THEN "write" ELSE "save"]]
  /\ overlap' = IF \E r \in Deciders : decision[r] # None /\ decision[r].id = d
                THEN overlap \cup {d} ELSE overlap
  /\ UNCHANGED <<layervars, treevars, apply, proposal, disturbed, orphans>>

WriteTarget(q) ==
  /\ decision[q] # None /\ decision[q].step = "write"
  /\ LET d == proposal[decision[q].id]
     IN IF d.delete
        THEN has' = [has EXCEPT ![d.layer] = @ \ {d.item}] /\ UNCHANGED tree
        ELSE has' = [has EXCEPT ![d.layer] = @ \cup {d.item}] /\ Outdated(d.layer, d.item)
  /\ decision' = [decision EXCEPT ![q].step = "save"]
  /\ Disturb
  /\ UNCHANGED <<off, extra, tracked, manifest, block, override, claude, apply, proposal, changes,
                 orphans, overlap>>

SaveProposal(q) ==
          /\ decision[q] # None /\ decision[q].step = "save"
          /\ proposal' = [proposal EXCEPT ![decision[q].id].state =
                           IF decision[q].accept THEN "accepted" ELSE "rejected"]
          /\ decision' = [decision EXCEPT ![q] = None]
          /\ UNCHANGED <<layervars, treevars, apply, changes, disturbed, orphans, overlap>>

-----------------------------------------------------------------------------
(* A process is killed.                                                      *)
KillApply(p) == /\ apply[p] # None /\ changes.cuts < MaxCuts /\ Spend("cuts")
                /\ IF apply[p].step \in {"copy", "manifest"} THEN Abandon(p)
                   ELSE apply' = [apply EXCEPT ![p] = None] /\ UNCHANGED orphans
                /\ UNCHANGED <<layervars, treevars, decisionvars, disturbed>>

KillDecision(q) == /\ decision[q] # None /\ changes.cuts < MaxCuts /\ Spend("cuts")
                   /\ decision' = [decision EXCEPT ![q] = None]
                   /\ overlap' = overlap \cup {decision[q].id}
                   /\ UNCHANGED <<layervars, treevars, apply, proposal, disturbed, orphans>>

PresetsNext ==
  \/ \E i \in Items : \/ \E l \in Layers : Put(l, i) \/ Edit(l, i)
                      \/ Disable(i) \/ Track(i)
  \/ ChangeTexts \/ AddHook \/ Spoil
  \/ \E p \in Appliers : \/ BeginApply(p) \/ DropStale(p) \/ WriteManifest(p)
                         \/ SyncTexts(p) \/ ReadHooks(p) \/ SyncHooks(p) \/ KillApply(p)
                         \/ \E i \in Items : Copy(p, i)
  \/ \E d \in Proposals : \/ \E l \in Targets, i \in Items, delete \in BOOLEAN :
                               Propose(d, l, i, delete)
                          \/ \E q \in Deciders, accept \in BOOLEAN : LoadProposal(q, d, accept)
  \/ \E q \in Deciders : WriteTarget(q) \/ SaveProposal(q) \/ KillDecision(q)

PresetsSpec == PresetsInit /\ [][PresetsNext]_presetvars

-----------------------------------------------------------------------------
PresetsTypeOK ==
  /\ has \in [Layers -> SUBSET Items] /\ extra \in BOOLEAN
  /\ tree \in [Items -> Copies]
  /\ off \cup tracked \cup manifest \cup orphans \subseteq Items
  /\ block \in BOOLEAN /\ override \in {"none", "theirs", "ours"}
  /\ claude \in Settings
  /\ apply \in [Appliers -> {None} \cup Applies]
  /\ \A p \in Applying :
       /\ apply[p].now \cap (apply[p].todo \cup apply[p].tracked) = {}
       /\ (apply[p].read = None) = (apply[p].step # "merge")
  /\ proposal \in [Proposals -> {None} \cup Changes]
  /\ decision \in [Deciders -> {None} \cup Decisions]
  /\ \A q \in Deciders : decision[q] # None =>
       /\ proposal[decision[q].id] # None
       /\ decision[q].step = "write" => decision[q].accept
  /\ changes \in [changes : 0..MaxChanges, cuts : 0..MaxCuts, applies : 0..MaxApplies]
  /\ disturbed \subseteq Appliers /\ overlap \subseteq Proposals

(* An apply that nothing disturbs leaves in the worktree what the layers     *)
(* give it, whole, and nothing of what they do not; beside it lies what the  *)
(* repository tracks, and in a skill's folder what an earlier layer or       *)
(* version of that skill had more (copy_tree removes nothing).  Excepted are *)
(* the copies of an apply that was cut off before it listed them or that     *)
(* overlapped one, and those that git had put a tracked skill over.          *)
Applied(p) == apply[p] # None /\ apply[p].step = "merge" /\ apply'[p] = None
              /\ changes'.cuts = changes.cuts /\ p \notin disturbed

Given(i) == IF i \in merged_items
            THEN tree[i].copy = Source(i) /\ (tree[i].rest = {} \/ i \in Skills)
            ELSE tree[i] = Absent

CopiesCurrent ==
  [][\A p \in Appliers : Applied(p) =>
       \A i \in Items \ (tracked' \cup orphans') : Given(i)']_presetvars

(* It merges the layers' hooks once, whatever it merged before, and keeps    *)
(* the user's.  Settings that were not JSON are replaced, with the user's    *)
(* hooks in them, if there is a hook to merge (custom.rs:313).               *)
HooksOnce ==
  [][\A p \in Appliers : Applied(p) =>
       /\ claude'.form = "json" => claude'.count["preset"] = (IF extra THEN 1 ELSE 0)
       /\ claude.form = "json" => /\ claude'.form = "json"
                                  /\ claude'.count["mine"] = claude.count["mine"]
       /\ claude.form # "json" /\ ~extra => claude' = claude]_presetvars

(* No apply replaces what the repository tracks, unless the repository began *)
(* to track it meanwhile or git failed to list it (custom.rs:160).           *)
TrackedKept ==
  [][\A i \in tracked \cap tracked' :
       tree[i].copy = "own" /\ tree'[i].copy # "own"
         => \E p \in Applying : i \notin apply[p].tracked]_presetvars

(* What the user has rejected is not written any more, unless two decisions  *)
(* overlap or one is cut off.                                                *)
RejectionHolds ==
  [][\A q \in Deciders :
       decision[q] # None /\ decision[q].step = "write" /\ has' # has
         /\ decision'[q] # decision[q] /\ decision[q].id \notin overlap
       => proposal[decision[q].id].state = "pending"]_presetvars

(* What presets may do to a repository: nothing to what it tracks, once to   *)
(* its settings, what the layers give to the rest, and no proposal the user  *)
(* rejected (custom.rs, proposal.rs).                                        *)
PresetsKept == []PresetsTypeOK /\ TrackedKept /\ CopiesCurrent /\ HooksOnce /\ RejectionHolds
=============================================================================
