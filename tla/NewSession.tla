----------------------------- MODULE NewSession -----------------------------
(***************************************************************************)
(* The tray flyout's New Session form, flyout.rs and flyout_new.rs.  The   *)
(* form lives on the UI thread; its lists and the create run on threads of *)
(* their own and post their results back (Bg), which say what repo or id   *)
(* they are about but not which form asked.  A select is a native menu: a  *)
(* message loop of its own, in which results are handled while the choices *)
(* shown stay those of when it was dropped.                                *)
(*                                                                         *)
(* A branch, an issue is told apart by the repo it is of; a name is one    *)
(* that can be created or only a prefix; prompt, account and looks are     *)
(* left out.                                                               *)
(***************************************************************************)
EXTENDS Naturals, Sequences, FiniteSets

CONSTANTS Repos,      \* slugs, in the order of repos::all
          Names,      \* names that pass branch_error
          Platforms, DefaultPlatform,
          Unset,
          MaxForms,   \* bound: forms opened
          MaxActs     \* bound: what the user does in them

ASSUME NewSessionAssumption ==
  /\ DefaultPlatform \in [Repos -> Platforms] /\ Unset \notin Repos \cup Names \cup Platforms
  /\ Names # {}
  /\ MaxForms \in Nat /\ MaxActs \in Nat

VARIABLES
  visible,   \* whether the flyout is shown
  form,      \* the open form, or NoForm
  menu,      \* the menu that is down: its field and its options
  lastRepo,  \* Fly.last_repo
  bg,        \* results under way
  forms,     \* forms opened so far
  acts,
  worktrees, \* the platform each worktree there is was made on, by id
  told,      \* history: how the end of each form's creates was shown
  abandoned, \* history: a form was left while its create ran
  crossed    \* history: a repo list reached another form than the one that asked for it

nvars == <<visible, form, menu, lastRepo, bg, forms, acts, worktrees, told, abandoned, crossed>>

Kinds == {"branch", "plan", "delegator"}
NoForm == [n |-> 0]
Open == form.n # 0

(* Form::new. *)
Fresh(n) ==
  [n |-> n, kind |-> "branch", repos |-> FALSE, repo |-> Unset, name |-> Unset, base |-> Unset,
   branches |-> Unset, issues |-> Unset, issue |-> Unset, platforms |-> FALSE, platform |-> Unset,
   existing |-> DOMAIN worktrees, busy |-> FALSE, error |-> FALSE]

Uses(f, fld) == IF fld = "repo" THEN f.kind # "plan" ELSE f.kind = "branch"

(* `<slug>/<name>`, or Unset. *)
Id(f) ==
  CASE f.kind = "branch" -> IF f.repo = Unset THEN Unset ELSE <<f.repo, f.name>>
    [] f.kind = "plan" -> <<"plan", f.name>>
    [] f.kind = "delegator" -> IF f.repo = Unset THEN Unset ELSE <<"delegate", f.repo>>

Exists(f) == Id(f) \in f.existing

(* can_create, with the notes that are no warnings. *)
CanCreate(f) ==
  /\ ~f.busy
  /\ Uses(f, "repo") => f.repos /\ f.repo # Unset
  /\ f.kind # "delegator" => f.name # Unset
  /\ Uses(f, "base") => f.base = Unset \/ f.branches = Unset \/ f.base = f.branches

(* agent_args: an existing worktree opens where it lives, so no platform is named for it. *)
Args(f) ==
  [base |-> IF f.kind = "branch" THEN f.base ELSE Unset,
   issue |-> IF f.kind = "branch" THEN f.issue ELSE Unset,
   platform |-> IF f.kind = "branch" /\ ~Exists(f) THEN f.platform ELSE Unset]

Job(f) == [what |-> "created", form |-> f.n, id |-> Id(f), args |-> Args(f), ok |-> FALSE, done |-> FALSE]

List(what, f, slug) == [what |-> what, form |-> f.n, slug |-> slug]

\* mutant: keeps the issue and the base of the repo it was
SetRepoKeeps(f, slug) ==
  IF f.repo = slug THEN f
  ELSE [f EXCEPT !.repo = slug, !.branches = Unset, !.issues = Unset,
                 !.platform = DefaultPlatform[slug]]

SetRepo(f, slug) ==
  IF f.repo = slug THEN f
  ELSE [f EXCEPT !.repo = slug, !.base = Unset, !.branches = Unset, !.issues = Unset,
                 !.issue = Unset, !.platform = DefaultPlatform[slug]]

(* load_repo, of the repo form f has now. *)
Loads(f) == {List("branches", f, f.repo), List("issues", f, f.repo)}

Acts == acts < MaxActs /\ acts' = acts + 1
Quiet == UNCHANGED <<told, abandoned, crossed>>

-----------------------------------------------------------------------------
(* The flyout. *)

ShowForm ==
      /\ ~visible /\ Acts /\ visible' = TRUE
      /\ UNCHANGED <<form, menu, lastRepo, bg, forms, worktrees>> /\ Quiet

\* mutant: also drops a form that is creating
HideDropsAll ==
  /\ visible /\ Acts /\ visible' = FALSE /\ menu' = Unset /\ form' = NoForm
  /\ UNCHANGED <<lastRepo, bg, forms, worktrees>> /\ Quiet

\* mutant: never drops a form
HideDropsNone ==
  /\ visible /\ Acts /\ visible' = FALSE /\ menu' = Unset
  /\ UNCHANGED <<form, lastRepo, bg, forms, worktrees>> /\ Quiet

(* toggle, Esc in the list, or the focus lost: drops the form unless it is creating. *)
Hide ==
  /\ visible /\ Acts /\ visible' = FALSE /\ menu' = Unset
  /\ form' = IF Open /\ ~form.busy THEN NoForm ELSE form
  /\ UNCHANGED <<lastRepo, bg, forms, worktrees>> /\ Quiet

(* tray::FLEET changed. *)
RefreshForm ==
      /\ Open /\ form.existing # DOMAIN worktrees
      /\ form' = [form EXCEPT !.existing = DOMAIN worktrees]
      /\ UNCHANGED <<visible, menu, lastRepo, bg, forms, acts, worktrees>> /\ Quiet

OpenForm ==
  /\ visible /\ ~Open /\ menu = Unset /\ forms < MaxForms /\ forms' = forms + 1
  /\ form' = Fresh(forms + 1)
  /\ bg' = bg \cup {List("repos", form', Unset), List("platforms", form', Unset)}
  /\ UNCHANGED <<visible, menu, lastRepo, acts, worktrees>> /\ Quiet

(* Esc and Back: also while the create runs. *)
Leave ==
  /\ visible /\ Open /\ menu = Unset /\ Acts
  /\ form' = NoForm
  /\ abandoned' = (abandoned \/ form.busy)
  /\ UNCHANGED <<visible, menu, lastRepo, bg, forms, worktrees, told, crossed>>

(* The VS Code wizard instead: leaves the form, then hides. *)
Wizard ==
  /\ visible /\ Open /\ menu = Unset /\ Acts
  /\ form' = NoForm /\ visible' = FALSE
  /\ abandoned' = (abandoned \/ form.busy)
  /\ UNCHANGED <<menu, lastRepo, bg, forms, worktrees, told, crossed>>

-----------------------------------------------------------------------------
(* Filling the form. *)

Edits(f) ==
  /\ visible /\ Open /\ menu = Unset /\ Acts /\ f # form /\ form' = f
  /\ UNCHANGED <<visible, menu, lastRepo, bg, forms, worktrees>> /\ Quiet

SetKind(k) == Edits([form EXCEPT !.kind = k])

(* Typing, or a prefix put in front. *)
TypeName(name) == Edits([form EXCEPT !.name = name])

Fields == {"repo", "base", "platform", "issue"}

Options(fld) ==
  CASE fld = "repo" -> IF form.repos THEN Repos ELSE {}
    [] fld = "base" -> {Unset, form.branches}
    [] fld = "issue" -> {Unset, form.issues}
    [] fld = "platform" -> IF form.platforms THEN Platforms ELSE {}

(* open_select: the options are the form's of now. *)
OpenSelect(fld) ==
  /\ visible /\ Open /\ menu = Unset /\ Acts
  /\ Uses(form, fld)
  /\ menu' = [field |-> fld, options |-> Options(fld)]
  /\ UNCHANGED <<visible, form, lastRepo, bg, forms, worktrees>> /\ Quiet

(* An issue picked while the name is only a prefix proposes one. *)
SetIssue(f, i) ==
  [f EXCEPT !.issue = i, !.name = IF i # Unset /\ @ = Unset THEN CHOOSE m \in Names : TRUE ELSE @]

(* choose, on whatever form is open when the menu returns. *)
Chosen(f, fld, c) ==
  CASE fld = "repo" -> SetRepo(f, c)
    [] fld = "base" -> [f EXCEPT !.base = c]
    [] fld = "issue" -> SetIssue(f, c)
    [] fld = "platform" -> [f EXCEPT !.platform = c]

Pick(c) ==
  /\ menu # Unset /\ c \in menu.options /\ menu' = Unset
  /\ IF Open
     THEN /\ form' = Chosen(form, menu.field, c)
          /\ bg' = IF form'.repo # form.repo THEN bg \cup Loads(form') ELSE bg
     ELSE UNCHANGED <<form, bg>>
  /\ UNCHANGED <<visible, lastRepo, forms, acts, worktrees>> /\ Quiet

Cancel ==
  /\ menu # Unset /\ menu' = Unset
  /\ UNCHANGED <<visible, form, lastRepo, bg, forms, acts, worktrees>> /\ Quiet

\* mutant: does not look at busy
SubmitAgain ==
  /\ visible /\ Open /\ menu = Unset /\ Acts
  /\ CanCreate([form EXCEPT !.busy = FALSE])
  /\ form' = [form EXCEPT !.busy = TRUE, !.error = FALSE]
  /\ bg' = bg \cup {Job(form)}
  /\ UNCHANGED <<visible, menu, lastRepo, forms, worktrees>> /\ Quiet

Submit ==
  /\ visible /\ Open /\ menu = Unset /\ Acts
  /\ CanCreate(form)
  /\ form' = [form EXCEPT !.busy = TRUE, !.error = FALSE]
  /\ bg' = bg \cup {Job(form)}
  /\ UNCHANGED <<visible, menu, lastRepo, forms, worktrees>> /\ Quiet

-----------------------------------------------------------------------------
(* The threads, and what the UI thread makes of their results. *)

(* `wtd agent`: opens what exists where it lives, unless another platform is named. *)
Create(j) ==
  /\ j \in bg /\ j.what = "created" /\ ~j.done
  /\ LET fits == j.id \in DOMAIN worktrees /\ j.args.platform # Unset => worktrees[j.id] = j.args.platform
     IN \E ok \in {fits, FALSE} :
          /\ bg' = (bg \ {j}) \cup {[j EXCEPT !.done = TRUE, !.ok = ok]}
          /\ worktrees' = IF ok /\ j.id \notin DOMAIN worktrees
                          THEN [i \in DOMAIN worktrees \cup {j.id} |->
                                  IF i = j.id THEN j.args.platform ELSE worktrees[i]]
                          ELSE worktrees
  /\ UNCHANGED <<visible, form, menu, lastRepo, forms, acts>> /\ Quiet

Receives(b) == b \in bg /\ UNCHANGED <<visible, menu, forms, acts, worktrees, abandoned>>

(* The last repo, else the first there is. *)
Preset == IF lastRepo # Unset \/ Repos = {} THEN lastRepo ELSE CHOOSE r \in Repos : TRUE

(* Bg::Repos: the preset repo is selected, whatever was. *)
OnRepos(b) ==
  /\ b.what = "repos" /\ Receives(b)
  /\ IF Open
     THEN /\ form' = SetRepo([form EXCEPT !.repos = TRUE], Preset)
          /\ bg' = (bg \ {b}) \cup (IF Repos = {} THEN {} ELSE Loads(form'))
          /\ crossed' = (crossed \/ b.form # form.n)
     ELSE bg' = bg \ {b} /\ UNCHANGED <<form, crossed>>
  /\ UNCHANGED <<lastRepo, told>>

\* mutant: takes the branches and issues of any repo
OnListAny(b) ==
  /\ b.what \in {"platforms", "branches", "issues"} /\ Receives(b) /\ bg' = bg \ {b}
  /\ form' = IF ~Open THEN form
             ELSE CASE b.what = "platforms" -> [form EXCEPT !.platforms = TRUE]
                    [] b.what = "branches" -> [form EXCEPT !.branches = b.slug]
                    [] b.what = "issues" -> [form EXCEPT !.issues = b.slug]
  /\ UNCHANGED <<lastRepo, told, crossed>>

(* Bg::Platforms, Branches and Issues; a failed list is one that stays away. *)
OnList(b) ==
  /\ b.what \in {"platforms", "branches", "issues"} /\ Receives(b) /\ bg' = bg \ {b}
  /\ form' = IF ~Open \/ (b.what # "platforms" /\ b.slug # form.repo) THEN form
             ELSE CASE b.what = "platforms" -> [form EXCEPT !.platforms = TRUE]
                    [] b.what = "branches" -> [form EXCEPT !.branches = b.slug]
                    [] b.what = "issues" -> [form EXCEPT !.issues = b.slug]
  /\ UNCHANGED <<lastRepo, told, crossed>>

(* By form n, or by a dialog or the session's window: 0. *)
Tell(b, n) == told' = told \cup {<<b.form, n>>}

\* mutant: leaves the form locked after an error
OnErrorLocked(b) ==
  /\ b.what = "created" /\ b.done /\ ~b.ok /\ Receives(b) /\ bg' = bg \ {b}
  /\ form' = IF Open THEN [form EXCEPT !.error = TRUE] ELSE form
  /\ Tell(b, IF Open /\ visible THEN form.n ELSE 0)
  /\ UNCHANGED <<lastRepo, crossed>>

(* Bg::Created(Err): unlocks the form that is open; a dialog if none is seen. *)
OnError(b) ==
  /\ b.what = "created" /\ b.done /\ ~b.ok /\ Receives(b) /\ bg' = bg \ {b}
  /\ form' = IF Open THEN [form EXCEPT !.busy = FALSE, !.error = TRUE] ELSE form
  /\ Tell(b, IF Open /\ visible THEN form.n ELSE 0)
  /\ UNCHANGED <<lastRepo, crossed>>

(* Bg::Created(Ok): remembers the repo of the form that is open, closes it, opens the session. *)
OnCreated(b) ==
  /\ b.what = "created" /\ b.done /\ b.ok /\ Receives(b) /\ bg' = bg \ {b}
  /\ lastRepo' = IF Open /\ form.repo # Unset THEN form.repo ELSE lastRepo
  /\ form' = NoForm
  /\ Tell(b, 0)
  /\ UNCHANGED crossed

-----------------------------------------------------------------------------
NInit ==
  /\ visible = FALSE /\ form = NoForm /\ menu = Unset /\ lastRepo = Unset /\ bg = {}
  /\ forms = 0 /\ acts = 0 /\ worktrees = <<>> /\ told = {}
  /\ abandoned = FALSE /\ crossed = FALSE

Results == \E b \in bg : OnRepos(b) \/ OnList(b) \/ OnError(b) \/ OnCreated(b)

NNext ==
  \/ ShowForm \/ Hide \/ RefreshForm \/ OpenForm \/ Leave \/ Wizard
  \/ \E k \in Kinds : SetKind(k)
  \/ \E name \in Names \cup {Unset} : TypeName(name)
  \/ \E fld \in Fields : OpenSelect(fld)
  \/ \E c \in Repos \cup Platforms \cup {Unset} : Pick(c)
  \/ Cancel \/ Submit
  \/ \E j \in bg : Create(j)
  \/ Results

(* The threads end and the message loop handles what they post; a user ends a menu. *)
NFair == WF_nvars(\E j \in bg : Create(j)) /\ WF_nvars(Results)

NSpec == NInit /\ [][NNext]_nvars /\ NFair

-----------------------------------------------------------------------------
(* A menu is down only where the flyout is shown, and its field is one of the form's. *)
FormTypeOK ==
  /\ visible \in BOOLEAN
  /\ forms \in 0..MaxForms /\ acts \in 0..MaxActs
  /\ Open => /\ form.n \in 1..forms /\ form.kind \in Kinds
             /\ {form.repo, form.base, form.branches, form.issues, form.issue} \subseteq Repos \cup {Unset}
             /\ form.name \in Names \cup {Unset} /\ form.platform \in Platforms \cup {Unset}
             /\ form.existing \subseteq DOMAIN worktrees
             /\ form.repos /\ Repos # {} => form.repo # Unset
  /\ menu # Unset => visible /\ menu.field \in Fields
                     /\ menu.options \subseteq Repos \cup Platforms \cup {Unset}
  /\ lastRepo \in Repos \cup {Unset}
  /\ \A b \in bg : b.form \in 1..forms
  /\ \A i \in DOMAIN worktrees : worktrees[i] \in Platforms \cup {Unset}
  /\ told \subseteq (1..forms) \X (0..forms)

Running(n) == {b \in bg : b.what = "created" /\ b.form = n}

(* A form is locked exactly while its own create is under way, so there is never a second one; a
   form left while it was creating lets its result unlock another. *)
LockedWhileCreating ==
  ~abandoned =>
    /\ Open => (form.busy <=> Running(form.n) # {}) /\ Cardinality(Running(form.n)) <= 1
    /\ \A b \in bg : b.what = "created" => Open /\ b.form = form.n

(* The lists a form shows are of its repo, whatever was still loading when the repo changed. *)
ListsOfRepo == Open => form.branches \in {Unset, form.repo} /\ form.issues \in {Unset, form.repo}

(* What a create was asked to branch from and to work on is of the repo it is created in, also when
   the choice came from a menu that was down while results arrived. *)
JobOfOneRepo ==
  \A b \in bg : b.what = "created" /\ b.id[1] \in Repos =>
    crossed \/ (b.args.base \in {Unset, b.id[1]} /\ b.args.issue \in {Unset, b.id[1]})

(* "Closing drops an unsubmitted form; one that's creating stays, to show its outcome"
   (flyout.rs:286): a hidden form is creating, or failed. *)
HiddenFormIsBusy == ~visible /\ Open => form.busy \/ form.error

(* An error is shown by the form that asked, or in a dialog; only a form that was left while it was
   creating can have it shown by the next. *)
ErrorShownByItsForm ==
  \A t \in told : t[2] \in {0, t[1]} \/ abandoned

(* A create under way keeps its form to the end, but for the user leaving it: a form is closed by a
   result only if it is the result it waits for. *)
ClosedByItsOwn ==
  [][Open /\ form'.n = 0 /\ acts' = acts => abandoned \/ (form.busy /\ Running(form.n) \cap bg' = {})]_nvars

(* A locked form is unlocked or closed in the end. *)
Unlocks == []<>~(Open /\ form.busy)

(* The form, its lists and the create it waits for belong together, whatever results arrive when
   (flyout.rs:286-320, 1376, 1480). *)
FormTrue ==
  FormTypeOK /\ LockedWhileCreating /\ ListsOfRepo /\ JobOfOneRepo /\ HiddenFormIsBusy /\ ErrorShownByItsForm

(* A create closes no form but its own, and leaves none locked. *)
FormReleased == ClosedByItsOwn /\ Unlocks
=============================================================================
