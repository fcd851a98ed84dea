-------------------------- MODULE InterfaceProofs --------------------------
(***************************************************************************)
(* Safety of the interfaces, for any number of repos, sessions, trays and  *)
(* terminals: the New Session form (FormTrue, ClosedByItsOwn), the tray    *)
(* icon (TrayObeys, and that it is alone) and the terminal interface       *)
(* (KeysWhereMeant).  Each part states its inductive invariant, then what  *)
(* one step after the other leaves of it.                                  *)
(***************************************************************************)
EXTENDS NewSession, Tray, Tui, FiniteSetTheorems, TLAPS

-----------------------------------------------------------------------------
(* The New Session form                                                      *)

Slugs == Repos \cup {Unset}

SessionIds == (Repos \X Names) \cup ({"plan"} \X Names) \cup ({"delegate"} \X Repos)

FormRecords ==
  [n : Nat, kind : Kinds, repos : BOOLEAN, repo : Slugs, name : Names \cup {Unset}, base : Slugs,
   branches : Slugs, issues : Slugs, issue : Slugs, platforms : BOOLEAN, platform : Platforms \cup {Unset},
   existing : SUBSET SessionIds, busy : BOOLEAN, error : BOOLEAN]

Asked == [base : Slugs, issue : Slugs, platform : Platforms \cup {Unset}]

Lists == [what : {"repos", "platforms", "branches", "issues"}, form : Nat, slug : Slugs]

Jobs == [what : {"created"}, form : Nat, id : SessionIds, args : Asked, ok : BOOLEAN, done : BOOLEAN]

(* What the form says of itself: its lists are of its repo.                  *)
FormOK(f) ==
  /\ f \in FormRecords
  /\ f.repos /\ Repos # {} => f.repo # Unset
  /\ f.branches \in {Unset, f.repo} /\ f.issues \in {Unset, f.repo}

Counted ==
  /\ visible \in BOOLEAN /\ abandoned \in BOOLEAN /\ crossed \in BOOLEAN
  /\ forms \in 0..MaxForms /\ acts \in 0..MaxActs /\ lastRepo \in Slugs
  /\ DOMAIN worktrees \subseteq SessionIds
  /\ \A i \in DOMAIN worktrees : worktrees[i] \in Platforms \cup {Unset}
  /\ told \subseteq (1..forms) \X (0..forms)

FormFits ==
  form = NoForm \/ (FormOK(form) /\ form.n \in 1..forms /\ form.existing \subseteq DOMAIN worktrees)

MenuFits ==
  menu # Unset =>
    /\ visible /\ menu.field \in Fields
    /\ menu.field = "repo" => menu.options \subseteq Repos
    /\ menu.field \in {"base", "issue"} => menu.options \subseteq Slugs
    /\ menu.field = "platform" => menu.options \subseteq Platforms

ResultsFit ==
  \A b \in bg : /\ b \in Jobs \/ (b \in Lists /\ (b.what \in {"repos", "platforms"} => b.slug = Unset))
                /\ b.form \in 1..forms

(* The form that is open waits for the one create there is, until one is     *)
(* left while it creates.                                                    *)
Waits ==
  ~abandoned =>
    /\ \A b \in bg : b.what = "created" => Open /\ b.form = form.n /\ form.busy
    /\ Open /\ form.busy => \E b \in bg : b.what = "created"
    /\ \A b, c \in bg : b.what = "created" /\ c.what = "created" => b = c

(* Why a create is of one repo: what the form has chosen, and what a menu    *)
(* that is down can still choose, is of the form's repo; the list of repos   *)
(* comes once, before there is anything to choose from.                      *)
OneRepo ==
  ~crossed =>
    /\ Open => form.base \in {Unset, form.repo} /\ form.issue \in {Unset, form.repo}
    /\ Open /\ menu # Unset =>
         /\ menu.field \in {"base", "issue"} => menu.options \subseteq {Unset, form.repo}
         /\ menu.field = "repo" /\ menu.options # {} => form.repos
    /\ \A b \in bg : b.what = "repos" /\ Open /\ b.form = form.n => ~form.repos /\ form.repo = Unset

FormInv ==
  /\ Counted /\ FormFits /\ MenuFits /\ ResultsFit /\ Waits /\ OneRepo
  /\ JobOfOneRepo /\ HiddenFormIsBusy /\ ErrorShownByItsForm

LEMMA OpenFits == FormFits => (Open => FormOK(form) /\ form.n \in 1..forms /\ form.existing \subseteq DOMAIN worktrees)
  BY DEF FormFits, Open, NoForm

LEMMA ClosedIsNone == ASSUME form' = NoForm PROVE FormFits' /\ ~Open'
  <1>1. FormFits'
    BY DEF FormFits
  <1>2. form'.n = 0
    BY DEF NoForm
  <1> QED BY <1>1, <1>2 DEF Open

LEMMA AtMostOne ==
  ASSUME NEW S, \A b, c \in S : b = c
  PROVE  Cardinality(S) <= 1
  <1>1. CASE S = {}
    BY <1>1, FS_EmptySet
  <1>2. CASE S # {}
    <2>1. PICK b \in S : TRUE
      BY <1>2
    <2>2. S = {b}
      BY <2>1
    <2> QED BY <2>2, FS_Singleton
  <1> QED BY <1>1, <1>2

LEMMA FormInvTrue == FormInv => FormTrue
  <1> SUFFICES ASSUME FormInv PROVE FormTrue
    OBVIOUS
  <1> USE DEF FormInv
  <1>1. FormTypeOK
    <2>1. Open => /\ form.n \in 1..forms /\ form.kind \in Kinds
                  /\ {form.repo, form.base, form.branches, form.issues, form.issue} \subseteq Repos \cup {Unset}
                  /\ form.name \in Names \cup {Unset} /\ form.platform \in Platforms \cup {Unset}
                  /\ form.existing \subseteq DOMAIN worktrees
                  /\ form.repos /\ Repos # {} => form.repo # Unset
      BY OpenFits DEF FormOK, FormRecords, Slugs
    <2>2. menu # Unset => visible /\ menu.field \in Fields
                          /\ menu.options \subseteq Repos \cup Platforms \cup {Unset}
      BY DEF MenuFits, Slugs, Fields
    <2>3. \A b \in bg : b.form \in 1..forms
      BY DEF ResultsFit
    <2> QED BY <2>1, <2>2, <2>3 DEF Counted, FormTypeOK, Slugs
  <1>2. LockedWhileCreating
    <2> SUFFICES ASSUME ~abandoned
                 PROVE  /\ Open => (form.busy <=> Running(form.n) # {}) /\ Cardinality(Running(form.n)) <= 1
                        /\ \A b \in bg : b.what = "created" => Open /\ b.form = form.n
      BY DEF LockedWhileCreating
    <2>1. \A b, c \in Running(form.n) : b = c
      BY DEF Waits, Running
    <2>2. Cardinality(Running(form.n)) <= 1
      BY <2>1, AtMostOne
    <2>3. Open => (form.busy <=> Running(form.n) # {})
      BY DEF Waits, Running
    <2> QED BY <2>2, <2>3 DEF Waits
  <1>3. ListsOfRepo
    BY OpenFits DEF FormOK, ListsOfRepo
  <1> QED BY <1>1, <1>2, <1>3 DEF FormTrue

LEMMA InitForm == NInit => FormInv
  <1> SUFFICES ASSUME NInit PROVE FormInv
    OBVIOUS
  <1>1. Counted
    <2>1. DOMAIN worktrees = {}
      BY DEF NInit
    <2>2. visible \in BOOLEAN /\ abandoned \in BOOLEAN /\ crossed \in BOOLEAN
      BY DEF NInit
    <2>3. forms \in 0..MaxForms /\ acts \in 0..MaxActs /\ lastRepo \in Slugs
      BY NewSessionAssumption DEF NInit, Slugs
    <2> QED BY <2>1, <2>2, <2>3 DEF NInit, Counted
  <1>2. FormFits /\ ~Open
    <2>1. form = NoForm
      BY DEF NInit
    <2>2. form.n = 0
      BY <2>1 DEF NoForm
    <2> QED BY <2>1, <2>2 DEF FormFits, Open
  <1>3. MenuFits /\ ResultsFit /\ Waits /\ OneRepo
    BY <1>2 DEF NInit, MenuFits, ResultsFit, Waits, OneRepo
  <1>4. JobOfOneRepo /\ HiddenFormIsBusy /\ ErrorShownByItsForm
    BY <1>2 DEF NInit, JobOfOneRepo, HiddenFormIsBusy, ErrorShownByItsForm
  <1> QED BY <1>1, <1>2, <1>3, <1>4 DEF FormInv

-----------------------------------------------------------------------------
(* The parts a step leaves alone.                                            *)
LEMMA SameForm ==
  ASSUME UNCHANGED <<form, forms, worktrees>>, FormFits
  PROVE  FormFits' /\ (Open' <=> Open)
  BY DEF FormFits, FormOK, Open

LEMMA SameResults ==
  ASSUME ResultsFit, UNCHANGED <<bg, forms>>
  PROVE  ResultsFit'
  BY DEF ResultsFit

LEMMA SameJobs ==
  ASSUME JobOfOneRepo, UNCHANGED <<bg, crossed>>
  PROVE  JobOfOneRepo'
  BY DEF JobOfOneRepo

LEMMA SameTold ==
  ASSUME ErrorShownByItsForm, UNCHANGED told, abandoned => abandoned'
  PROVE  ErrorShownByItsForm'
  BY DEF ErrorShownByItsForm

(* A form that goes, or none: only the results remain.                       *)
LEMMA NoFormLeft ==
  ASSUME FormInv, form' = NoForm, Counted', MenuFits', UNCHANGED <<bg, forms, told, crossed>>,
         abandoned => abandoned',
         ~abandoned' => ~Open \/ ~form.busy
  PROVE  FormInv'
  <1> USE DEF FormInv
  <1>1. FormFits' /\ ~Open'
    BY ClosedIsNone
  <1>2. ResultsFit' /\ JobOfOneRepo' /\ ErrorShownByItsForm'
    BY SameResults, SameJobs, SameTold
  <1>3. Waits'
    BY <1>1 DEF Waits
  <1>4. OneRepo' /\ HiddenFormIsBusy'
    BY <1>1 DEF OneRepo, HiddenFormIsBusy
  <1> QED BY <1>1, <1>2, <1>3, <1>4

-----------------------------------------------------------------------------
(* The flyout comes and goes, with its form or without it.                   *)
LEMMA WindowForm ==
  ASSUME FormInv, ShowForm \/ Hide \/ RefreshForm \/ OpenForm \/ Leave \/ Wizard \/ Cancel
  PROVE  FormInv'
  <1> USE DEF FormInv
  <1>a. Counted'
    <2>1. visible' \in BOOLEAN /\ abandoned' \in BOOLEAN /\ crossed' \in BOOLEAN
      BY OpenFits DEF Counted, ShowForm, Hide, RefreshForm, OpenForm, Leave, Wizard, Cancel, Quiet, FormOK, FormRecords
    <2>2. acts' \in 0..MaxActs
      BY NewSessionAssumption DEF Counted, ShowForm, Hide, RefreshForm, OpenForm, Leave, Wizard, Cancel, Acts
    <2>3. forms' \in 0..MaxForms /\ forms <= forms'
      BY NewSessionAssumption DEF Counted, ShowForm, Hide, RefreshForm, OpenForm, Leave, Wizard, Cancel
    <2>4. UNCHANGED <<lastRepo, worktrees, told>>
      BY DEF ShowForm, Hide, RefreshForm, OpenForm, Leave, Wizard, Cancel, Quiet
    <2> QED BY <2>1, <2>2, <2>3, <2>4 DEF Counted
  <1>1. CASE ShowForm \/ Cancel
    <2>1. UNCHANGED <<form, bg, forms, worktrees, told, abandoned, crossed>>
      BY <1>1 DEF ShowForm, Cancel, Quiet
    <2>2. FormFits' /\ (Open' <=> Open) /\ ResultsFit' /\ JobOfOneRepo' /\ ErrorShownByItsForm'
      BY <2>1, SameForm, SameResults, SameJobs, SameTold
    <2>3. MenuFits'
      BY <1>1 DEF ShowForm, Cancel, MenuFits
    <2>4. Waits' /\ HiddenFormIsBusy' /\ OneRepo'
      BY <1>1, <2>1, <2>2 DEF ShowForm, Cancel, Waits, HiddenFormIsBusy, OneRepo
    <2> QED BY <1>a, <2>2, <2>3, <2>4
  <1>2. CASE Hide
    <2>1. menu' = Unset /\ UNCHANGED <<bg, forms, worktrees, told, abandoned, crossed>>
      BY <1>2 DEF Hide, Quiet
    <2>2. MenuFits'
      BY <2>1 DEF MenuFits
    <2>3. CASE Open /\ ~form.busy
      BY <1>2, <1>a, <2>1, <2>2, <2>3, NoFormLeft DEF Hide
    <2>4. CASE ~Open \/ form.busy
      <3>1. form' = form
        BY <1>2, <2>4 DEF Hide
      <3>2. FormFits' /\ (Open' <=> Open) /\ ResultsFit' /\ JobOfOneRepo' /\ ErrorShownByItsForm'
        BY <2>1, <3>1, SameForm, SameResults, SameJobs, SameTold
      <3>3. Waits' /\ OneRepo'
        BY <2>1, <3>1, <3>2 DEF Waits, OneRepo
      <3>4. HiddenFormIsBusy'
        BY <2>4, <3>1, <3>2 DEF HiddenFormIsBusy
      <3> QED BY <1>a, <2>2, <3>2, <3>3, <3>4
    <2> QED BY <2>3, <2>4
  <1>3. CASE RefreshForm
    <2>1. UNCHANGED <<visible, menu, bg, forms, worktrees, told, abandoned, crossed>>
      BY <1>3 DEF RefreshForm, Quiet
    <2>2. Open /\ FormOK(form) /\ form.n \in 1..forms /\ DOMAIN worktrees \subseteq SessionIds
      BY <1>3, OpenFits DEF RefreshForm, Counted
    <2>3. form' = [form EXCEPT !.existing = DOMAIN worktrees]
      BY <1>3 DEF RefreshForm
    <2>4. /\ form' \in FormRecords /\ form'.existing = DOMAIN worktrees /\ form'.n = form.n
          /\ form'.repos = form.repos /\ form'.repo = form.repo /\ form'.branches = form.branches
          /\ form'.issues = form.issues /\ form'.base = form.base /\ form'.issue = form.issue
          /\ form'.busy = form.busy /\ form'.error = form.error
      BY <2>2, <2>3 DEF FormOK, FormRecords
    <2>5. FormFits' /\ Open'
      BY <2>1, <2>2, <2>4 DEF FormFits, FormOK, Open
    <2>6. ResultsFit' /\ JobOfOneRepo' /\ ErrorShownByItsForm' /\ MenuFits'
      BY <2>1, SameResults, SameJobs, SameTold DEF MenuFits
    <2>7. Waits' /\ HiddenFormIsBusy' /\ OneRepo'
      BY <2>1, <2>2, <2>4, <2>5 DEF Waits, HiddenFormIsBusy, OneRepo
    <2> QED BY <1>a, <2>5, <2>6, <2>7
  <1>4. CASE OpenForm
    <2> DEFINE f == Fresh(forms + 1)
               new == {List("repos", f, Unset), List("platforms", f, Unset)}
    <2>1. /\ ~Open /\ menu = Unset /\ visible /\ forms' = forms + 1 /\ form' = f /\ bg' = bg \cup new
          /\ UNCHANGED <<visible, menu, worktrees, told, abandoned, crossed>>
      BY <1>4 DEF OpenForm, Quiet
    <2>2. /\ f.n = forms + 1 /\ ~f.repos /\ f.repo = Unset /\ f.branches = Unset /\ f.issues = Unset
          /\ f.base = Unset /\ f.issue = Unset /\ f.existing = DOMAIN worktrees /\ ~f.busy
      BY DEF Fresh
    <2>3. f \in FormRecords
      <3>1. forms + 1 \in Nat /\ DOMAIN worktrees \subseteq SessionIds
        BY NewSessionAssumption DEF Counted
      <3> QED BY <3>1 DEF Fresh, FormRecords, Slugs, Kinds
    <2>4. \A b \in new : /\ b \in Lists /\ b.form = forms + 1 /\ b.slug = Unset /\ b.what # "created"
      <3>1. forms + 1 \in Nat
        BY NewSessionAssumption DEF Counted
      <3> QED BY <2>2, <3>1 DEF List, Lists, Slugs
    <2>5. forms \in Nat /\ forms' \in Nat
      BY <2>1, NewSessionAssumption DEF Counted
    <2> HIDE DEF f, new
    <2>6. FormFits' /\ Open'
      BY <2>1, <2>2, <2>3, <2>5 DEF FormFits, FormOK, Open
    <2>7. ResultsFit'
      BY <2>1, <2>4, <2>5 DEF ResultsFit
    <2>8. MenuFits' /\ HiddenFormIsBusy' /\ ErrorShownByItsForm'
      BY <2>1, <2>6, SameTold DEF MenuFits, HiddenFormIsBusy
    <2>9. Waits'
      BY <2>1, <2>2, <2>4 DEF Waits
    <2>10. OneRepo'
      BY <2>1, <2>2 DEF OneRepo
    <2>11. JobOfOneRepo'
      BY <2>1, <2>4 DEF JobOfOneRepo
    <2> QED BY <1>a, <2>6, <2>7, <2>8, <2>9, <2>10, <2>11
  <1>5. CASE Leave \/ Wizard
    <2>1. /\ Open /\ menu = Unset /\ menu' = menu /\ form' = NoForm /\ abandoned' = (abandoned \/ form.busy)
          /\ UNCHANGED <<bg, forms, told, crossed>>
      BY <1>5 DEF Leave, Wizard
    <2>2. MenuFits'
      BY <2>1 DEF MenuFits
    <2> QED BY <1>a, <2>1, <2>2, NoFormLeft
  <1> QED BY <1>1, <1>2, <1>3, <1>4, <1>5

-----------------------------------------------------------------------------
(* The user fills the form; results fill its lists.                          *)

(* What locks and shows a form does not change with what is in it.           *)
LEMMA FormFilled ==
  ASSUME FormInv, Open, FormOK(form)',
         form'.n = form.n, form'.existing = form.existing, form'.busy = form.busy, form'.error = form.error,
         UNCHANGED <<visible, forms, worktrees, told, abandoned>>,
         \A b \in bg' : b \in bg \/ b.what # "created",
         \A b \in bg : b.what = "created" => b \in bg'
  PROVE  FormFits' /\ Open' /\ Waits' /\ HiddenFormIsBusy' /\ ErrorShownByItsForm'
  <1> USE DEF FormInv
  <1>1. form.n \in 1..forms /\ form.existing \subseteq DOMAIN worktrees
    BY OpenFits
  <1>2. FormFits'
    BY <1>1 DEF FormFits, FormOK
  <1>3. Open'
    BY DEF Open
  <1>4. Waits'
    BY <1>3 DEF Waits
  <1>5. HiddenFormIsBusy' /\ ErrorShownByItsForm'
    BY <1>3, SameTold DEF HiddenFormIsBusy
  <1> QED BY <1>2, <1>3, <1>4, <1>5

LEMMA NoNewCreate ==
  ASSUME JobOfOneRepo, crossed => crossed', \A b \in bg' : b \in bg \/ b.what # "created"
  PROVE  JobOfOneRepo'
  BY DEF JobOfOneRepo

(* SetRepo and choose, by what they leave.                                   *)
LEMMA SetRepoOK ==
  ASSUME NEW f \in FormRecords, NEW slug \in Slugs, slug \in Repos \/ slug = f.repo,
         f.branches \in {Unset, f.repo}, f.issues \in {Unset, f.repo}
  PROVE  LET g == SetRepo(f, slug)
         IN  /\ g \in FormRecords /\ g.repo = slug
             /\ g.branches \in {Unset, slug} /\ g.issues \in {Unset, slug}
             /\ g.n = f.n /\ g.existing = f.existing /\ g.busy = f.busy /\ g.error = f.error /\ g.repos = f.repos
             /\ g = f \/ (g.base = Unset /\ g.issue = Unset)
  <1>1. CASE f.repo = slug
    BY <1>1 DEF SetRepo
  <1>2. CASE f.repo # slug
    <2>1. slug \in Repos /\ DefaultPlatform[slug] \in Platforms
      BY <1>2, NewSessionAssumption
    <2>2. PICK p \in Platforms : p = DefaultPlatform[slug]
      BY <2>1
    <2>3. SetRepo(f, slug) = [f EXCEPT !.repo = slug, !.base = Unset, !.branches = Unset, !.issues = Unset,
                                       !.issue = Unset, !.platform = p]
      BY <1>2, <2>2 DEF SetRepo
    <2> QED BY <2>1, <2>3 DEF FormRecords, Slugs
  <1> QED BY <1>1, <1>2

LEMMA ChosenOK ==
  ASSUME NEW f, FormOK(f), NEW fld \in Fields, NEW c,
         fld = "repo" => c \in Repos, fld \in {"base", "issue"} => c \in Slugs,
         fld = "platform" => c \in Platforms
  PROVE  LET g == Chosen(f, fld, c)
         IN  /\ FormOK(g)
             /\ g.n = f.n /\ g.existing = f.existing /\ g.busy = f.busy /\ g.error = f.error /\ g.repos = f.repos
             /\ fld # "repo" => g.repo = f.repo
             /\ fld = "base" => g.base = c /\ g.issue = f.issue
             /\ fld = "issue" => g.issue = c /\ g.base = f.base
             /\ fld = "platform" => g.issue = f.issue /\ g.base = f.base
             /\ fld = "repo" => g = f \/ (g.base = Unset /\ g.issue = Unset)
  <1> DEFINE g == Chosen(f, fld, c)
  <1>0. f \in FormRecords
    BY DEF FormOK
  <1>1. CASE fld = "repo"
    <2>1. g = SetRepo(f, c) /\ c \in Slugs /\ c # Unset
      BY <1>1, NewSessionAssumption DEF Chosen, Slugs
    <2> QED BY <1>0, <1>1, <2>1, SetRepoOK DEF FormOK
  <1>2. CASE fld = "base"
    <2>1. g = [f EXCEPT !.base = c]
      BY <1>2 DEF Chosen
    <2> QED BY <1>0, <1>2, <2>1 DEF FormOK, FormRecords
  <1>3. CASE fld = "issue"
    <2>1. PICK m \in Names \cup {Unset} : g = [f EXCEPT !.issue = c, !.name = m]
      <3>1. (CHOOSE m \in Names : TRUE) \in Names
        BY NewSessionAssumption
      <3>2. g = [f EXCEPT !.issue = c,
                          !.name = IF c # Unset /\ @ = Unset THEN CHOOSE m \in Names : TRUE ELSE @]
        BY <1>3 DEF Chosen, SetIssue
      <3>3. f.name \in Names \cup {Unset}
        BY <1>0 DEF FormRecords
      <3> QED BY <3>1, <3>2, <3>3
    <2> QED BY <1>0, <1>3, <2>1 DEF FormOK, FormRecords
  <1>4. CASE fld = "platform"
    <2>1. g = [f EXCEPT !.platform = c]
      BY <1>4 DEF Chosen
    <2> QED BY <1>0, <1>4, <2>1 DEF FormOK, FormRecords
  <1> QED BY <1>1, <1>2, <1>3, <1>4 DEF Fields

LEMMA LoadsOK ==
  ASSUME NEW f \in FormRecords
  PROVE  \A b \in Loads(f) : b \in Lists /\ b.form = f.n /\ b.what \in {"branches", "issues"}
  BY DEF Loads, List, Lists, FormRecords

LEMMA EditsForm ==
  ASSUME FormInv, (\E k \in Kinds : SetKind(k)) \/ \E name \in Names \cup {Unset} : TypeName(name)
  PROVE  FormInv'
  <1> USE DEF FormInv
  <1>1. /\ visible /\ Open /\ menu = Unset /\ Acts
        /\ UNCHANGED <<visible, menu, lastRepo, bg, forms, worktrees, told, abandoned, crossed>>
    BY DEF SetKind, TypeName, Edits, Quiet
  <1>2. FormOK(form)
    BY <1>1, OpenFits
  <1>3. PICK k \in Kinds, name \in Names \cup {Unset} :
          form' = [form EXCEPT !.kind = k] \/ form' = [form EXCEPT !.name = name]
    BY DEF SetKind, TypeName, Edits, Kinds
  <1>4. /\ form' \in FormRecords /\ form'.existing = form.existing /\ form'.n = form.n
        /\ form'.repos = form.repos /\ form'.repo = form.repo /\ form'.branches = form.branches
        /\ form'.issues = form.issues /\ form'.base = form.base /\ form'.issue = form.issue
        /\ form'.busy = form.busy /\ form'.error = form.error
    BY <1>2, <1>3 DEF FormOK, FormRecords
  <1>5. FormOK(form)'
    BY <1>2, <1>4 DEF FormOK
  <1>6. FormFits' /\ Open' /\ Waits' /\ HiddenFormIsBusy' /\ ErrorShownByItsForm'
    BY <1>1, <1>4, <1>5, FormFilled
  <1>7. Counted'
    BY <1>1, NewSessionAssumption DEF Counted, Acts
  <1>8. MenuFits' /\ ResultsFit' /\ JobOfOneRepo'
    BY <1>1, SameResults, SameJobs DEF MenuFits
  <1>9. OneRepo'
    BY <1>1, <1>4, <1>6 DEF OneRepo
  <1> QED BY <1>6, <1>7, <1>8, <1>9

(* A menu drops with what the form has to choose from.                       *)
LEMMA SelectForm ==
  ASSUME FormInv, NEW fld \in Fields, OpenSelect(fld)
  PROVE  FormInv'
  <1> USE DEF FormInv
  <1>1. /\ visible /\ Open /\ menu = Unset /\ Acts /\ menu' = [field |-> fld, options |-> Options(fld)]
        /\ UNCHANGED <<visible, form, lastRepo, bg, forms, worktrees, told, abandoned, crossed>>
    BY DEF OpenSelect, Quiet
  <1>2. FormOK(form)
    BY <1>1, OpenFits
  <1>3. FormFits' /\ (Open' <=> Open) /\ ResultsFit' /\ JobOfOneRepo' /\ ErrorShownByItsForm'
    BY <1>1, SameForm, SameResults, SameJobs, SameTold
  <1>4. Waits' /\ HiddenFormIsBusy'
    BY <1>1, <1>3 DEF Waits, HiddenFormIsBusy
  <1>5. Counted'
    BY <1>1, NewSessionAssumption DEF Counted, Acts
  <1>6. menu'.field = fld /\ menu'.options = Options(fld)
    BY <1>1
  <1>7. /\ form.repo \in Slugs /\ form.branches \in {Unset, form.repo} /\ form.issues \in {Unset, form.repo}
    BY <1>2 DEF FormOK, FormRecords
  <1>8. /\ fld = "repo" => Options(fld) \subseteq Repos /\ (Options(fld) # {} => form.repos)
        /\ fld \in {"base", "issue"} => Options(fld) \subseteq {Unset, form.repo}
        /\ fld = "platform" => Options(fld) \subseteq Platforms
    BY <1>7 DEF Options
  <1>9. MenuFits'
    BY <1>1, <1>6, <1>7, <1>8 DEF MenuFits, Slugs
  <1>10. OneRepo'
    BY <1>1, <1>3, <1>6, <1>8 DEF OneRepo
  <1> QED BY <1>3, <1>4, <1>5, <1>9, <1>10

LEMMA PickForm ==
  ASSUME FormInv, NEW c, Pick(c)
  PROVE  FormInv'
  <1> USE DEF FormInv
  <1>1. /\ menu # Unset /\ c \in menu.options /\ menu' = Unset
        /\ UNCHANGED <<visible, lastRepo, forms, acts, worktrees, told, abandoned, crossed>>
    BY DEF Pick, Quiet
  <1>2. Counted' /\ MenuFits'
    BY <1>1 DEF Counted, MenuFits
  <1>3. CASE ~Open
    <2>1. UNCHANGED <<form, bg>>
      BY <1>3 DEF Pick
    <2>2. FormFits' /\ (Open' <=> Open) /\ ResultsFit' /\ JobOfOneRepo' /\ ErrorShownByItsForm'
      BY <1>1, <2>1, SameForm, SameResults, SameJobs, SameTold
    <2>3. Waits' /\ HiddenFormIsBusy' /\ OneRepo'
      BY <1>1, <1>3, <2>1, <2>2 DEF Waits, HiddenFormIsBusy, OneRepo
    <2> QED BY <1>2, <2>2, <2>3
  <1>4. CASE Open
    <2>1. form' = Chosen(form, menu.field, c) /\ bg' = IF form'.repo # form.repo THEN bg \cup Loads(form') ELSE bg
      BY <1>4 DEF Pick
    <2>2. PICK fld \in Fields : fld = menu.field
      BY <1>1 DEF MenuFits
    <2>3. /\ FormOK(form)
          /\ fld = "repo" => c \in Repos
          /\ fld \in {"base", "issue"} => c \in Slugs
          /\ fld = "platform" => c \in Platforms
      BY <1>1, <1>4, <2>2, OpenFits DEF MenuFits
    <2>4. /\ FormOK(form')
          /\ form'.n = form.n /\ form'.existing = form.existing /\ form'.busy = form.busy
          /\ form'.error = form.error /\ form'.repos = form.repos
          /\ fld # "repo" => form'.repo = form.repo
          /\ fld = "base" => form'.base = c /\ form'.issue = form.issue
          /\ fld = "issue" => form'.issue = c /\ form'.base = form.base
          /\ fld = "platform" => form'.issue = form.issue /\ form'.base = form.base
          /\ fld = "repo" => form' = form \/ (form'.base = Unset /\ form'.issue = Unset)
      BY <2>1, <2>2, <2>3, ChosenOK
    <2>5. \A b \in bg' : b \in bg \/ (b \in Lists /\ b.form = form.n /\ b.what \in {"branches", "issues"})
      <3>1. form' \in FormRecords
        BY <2>4 DEF FormOK
      <3> QED BY <2>1, <2>4, <3>1, LoadsOK
    <2>6. bg \subseteq bg'
      BY <2>1
    <2>7. FormFits' /\ Open' /\ Waits' /\ HiddenFormIsBusy' /\ ErrorShownByItsForm'
      <3>1. FormOK(form)'
        BY <2>4 DEF FormOK
      <3> QED BY <1>1, <1>4, <2>4, <2>5, <2>6, <3>1, FormFilled
    <2>8. form.n \in 1..forms
      BY <1>4, OpenFits
    <2>9. ResultsFit'
      BY <1>1, <2>5, <2>8 DEF ResultsFit
    <2>10. JobOfOneRepo'
      BY <1>1, <2>5, NoNewCreate
    <2>11. OneRepo'
      <3> SUFFICES ASSUME ~crossed
                   PROVE  /\ form'.base \in {Unset, form'.repo} /\ form'.issue \in {Unset, form'.repo}
                          /\ \A b \in bg' : b.what = "repos" /\ b.form = form'.n => ~form'.repos /\ form'.repo = Unset
        BY <1>1, <2>7 DEF OneRepo
      <3>1. /\ form.base \in {Unset, form.repo} /\ form.issue \in {Unset, form.repo}
            /\ fld \in {"base", "issue"} => c \in {Unset, form.repo}
            /\ fld = "repo" => form.repos
            /\ \A b \in bg : b.what = "repos" /\ b.form = form.n => ~form.repos /\ form.repo = Unset
        BY <1>1, <1>4, <2>2 DEF OneRepo
      <3>2. form'.base \in {Unset, form'.repo} /\ form'.issue \in {Unset, form'.repo}
        BY <2>4, <3>1 DEF Fields
      <3> QED BY <2>4, <2>5, <3>1, <3>2
    <2> QED BY <1>2, <2>7, <2>9, <2>10, <2>11
  <1> QED BY <1>3, <1>4

(* A form that locks or unlocks is the same form.                            *)
LEMMA LockOK ==
  ASSUME NEW f \in FormRecords, NEW b \in BOOLEAN, NEW e \in BOOLEAN
  PROVE  LET g == [f EXCEPT !.busy = b, !.error = e]
         IN  /\ g \in FormRecords /\ g.busy = b /\ g.error = e /\ g.n = f.n /\ g.existing = f.existing
             /\ g.repos = f.repos /\ g.repo = f.repo /\ g.branches = f.branches /\ g.issues = f.issues
             /\ g.base = f.base /\ g.issue = f.issue
  BY DEF FormRecords

LEMMA JobOK ==
  ASSUME NEW f \in FormRecords, CanCreate(f)
  PROVE  /\ Job(f) \in Jobs /\ Job(f).form = f.n /\ Job(f).what = "created"
         /\ f.base \in {Unset, f.repo} /\ f.issue \in {Unset, f.repo} /\ Job(f).id[1] \in Repos =>
              Job(f).args.base \in {Unset, Job(f).id[1]} /\ Job(f).args.issue \in {Unset, Job(f).id[1]}
  <1>0. /\ f.kind \in Kinds /\ f.repo \in Slugs /\ f.name \in Names \cup {Unset} /\ f.n \in Nat
        /\ f.base \in Slugs /\ f.issue \in Slugs /\ f.platform \in Platforms \cup {Unset}
    BY DEF FormRecords
  <1>1. /\ f.kind = "branch" => f.repo \in Repos /\ f.name \in Names
        /\ f.kind = "plan" => f.name \in Names
        /\ f.kind = "delegator" => f.repo \in Repos
    BY <1>0 DEF CanCreate, Uses, Slugs
  <1>2. Id(f) \in SessionIds /\ (f.kind = "branch" => Id(f)[1] = f.repo)
    BY <1>0, <1>1, NewSessionAssumption DEF Id, SessionIds, Kinds, Slugs
  <1>3. Args(f) \in Asked
    BY <1>0 DEF Args, Asked, Slugs
  <1>4. f.kind # "branch" => Args(f).base = Unset /\ Args(f).issue = Unset
    BY DEF Args
  <1>5. f.kind = "branch" => Args(f).base = f.base /\ Args(f).issue = f.issue
    BY DEF Args
  <1> HIDE DEF Id, Args
  <1>6. Job(f) \in Jobs
    BY <1>0, <1>2, <1>3 DEF Job, Jobs
  <1>7. Job(f).form = f.n /\ Job(f).what = "created" /\ Job(f).id = Id(f) /\ Job(f).args = Args(f)
    BY DEF Job
  <1> QED BY <1>2, <1>4, <1>5, <1>6, <1>7

LEMMA SubmitForm ==
  ASSUME FormInv, Submit
  PROVE  FormInv'
  <1> USE DEF FormInv
  <1>1. /\ visible /\ Open /\ menu = Unset /\ Acts /\ CanCreate(form)
        /\ form' = [form EXCEPT !.busy = TRUE, !.error = FALSE] /\ bg' = bg \cup {Job(form)}
        /\ UNCHANGED <<visible, menu, lastRepo, forms, worktrees, told, abandoned, crossed>>
    BY DEF Submit, Quiet
  <1>2. FormOK(form) /\ form.n \in 1..forms /\ form.existing \subseteq DOMAIN worktrees /\ form \in FormRecords
    BY <1>1, OpenFits DEF FormOK
  <1>3. /\ form' \in FormRecords /\ form'.busy = TRUE /\ form'.n = form.n /\ form'.existing = form.existing
        /\ form'.repos = form.repos /\ form'.repo = form.repo /\ form'.branches = form.branches
        /\ form'.issues = form.issues /\ form'.base = form.base /\ form'.issue = form.issue
    BY <1>1, <1>2, LockOK
  <1>4. PICK j : /\ j = Job(form) /\ j \in Jobs /\ j.form = form.n /\ j.what = "created"
                 /\ form.base \in {Unset, form.repo} /\ form.issue \in {Unset, form.repo} /\ j.id[1] \in Repos =>
                      j.args.base \in {Unset, j.id[1]} /\ j.args.issue \in {Unset, j.id[1]}
    BY <1>1, <1>2, JobOK
  <1>5. FormFits' /\ Open'
    BY <1>1, <1>2, <1>3 DEF FormFits, FormOK, Open
  <1>6. Counted' /\ MenuFits' /\ ErrorShownByItsForm'
    BY <1>1, NewSessionAssumption, SameTold DEF Counted, Acts, MenuFits
  <1>7. ResultsFit'
    BY <1>1, <1>2, <1>4 DEF ResultsFit
  <1>8. Waits' /\ HiddenFormIsBusy'
    <2>1. ~form.busy
      BY <1>1 DEF CanCreate
    <2> QED BY <1>1, <1>3, <1>4, <1>5, <2>1 DEF Waits, HiddenFormIsBusy
  <1>9. OneRepo'
    BY <1>1, <1>3, <1>4, <1>5 DEF OneRepo
  <1>10. JobOfOneRepo'
    <2>1. crossed \/ (form.base \in {Unset, form.repo} /\ form.issue \in {Unset, form.repo})
      BY <1>1 DEF OneRepo
    <2> QED BY <1>1, <1>4, <2>1 DEF JobOfOneRepo
  <1> QED BY <1>5, <1>6, <1>7, <1>8, <1>9, <1>10

-----------------------------------------------------------------------------
(* The threads end, and their results find the form that is open.            *)

LEMMA CreateForm ==
  ASSUME FormInv, NEW j \in bg, Create(j)
  PROVE  FormInv'
  <1> USE DEF FormInv
  <1>1. /\ j \in bg /\ j.what = "created" /\ ~j.done
        /\ UNCHANGED <<visible, form, menu, lastRepo, forms, acts, told, abandoned, crossed>>
    BY DEF Create, Quiet
  <1>2. j \in Jobs /\ j.form \in 1..forms
    BY <1>1 DEF ResultsFit, Lists
  <1>3. PICK ok \in BOOLEAN :
          /\ bg' = (bg \ {j}) \cup {[j EXCEPT !.done = TRUE, !.ok = ok]}
          /\ worktrees' = IF ok /\ j.id \notin DOMAIN worktrees
                          THEN [i \in DOMAIN worktrees \cup {j.id} |->
                                  IF i = j.id THEN j.args.platform ELSE worktrees[i]]
                          ELSE worktrees
    BY <1>1 DEF Create
  <1>4. PICK k : k = [j EXCEPT !.done = TRUE, !.ok = ok]
    OBVIOUS
  <1>5. \A d, o \in BOOLEAN : \A r : r = [j EXCEPT !.done = d, !.ok = o] =>
          r \in Jobs /\ r.what = "created" /\ r.form = j.form /\ r.id = j.id /\ r.args = j.args
    BY <1>2 DEF Jobs
  <1>6. k \in Jobs /\ k.what = "created" /\ k.form = j.form /\ k.id = j.id /\ k.args = j.args
    BY <1>4, <1>5
  <1>7. bg' = (bg \ {j}) \cup {k}
    BY <1>3, <1>4
  <1>8. /\ DOMAIN worktrees \subseteq DOMAIN worktrees' /\ DOMAIN worktrees' \subseteq SessionIds
        /\ \A i \in DOMAIN worktrees' : worktrees'[i] \in Platforms \cup {Unset}
    <2>1. j.id \in SessionIds /\ j.args.platform \in Platforms \cup {Unset}
      BY <1>2 DEF Jobs, Asked
    <2>2. CASE ok /\ j.id \notin DOMAIN worktrees
      BY <1>3, <2>1, <2>2 DEF Counted
    <2>3. CASE ~(ok /\ j.id \notin DOMAIN worktrees)
      <3>1. worktrees' = worktrees
        BY <1>3, <2>3
      <3> QED BY <3>1 DEF Counted
    <2> QED BY <2>2, <2>3
  <1>9. Counted' /\ MenuFits'
    BY <1>1, <1>8 DEF Counted, MenuFits
  <1>10. FormFits' /\ (Open' <=> Open)
    BY <1>1, <1>8 DEF FormFits, FormOK, Open
  <1>11. ResultsFit'
    BY <1>1, <1>2, <1>6, <1>7 DEF ResultsFit
  <1>12. Waits'
    BY <1>1, <1>6, <1>7, <1>10 DEF Waits
  <1>13. OneRepo'
    BY <1>1, <1>6, <1>7, <1>10 DEF OneRepo
  <1>14. JobOfOneRepo'
    BY <1>1, <1>6, <1>7 DEF JobOfOneRepo
  <1>15. HiddenFormIsBusy' /\ ErrorShownByItsForm'
    BY <1>1, <1>10, SameTold DEF HiddenFormIsBusy
  <1> QED BY <1>9, <1>10, <1>11, <1>12, <1>13, <1>14, <1>15

(* What a list leaves when nobody takes it up.                               *)
LEMMA Dropped ==
  ASSUME FormInv, NEW b \in bg, b.what # "created", Receives(b), UNCHANGED <<form, lastRepo, told, crossed>>,
         bg' = bg \ {b}
  PROVE  FormInv'
  <1> USE DEF FormInv
  <1>1. UNCHANGED <<visible, menu, forms, acts, worktrees, abandoned>>
    BY DEF Receives
  <1>2. FormFits' /\ (Open' <=> Open)
    BY <1>1, SameForm
  <1>3. Counted' /\ MenuFits'
    BY <1>1 DEF Counted, MenuFits
  <1>4. ResultsFit' /\ Waits' /\ OneRepo'
    BY <1>1, <1>2 DEF ResultsFit, Waits, OneRepo
  <1>5. JobOfOneRepo' /\ HiddenFormIsBusy' /\ ErrorShownByItsForm'
    BY <1>1, <1>2, SameTold DEF JobOfOneRepo, HiddenFormIsBusy
  <1> QED BY <1>2, <1>3, <1>4, <1>5

LEMMA ReposForm ==
  ASSUME FormInv, NEW b \in bg, OnRepos(b)
  PROVE  FormInv'
  <1> USE DEF FormInv
  <1>1. /\ b.what = "repos" /\ Receives(b)
        /\ UNCHANGED <<visible, menu, lastRepo, forms, acts, worktrees, told, abandoned>>
    BY DEF OnRepos, Receives
  <1>2. CASE ~Open
    BY <1>1, <1>2, Dropped DEF OnRepos
  <1>3. CASE Open
    <2>1. FormOK(form) /\ form \in FormRecords /\ form.n \in 1..forms
      BY <1>3, OpenFits DEF FormOK
    <2> DEFINE f == [form EXCEPT !.repos = TRUE]
    <2>2. /\ form' = SetRepo(f, Preset) /\ crossed' = (crossed \/ b.form # form.n)
          /\ bg' = (bg \ {b}) \cup (IF Repos = {} THEN {} ELSE Loads(form'))
      BY <1>3 DEF OnRepos
    <2>3. \A t \in BOOLEAN : \A g : g = [form EXCEPT !.repos = t] =>
            /\ g \in FormRecords /\ g.repos = t /\ g.n = form.n /\ g.existing = form.existing
            /\ g.repo = form.repo /\ g.branches = form.branches /\ g.issues = form.issues
            /\ g.base = form.base /\ g.issue = form.issue /\ g.busy = form.busy /\ g.error = form.error
      BY <2>1 DEF FormRecords
    <2>4. /\ f \in FormRecords /\ f.repos = TRUE /\ f.n = form.n /\ f.existing = form.existing
          /\ f.repo = form.repo /\ f.branches = form.branches /\ f.issues = form.issues
          /\ f.base = form.base /\ f.issue = form.issue /\ f.busy = form.busy /\ f.error = form.error
      BY <2>3
    <2> HIDE DEF f
    <2>5. PICK slug \in Slugs : slug = Preset /\ (slug \in Repos \/ slug = form.repo) /\ (Repos # {} => slug \in Repos)
      <3>1. CASE Repos = {}
        BY <2>1, <3>1 DEF Preset, Counted, Slugs, FormRecords
      <3>2. CASE Repos # {} /\ lastRepo # Unset
        BY <3>2 DEF Preset, Counted, Slugs
      <3>3. CASE Repos # {} /\ lastRepo = Unset
        <4>1. (CHOOSE r \in Repos : TRUE) \in Repos
          BY <3>3
        <4> QED BY <3>3, <4>1 DEF Preset, Slugs
      <3> QED BY <3>1, <3>2, <3>3
    <2>6. f.branches \in {Unset, f.repo} /\ f.issues \in {Unset, f.repo}
      BY <2>1, <2>4 DEF FormOK
    <2>7. /\ form' \in FormRecords /\ form'.repo = slug
          /\ form'.branches \in {Unset, slug} /\ form'.issues \in {Unset, slug}
          /\ form'.n = form.n /\ form'.existing = form.existing /\ form'.busy = form.busy
          /\ form'.error = form.error /\ form'.repos = TRUE
          /\ form' = f \/ (form'.base = Unset /\ form'.issue = Unset)
      BY <2>2, <2>4, <2>5, <2>6, SetRepoOK
    <2>8. FormOK(form)'
      BY <2>5, <2>7, NewSessionAssumption DEF FormOK
    <2>9. \A c \in bg' : (c \in bg /\ c # b) \/ (c \in Lists /\ c.form = form.n /\ c.what \in {"branches", "issues"})
      BY <2>2, <2>7, LoadsOK
    <2>10. \A c \in bg : c.what = "created" => c \in bg'
      BY <1>1, <2>2
    <2>11. FormFits' /\ Open' /\ Waits' /\ HiddenFormIsBusy' /\ ErrorShownByItsForm'
      BY <1>1, <1>3, <2>7, <2>8, <2>9, <2>10, FormFilled
    <2>12. crossed' \in BOOLEAN /\ (crossed => crossed')
      BY <2>2 DEF Counted
    <2>13. Counted' /\ MenuFits'
      BY <1>1, <2>12 DEF Counted, MenuFits
    <2>14. ResultsFit'
      BY <1>1, <2>1, <2>9 DEF ResultsFit
    <2>15. JobOfOneRepo'
      BY <2>9, <2>12, NoNewCreate
    <2>16. OneRepo'
      <3> SUFFICES ASSUME ~crossed'
                   PROVE  /\ form'.base \in {Unset, form'.repo} /\ form'.issue \in {Unset, form'.repo}
                          /\ menu # Unset /\ menu.field \in {"base", "issue"} => menu.options \subseteq {Unset, form'.repo}
                          /\ \A c \in bg' : c.what # "repos" \/ c.form # form.n
        BY <1>1, <2>7, <2>11 DEF OneRepo
      <3>1. ~crossed /\ b.form = form.n
        BY <2>2
      <3>2. ~form.repos /\ form.repo = Unset /\ form.base = Unset /\ form.issue = Unset
        BY <1>1, <1>3, <3>1 DEF OneRepo
      <3>3. form'.base \in {Unset, form'.repo} /\ form'.issue \in {Unset, form'.repo}
        BY <2>4, <2>7, <3>2
      <3>4. menu # Unset /\ menu.field \in {"base", "issue"} => menu.options \subseteq {Unset, form'.repo}
        BY <1>3, <3>1, <3>2 DEF OneRepo
      <3>5. \A c \in bg : c.what = "repos" /\ c.form = form.n => c = b
        <4>1. \A c \in bg : c.what = "repos" => c \in Lists /\ c.slug = Unset
          BY DEF ResultsFit, Jobs
        <4>2. \A c \in Lists : c.what = "repos" /\ c.form = form.n /\ c.slug = Unset => c = b
          BY <1>1, <3>1, <4>1 DEF Lists
        <4> QED BY <4>1, <4>2
      <3> QED BY <2>9, <3>3, <3>4, <3>5
    <2> QED BY <2>11, <2>13, <2>14, <2>15, <2>16
  <1> QED BY <1>2, <1>3

LEMMA ListForm ==
  ASSUME FormInv, NEW b \in bg, OnList(b)
  PROVE  FormInv'
  <1> USE DEF FormInv
  <1>1. /\ b.what \in {"platforms", "branches", "issues"} /\ Receives(b) /\ bg' = bg \ {b}
        /\ UNCHANGED <<visible, menu, lastRepo, forms, acts, worktrees, told, abandoned, crossed>>
    BY DEF OnList, Receives
  <1>2. CASE ~Open \/ (b.what # "platforms" /\ b.slug # form.repo)
    <2>1. form' = form
      BY <1>2 DEF OnList
    <2> QED BY <1>1, <2>1, Dropped
  <1>3. CASE Open /\ (b.what = "platforms" \/ b.slug = form.repo)
    <2>1. FormOK(form) /\ form \in FormRecords /\ form.repo \in Slugs
      BY <1>3, OpenFits DEF FormOK, FormRecords
    <2>2. \A t \in BOOLEAN : \A g : g = [form EXCEPT !.platforms = t] =>
            /\ FormOK(g) /\ g.repos = form.repos /\ g.n = form.n /\ g.existing = form.existing
            /\ g.repo = form.repo /\ g.base = form.base /\ g.issue = form.issue /\ g.busy = form.busy
            /\ g.error = form.error
      BY <2>1 DEF FormOK, FormRecords
    <2>3. \A g : g = [form EXCEPT !.branches = form.repo] \/ g = [form EXCEPT !.issues = form.repo] =>
            /\ FormOK(g) /\ g.repos = form.repos /\ g.n = form.n /\ g.existing = form.existing
            /\ g.repo = form.repo /\ g.base = form.base /\ g.issue = form.issue /\ g.busy = form.busy
            /\ g.error = form.error
      BY <2>1 DEF FormOK, FormRecords
    <2>4. \/ form' = [form EXCEPT !.platforms = TRUE]
          \/ form' = [form EXCEPT !.branches = form.repo]
          \/ form' = [form EXCEPT !.issues = form.repo]
      BY <1>1, <1>3 DEF OnList
    <2>5. /\ FormOK(form') /\ form'.repos = form.repos /\ form'.n = form.n /\ form'.existing = form.existing
          /\ form'.repo = form.repo /\ form'.base = form.base /\ form'.issue = form.issue
          /\ form'.busy = form.busy /\ form'.error = form.error
      BY <2>2, <2>3, <2>4
    <2>6. FormFits' /\ Open' /\ Waits' /\ HiddenFormIsBusy' /\ ErrorShownByItsForm'
      <3>1. FormOK(form)'
        BY <2>5 DEF FormOK
      <3> QED BY <1>1, <1>3, <2>5, <3>1, FormFilled
    <2>7. Counted' /\ MenuFits' /\ ResultsFit'
      BY <1>1 DEF Counted, MenuFits, ResultsFit
    <2>8. JobOfOneRepo'
      BY <1>1, NoNewCreate
    <2>9. OneRepo'
      BY <1>1, <1>3, <2>5, <2>6 DEF OneRepo
    <2> QED BY <2>6, <2>7, <2>8, <2>9
  <1> QED BY <1>2, <1>3

LEMMA ErrorForm ==
  ASSUME FormInv, NEW b \in bg, OnError(b)
  PROVE  FormInv'
  <1> USE DEF FormInv
  <1>1. /\ b.what = "created" /\ bg' = bg \ {b} /\ Tell(b, IF Open /\ visible THEN form.n ELSE 0)
        /\ form' = IF Open THEN [form EXCEPT !.busy = FALSE, !.error = TRUE] ELSE form
        /\ UNCHANGED <<visible, menu, forms, acts, worktrees, abandoned, lastRepo, crossed>>
    BY DEF OnError, Receives
  <1>2. /\ Open => /\ FormOK(form') /\ form'.n = form.n /\ form'.existing = form.existing
                   /\ form'.busy = FALSE /\ form'.error = TRUE /\ form'.repos = form.repos
                   /\ form'.repo = form.repo /\ form'.base = form.base /\ form'.issue = form.issue
    <2> SUFFICES ASSUME Open
                 PROVE  /\ FormOK(form') /\ form'.n = form.n /\ form'.existing = form.existing
                        /\ form'.busy = FALSE /\ form'.error = TRUE /\ form'.repos = form.repos
                        /\ form'.repo = form.repo /\ form'.base = form.base /\ form'.issue = form.issue
      OBVIOUS
    <2>1. FormOK(form) /\ form \in FormRecords
      BY OpenFits DEF FormOK
    <2>2. /\ form' \in FormRecords /\ form'.busy = FALSE /\ form'.error = TRUE /\ form'.n = form.n
          /\ form'.existing = form.existing /\ form'.repos = form.repos /\ form'.repo = form.repo
          /\ form'.branches = form.branches /\ form'.issues = form.issues /\ form'.base = form.base
          /\ form'.issue = form.issue
      BY <1>1, <2>1, LockOK
    <2> QED BY <2>1, <2>2 DEF FormOK
  <1>3. FormFits' /\ (Open' <=> Open)
    <2>1. CASE ~Open
      BY <1>1, <2>1, SameForm
    <2>2. CASE Open
      BY <1>1, <1>2, <2>2, OpenFits DEF FormFits, FormOK, Open
    <2> QED BY <2>1, <2>2
  <1>4. Waits'
    BY <1>1, <1>2, <1>3 DEF Waits
  <1>5. HiddenFormIsBusy'
    BY <1>2, <1>3 DEF HiddenFormIsBusy
  <1>6. OneRepo'
    BY <1>1, <1>2, <1>3 DEF OneRepo
  <1>7. ResultsFit' /\ JobOfOneRepo' /\ MenuFits'
    BY <1>1, NoNewCreate DEF ResultsFit, MenuFits
  <1>8. Counted' /\ ErrorShownByItsForm'
    <2>1. PICK n \in 0..forms : told' = told \cup {<<b.form, n>>} /\ (n = 0 \/ (Open /\ n = form.n))
      BY <1>1, OpenFits, NewSessionAssumption DEF Tell, Counted
    <2>2. b.form \in 1..forms
      BY DEF ResultsFit
    <2>3. Counted'
      BY <1>1, <2>1, <2>2 DEF Counted
    <2>4. abandoned \/ n = 0 \/ n = b.form
      BY <1>1, <2>1 DEF Waits
    <2> QED BY <1>1, <2>1, <2>3, <2>4 DEF ErrorShownByItsForm
  <1> QED BY <1>3, <1>4, <1>5, <1>6, <1>7, <1>8

LEMMA CreatedForm ==
  ASSUME FormInv, NEW b \in bg, OnCreated(b)
  PROVE  FormInv'
  <1> USE DEF FormInv
  <1>1. /\ b.what = "created" /\ bg' = bg \ {b} /\ Tell(b, 0) /\ form' = NoForm
        /\ lastRepo' = IF Open /\ form.repo # Unset THEN form.repo ELSE lastRepo
        /\ UNCHANGED <<visible, menu, forms, acts, worktrees, abandoned, crossed>>
    BY DEF OnCreated, Receives
  <1>2. FormFits' /\ ~Open'
    BY <1>1, ClosedIsNone
  <1>3. Waits'
    BY <1>1, <1>2 DEF Waits
  <1>4. HiddenFormIsBusy' /\ OneRepo'
    BY <1>2 DEF HiddenFormIsBusy, OneRepo
  <1>5. ResultsFit' /\ JobOfOneRepo' /\ MenuFits'
    BY <1>1, NoNewCreate DEF ResultsFit, MenuFits
  <1>6. Counted'
    <2>1. told' = told \cup {<<b.form, 0>>} /\ b.form \in 1..forms
      BY <1>1 DEF Tell, ResultsFit
    <2>2. lastRepo' \in Slugs
      BY <1>1, OpenFits DEF Counted, FormOK, FormRecords
    <2>3. 0 \in 0..forms
      BY NewSessionAssumption DEF Counted
    <2> QED BY <1>1, <2>1, <2>2, <2>3 DEF Counted
  <1>7. ErrorShownByItsForm'
    BY <1>1 DEF Tell, ErrorShownByItsForm
  <1> QED BY <1>2, <1>3, <1>4, <1>5, <1>6, <1>7

LEMMA StepForm == FormInv /\ [NNext]_nvars => FormInv'
  <1> SUFFICES ASSUME FormInv, [NNext]_nvars PROVE FormInv'
    OBVIOUS
  <1>1. CASE UNCHANGED nvars
    <2>1. UNCHANGED <<visible, form, menu, lastRepo, bg, forms, acts, worktrees, told, abandoned, crossed>>
      BY <1>1 DEF nvars
    <2>2. FormFits' /\ (Open' <=> Open) /\ ResultsFit' /\ JobOfOneRepo' /\ ErrorShownByItsForm'
      BY <2>1, SameForm, SameResults, SameJobs, SameTold DEF FormInv
    <2> QED BY <2>1, <2>2 DEF FormInv, Counted, MenuFits, Waits, OneRepo, HiddenFormIsBusy
  <1>2. CASE ShowForm \/ Hide \/ RefreshForm \/ OpenForm \/ Leave \/ Wizard \/ Cancel
    BY <1>2, WindowForm
  <1>3. CASE (\E k \in Kinds : SetKind(k)) \/ \E name \in Names \cup {Unset} : TypeName(name)
    BY <1>3, EditsForm
  <1>4. CASE \E fld \in Fields : OpenSelect(fld)
    BY <1>4, SelectForm
  <1>5. CASE \E c \in Repos \cup Platforms \cup {Unset} : Pick(c)
    BY <1>5, PickForm
  <1>6. CASE Submit
    BY <1>6, SubmitForm
  <1>7. CASE \E j \in bg : Create(j)
    BY <1>7, CreateForm
  <1>8. CASE Results
    BY <1>8, ReposForm, ListForm, ErrorForm, CreatedForm DEF Results
  <1> QED BY <1>1, <1>2, <1>3, <1>4, <1>5, <1>6, <1>7, <1>8 DEF NNext

(* The form, its lists and the create it waits for belong together, whatever *)
(* results arrive when (flyout.rs on_bg, hide; flyout_new.rs set_repo).      *)
THEOREM FormBelongsTogether == NSpec => []FormTrue
  <1>1. NInit => FormInv
    BY InitForm
  <1>2. FormInv /\ [NNext]_nvars => FormInv'
    BY StepForm
  <1>3. FormInv => FormTrue
    BY FormInvTrue
  <1> QED BY <1>1, <1>2, <1>3, PTL DEF NSpec

(* A result closes only the form that waited for it (flyout.rs on_bg):       *)
(* another list, a failed create or a choice in a menu closes none.          *)
LEMMA ClosingStep ==
  ASSUME FormInv, [NNext]_nvars, Open, form'.n = 0, acts' = acts
  PROVE  abandoned \/ (form.busy /\ Running(form.n) \cap bg' = {})
  <1> USE DEF FormInv
  <1>1. acts \in Nat /\ acts + 1 # acts
    BY NewSessionAssumption DEF Counted
  <1>2. form.n # 0 /\ FormOK(form)
    BY OpenFits DEF Open
  <1>3. ~Acts
    BY <1>1 DEF Acts
  <1>4. form' # form
    BY <1>2
  <1>5. ASSUME NEW c, Pick(c) PROVE FALSE
    <2>1. PICK fld \in Fields : /\ fld = menu.field /\ form' = Chosen(form, fld, c)
                                /\ fld = "repo" => c \in Repos
                                /\ fld \in {"base", "issue"} => c \in Slugs
                                /\ fld = "platform" => c \in Platforms
      BY <1>5 DEF Pick, MenuFits
    <2>2. form'.n = form.n
      BY <1>2, <2>1, ChosenOK
    <2> QED BY <1>2, <2>2
  <1>6. ~RefreshForm /\ ~OpenForm
    <2>1. ASSUME RefreshForm PROVE form'.n = form.n
      BY <1>2, <2>1 DEF RefreshForm, FormOK, FormRecords
    <2> QED BY <1>2, <2>1 DEF OpenForm
  <1>7. PICK b \in bg : OnRepos(b) \/ OnList(b) \/ OnError(b) \/ OnCreated(b)
    BY <1>3, <1>4, <1>5, <1>6 DEF NNext, nvars, ShowForm, Hide, Leave, Wizard, SetKind, TypeName, Edits,
         OpenSelect, Cancel, Submit, Create, Results
  <1>8. CASE OnCreated(b)
    <2>1. b.what = "created" /\ bg' = bg \ {b}
      BY <1>8 DEF OnCreated
    <2> QED BY <2>1 DEF Waits, Running
  <1>9. CASE OnError(b)
    <2>1. form' = [form EXCEPT !.busy = FALSE, !.error = TRUE] /\ form \in FormRecords
      BY <1>2, <1>9 DEF OnError, FormOK
    <2>2. form'.n = form.n
      BY <2>1, LockOK
    <2> QED BY <1>2, <2>2
  <1>10. CASE OnRepos(b) \/ OnList(b)
    <2>1. form'.n = form.n
      BY <1>2, <1>10 DEF OnRepos, OnList, SetRepo, FormOK, FormRecords
    <2> QED BY <1>2, <2>1
  <1> QED BY <1>7, <1>8, <1>9, <1>10

THEOREM ResultsCloseTheirForm == NSpec => ClosedByItsOwn
  <1>1. NInit => FormInv
    BY InitForm
  <1>2. FormInv /\ [NNext]_nvars => FormInv'
    BY StepForm
  <1>3. FormInv /\ [NNext]_nvars =>
          [Open /\ form'.n = 0 /\ acts' = acts => abandoned \/ (form.busy /\ Running(form.n) \cap bg' = {})]_nvars
    BY ClosingStep
  <1> QED BY <1>1, <1>2, <1>3, PTL DEF NSpec, ClosedByItsOwn
-----------------------------------------------------------------------------
(* The terminal interface                                                    *)

Relays == [id : Worktrees, conn : {"asking", "on", "exit", "closed", "cut"}, exited : BOOLEAN]

(* What TuiTypeOK says of a session s shown while the agents are at r.       *)
SessionOK(s, r) ==
  s = NoSession
  \/ /\ s \in Relays
     /\ s.exited => s.conn \in {"exit", "closed"}
     /\ s.conn = "on" => r[s.id] = "hosted"

(* ... of the agents, and of the screen.                                     *)
AgentsOK ==
  /\ real \in [Worktrees -> Places] /\ row \in [Worktrees -> Places]
  /\ serving \in BOOLEAN /\ (~serving => \A w \in Worktrees : real[w] # "hosted")
  /\ starting \in [Worktrees -> Nat]
  /\ left \in [starts : 0..MaxStarts, stops : 0..MaxStops]

ScreenOK ==
  /\ cursor \in Worktrees /\ {pending, eyes} \subseteq Worktrees \cup {Nobody}
  /\ focus \in {"roster", "main"} /\ front \in {"session", "changes"}
  /\ dialog \in {NoSession, NewForm} \cup {StopForm(w) : w \in Worktrees}
  /\ arrived \in Seq([id : Worktrees, ok : BOOLEAN])
  /\ {stolen, covered} \subseteq BOOLEAN

LEMMA TuiParts == TuiTypeOK <=> AgentsOK /\ ScreenOK /\ SessionOK(session, real)
  BY DEF TuiTypeOK, AgentsOK, ScreenOK, SessionOK, Relays

(* Keys go where the user looks.  With a form open no agent is in front with *)
(* the focus on it, unless it was brought up under the form; `covered` is of *)
(* the form that is open.                                                    *)
KeysOK  == Target # Nobody /\ Reachable => Target = eyes \/ stolen
PasteOK ==
  /\ (dialog # NoSession /\ PastedTo # Nobody /\ Reachable => covered)
  /\ (covered => dialog # NoSession)

(* The invariant.                                                            *)
TuiInv == AgentsOK /\ ScreenOK /\ SessionOK(session, real) /\ KeysOK /\ PasteOK

LEMMA TuiInvKeys == TuiInv => KeysWhereMeant
  BY DEF TuiInv, KeysOK, PasteOK, KeysWhereMeant

LEMMA InitTui == TuiInit => TuiInv
  <1> SUFFICES ASSUME TuiInit PROVE TuiInv
    OBVIOUS
  <1>1. AgentsOK
    BY TuiAssumption DEF TuiInit, AgentsOK, Places
  <1>2. ScreenOK /\ SessionOK(session, real)
    <2>1. stolen \in BOOLEAN /\ covered \in BOOLEAN
      BY DEF TuiInit
    <2> QED BY <2>1 DEF TuiInit, ScreenOK, SessionOK
  <1>3. KeysOK /\ PasteOK
    <2>1. ~covered /\ dialog = NoSession /\ Target = Nobody
      BY DEF TuiInit, Target, Typing
    <2> QED BY <2>1 DEF KeysOK, PasteOK
  <1> QED BY <1>1, <1>2, <1>3 DEF TuiInv

(* Target and Shown are one: what a key reaches is what is drawn in focus.   *)
LEMMA TargetShown == Target = Shown
  BY DEF Target, Shown, Typing

(* A user who has just pressed a key knows where the next one goes.          *)
LEMMA KnowsKeys == Knows => KeysOK'
  <1>1. (Target = Shown)'
    BY TargetShown, PTL
  <1> QED BY <1>1 DEF Knows, KeysOK

(* Neither keys nor pastes change their way: when nothing in front changes,  *)
(* when no agent is reached, when what was brought up is on record, when the *)
(* form is closed.                                                           *)
LEMMA SamePaste ==
  ASSUME PasteOK, UNCHANGED <<dialog, focus, front, session, covered>>
  PROVE  PasteOK'
  BY DEF PasteOK, PastedTo, Reachable

LEMMA SameFront ==
  ASSUME KeysOK, PasteOK, UNCHANGED <<dialog, focus, front, session, eyes, stolen, covered>>
  PROVE  KeysOK' /\ PasteOK'
  <1>1. KeysOK'
    BY DEF KeysOK, Target, Typing, Live, Reachable
  <1> QED BY <1>1, SamePaste

LEMMA OutOfReach ==
  ASSUME PasteOK, UNCHANGED <<dialog, covered>>, ~Reachable'
  PROVE  KeysOK' /\ PasteOK'
  BY DEF PasteOK, KeysOK

LEMMA BroughtUpOK ==
  ASSUME BroughtUp, UNCHANGED dialog
  PROVE  KeysOK' /\ PasteOK' /\ {stolen', covered'} \subseteq BOOLEAN
  <1>1. stolen' = TRUE /\ covered' = (dialog' # NoSession)
    BY DEF BroughtUp
  <1>2. KeysOK'
    BY <1>1 DEF KeysOK
  <1>3. PasteOK'
    BY <1>1 DEF PasteOK
  <1> QED BY <1>1, <1>2, <1>3

LEMMA FormCloses ==
  ASSUME Knows, dialog' = NoSession
  PROVE  PasteOK' /\ covered' \in BOOLEAN
  <1>1. covered' = (covered /\ dialog' # NoSession)
    BY DEF Knows
  <1>2. covered' = FALSE
    BY <1>1, Zenon
  <1> QED BY <1>2 DEF PasteOK

(* A form is opened by a command: with no agent in front to type to.         *)
LEMMA FormOpens ==
  ASSUME Command, Knows, PasteOK, SessionOK(session, real), dialog' # NoSession,
         UNCHANGED <<focus, front, session>>
  PROVE  PasteOK' /\ covered' \in BOOLEAN
  <1>1. ~covered /\ dialog = NoSession /\ ~Typing
    BY DEF Command, PasteOK
  <1>2. ~covered' /\ covered' \in BOOLEAN
    BY <1>1 DEF Knows
  <1>3. ~(PastedTo' # Nobody /\ Reachable')
    BY <1>1 DEF Typing, PastedTo, Reachable, SessionOK, Live
  <1> QED BY <1>2, <1>3 DEF PasteOK

LEMMA ShownIsSession ==
  ASSUME ScreenOK, SessionOK(session, real)
  PROVE  Shown \in Worktrees \cup {Nobody}
  BY DEF ScreenOK, SessionOK, Relays, Shown, Live

(* A new relay is asking (session.rs attach), and a start takes one away.    *)
LEMMA AttachOK ==
  ASSUME NEW w \in Worktrees, Attach(w)
  PROVE  SessionOK(session, real)' /\ focus' = "main" /\ front' = "session"
  BY DEF Attach, SessionOK, Relays

LEMMA StartOK ==
  ASSUME AgentsOK, NEW w \in Worktrees, StartSession(w), UNCHANGED <<real, serving, row>>
  PROVE  AgentsOK'
  BY TuiAssumption DEF AgentsOK, StartSession

(* Opening a row leaves the agents and the session as they should be.        *)
LEMMA OpensOK ==
  ASSUME AgentsOK, SessionOK(session, real), NEW w \in Worktrees, Opens(w),
         focus \in {"roster", "main"}, front \in {"session", "changes"}
  PROVE  /\ AgentsOK' /\ SessionOK(session, real)'
         /\ focus' \in {"roster", "main"} /\ front' \in {"session", "changes"}
  <1>1. CASE UNCHANGED <<agents, session>> /\ focus' \in {"roster", "main"} /\ front' \in {"session", "changes"}
    BY <1>1 DEF agents, AgentsOK, SessionOK
  <1>2. CASE Attach(w) /\ UNCHANGED agents
    BY <1>2, AttachOK DEF agents, AgentsOK
  <1>3. CASE StartSession(w) /\ UNCHANGED <<real, serving, row, session, front, focus>>
    BY <1>3, StartOK DEF SessionOK
  <1> QED BY <1>1, <1>2, <1>3 DEF Opens

(* What the agents, the daemon and the threads do keeps the interface true.  *)
LEMMA WorldTui ==
  ASSUME TuiInv, World \/ \E w \in Worktrees : StartEnds(w)
  PROVE  TuiInv'
  <1> USE DEF TuiInv
  <1>1. ASSUME NEW w \in Worktrees, NEW where \in {"hosted", "other"}, Begin(w, where)
        PROVE  TuiInv'
    <2>1. AgentsOK'
      BY <1>1, TuiAssumption DEF Begin, AgentsOK, Places
    <2>2. ScreenOK' /\ SessionOK(session, real)'
      BY <1>1 DEF Begin, screen, AgentsOK, ScreenOK, SessionOK, Relays
    <2>3. KeysOK' /\ PasteOK'
      BY <1>1, SameFront DEF Begin, screen
    <2> QED BY <2>1, <2>2, <2>3
  <1>2. ASSUME NEW w \in Worktrees, End(w) PROVE TuiInv'
    <2>1. AgentsOK' /\ ScreenOK'
      BY <1>2 DEF End, AgentsOK, ScreenOK, Places
    <2>2. CASE session # NoSession /\ session.id = w /\ session.conn = "on"
      <3>1. session \in Relays /\ ~session.exited /\ session' = [session EXCEPT !.conn = "exit"]
        BY <1>2, <2>2 DEF End, SessionOK
      <3>2. session' \in Relays /\ session'.conn = "exit" /\ session' # NoSession
        BY <3>1 DEF Relays, NoSession
      <3>3. KeysOK' /\ PasteOK'
        BY <1>2, <3>2, OutOfReach DEF End, Reachable
      <3> QED BY <2>1, <3>2, <3>3 DEF SessionOK
    <2>3. CASE ~(session # NoSession /\ session.id = w /\ session.conn = "on")
      <3>1. session' = session /\ UNCHANGED <<focus, front, dialog, eyes, stolen, covered>>
        BY <1>2, <2>3 DEF End
      <3>2. SessionOK(session, real)'
        BY <1>2, <2>3, <3>1 DEF End, SessionOK, AgentsOK, Relays
      <3> QED BY <2>1, <3>1, <3>2, SameFront
    <2> QED BY <2>2, <2>3
  <1>3. CASE DaemonStops
    <2>1. AgentsOK' /\ ScreenOK'
      <3>1. real' \in [Worktrees -> Places] /\ \A w \in Worktrees : real'[w] # "hosted"
        BY <1>3 DEF DaemonStops, AgentsOK, Places
      <3>2. left' \in [starts : 0..MaxStarts, stops : 0..MaxStops]
        BY <1>3, TuiAssumption DEF DaemonStops, AgentsOK
      <3>3. serving' \in BOOLEAN
        BY <1>3 DEF DaemonStops
      <3> QED BY <1>3, <3>1, <3>2, <3>3 DEF DaemonStops, AgentsOK, ScreenOK
    <2>2. CASE session # NoSession /\ session.conn = "on"
      <3>1. PICK how \in {"closed", "cut"} : session' = [session EXCEPT !.conn = how]
        BY <1>3, <2>2 DEF DaemonStops
      <3>2. session' \in Relays /\ session'.conn = how /\ session' # NoSession /\ ~session'.exited
        BY <2>2, <3>1 DEF SessionOK, Relays, NoSession
      <3>3. KeysOK' /\ PasteOK'
        BY <1>3, <3>2, OutOfReach DEF DaemonStops, Reachable
      <3> QED BY <2>1, <3>2, <3>3 DEF SessionOK
    <2>3. CASE ~(session # NoSession /\ session.conn = "on")
      <3>1. UNCHANGED <<session, focus, front, dialog, eyes, stolen, covered>>
        BY <1>3, <2>3 DEF DaemonStops
      <3>2. SessionOK(session, real)'
        BY <2>3, <3>1 DEF SessionOK
      <3> QED BY <2>1, <3>1, <3>2, SameFront
    <2> QED BY <2>2, <2>3
  <1>4. CASE DaemonStarts
    <2>1. AgentsOK' /\ ScreenOK' /\ SessionOK(session, real)'
      BY <1>4 DEF DaemonStarts, screen, AgentsOK, ScreenOK, SessionOK
    <2>2. KeysOK' /\ PasteOK'
      BY <1>4, SameFront DEF DaemonStarts, screen
    <2> QED BY <2>1, <2>2
  <1>5. ASSUME NEW w \in Worktrees, StartEnds(w) PROVE TuiInv'
    <2>1. AgentsOK'
      <3>1. starting' \in [Worktrees -> Nat] /\ UNCHANGED <<serving, row, left>>
        BY <1>5 DEF StartEnds, AgentsOK
      <3>2. CASE UNCHANGED real
        BY <3>1, <3>2 DEF AgentsOK
      <3>3. CASE serving /\ real' = [real EXCEPT ![w] = "hosted"]
        BY <3>1, <3>3 DEF AgentsOK, Places
      <3> QED BY <1>5, <3>2, <3>3 DEF StartEnds
    <2>2. ScreenOK'
      <3>1. PICK ok \in BOOLEAN : arrived' = Append(arrived, [id |-> w, ok |-> ok])
        BY <1>5 DEF StartEnds
      <3>2. arrived' \in Seq([id : Worktrees, ok : BOOLEAN])
        BY <3>1 DEF ScreenOK
      <3> QED BY <1>5, <3>2 DEF StartEnds, screen, ScreenOK
    <2>3. SessionOK(session, real)'
      BY <1>5 DEF StartEnds, screen, SessionOK, AgentsOK, Relays
    <2>4. KeysOK' /\ PasteOK'
      BY <1>5, SameFront DEF StartEnds, screen
    <2> QED BY <2>1, <2>2, <2>3, <2>4
  <1> QED BY <1>1, <1>2, <1>3, <1>4, <1>5 DEF World

LEMMA HeadTail ==
  ASSUME NEW S, NEW q \in Seq(S), q # <<>>
  PROVE  Head(q) \in S /\ Tail(q) \in Seq(S)
  OBVIOUS

(* What the loop takes up between two keys says when it takes the screen.    *)
LEMMA LoopTui ==
  ASSUME TuiInv, Loop \/ Connect \/ \E w \in Worktrees : Mirror(w)
  PROVE  TuiInv'
  <1> USE DEF TuiInv
  <1>1. CASE Drain
    <2>1. /\ session \in Relays /\ session.conn \in {"exit", "closed"}
          /\ session' = [session EXCEPT !.exited = TRUE]
      BY <1>1 DEF Drain, Live, SessionOK
    <2>2. ASSUME NEW b \in BOOLEAN
          PROVE  LET s == [session EXCEPT !.exited = b]
                 IN s \in Relays /\ s.conn = session.conn
      BY <2>1 DEF Relays
    <2>3. session' \in Relays /\ session'.conn \in {"exit", "closed"}
      BY <2>1, <2>2
    <2>4. KeysOK' /\ PasteOK'
      BY <1>1, <2>3, OutOfReach DEF Drain, Reachable
    <2> QED BY <1>1, <2>3, <2>4 DEF Drain, agents, AgentsOK, ScreenOK, SessionOK
  <1>2. CASE OpenPending
    <2>1. pending \in Worktrees
      BY <1>2 DEF OpenPending, ScreenOK
    <2>2. /\ AgentsOK' /\ SessionOK(session, real)'
          /\ focus' \in {"roster", "main"} /\ front' \in {"session", "changes"}
      BY <1>2, <2>1, OpensOK DEF OpenPending, ScreenOK
    <2>3. KeysOK' /\ PasteOK' /\ {stolen', covered'} \subseteq BOOLEAN
      BY <1>2, BroughtUpOK DEF OpenPending
    <2>4. ScreenOK'
      BY <1>2, <2>1, <2>2, <2>3 DEF OpenPending, ScreenOK
    <2> QED BY <2>2, <2>3, <2>4
  <1>3. CASE TakeUp
    <2>1. Head(arrived) \in [id : Worktrees, ok : BOOLEAN] /\ arrived' \in Seq([id : Worktrees, ok : BOOLEAN])
      BY <1>3, HeadTail DEF TakeUp, ScreenOK
    <2>2. AgentsOK' /\ UNCHANGED <<real, cursor, pending, dialog, eyes>>
      BY <1>3 DEF TakeUp, agents, AgentsOK
    <2>3. CASE Head(arrived).ok
      <3>1. PICK w \in Worktrees : Attach(w)
        BY <1>3, <2>1, <2>3 DEF TakeUp
      <3>2. KeysOK' /\ PasteOK' /\ {stolen', covered'} \subseteq BOOLEAN
        BY <1>3, <2>2, <2>3, BroughtUpOK DEF TakeUp
      <3> QED BY <2>1, <2>2, <3>1, <3>2, AttachOK DEF ScreenOK
    <2>4. CASE ~Head(arrived).ok
      <3>1. UNCHANGED <<session, front, focus, stolen, covered>>
        BY <1>3, <2>4 DEF TakeUp
      <3>2. KeysOK' /\ PasteOK'
        BY <2>2, <3>1, SameFront
      <3> QED BY <2>1, <2>2, <3>1, <3>2 DEF ScreenOK, SessionOK
    <2> QED BY <2>3, <2>4
  <1>4. CASE Connect
    <2>1. PICK how \in {"on", "closed"} :
            session' = [session EXCEPT !.conn = how] /\ (how = "on" => real[session.id] = "hosted")
      BY <1>4 DEF Connect
    <2>2. session \in Relays /\ session.conn = "asking" /\ ~session.exited
      BY <1>4 DEF Connect, SessionOK
    <2>3. session' \in Relays /\ session'.conn = how /\ session'.id = session.id /\ ~session'.exited
      BY <2>1, <2>2 DEF Relays
    <2>4. session # NoSession /\ session' # NoSession
      BY <2>2, <2>3 DEF Relays, NoSession
    <2>5. KeysOK'
      BY <1>4, <2>2, <2>3, <2>4 DEF Connect, KeysOK, Target, Typing, Live, Reachable
    <2>6. PasteOK'
      BY <1>4, <2>2, <2>3, <2>4 DEF Connect, PasteOK, PastedTo, Reachable
    <2> QED BY <1>4, <2>1, <2>3, <2>4, <2>5, <2>6 DEF Connect, agents, AgentsOK, ScreenOK, SessionOK
  <1>5. ASSUME NEW w \in Worktrees, Mirror(w) PROVE TuiInv'
    <2>1. AgentsOK' /\ ScreenOK' /\ SessionOK(session, real)'
      BY <1>5 DEF Mirror, AgentsOK, ScreenOK, SessionOK
    <2>2. KeysOK' /\ PasteOK'
      BY <1>5, SameFront DEF Mirror
    <2> QED BY <2>1, <2>2
  <1> QED BY <1>1, <1>2, <1>3, <1>4, <1>5 DEF Loop

(* A key leaves the user knowing where the next one goes.                    *)
LEMMA UserTui == TuiInv /\ User => TuiInv'
  <1> SUFFICES ASSUME TuiInv, User PROVE TuiInv'
    OBVIOUS
  <1> USE DEF TuiInv
  <1>1. CASE Move
    <2>1. AgentsOK' /\ ScreenOK' /\ SessionOK(session, real)'
      BY <1>1 DEF Move, agents, AgentsOK, ScreenOK, SessionOK
    <2>2. KeysOK' /\ PasteOK'
      BY <1>1, SameFront DEF Move
    <2> QED BY <2>1, <2>2
  <1>2. CASE LookAway
    <2>1. AgentsOK' /\ SessionOK(session, real)'
      BY <1>2 DEF LookAway, agents, screen, AgentsOK, SessionOK
    <2>2. Shown' = Shown /\ eyes' = Shown
      BY <1>2 DEF LookAway, screen, Shown, Live
    <2>3. stolen' \in BOOLEAN
      BY <1>2 DEF LookAway
    <2>4. ScreenOK'
      BY <1>2, <2>2, <2>3, ShownIsSession DEF LookAway, screen, ScreenOK
    <2>5. (Target = Shown)'
      BY TargetShown, PTL
    <2>6. KeysOK'
      BY <2>2, <2>5 DEF KeysOK
    <2>7. PasteOK'
      BY <1>2, SamePaste DEF LookAway, screen
    <2> QED BY <2>1, <2>4, <2>6, <2>7
  <1>3. ASSUME Knows,
               /\ AgentsOK' /\ SessionOK(session, real)'
               /\ focus' \in {"roster", "main"} /\ front' \in {"session", "changes"}
               /\ dialog' \in {NoSession, NewForm} \cup {StopForm(w) : w \in Worktrees}
               /\ UNCHANGED <<cursor, pending, arrived>>,
               PasteOK' /\ covered' \in BOOLEAN
        PROVE  TuiInv'
    <2>1. Shown' \in Worktrees \cup {Nobody}
      BY <1>3 DEF SessionOK, Relays, Shown, Live
    <2>2. ScreenOK'
      <3>1. stolen' \in BOOLEAN /\ eyes' \in Worktrees \cup {Nobody}
        BY <2>1, <1>3 DEF Knows, ScreenOK
      <3> QED BY <1>3, <3>1 DEF ScreenOK
    <2> QED BY <1>3, <2>2, KnowsKeys
  <1>4. CASE LeaveSession \/ Tab
    <2>1. Knows /\ dialog' = NoSession
      BY <1>4 DEF LeaveSession, Tab, Command
    <2>2. PasteOK' /\ covered' \in BOOLEAN
      BY <2>1, FormCloses
    <2> QED BY <1>3, <1>4, <2>1, <2>2 DEF LeaveSession, Tab, agents, AgentsOK, SessionOK, ScreenOK
  <1>8. CASE AskNew \/ \E w \in Worktrees : AskStop(w)
    <2>1. /\ Command /\ Knows /\ UNCHANGED <<focus, front, session>>
          /\ dialog' \in {NewForm} \cup {StopForm(w) : w \in Worktrees}
      BY <1>8 DEF AskNew, AskStop
    <2>2. dialog' # NoSession
      <3>1. "asks" \in DOMAIN dialog'
        <4>1. CASE dialog' = NewForm
          BY <4>1 DEF NewForm
        <4>2. ASSUME NEW w \in Worktrees, dialog' = StopForm(w) PROVE "asks" \in DOMAIN dialog'
          BY <4>2 DEF StopForm
        <4> QED BY <2>1, <4>1, <4>2
      <3>2. "asks" \notin DOMAIN NoSession
        BY DEF NoSession
      <3> QED BY <3>1, <3>2
    <2>3. PasteOK' /\ covered' \in BOOLEAN
      BY <2>1, <2>2, FormOpens
    <2> QED BY <1>3, <1>8, <2>1, <2>3 DEF AskNew, AskStop, agents, AgentsOK, SessionOK, ScreenOK
  <1>5. ASSUME NEW w \in Worktrees, OpenRow(w) PROVE TuiInv'
    <2>1. Knows /\ dialog' = NoSession
      BY <1>5 DEF OpenRow, Command
    <2>2. PasteOK' /\ covered' \in BOOLEAN
      BY <2>1, FormCloses
    <2> QED BY <1>3, <1>5, <2>1, <2>2, OpensOK DEF OpenRow, ScreenOK
  <1>6. ASSUME NEW w \in Worktrees, ShowChanges(w) PROVE TuiInv'
    <2>1. Knows /\ dialog' = NoSession
      BY <1>6 DEF ShowChanges, Command
    <2>2. PasteOK' /\ covered' \in BOOLEAN
      BY <2>1, FormCloses
    <2> QED BY <1>3, <1>6, <2>1, <2>2 DEF ShowChanges, agents, AgentsOK, SessionOK, ScreenOK
  <1>7. CASE FormKey
    <2>1. dialog' = NoSession /\ UNCHANGED <<cursor, pending, focus, front, arrived>> /\ Knows
      BY <1>7 DEF FormKey
    <2>2. AgentsOK' /\ SessionOK(session, real)'
      <3>1. CASE \E w \in Worktrees : StartSession(w) /\ UNCHANGED <<real, serving, row, session>>
        BY <3>1, StartOK DEF SessionOK
      <3>2. CASE UNCHANGED agents /\ session' \in {NoSession, session}
        BY <3>2 DEF agents, AgentsOK, SessionOK
      <3> QED BY <1>7, <3>1, <3>2 DEF FormKey
    <2>3. PasteOK' /\ covered' \in BOOLEAN
      BY <2>1, FormCloses
    <2> QED BY <1>3, <2>1, <2>2, <2>3 DEF ScreenOK
  <1> QED BY <1>1, <1>2, <1>4, <1>5, <1>6, <1>7, <1>8 DEF User

(* Every step keeps the keys where the user means them (tui/mod.rs).         *)
LEMMA StepTui == TuiInv /\ [TuiNext]_vars => TuiInv'
  <1> SUFFICES ASSUME TuiInv, [TuiNext]_vars PROVE TuiInv'
    OBVIOUS
  <1>1. CASE UNCHANGED vars
    <2>1. AgentsOK' /\ ScreenOK' /\ SessionOK(session, real)'
      BY <1>1 DEF vars, TuiInv, AgentsOK, ScreenOK, SessionOK
    <2>2. KeysOK' /\ PasteOK'
      BY <1>1, SameFront DEF vars, TuiInv
    <2> QED BY <2>1, <2>2 DEF TuiInv
  <1> QED BY <1>1, WorldTui, LoopTui, UserTui DEF TuiNext

LEMMA TuiKept == TuiSpec => []TuiInv
  BY InitTui, StepTui, PTL DEF TuiSpec

(* The screen, the mirror of the agents and the threads are well typed.      *)
THEOREM TuiTypeCorrect == TuiSpec => []TuiTypeOK
  <1>1. TuiInv => TuiTypeOK
    BY TuiParts DEF TuiInv
  <1> QED BY <1>1, TuiKept, PTL

(* A key reaches the agent that the user saw with the focus, or none, unless *)
(* a session that was asked for was brought up since; and a paste made with  *)
(* a form open reaches none, unless one came up under that form              *)
(* (tui/mod.rs).                                                             *)
THEOREM KeysReachWhatIsSeen == TuiSpec => []KeysWhereMeant
  BY TuiInvKeys, TuiKept, PTL

-----------------------------------------------------------------------------
(* The tray icon                                                             *)

Phases == {"absent", "started", "owner", "recorded", "up", "closing",
           "destroyed", "gone", "quitting", "leaving"}

View == [running : BOOLEAN, hosted : SUBSET Sessions]

LifeOK ==
  /\ phase \in [Trays -> Phases] /\ close \subseteq Trays
  /\ tray \in SessionState \cup {"none"}
  /\ watchdog \in {"idle", "dead", "spawn"} /\ helper \in {"idle", "closed", "none"}

(* While "off" holds, nobody is to write the Run entry.                      *)
LogonOK ==
  /\ logon \in BOOLEAN /\ off \in BOOLEAN /\ entries \subseteq {"write", "delete"} /\ overtaken \in BOOLEAN
  /\ LogonOff
  /\ off /\ ~overtaken => "write" \notin entries

(* What is on its way to the window is as what it shows: sets of sessions.   *)
LinkOK ==
  /\ daemon \in {"up", "down"} /\ hosted \subseteq Sessions
  /\ linked \in {"no", "yes", "cut"} /\ view \in View
  /\ pipe \in Seq(SUBSET Sessions) /\ posted \in Seq(View)

(* The mutex: one tray at a time is past it.                                 *)
Alone == \A t, o \in Trays : Owns(t) /\ Owns(o) => t = o

(* Why a quit lasts: it is on record for the watchdog, nothing that was      *)
(* started or decided before it is still on its way, and nobody shows a      *)
(* window.                                                                   *)
QuitLasts == ordered /\ ~early => /\ tray = "quit" /\ watchdog # "spawn"
                                  /\ \A t \in Trays : phase[t] \notin {"started", "owner", "recorded", "up"}

TrayInv == LifeOK /\ LogonOK /\ LinkOK /\ Alone /\ QuitLasts

LEMMA TrayInvObeys == TrayInv => TrayObeys
  <1> SUFFICES ASSUME TrayInv PROVE TrayObeys
    OBVIOUS
  <1>1. TTypeOK
    BY DEF TrayInv, LifeOK, LogonOK, LinkOK, TTypeOK, Phases, View
  <1>2. NoRevival
    BY DEF TrayInv, QuitLasts, NoRevival, Up
  <1> QED BY <1>1, <1>2 DEF TrayInv, LogonOK, TrayObeys

LEMMA InitTray == TInit => TrayInv
  <1> SUFFICES ASSUME TInit PROVE TrayInv
    OBVIOUS
  <1>1. LifeOK /\ Alone
    BY DEF TInit, LifeOK, Alone, Owns, Phases, SessionState
  <1>2. LogonOK
    BY DEF TInit, LogonOK, LogonOff
  <1>3. Blank \in View
    BY DEF Blank, View
  <1>4. LinkOK
    BY <1>3 DEF TInit, LinkOK
  <1>5. QuitLasts
    BY DEF TInit, QuitLasts
  <1> QED BY <1>1, <1>2, <1>4, <1>5 DEF TrayInv

-----------------------------------------------------------------------------
(* What the main thread, the watchdog and the helper do to each other.       *)

(* One process moves on, past the mutex or not; the rest stands.             *)
LEMMA MovesOn ==
  ASSUME LifeOK, Alone, NEW t \in Trays, NEW p \in Phases,
         phase' = [phase EXCEPT ![t] = p],
         p \in {"absent", "started"} \/ Owns(t) \/ \A o \in Trays : ~Owns(o)
  PROVE  phase' \in [Trays -> Phases] /\ Alone'
  <1>1. phase' \in [Trays -> Phases] /\ \A o \in Trays : phase'[o] = IF o = t THEN p ELSE phase[o]
    BY DEF LifeOK
  <1>2. Alone'
    BY <1>1 DEF Alone, Owns
  <1> QED BY <1>1, <1>2

LEMMA QuitHolds ==
  ASSUME LifeOK, QuitLasts, UNCHANGED <<ordered, early, tray>>, watchdog' # "spawn" \/ UNCHANGED watchdog,
         \A o \in Trays : phase'[o] = phase[o] \/ phase'[o] \notin {"started", "owner", "recorded", "up"}
  PROVE  QuitLasts'
  BY DEF QuitLasts

(* WM_CLOSE or the end of the loop: the one tray that runs goes.             *)
LEMMA QuitRecorded ==
  ASSUME LifeOK, Alone, Quits, tray' = "quit", UNCHANGED watchdog,
         NEW t \in Trays, NEW p \in Phases \ {"started", "owner", "recorded", "up"},
         Owns(t), phase' = [phase EXCEPT ![t] = p]
  PROVE  QuitLasts'
  <1>1. \A o \in Trays : phase'[o] = IF o = t THEN p ELSE phase[o]
    BY DEF LifeOK
  <1>2. \A o \in Trays : o # t => phase[o] \in {"absent", "started"}
    BY DEF Alone, Owns
  <1> QED BY <1>1, <1>2 DEF Quits, QuitLasts

LEMMA StartedOK ==
  ASSUME LifeOK, Alone, \E t \in Trays : Started(t)
  PROVE  phase' \in [Trays -> Phases] /\ Alone'
  <1>1. PICK t \in Trays : Started(t)
    OBVIOUS
  <1> QED BY <1>1, MovesOn DEF Started, Phases

(* The rest of the state does not look at the life of the processes.         *)
LEMMA LifeLeft == ASSUME TrayInv, UNCHANGED life PROVE LifeOK' /\ Alone' /\ QuitLasts'
  BY DEF TrayInv, life, LifeOK, Alone, Owns, QuitLasts

LEMMA LogonLeft == ASSUME TrayInv, UNCHANGED runkey PROVE LogonOK'
  <1>1. UNCHANGED <<logon, off, entries, overtaken>>
    BY DEF runkey
  <1> QED BY <1>1 DEF TrayInv, LogonOK, LogonOff

(* The user's word, an install and an uninstall, each with its second access *)
(* to the registry, which a sign-out may forestall.                          *)
LEMMA LogonKept ==
  ASSUME TrayInv,
         \/ Refresh \/ RemoveLogon \/ SignIn \/ \E b \in BOOLEAN : SetLogon(b)
         \/ \E what \in {"write", "delete"} : RunEntry(what) \/ CutEntry(what)
  PROVE  LogonOK'
  <1>1. /\ logon \in BOOLEAN /\ off \in BOOLEAN /\ entries \subseteq {"write", "delete"}
        /\ overtaken \in BOOLEAN
        /\ off /\ "delete" \notin entries /\ ~overtaken => ~logon
        /\ off /\ ~overtaken => "write" \notin entries
    BY DEF TrayInv, LogonOK, LogonOff
  <1>2. ASSUME NEW b \in BOOLEAN, SetLogon(b) PROVE LogonOK'
    <2>1. /\ off' = ~b /\ UNCHANGED logon
          /\ overtaken' = (~b /\ "write" \in entries)
          /\ entries' = entries \cup {IF b THEN "write" ELSE "delete"}
      BY <1>2 DEF SetLogon
    <2>2. off' \in BOOLEAN /\ overtaken' \in BOOLEAN /\ logon' \in BOOLEAN
          /\ entries' \subseteq {"write", "delete"}
      BY <1>1, <2>1
    <2>3. CASE b
      <3>1. ~off'
        BY <2>1, <2>3, Zenon
      <3> QED BY <2>2, <3>1, Zenon DEF LogonOK, LogonOff
    <2>4. CASE ~b
      <3>1. "delete" \in entries' /\ ("write" \in entries' <=> "write" \in entries)
        BY <2>1, <2>4
      <3>2. overtaken' <=> "write" \in entries
        BY <2>1, <2>4, Zenon
      <3> QED BY <2>2, <3>1, <3>2, Zenon DEF LogonOK, LogonOff
    <2> QED BY <2>3, <2>4
  <1>3. CASE Refresh
    <2>1. ~off /\ UNCHANGED <<logon, off, overtaken>> /\ entries' = entries \cup {"write"}
      BY <1>3 DEF Refresh
    <2> QED BY <1>1, <2>1 DEF LogonOK, LogonOff
  <1>4. CASE RemoveLogon
    <2>1. logon' = FALSE /\ UNCHANGED <<off, overtaken, entries>>
      BY <1>4 DEF RemoveLogon
    <2> QED BY <1>1, <2>1 DEF LogonOK, LogonOff
  <1>5. CASE SignIn
    <2>1. UNCHANGED <<logon, off>> /\ entries' = {} /\ overtaken' = (overtaken \/ "delete" \in entries)
      BY <1>5 DEF SignIn
    <2> QED BY <1>1, <2>1 DEF LogonOK, LogonOff
  <1>6. ASSUME NEW what \in {"write", "delete"}, RunEntry(what) PROVE LogonOK'
    <2>1. what \in entries /\ logon' = (what = "write") /\ UNCHANGED <<off, overtaken>>
          /\ entries' = entries \ {what}
      BY <1>6 DEF RunEntry
    <2> QED BY <1>1, <2>1 DEF LogonOK, LogonOff
  <1>7. ASSUME NEW what \in {"write", "delete"}, CutEntry(what) PROVE LogonOK'
    <2>1. UNCHANGED <<logon, off>> /\ entries' = entries \ {what} /\ overtaken' = (overtaken \/ what = "delete")
      BY <1>7 DEF CutEntry
    <2> QED BY <1>1, <2>1 DEF LogonOK, LogonOff
  <1> QED BY <1>2, <1>3, <1>4, <1>5, <1>6, <1>7

LEMMA LinkLeft ==
  ASSUME TrayInv, UNCHANGED <<daemon, hosted, pipe, posted, view, linked>>
  PROVE  LinkOK'
  BY DEF TrayInv, LinkOK

(* The main thread keeps it all.                                             *)
LEMMA MainTray ==
  ASSUME TrayInv, NEW t \in Trays, Main(t) \/ GearQuit(t) \/ Crash(t)
  PROVE  TrayInv'
  <1> USE DEF TrayInv
  <1>a. LogonOK'
    BY LogonLeft DEF Main, Mutex, Record, Show, Close, Destroy, LoopEnds, Exit, GearQuit, Crash
  <1>1. CASE Mutex(t)
    <2>1. LinkOK'
      BY <1>1, LinkLeft DEF Mutex, link
    <2>2. PICK p \in {"absent", "owner"} :
            phase' = [phase EXCEPT ![t] = p] /\ (p = "absent" \/ \A o \in Trays : ~Owns(o))
      BY <1>1 DEF Mutex
    <2>3. phase' \in [Trays -> Phases] /\ Alone'
      BY <2>2, MovesOn DEF Phases
    <2>4. LifeOK' /\ QuitLasts'
      BY <1>1, <2>3 DEF Mutex, LifeOK, QuitLasts
    <2> QED BY <1>a, <2>1, <2>3, <2>4
  <1>2. CASE Record(t)
    <2>1. LinkOK'
      BY <1>2, LinkLeft DEF Record, link
    <2>2. phase' \in [Trays -> Phases] /\ Alone'
      BY <1>2, MovesOn DEF Record, Owns, Phases
    <2>3. LifeOK' /\ QuitLasts'
      BY <1>2, <2>2 DEF Record, LifeOK, QuitLasts, SessionState
    <2> QED BY <1>a, <2>1, <2>2, <2>3
  <1>3. CASE Show(t)
    <2>1. Blank \in View
      BY DEF Blank, View
    <2>2. LinkOK'
      BY <1>3, <2>1 DEF Show, LinkOK
    <2>3. phase' \in [Trays -> Phases] /\ Alone'
      BY <1>3, MovesOn DEF Show, Owns, Phases
    <2>4. LifeOK' /\ QuitLasts'
      BY <1>3, <2>3 DEF Show, LifeOK, QuitLasts
    <2> QED BY <1>a, <2>2, <2>3, <2>4
  <1>4. CASE Close(t)
    <2>1. LinkOK'
      BY <1>4, LinkLeft DEF Close
    <2>2. phase' \in [Trays -> Phases] /\ Alone'
      BY <1>4, MovesOn DEF Close, Owns, Phases
    <2>3. LifeOK'
      BY <1>4, <2>2 DEF Close, LifeOK, SessionState
    <2>4. QuitLasts'
      BY <1>4, QuitRecorded DEF Close, Owns, Phases
    <2> QED BY <1>a, <2>1, <2>2, <2>3, <2>4
  <1>5. CASE Destroy(t)
    <2>1. LinkOK'
      BY <1>5, LinkLeft DEF Destroy, link
    <2>2. phase' \in [Trays -> Phases] /\ Alone'
      BY <1>5, MovesOn DEF Destroy, Owns, Phases
    <2>3. LifeOK' /\ QuitLasts'
      BY <1>5, <2>2 DEF Destroy, LifeOK, QuitLasts
    <2> QED BY <1>a, <2>1, <2>2, <2>3
  <1>6. CASE LoopEnds(t)
    <2>1. LinkOK'
      BY <1>6, LinkLeft DEF LoopEnds, link
    <2>2. PICK p \in {"gone", "leaving"} : phase' = [phase EXCEPT ![t] = p]
      BY <1>6 DEF LoopEnds
    <2>3. Owns(t) /\ p \in Phases
      BY <1>6, <2>2 DEF LoopEnds, Owns, Phases
    <2>4. phase' \in [Trays -> Phases] /\ Alone'
      BY <2>2, <2>3, MovesOn
    <2>5. LifeOK'
      BY <1>6, <2>4 DEF LoopEnds, LifeOK, SessionState
    <2>6. p \in Phases \ {"started", "owner", "recorded", "up"}
      BY <2>2 DEF Phases
    <2>7. tray' = "quit" /\ UNCHANGED watchdog
      BY <1>6 DEF LoopEnds
    <2>8. CASE phase[t] = "quitting"
      <3>1. Quits
        BY <1>6, <2>8 DEF LoopEnds
      <3> QED BY <1>a, <2>1, <2>2, <2>3, <2>4, <2>5, <2>6, <2>7, <3>1, QuitRecorded
    <2>9. CASE phase[t] # "quitting"
      <3>1. UNCHANGED <<ordered, early>>
        BY <1>6, <2>9 DEF LoopEnds
      <3>2. \A o \in Trays : phase'[o] = phase[o] \/ phase'[o] \in {"gone", "leaving"}
        BY <2>2 DEF LifeOK
      <3>3. QuitLasts'
        BY <2>7, <3>1, <3>2 DEF QuitLasts
      <3> QED BY <1>a, <2>1, <2>4, <2>5, <3>3
    <2> QED BY <2>8, <2>9
  <1>7. CASE Exit(t)
    <2>1. LinkOK'
      BY <1>7, LinkLeft DEF Exit, link
    <2>2. phase' \in [Trays -> Phases] /\ Alone'
      BY <1>7, MovesOn DEF Exit, Phases
    <2>3. LifeOK' /\ QuitLasts'
      BY <1>7, <2>2 DEF Exit, LifeOK, QuitLasts
    <2> QED BY <1>a, <2>1, <2>2, <2>3
  <1>8. CASE GearQuit(t)
    <2>1. LinkOK'
      BY <1>8, LinkLeft DEF GearQuit, link
    <2>2. phase' \in [Trays -> Phases] /\ Alone'
      BY <1>8, MovesOn DEF GearQuit, Owns, Phases
    <2>3. LifeOK' /\ QuitLasts'
      BY <1>8, <2>2 DEF GearQuit, LifeOK, QuitLasts
    <2> QED BY <1>a, <2>1, <2>2, <2>3
  <1>9. CASE Crash(t)
    <2>1. LinkOK'
      BY <1>9, LinkLeft DEF Crash
    <2>2. phase' \in [Trays -> Phases] /\ Alone'
      BY <1>9, MovesOn DEF Crash, Phases
    <2>3. LifeOK' /\ QuitLasts'
      BY <1>9, <2>2 DEF Crash, LifeOK, QuitLasts
    <2> QED BY <1>a, <2>1, <2>2, <2>3
  <1> QED BY <1>1, <1>2, <1>3, <1>4, <1>5, <1>6, <1>7, <1>8, <1>9 DEF Main

(* Starting, quitting and the start at logon, from outside.                  *)
LEMMA OutsideTray ==
  ASSUME TrayInv,
         \/ Spawn \/ Quit \/ Refresh \/ RemoveLogon \/ SignIn \/ Watch
         \/ HelperStops \/ HelperStarts \/ \E b \in BOOLEAN : SetLogon(b)
         \/ \E what \in {"write", "delete"} : RunEntry(what) \/ CutEntry(what)
  PROVE  TrayInv'
  <1> USE DEF TrayInv
  <1>1. CASE Spawn
    <2>1. LogonOK' /\ LinkOK'
      BY <1>1, LogonLeft, LinkLeft DEF Spawn, link
    <2>2. phase' \in [Trays -> Phases] /\ Alone'
      BY <1>1, StartedOK DEF Spawn
    <2> QED BY <1>1, <2>1, <2>2 DEF Spawn, LifeOK, QuitLasts
  <1>2. CASE Quit
    <2>1. LogonOK' /\ LinkOK'
      BY <1>2, LogonLeft, LinkLeft DEF Quit, link
    <2> QED BY <1>2, <2>1 DEF Quit, LifeOK, Alone, Owns, QuitLasts
  <1>3. CASE \/ Refresh \/ RemoveLogon \/ \E b \in BOOLEAN : SetLogon(b)
             \/ \E what \in {"write", "delete"} : RunEntry(what) \/ CutEntry(what)
    <2>1. UNCHANGED life /\ UNCHANGED link /\ UNCHANGED <<daemon, hosted>>
      BY <1>3 DEF Refresh, RemoveLogon, SetLogon, RunEntry, CutEntry
    <2>2. LifeOK' /\ Alone' /\ QuitLasts' /\ LinkOK'
      BY <2>1, LifeLeft, LinkLeft DEF link
    <2> QED BY <1>3, <2>2, LogonKept
  <1>4. CASE SignIn
    <2>1. LogonOK'
      BY <1>4, LogonKept
    <2>2. Blank \in View
      BY DEF Blank, View
    <2>3. LinkOK'
      BY <1>4, <2>2 DEF SignIn, LinkOK
    <2>4. PICK t \in Trays : phase' = [o \in Trays |-> IF o = t /\ logon THEN "started" ELSE "absent"]
      BY <1>4 DEF SignIn
    <2>5. phase' \in [Trays -> Phases] /\ Alone'
      BY <2>4 DEF Phases, Alone, Owns
    <2> QED BY <1>4, <2>1, <2>3, <2>5 DEF SignIn, LifeOK, QuitLasts, SessionState
  <1>5. CASE Look \/ Ensure
    <2>1. LogonOK' /\ LinkOK'
      BY <1>5, LogonLeft, LinkLeft DEF Look, Ensure, link
    <2>2. LifeOK' /\ Alone'
      BY <1>5 DEF Look, Ensure, LifeOK, Alone, Owns
    <2>3. QuitLasts'
      BY <1>5 DEF Look, Ensure, should_relaunch, QuitLasts
    <2> QED BY <2>1, <2>2, <2>3
  <1>6. CASE Relaunch
    <2>1. LogonOK' /\ LinkOK'
      BY <1>6, LogonLeft, LinkLeft DEF Relaunch, link
    <2>2. phase' \in [Trays -> Phases] /\ Alone'
      BY <1>6, StartedOK DEF Relaunch
    <2> QED BY <1>6, <2>1, <2>2 DEF Relaunch, LifeOK, QuitLasts
  <1>7. CASE HelperStops
    <2>1. LogonOK'
      BY <1>7, LogonLeft DEF HelperStops
    <2>2. LinkOK'
      BY <1>7 DEF HelperStops, Cut, LinkOK
    <2>3. LifeOK' /\ Alone'
      BY <1>7 DEF HelperStops, LifeOK, Alone, Owns
    <2>4. QuitLasts'
      BY <1>7 DEF HelperStops, QuitLasts
    <2> QED BY <2>1, <2>2, <2>3, <2>4
  <1>8. CASE HelperStarts
    <2>1. LogonOK'
      BY <1>8, LogonLeft DEF HelperStarts
    <2>2. LinkOK'
      BY <1>8 DEF HelperStarts, link, LinkOK
    <2>3. CASE (\E t \in Trays : Started(t)) /\ ordered' = FALSE
      <3>1. phase' \in [Trays -> Phases] /\ Alone'
        BY <2>3, StartedOK
      <3> QED BY <1>8, <2>1, <2>2, <2>3, <3>1 DEF HelperStarts, LifeOK, QuitLasts
    <2>4. CASE UNCHANGED <<phase, ordered>>
      BY <1>8, <2>1, <2>2, <2>4 DEF HelperStarts, LifeOK, Alone, Owns, QuitLasts
    <2> QED BY <1>8, <2>3, <2>4 DEF HelperStarts
  <1> QED BY <1>1, <1>2, <1>3, <1>4, <1>5, <1>6, <1>7, <1>8 DEF Watch

(* The mirror and the daemon buttons do not start or quit a tray.            *)
LEMMA MirrorTray ==
  ASSUME TrayInv,
         \/ Thread \/ Obey \/ Start \/ \E s \in Sessions : Host(s)
         \/ (\E b \in BOOLEAN : Answer(b)) \/ \E act \in {"start", "stop", "restart"} : Button(act)
  PROVE  TrayInv'
  <1> USE DEF TrayInv
  <1>a. LogonOK'
    BY LogonLeft DEF Thread, Subscribe, Push, Lost, State, Obey, Start, Host, Answer, Button
  <1>b. ASSUME UNCHANGED life PROVE LifeOK' /\ Alone' /\ QuitLasts'
    BY <1>b, LifeLeft
  <1>c. /\ hosted \in SUBSET Sessions /\ view \in View
        /\ pipe \in Seq(SUBSET Sessions) /\ posted \in Seq(View)
    BY DEF LinkOK
  <1>1. CASE Subscribe
    <2>1. pipe' \in Seq(SUBSET Sessions)
      BY <1>1, <1>c DEF Subscribe
    <2> QED BY <1>1, <1>a, <1>b, <2>1 DEF Subscribe, LinkOK
  <1>2. CASE Push
    <2>1. Head(pipe) \in SUBSET Sessions /\ Tail(pipe) \in Seq(SUBSET Sessions)
      BY <1>2, <1>c, HeadTail DEF Push
    <2>2. [running |-> TRUE, hosted |-> Head(pipe)] \in View
      BY <2>1 DEF View
    <2>3. posted' \in Seq(View) /\ pipe' \in Seq(SUBSET Sessions)
      BY <1>2, <1>c, <2>1, <2>2 DEF Push
    <2> QED BY <1>2, <1>a, <1>b, <2>3 DEF Push, LinkOK
  <1>3. CASE Lost
    <2>1. Blank \in View
      BY DEF Blank, View
    <2>2. posted' \in Seq(View) /\ pipe' \in Seq(SUBSET Sessions)
      BY <1>3, <1>c, <2>1 DEF Lost
    <2> QED BY <1>3, <1>a, <1>b, <2>2 DEF Lost, LinkOK
  <1>4. CASE State
    <2>1. Head(posted) \in View /\ Tail(posted) \in Seq(View)
      BY <1>4, <1>c, HeadTail DEF State
    <2> QED BY <1>4, <1>a, <1>b, <2>1 DEF State, LinkOK
  <1>5. CASE Obey
    <2>1. LinkOK'
      BY <1>5 DEF Obey, Cut, LinkOK
    <2>2. LifeOK' /\ Alone'
      BY <1>5 DEF Obey, LifeOK, Alone, Owns
    <2>3. QuitLasts'
      BY <1>5 DEF Obey, QuitLasts
    <2> QED BY <1>a, <2>1, <2>2, <2>3
  <1>6. CASE Start
    BY <1>6, <1>a, <1>b DEF Start, link, LinkOK
  <1>7. ASSUME NEW s \in Sessions, Host(s) PROVE TrayInv'
    <2>1. hosted' \in SUBSET Sessions
      BY <1>7, <1>c DEF Host
    <2>2. pipe' \in Seq(SUBSET Sessions)
      BY <1>7, <1>c, <2>1 DEF Host
    <2> QED BY <1>7, <1>a, <1>b, <2>1, <2>2 DEF Host, LinkOK
  <1>8. CASE (\E b \in BOOLEAN : Answer(b)) \/ \E act \in {"start", "stop", "restart"} : Button(act)
    BY <1>8, <1>a, <1>b, LinkLeft DEF Answer, Button
  <1> QED BY <1>1, <1>2, <1>3, <1>4, <1>5, <1>6, <1>7, <1>8 DEF Thread

LEMMA StepTray == TrayInv /\ [TNext]_tvars => TrayInv'
  <1> SUFFICES ASSUME TrayInv, [TNext]_tvars PROVE TrayInv'
    OBVIOUS
  <1>1. CASE UNCHANGED tvars
    <2>1. UNCHANGED life /\ UNCHANGED runkey /\ UNCHANGED <<daemon, hosted, pipe, posted, view, linked>>
      BY <1>1 DEF tvars, life
    <2> QED BY <2>1, LifeLeft, LogonLeft, LinkLeft DEF TrayInv
  <1>2. CASE \E t \in Trays : Main(t) \/ GearQuit(t) \/ Crash(t)
    BY <1>2, MainTray
  <1>3. CASE \/ Spawn \/ Quit \/ Refresh \/ RemoveLogon \/ SignIn \/ Watch
             \/ HelperStops \/ HelperStarts \/ \E b \in BOOLEAN : SetLogon(b)
             \/ \E what \in {"write", "delete"} : RunEntry(what) \/ CutEntry(what)
    BY <1>3, OutsideTray
  <1>4. CASE \/ Thread \/ Obey \/ Start \/ \E s \in Sessions : Host(s)
             \/ (\E b \in BOOLEAN : Answer(b)) \/ \E act \in {"start", "stop", "restart"} : Button(act)
    BY <1>4, MirrorTray
  <1> QED BY <1>1, <1>2, <1>3, <1>4 DEF TNext

(* The user's word on the tray holds (tray.rs): after a recorded quit no     *)
(* window comes up on a watchdog's later word, and neither an install nor an *)
(* update that looks after the start at logon was turned off brings it back. *)
THEOREM TheUsersWordHolds == TSpec => []TrayObeys
  <1>1. TInit => TrayInv
    BY InitTray
  <1>2. TrayInv /\ [TNext]_tvars => TrayInv'
    BY StepTray
  <1>3. TrayInv => TrayObeys
    BY TrayInvObeys
  <1> QED BY <1>1, <1>2, <1>3, PTL DEF TSpec

(* The named mutex of tray.rs: two trays never share a sign-in.          *)
THEOREM OneTray == TSpec => []Alone
  <1>1. TInit => TrayInv
    BY InitTray
  <1>2. TrayInv /\ [TNext]_tvars => TrayInv'
    BY StepTray
  <1>3. TrayInv => Alone
    BY DEF TrayInv
  <1> QED BY <1>1, <1>2, <1>3, PTL DEF TSpec
=============================================================================
