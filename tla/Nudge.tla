------------------------------- MODULE Nudge -------------------------------
(***************************************************************************)
(* The reminders to write and to update the plan of a worktree             *)
(* (crates/wtd/src: nudge.rs, hook.rs).                                    *)
(*                                                                         *)
(* The hook is a process of its own for every tool call that edits a file: *)
(* it reads the worktree's reminder state, steps it, writes it back and    *)
(* prints.  Parallel tool calls, and sessions that take turns in one       *)
(* worktree, share that one file.                                          *)
(***************************************************************************)
EXTENDS Integers

CONSTANTS Callers,       \* hook processes at one time
          Sessions,    \* agent sessions of the worktree
          StaleEvery,  \* nudge.rs STALE_EVERY
          MaxCalls     \* bound: tool calls that edit a file

ASSUME NudgeAssumption ==
  StaleEvery \in Nat \ {0} /\ MaxCalls \in Nat /\ "none" \notin Sessions

VARIABLES noted,    \* the reminder state on disk
          plan,     \* is there an active plan?
          edit,     \* process -> what it is doing
          calls,    \* the calls that remain
          told,     \* ghost: session -> how often it was told there is no plan
          due,      \* ghost: source edits since the plan was edited or called stale
          caller,   \* ghost: the session of the last call
          together, \* ghost: two hooks ran at the same time
          back      \* ghost: the sessions that had another one in between

nvars == <<noted, plan, edit, calls, told, due, caller, together, back>>

NoSession == "none"
Fresh     == [session |-> NoSession, warned |-> FALSE, edits |-> 0]
NoCall      == [at |-> "idle", path |-> "scratch", next |-> Fresh, says |-> "nothing"]
States    == [session : Sessions, warned : BOOLEAN, edits : Nat]
Paths     == {"plan", "source", "scratch"}
Working   == [at : {"write", "fill", "print"}, path : Paths, next : States,
              says : {"nothing", "no plan", "stale"}]

NudgeInit ==
  /\ noted = Fresh
  /\ plan \in BOOLEAN
  /\ edit = [h \in Callers |-> NoCall]
  /\ calls = MaxCalls
  /\ told = [s \in Sessions |-> 0]
  /\ due = 0
  /\ caller = NoSession
  /\ together = FALSE
  /\ back = {}

(* A mutant for Of: what the session was told is forgotten every time. *)
OfUntold(st, s) == [st EXCEPT !.session = s, !.warned = FALSE]

(* Another session starts from nothing. *)
Of(st, s) == IF st.session = s THEN st ELSE [Fresh EXCEPT !.session = s]

(* A mutant for Stepped: the count starts anew with the last edit before   *)
(* the reminder.                                                           *)
StepLate(st, s, path) ==
  LET cur == Of(st, s) IN
  IF path = "plan" THEN [st |-> [cur EXCEPT !.edits = 0], says |-> "nothing"]
  ELSE IF path = "scratch" THEN [st |-> cur, says |-> "nothing"]
  ELSE IF ~plan THEN [st |-> [cur EXCEPT !.warned = TRUE],
                      says |-> IF cur.warned THEN "nothing" ELSE "no plan"]
  ELSE [st |-> [cur EXCEPT !.edits = @ + 1],
        says |-> IF cur.edits > 0 /\ cur.edits % StaleEvery = 0 THEN "stale" ELSE "nothing"]

(* One edit: the state after it and the reminder, if any.                  *)
Stepped(st, s, path) ==
     LET cur == Of(st, s) IN
     IF path = "plan" THEN [st |-> [cur EXCEPT !.edits = 0], says |-> "nothing"]
     ELSE IF path = "scratch" THEN [st |-> cur, says |-> "nothing"]
     ELSE IF ~plan THEN [st |-> [cur EXCEPT !.warned = TRUE],
                         says |-> IF cur.warned THEN "nothing" ELSE "no plan"]
     ELSE [st |-> [cur EXCEPT !.edits = @ + 1],
           says |-> IF (cur.edits + 1) % StaleEvery = 0 THEN "stale" ELSE "nothing"]

(* A tool call of session s is about to edit path: its hook reads the file *)
(* and steps what it read; a state that did not change is not written.     *)
Begin(h, s, path) ==
  /\ edit[h] = NoCall /\ calls > 0
  /\ calls' = calls - 1
  /\ LET r == Stepped(noted, s, path) IN
     edit' = [edit EXCEPT ![h] =
                [at |-> IF r.st = noted THEN "print" ELSE "write",
                 path |-> path, next |-> r.st, says |-> r.says]]
  /\ together' = (together \/ \E g \in Callers : edit[g] # NoCall)
  /\ caller' = s
  /\ back' = IF caller \in {NoSession, s} THEN back ELSE back \cup {caller}
  /\ due' = IF path = "plan" \/ caller # s THEN IF path = "source" /\ plan THEN 1 ELSE 0
            ELSE IF path = "source" /\ plan THEN due + 1 ELSE due
  /\ UNCHANGED <<noted, plan, told>>

(* The file is written in place: emptied, then filled.                     *)
Empty(h) ==
  /\ edit[h].at = "write"
  /\ noted' = Fresh
  /\ edit' = [edit EXCEPT ![h].at = "fill"]
  /\ UNCHANGED <<plan, calls, told, due, caller, together, back>>

Fill(h) ==
  /\ edit[h].at = "fill"
  /\ noted' = edit[h].next
  /\ edit' = [edit EXCEPT ![h].at = "print"]
  /\ UNCHANGED <<plan, calls, told, due, caller, together, back>>

(* The reminder is printed, and the tool call goes on. *)
Answer(h) ==
  /\ edit[h].at = "print"
  /\ plan' = (plan \/ edit[h].path = "plan")
  /\ told' = IF edit[h].says = "no plan"
             THEN [told EXCEPT ![edit[h].next.session] = @ + 1] ELSE told
  /\ due' = IF edit[h].says = "stale" THEN 0 ELSE due
  /\ edit' = [edit EXCEPT ![h] = NoCall]
  /\ UNCHANGED <<noted, calls, caller, together, back>>

(* The plan is moved by a command: no hook sees it go or come. *)
MovePlan ==
  /\ \A h \in Callers : edit[h] = NoCall
  /\ plan' = ~plan
  /\ UNCHANGED <<noted, edit, calls, told, due, caller, together, back>>

NudgeNext ==
  \/ \E h \in Callers : \/ \E s \in Sessions, path \in Paths : Begin(h, s, path)
                      \/ Empty(h) \/ Fill(h) \/ Answer(h)
  \/ MovePlan

NudgeSpec == NudgeInit /\ [][NudgeNext]_nvars

-----------------------------------------------------------------------------
(* What a call read, counted on and is about to write is its own session's. *)
NudgeTypeOK ==
  /\ noted \in States \cup {Fresh}
  /\ plan \in BOOLEAN /\ together \in BOOLEAN
  /\ edit \in [Callers -> {NoCall} \cup Working]
  /\ calls \in 0..MaxCalls /\ due \in Nat
  /\ told \in [Sessions -> Nat]
  /\ caller \in Sessions \cup {NoSession}
  /\ back \subseteq Sessions

(* A session is told once that there is no plan, unless hooks ran at the   *)
(* same time or another session had the worktree in between (nudge.rs:4).  *)
RemindedOnce ==
  \A s \in Sessions : told[s] <= 1 \/ together \/ s \in back

(* The same without the second excuse, as nudge.rs:4 has it. *)
OncePerSession ==
  \A s \in Sessions : told[s] <= 1 \/ together

(* No session makes StaleEvery source edits with a plan that it does not   *)
(* edit, without a reminder, unless hooks ran at the same time or another  *)
(* session came in between, with which the count begins anew.              *)
StaleNoticed ==
  (\A h \in Callers : edit[h] = NoCall) => due < StaleEvery \/ together

(***************************************************************************)
(* Each session is reminded once that there is no plan, and of a stale one *)
(* every STALE_EVERY edits (nudge.rs:4-5), while hooks do not run at once. *)
(***************************************************************************)
RemindersRight == NudgeTypeOK /\ RemindedOnce /\ StaleNoticed
=============================================================================
