------------------------------- MODULE Usage -------------------------------
(***************************************************************************)
(* The accounts' usage numbers and the reset time of a limited worktree    *)
(* (crates/wtd/src/daemon: usage.rs, and usage_loop, upsert and rescan of  *)
(* mod.rs).                                                                *)
(*                                                                         *)
(* Once a minute a thread reads each account's login and asks the service; *)
(* a question that fails falls back to the last good answer, and where     *)
(* there was none to the file the statusline writes.  Logins come and go   *)
(* while the thread waits for an answer.                                   *)
(***************************************************************************)
EXTENDS FiniteSets, Integers

CONSTANTS Claude, Codex,  \* account directories, by provider
          DefaultCodex,   \* ~/.codex
          Users,          \* who may log in
          Windows,        \* the readings the service may give: [five, seven]
          MaxRounds,      \* bound: rounds of questions
          MaxLogins,      \* bound: logins and logouts
          MaxEvents       \* bound: changes of a worktree, and restarts

Accounts == Claude \cup Codex

ASSUME UsageAssumption ==
  /\ Claude \cap Codex = {} /\ "" \notin Users
  /\ \A w \in Windows : w.five.at \in Nat \ {0} /\ w.seven.at \in Nat \ {0}
  /\ {MaxRounds, MaxLogins, MaxEvents} \subseteq Nat

VARIABLES who,       \* account -> the user logged in to it, "" if none
          cache,     \* account -> the statusline's file: the reading, or NoReading
          thread,    \* the round in progress
          last,      \* usage_loop's `last`: account -> the last good answer
          accounts,  \* what the daemon shows: account -> entry (no entry: not asked yet)
          tree,      \* a worktree of each account: limited, the reset its status file has, the shown one
          rounds, logins, events  \* what remains of the bounds

usageVars == <<who, cache, thread, last, accounts, tree, rounds, logins, events>>

NoReading == [five |-> [full |-> FALSE, at |-> 0], seven |-> [full |-> FALSE, at |-> 0]]
NoAnswer  == [email |-> "", read |-> NoReading, ts |-> 0]
Unasked   == [email |-> "", read |-> NoReading, ts |-> 0, nologin |-> TRUE]
Idle      == [todo |-> {}, asking |-> {}, as |-> "", got |-> <<>>]
Round       == MaxRounds - rounds + 1

UsageInit ==
  /\ who \in [Accounts -> Users \cup {""}]
  /\ cache \in [Accounts -> Windows \cup {NoReading}]
  /\ \A a \in Codex : cache[a] = NoReading
  /\ thread = Idle
  /\ last = [a \in Accounts |-> NoAnswer]
  /\ accounts = [a \in Accounts |-> Unasked]
  /\ tree = [a \in Accounts |-> [limited |-> FALSE, file |-> 0, shown |-> 0]]
  /\ rounds = MaxRounds /\ logins = MaxLogins /\ events = MaxEvents

(***************************************************************************)
(* The numbers                                                             *)
(***************************************************************************)
Latest(m, n) == IF m > n THEN m ELSE n

(* When the exhausted window resets, the later one if both are; else the   *)
(* five-hour window's reset.  0 is unknown.                                *)
LimitReset(r) ==
  IF r.five.full /\ r.seven.full THEN Latest(r.five.at, r.seven.at)
  ELSE IF r.seven.full THEN r.seven.at
  ELSE r.five.at

(* Somebody logs in to an account's directory, or out of it: credentials   *)
(* and e-mail go together.                                                 *)
Login(a, u) ==
  /\ logins > 0 /\ who[a] # u
  /\ who' = [who EXCEPT ![a] = u]
  /\ logins' = logins - 1
  /\ UNCHANGED <<cache, thread, last, accounts, tree, rounds, events>>

BeginRound ==
  /\ thread = Idle /\ rounds > 0
  /\ thread' = [Idle EXCEPT !.todo = Accounts, !.got = [a \in Accounts |-> Unasked]]
  /\ UNCHANGED <<who, cache, last, accounts, tree, rounds, logins, events>>

(* The default Codex login is listed only while there is one.              *)
codex_dirs == {a \in Codex : a # DefaultCodex \/ who[a] # ""}

Unlisted(a) ==
  /\ a \in (thread.todo \cap Codex) \ codex_dirs
  /\ thread.todo \subseteq Codex /\ thread.asking = {}
  /\ thread' = [thread EXCEPT !.todo = @ \ {a}]
  /\ UNCHANGED <<who, cache, last, accounts, tree, rounds, logins, events>>

(* The next account's login is read; Codex comes after Claude.             *)
Read(a) ==
  /\ a \in thread.todo /\ thread.asking = {}
  /\ a \in Codex => thread.todo \subseteq Codex /\ a \in codex_dirs
  /\ thread' = [thread EXCEPT !.todo = @ \ {a}, !.asking = {a}, !.as = who[a]]
  /\ UNCHANGED <<who, cache, last, accounts, tree, rounds, logins, events>>

(* The service answered with r.                                            *)
AnsweredNow(a, r) ==
  LET answer == [email |-> thread.as, read |-> r, ts |-> Round] IN
  /\ a \in thread.asking /\ thread.as # ""
  /\ last' = [last EXCEPT ![a] = answer]
  /\ thread' = [thread EXCEPT !.asking = {}, !.got[a] =
       [email |-> thread.as, read |-> r, ts |-> Round, nologin |-> FALSE]]
  /\ UNCHANGED <<who, cache, accounts, tree, rounds, logins, events>>

(* A mutant for Fallback: the last answer is not looked at.                *)
FallbackBlank(a) ==
  [email |-> thread.as, read |-> NoReading, ts |-> 0, nologin |-> thread.as = ""]

(* What is shown without an answer.  Claude: the last good one, else the   *)
(* statusline's file, else nothing.  Codex: the last good one if there is  *)
(* a login now.                                                            *)
Fallback(a) ==
  LET blank == [email |-> thread.as, read |-> NoReading, ts |-> 0, nologin |-> thread.as = ""]
      prev  == [email |-> IF thread.as = "" THEN last[a].email ELSE thread.as,
                read |-> last[a].read, ts |-> last[a].ts, nologin |-> FALSE]
  IN IF a \in Claude
     THEN IF last[a].ts > 0 THEN prev
          ELSE IF cache[a] # NoReading THEN [blank EXCEPT !.read = cache[a], !.nologin = FALSE]
          ELSE blank
     ELSE IF last[a].ts > 0 /\ who[a] # "" THEN [prev EXCEPT !.email = last[a].email]
          ELSE [blank EXCEPT !.email = "", !.nologin = who[a] = ""]

(* No login, no network, 429, an expired token.                            *)
Unanswered(a) ==
  /\ a \in thread.asking
  /\ thread' = [thread EXCEPT !.asking = {}, !.got[a] = Fallback(a)]
  /\ UNCHANGED <<who, cache, last, accounts, tree, rounds, logins, events>>

EndRound ==
  /\ thread # Idle /\ thread.todo = {} /\ thread.asking = {}
  /\ accounts' = thread.got
  /\ thread' = Idle
  /\ rounds' = rounds - 1
  /\ UNCHANGED <<who, cache, last, tree, logins, events>>

(***************************************************************************)
(* The reset time of a limited worktree                                    *)
(***************************************************************************)
(* A mutant for Upsert: a reset that was filled in once stays.             *)
UpsertStale(a, w) ==
  [w EXCEPT !.shown = IF w.limited /\ w.file = 0
     THEN IF tree[a].shown > 0 THEN tree[a].shown ELSE LimitReset(accounts[a].read) ELSE w.file]

(* What upsert stores: without a reset of its own, a limited worktree gets *)
(* the one of its account.                                                 *)
Upsert(a, w) ==
  [w EXCEPT !.shown = IF w.limited /\ w.file = 0 THEN LimitReset(accounts[a].read) ELSE w.file]

(* Its agent hits a limit, with the reset in its message or without, or    *)
(* goes on; the hook tells the daemon.                                     *)
Hook(a, limited, at) ==
  LET w == [limited |-> limited, file |-> IF limited THEN at ELSE 0, shown |-> 0] IN
  /\ events > 0
  /\ w # [tree[a] EXCEPT !.shown = 0]
  /\ tree' = [tree EXCEPT ![a] = Upsert(a, w)]
  /\ events' = events - 1
  /\ UNCHANGED <<who, cache, thread, last, accounts, rounds, logins>>

RescanResets ==
        /\ tree' = [a \in Accounts |-> Upsert(a, tree[a])]
        /\ UNCHANGED <<who, cache, thread, last, accounts, rounds, logins, events>>

(* The daemon restarts: nothing of this is persisted but the files.        *)
Restart ==
  /\ events > 0
  /\ events' = events - 1
  /\ thread' = Idle
  /\ last' = [a \in Accounts |-> NoAnswer]
  /\ accounts' = [a \in Accounts |-> Unasked]
  /\ tree' = [a \in Accounts |-> [tree[a] EXCEPT !.shown = tree[a].file]]
  /\ UNCHANGED <<who, cache, rounds, logins>>

Rounds ==
  \/ BeginRound
  \/ \E a \in Accounts : Read(a) \/ Unlisted(a) \/ Unanswered(a) \/ \E r \in Windows : AnsweredNow(a, r)
  \/ EndRound

UsageNext ==
  \/ Rounds
  \/ \E a \in Accounts, u \in Users \cup {""} : Login(a, u)
  \/ \E a \in Accounts, limited \in BOOLEAN, at \in {0, 1} : Hook(a, limited, at)
  \/ RescanResets
  \/ Restart

(* The timers of the daemon tick, and its threads end.                     *)
UsageFair ==
  /\ WF_usageVars(Rounds)
  /\ WF_usageVars(RescanResets)

UsageSpec     == UsageInit /\ [][UsageNext]_usageVars
UsageFairSpec == UsageSpec /\ UsageFair

(***************************************************************************)
(* Properties                                                              *)
(***************************************************************************)
(* The account being asked is none of those to be asked; the windows shown *)
(* come from the service or the statusline.                                *)
UsageTypeOK ==
  LET readings == Windows \cup {NoReading}
      entries  == [email : Users \cup {""}, read : readings, ts : 0..MaxRounds, nologin : BOOLEAN]
  IN /\ who \in [Accounts -> Users \cup {""}]
     /\ cache \in [Accounts -> readings]
     /\ last \in [Accounts -> [email : Users \cup {""}, read : readings, ts : 0..MaxRounds]]
     /\ accounts \in [Accounts -> entries]
     /\ tree \in [Accounts -> [limited : BOOLEAN, file : Nat, shown : Nat]]
     /\ thread = Idle \/ thread.got \in [Accounts -> entries]
     /\ thread.todo \cup thread.asking \subseteq Accounts /\ thread.todo \cap thread.asking = {}
     /\ thread.as \in Users \cup {""}
     /\ rounds \in 0..MaxRounds /\ logins \in 0..MaxLogins /\ events \in 0..MaxEvents

Known(e) == e.read # NoReading

(* usage.rs fetch_all: while the daemon runs, a round that fails for an    *)
(* account never blanks its numbers nor goes back to older ones; only a    *)
(* Codex account that is logged out loses them.                            *)
NumbersKept ==
  [][rounds' < rounds =>
       \A a \in Accounts : Known(accounts[a]) /\ (a \in Codex => ~accounts'[a].nologin) =>
         Known(accounts'[a]) /\ accounts'[a].ts >= accounts[a].ts]_usageVars

(* mod.rs upsert and rescan with usage.rs limit_reset: a worktree that     *)
(* stays limited without a reset of its own ends up showing the last reset *)
(* among its account's exhausted windows, whichever came first, the limit  *)
(* or the numbers.                                                         *)
ShowsReset(a) ==
  LET r == accounts[a].read
      full == {w \in {r.five, r.seven} : w.full}
  IN /\ \A w \in full : tree[a].shown >= w.at
     /\ tree[a].shown \in {w.at : w \in IF full = {} THEN {r.five} ELSE full}

ResetShown ==
  \A a \in Accounts :
    <>[](tree[a].limited /\ tree[a].file = 0) => <>[]ShowsReset(a)

(* Both: what the daemon knew it shows on, and what it comes to know it      *)
(* comes to show.                                                            *)
UsageShown == []UsageTypeOK /\ NumbersKept /\ ResetShown
=============================================================================
