----------------------------- MODULE MCSessions -----------------------------
(***************************************************************************)
(* The hosted sessions - two terminals and one worktree: a console of an   *)
(* agent, one of a review, and a session under `wtd run` - and one console *)
(* that two terminals show.  The console's size is not the sessions'       *)
(* state, so a behaviour takes one part and the other stays as it began.   *)
(***************************************************************************)
EXTENDS HostSessions, Console, TLC

CONSTANTS t1, t2, w, agent, review, run, tall, low, least

MCTerminals == {t1, t2}
MCWorktrees == {w}
MCConsoles == {agent, review}
MCRuns == {run}
MCHome == [s \in {agent, review, run} |-> w]
MCReviews == {review}
MCSizes == {tall, low, least}
MCShort == [s \in MCSizes |-> IF s = tall THEN low ELSE least]

VARIABLE part

sessionsVars == <<part, hvars, consolevars>>

MCInit ==
  /\ part \in {"sessions", "console"}
  /\ HInit /\ CInit
  /\ \A t \in Viewers : window[t] \in IF part = "sessions" THEN {tall} ELSE {tall, least}

MCNext ==
  /\ UNCHANGED part
  /\ \/ part = "sessions" /\ HNext /\ UNCHANGED consolevars
     \/ part = "console"  /\ CNext /\ UNCHANGED hvars

(* The fairness of each part, as its module states it. *)
SessionsFair ==
  /\ \A t \in Terminals : /\ WF_hvars(part = "sessions" /\ Handler(t))
                          /\ WF_hvars(part = "sessions" /\ Hear(t))
  /\ \A s \in Consoles : WF_hvars(part = "sessions" /\ Ending(s))
  /\ \A r \in Runs : /\ WF_hvars(part = "sessions" /\ Register(r))
                     /\ WF_hvars(part = "sessions" /\ Gone(r))

ConsoleFair ==
  /\ \A t \in Viewers : /\ WF_consolevars(part = "console" /\ Notice(t))
                        /\ WF_consolevars(part = "console" /\ AttachTerminal(t))
                        /\ WF_consolevars(part = "console" /\ Read(t))
  /\ \A k \in Tasks : WF_consolevars(part = "console" /\ Call(k))

MCSpec == MCInit /\ [][MCNext]_sessionsVars /\ SessionsFair /\ ConsoleFair
=============================================================================
