-------------------------- MODULE MessageApproval --------------------------
(***************************************************************************)
(* What agent-to-agent messages promise, without the store, the fleet or   *)
(* the sessions: an agent requests, the user decides once, an approved     *)
(* message is delivered once or expires, and only a closed one is          *)
(* forgotten.                                                              *)
(***************************************************************************)
CONSTANT Ids

VARIABLE phase

Undecided == {"pending"}
Closed == {"delivered", "denied", "expired"}
Phases == {"unsent", "queued", "gone"} \cup Undecided \cup Closed

In(phases) == {i \in Ids : phase[i] \in phases}

Init == phase = [i \in Ids |-> "unsent"]

(* Every step may also forget closed messages, the ones it closes included. *)
Move(S, to) ==
  \E forgotten \in SUBSET (In(Closed) \cup IF to \in Closed THEN S ELSE {}) :
    phase' = [i \in Ids |-> CASE i \in forgotten             -> "gone"
                              [] i \in S \ forgotten         -> to
                              [] i \notin S \cup forgotten   -> phase[i]]

Request(i) == phase[i] = "unsent" /\ (Move({i}, "pending") \/ Move({i}, "gone"))

Decide(S, verdict) == S \subseteq In(Undecided) /\ Move(S, verdict)

Deliver(i) == phase[i] = "queued" /\ Move({i}, "delivered")

Expire(S) == S \subseteq In({"pending", "queued"}) /\ Move(S, "expired")

Next == \/ \E i \in Ids : Request(i) \/ Deliver(i)
        \/ \E S \in SUBSET Ids : \/ \E verdict \in {"queued", "denied"} : Decide(S, verdict)
                                 \/ Expire(S)

Spec == Init /\ [][Next]_phase
=============================================================================
