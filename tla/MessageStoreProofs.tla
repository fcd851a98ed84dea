------------------------- MODULE MessageStoreProofs -------------------------
(***************************************************************************)
(* What messages.rs and store.rs promise for every set of worktrees and    *)
(* sessions, every limit on pending and kept messages, and any number of   *)
(* failed saves, crashes and restarts: the state stays well typed, and     *)
(* nothing the user did not approve is typed into a session.  Then what    *)
(* Delivery, the daemon around the queue, adds: it does to the queue only  *)
(* what is proved here of it, and hands over one message a turn, between   *)
(* turns.                                                                  *)
(***************************************************************************)
EXTENDS Delivery, FiniteSetTheorems, TLAPS

(* Trimming the store drops closed messages and changes none. *)
LEMMA TrimKeeps ==
  ASSUME NEW ms
  PROVE  /\ DOMAIN Trim(ms) \subseteq DOMAIN ms
         /\ \A i \in DOMAIN Trim(ms) : Trim(ms)[i] = ms[i]
         /\ Trim(ms) = [i \in DOMAIN Trim(ms) |-> Trim(ms)[i]]
  BY DEF Trim, Restrict, InState

(* What a save leaves in memory and on disk, whether or not it succeeds. *)
LEMMA SaveKeeps ==
  ASSUME NEW ms, NEW n, Kept(ms, n), Save(ms, n), MTypeOK
  PROVE  /\ Kept(messages', nextId')
         /\ store' = [messages |-> store'.messages, nextId |-> store'.nextId]
         /\ Kept(store'.messages, store'.nextId)
         /\ faults' \in 0..MaxFaults
  <1>1. Kept(Trim(ms), n)
    BY TrimKeeps DEF Kept
  <1>2. CASE store' = [messages |-> Trim(ms), nextId |-> n] /\ UNCHANGED faults
    BY <1>1, <1>2 DEF Save, MTypeOK
  <1>3. CASE faults < MaxFaults /\ faults' = faults + 1 /\ UNCHANGED store
    <2>1. faults' \in 0..MaxFaults
      BY <1>3, MessageAssumption DEF MTypeOK
    <2> QED
      BY <1>1, <1>3, <2>1 DEF Save, MTypeOK
  <1> QED
    BY <1>2, <1>3 DEF Save

-----------------------------------------------------------------------------
(* The types hold initially. *)
LEMMA InitType == MInit => MTypeOK
  BY MessageAssumption DEF MInit, MTypeOK, Kept, NoMessages, EmptyStore, Statuses

(* A step that saves, leaves what is around the store as a well-typed value
   and keeps the histories well typed preserves the types. *)
LEMMA SendType ==
  ASSUME MTypeOK, NEW from \in Worktrees, NEW to \in Worktrees, Send(from, to)
  PROVE  MTypeOK'
  <1> DEFINE m == [nth |-> sent + 1, from |-> from, to |-> to, body |-> "asked",
                   state |-> "pending"]
             id == nextId + 1
             ms == [i \in DOMAIN messages \cup {id} |-> IF i = id THEN m ELSE messages[i]]
  <1>1. m \in Message
    BY DEF MTypeOK, Message, Bodies, OpenStates
  <1>2. DOMAIN ms \subseteq 1..id /\ id \in 0..MaxId
    BY MessageAssumption DEF MTypeOK, Kept, Send
  <1>3. ms \in [DOMAIN ms -> Message]
    BY <1>1 DEF MTypeOK, Kept
  <1>4. Save(ms, id)
    BY DEF Send
  <1>5. Kept(ms, id)
    BY <1>2, <1>3 DEF Kept
  <1> HIDE DEF m, id, ms
  <1>6. sent' \in 0..MaxId
    BY MessageAssumption DEF MTypeOK, Send
  <1> QED
    BY <1>4, <1>5, <1>6, SaveKeeps DEF MTypeOK, Send, aroundVars

LEMMA DecideType ==
  ASSUME MTypeOK, NEW i \in DOMAIN messages, NEW approve \in BOOLEAN, NEW body \in Bodies,
         Decide(i, approve, body)
  PROVE  MTypeOK'
  <1> DEFINE new == IF body = "edited" THEN body ELSE messages[i].body
             ms == [messages EXCEPT ![i].state = IF approve THEN "queued" ELSE "denied",
                                    ![i].body = new]
  <1>1. messages[i] \in Message /\ new \in Bodies
    BY DEF MTypeOK, Kept, Message
  <1>2. ms \in [DOMAIN messages -> Message]
    BY <1>1 DEF MTypeOK, Kept, Message, OpenStates, ClosedStates
  <1>3. Kept(ms, nextId)
    BY <1>2 DEF MTypeOK, Kept
  <1>4. Save(ms, nextId)
    BY DEF Decide
  <1>5. approved' \subseteq [nth : Nat, to : Worktrees, body : Bodies]
    <2>1. Approved(i, new) \in [nth : Nat, to : Worktrees, body : Bodies]
      BY <1>1 DEF Approved, AsApproved, Message
    <2> QED
      BY <2>1 DEF MTypeOK, Decide
  <1>6. calls' \in [Worktrees -> Nat]
    BY DEF MTypeOK, Decide, Owe
  <1> HIDE DEF ms, new
  <1> QED
    BY <1>3, <1>4, <1>5, <1>6, SaveKeeps DEF MTypeOK, Decide, aroundVars

LEMMA DecideManyType ==
  ASSUME MTypeOK, NEW ids \in SUBSET DOMAIN messages, NEW approve \in BOOLEAN,
         DecideMany(ids, approve)
  PROVE  MTypeOK'
  <1> DEFINE decided == ids \cap InState(messages, {"pending"})
             ms == [i \in DOMAIN messages |->
                     IF i \in decided
                       THEN [messages[i] EXCEPT !.state = IF approve THEN "queued" ELSE "denied"]
                       ELSE messages[i]]
  <1>1. \A i \in DOMAIN messages : messages[i] \in Message
    BY DEF MTypeOK, Kept
  <1>2. ms \in [DOMAIN messages -> Message]
    BY <1>1 DEF Message, OpenStates, ClosedStates
  <1>3. Kept(ms, nextId)
    BY <1>2 DEF MTypeOK, Kept
  <1>4. Save(ms, nextId)
    BY DEF DecideMany
  <1>5. approved' \subseteq [nth : Nat, to : Worktrees, body : Bodies]
    <2>1. \A i \in decided : Approved(i, messages[i].body) \in [nth : Nat, to : Worktrees, body : Bodies]
      BY <1>1 DEF Approved, AsApproved, Message
    <2> QED
      BY <2>1 DEF MTypeOK, DecideMany
  <1>6. calls' \in [Worktrees -> Nat]
    BY DEF MTypeOK, DecideMany, Owe
  <1> HIDE DEF ms, decided
  <1> QED
    BY <1>3, <1>4, <1>5, <1>6, SaveKeeps DEF MTypeOK, DecideMany, aroundVars

LEMMA DeliverNextType ==
  ASSUME MTypeOK, NEW w \in Worktrees, DeliverNext(w)
  PROVE  MTypeOK'
  <1>1. calls' \in [Worktrees -> Nat]
    BY DEF MTypeOK, DeliverNext
  <1>2. ASSUME NEW s \in sessions, Deliver(w, s)
        PROVE  MTypeOK'
    <2>1. PICK i \in Oldest(Queued(w)) :
            /\ Save(Delivered(i), nextId)
            /\ pastes' = pastes \cup {Handed(i, w, s)}
            /\ handed' = handed \cup {messages[i].nth}
      BY <1>2 DEF Deliver
    <2>2. i \in DOMAIN messages /\ messages[i] \in Message /\ s \in Session
      BY <2>1 DEF Oldest, Queued, InState, MTypeOK, Kept
    <2>3. Delivered(i) \in [DOMAIN messages -> Message]
      BY <2>2 DEF Delivered, MTypeOK, Kept, Message, ClosedStates
    <2>4. Kept(Delivered(i), nextId)
      BY <2>3 DEF MTypeOK, Kept
    <2>5. Handed(i, w, s) \in Paste
      BY <2>2 DEF Handed, Paste, Message, Session
    <2>6. status' \in [Worktrees -> Statuses]
      BY <1>2 DEF Deliver, MTypeOK, Statuses
    <2>7. pastes' \subseteq Paste /\ handed' \subseteq Nat
      BY <2>1, <2>2, <2>5 DEF MTypeOK, Message
    <2> QED
      BY <1>1, <2>1, <2>4, <2>6, <2>7, SaveKeeps DEF MTypeOK, DeliverNext, aroundVars
  <1>3. CASE NothingToDeliver(w)
    BY <1>1, <1>3 DEF NothingToDeliver, MTypeOK, DeliverNext, aroundVars, storeVars
  <1> QED
    BY <1>2, <1>3 DEF DeliverNext

(* Expiring messages keeps the store well typed. *)
LEMMA ExpiredKept ==
  ASSUME NEW ms, NEW n, Kept(ms, n), NEW fl
  PROVE  Kept(Expired(ms, fl), n)
  <1>1. \A i \in DOMAIN ms : ms[i] \in Message
    BY DEF Kept
  <1>2. Expired(ms, fl) \in [DOMAIN ms -> Message]
    BY <1>1 DEF Expired, Message, ClosedStates
  <1> QED
    BY <1>2 DEF Kept

LEMMA RescanType ==
  ASSUME MTypeOK, NEW fl \in SUBSET Worktrees, NEW st \in [Worktrees -> Shown], Rescan(fl, st)
  PROVE  MTypeOK'
  <1>1. fleet' \subseteq Worktrees /\ status' \in [Worktrees -> Statuses]
    BY MessageAssumption DEF Rescan
  <1>2. CASE UNCHANGED storeVars
    BY <1>1, <1>2 DEF Rescan, MTypeOK, storeVars
  <1>3. CASE Save(Expired(messages, fl), nextId)
    <2>1. Kept(Expired(messages, fl), nextId)
      BY ExpiredKept DEF MTypeOK
    <2> QED
      BY <1>1, <1>3, <2>1, SaveKeeps DEF Rescan, MTypeOK
  <1> QED
    BY <1>2, <1>3 DEF Rescan

LEMMA RestartType ==
  ASSUME MTypeOK, NEW st \in [Worktrees -> Shown], Restart(st)
  PROVE  MTypeOK'
  <1>1. fleet' \subseteq Worktrees /\ status' \in [Worktrees -> Statuses]
    BY MessageAssumption DEF Restart, MTypeOK
  <1>2. calls' \in [Worktrees -> Nat] /\ pastes' \subseteq Paste /\ sessions' \subseteq Session
    BY DEF Restart
  <1>3. CASE /\ messages' = store.messages /\ nextId' = store.nextId
             /\ UNCHANGED <<store, aside, faults>>
    BY <1>1, <1>2, <1>3 DEF Restart, MTypeOK
  <1>4. CASE Save(Expired(store.messages, folders), store.nextId)
    <2>1. Kept(Expired(store.messages, folders), store.nextId)
      BY ExpiredKept DEF MTypeOK
    <2> QED
      BY <1>1, <1>2, <1>4, <2>1, SaveKeeps DEF Restart, MTypeOK
  <1>5. CASE /\ messages' = NoMessages /\ nextId' = 0
             /\ UNCHANGED <<store, aside>> \/ store' = EmptyStore
             /\ faults < MaxFaults /\ faults' = faults + 1
    <2>1. Kept(NoMessages, 0)
      BY MessageAssumption DEF Kept, NoMessages
    <2>2. faults' \in 0..MaxFaults
      BY <1>5, MessageAssumption DEF MTypeOK
    <2> QED
      BY <1>1, <1>2, <1>5, <2>1, <2>2 DEF Restart, MTypeOK, EmptyStore
  <1> QED
    BY <1>3, <1>4, <1>5 DEF Restart

LEMMA SurroundingsType ==
  ASSUME MTypeOK, Surroundings
  PROVE  MTypeOK'
  <1>1. ASSUME NEW gone \in SUBSET Removable, NEW st \in [Worktrees -> Shown],
               Rescan(Worktrees \ gone, st)
        PROVE  MTypeOK'
    BY <1>1, RescanType
  <1>2. ASSUME NEW n \in {nextId, nextId + 1}, OtherSave(n)
        PROVE  MTypeOK'
    <2>1. Kept(messages, n)
      BY <1>2, MessageAssumption DEF OtherSave, MTypeOK, Kept
    <2> QED
      BY <1>2, <2>1, SaveKeeps DEF OtherSave, MTypeOK, aroundVars
  <1>3. ASSUME NEW w \in Removable, FolderChanges(w)
        PROVE  MTypeOK'
    BY <1>3, MessageAssumption DEF FolderChanges, MTypeOK, storeVars
  <1>4. ASSUME NEW w \in Worktrees, CallDeliver(w)
        PROVE  MTypeOK'
    BY <1>4 DEF CallDeliver, MTypeOK, storeVars, aroundVars
  <1>5. ASSUME NEW w \in Worktrees, NEW s \in Shown, StatusReported(w, s)
        PROVE  MTypeOK'
    <2>1. s \in Statuses /\ status' \in [Worktrees -> Statuses]
      BY <1>5, MessageAssumption DEF StatusReported, MTypeOK
    <2>2. calls' \in [Worktrees -> Nat]
      <3>1. Owe({w}) \in [Worktrees -> Nat]
        BY DEF Owe, MTypeOK
      <3> QED
        BY <1>5, <3>1 DEF StatusReported, MTypeOK
    <2> QED
      BY <1>5, <2>1, <2>2 DEF StatusReported, MTypeOK, storeVars, aroundVars
  <1>6. ASSUME NEW s \in Session, SessionOpens(s) \/ SessionCloses(s)
        PROVE  MTypeOK'
    <2>1. CASE SessionOpens(s)
      BY <2>1 DEF SessionOpens, MTypeOK, storeVars
    <2>2. CASE SessionCloses(s)
      <3>1. status' \in [Worktrees -> Statuses]
        BY <2>2, MessageAssumption DEF SessionCloses, MTypeOK
      <3> QED
        BY <2>2, <3>1 DEF SessionCloses, MTypeOK, storeVars
    <2> QED
      BY <1>6, <2>1, <2>2
  <1>7. ASSUME NEW st \in [Worktrees -> Shown], Restart(st)
        PROVE  MTypeOK'
    BY <1>7, RestartType
  <1> QED
    BY <1>1, <1>2, <1>3, <1>4, <1>5, <1>6, <1>7 DEF Surroundings

LEMMA StepType == MTypeOK /\ [MNext]_mvars => MTypeOK'
  <1> SUFFICES ASSUME MTypeOK, [MNext]_mvars
               PROVE  MTypeOK'
    OBVIOUS
  <1>1. CASE Operation
    <2>1. ASSUME NEW p \in pastes, PasteEnds(p)
          PROVE  MTypeOK'
      BY <2>1 DEF PasteEnds, MTypeOK, storeVars, aroundVars
    <2> QED
      BY <1>1, <2>1, SendType, DecideType, DecideManyType, DeliverNextType DEF Operation
  <1>2. CASE Surroundings
    BY <1>2, SurroundingsType
  <1>3. CASE UNCHANGED mvars
    BY <1>3 DEF mvars, MTypeOK
  <1> QED
    BY <1>1, <1>2, <1>3 DEF MNext

(* In every reachable state, after any failed saves and restarts, the store
   in memory and on disk and what is in flight are well typed, and no message
   has an id that the store has yet to hand out. *)
THEOREM TypeCorrect == MSpec => []MTypeOK
  BY InitType, StepType, PTL DEF MSpec

-----------------------------------------------------------------------------
(***************************************************************************)
(* NothingUnapproved speaks of the threads that type; what makes it        *)
(* inductive is that whatever waits for one of them, in memory or in the   *)
(* file a restart loads, was approved in the words it now has.             *)
(***************************************************************************)
ApprovalInv ==
  /\ NothingUnapproved
  /\ QueueApproved(messages)
  /\ QueueApproved(store.messages)

(* Saving approved queues leaves approved queues, in memory and on disk. *)
LEMMA SaveApproved ==
  ASSUME NEW ms, NEW n, Save(ms, n), approved \subseteq approved',
         QueueApproved(store.messages),
         \A i \in InState(ms, {"queued"}) : AsApproved(ms[i]) \in approved'
  PROVE  QueueApproved(messages)' /\ QueueApproved(store.messages)'
  <1>1. \A i \in InState(Trim(ms), {"queued"}) : AsApproved(Trim(ms)[i]) \in approved'
    BY TrimKeeps DEF InState
  <1>2. QueueApproved(messages)'
    BY <1>1 DEF Save, QueueApproved
  <1>3. store'.messages \in {Trim(ms), store.messages}
    BY DEF Save
  <1>4. QueueApproved(store.messages)'
    BY <1>1, <1>3 DEF QueueApproved
  <1> QED
    BY <1>2, <1>4

(* Expiring messages queues none. *)
LEMMA ExpiredApproved ==
  ASSUME NEW ms, NEW n, Kept(ms, n), NEW fl, QueueApproved(ms)
  PROVE  \A i \in InState(Expired(ms, fl), {"queued"}) : AsApproved(Expired(ms, fl)[i]) \in approved
  <1> SUFFICES ASSUME NEW i \in InState(Expired(ms, fl), {"queued"})
               PROVE  AsApproved(Expired(ms, fl)[i]) \in approved
    OBVIOUS
  <1>1. i \in DOMAIN ms /\ Expired(ms, fl)[i].state = "queued"
    BY DEF InState, Expired
  <1>2. i \notin Orphans(ms, fl)
    <2>1. ms[i] \in Message
      BY <1>1 DEF Kept
    <2>2. [ms[i] EXCEPT !.state = "expired"].state = "expired"
      BY <2>1 DEF Message
    <2> QED
      BY <1>1, <2>2 DEF Expired
  <1>3. Expired(ms, fl)[i] = ms[i]
    BY <1>1, <1>2 DEF Expired
  <1> QED
    BY <1>1, <1>3 DEF QueueApproved, InState

LEMMA InitApproved == MInit => ApprovalInv
  BY DEF MInit, ApprovalInv, NothingUnapproved, QueueApproved, InState, NoMessages, EmptyStore

LEMMA SendApproved ==
  ASSUME MTypeOK, ApprovalInv, NEW from \in Worktrees, NEW to \in Worktrees, Send(from, to)
  PROVE  ApprovalInv'
  <1> DEFINE m == [nth |-> sent + 1, from |-> from, to |-> to, body |-> "asked",
                   state |-> "pending"]
             id == nextId + 1
             ms == [i \in DOMAIN messages \cup {id} |-> IF i = id THEN m ELSE messages[i]]
  <1>1. \A i \in InState(ms, {"queued"}) : i \in InState(messages, {"queued"}) /\ ms[i] = messages[i]
    BY DEF InState
  <1>2. Save(ms, id) /\ approved' = approved /\ pastes' = pastes
    BY DEF Send
  <1> HIDE DEF m, id, ms
  <1>3. \A i \in InState(ms, {"queued"}) : AsApproved(ms[i]) \in approved'
    BY <1>1, <1>2 DEF ApprovalInv, QueueApproved
  <1> QED
    BY <1>2, <1>3, SaveApproved DEF ApprovalInv, NothingUnapproved

LEMMA DecideApproved ==
  ASSUME MTypeOK, ApprovalInv, NEW i \in DOMAIN messages, NEW approve \in BOOLEAN,
         NEW body \in Bodies, Decide(i, approve, body)
  PROVE  ApprovalInv'
  <1> DEFINE new == IF body = "edited" THEN body ELSE messages[i].body
             ms == [messages EXCEPT ![i].state = IF approve THEN "queued" ELSE "denied",
                                    ![i].body = new]
  <1>1. messages[i] \in Message
    BY DEF MTypeOK, Kept
  <1>2. Save(ms, nextId) /\ pastes' = pastes /\ approved \subseteq approved'
    BY DEF Decide
  <1>3. ASSUME NEW j \in InState(ms, {"queued"})
        PROVE  AsApproved(ms[j]) \in approved'
    <2>1. CASE j = i
      <3>1. ms[j] = [messages[i] EXCEPT !.state = IF approve THEN "queued" ELSE "denied",
                                        !.body = new]
        BY <2>1
      <3>2. approve
        BY <1>1, <1>3, <3>1 DEF InState, Message
      <3>3. ms[j].nth = messages[i].nth /\ ms[j].to = messages[i].to /\ ms[j].body = new
        BY <1>1, <3>1 DEF Message
      <3>4. AsApproved(ms[j]) = Approved(i, new)
        BY <3>3 DEF AsApproved, Approved
      <3> QED
        BY <3>2, <3>4 DEF Decide
    <2>2. CASE j # i
      <3>1. ms[j] = messages[j] /\ j \in InState(messages, {"queued"})
        BY <1>3, <2>2 DEF InState
      <3> QED
        BY <1>2, <3>1 DEF ApprovalInv, QueueApproved
    <2> QED
      BY <2>1, <2>2
  <1> HIDE DEF ms, new
  <1> QED
    BY <1>2, <1>3, SaveApproved DEF ApprovalInv, NothingUnapproved

LEMMA DecideManyApproved ==
  ASSUME MTypeOK, ApprovalInv, NEW ids \in SUBSET DOMAIN messages, NEW approve \in BOOLEAN,
         DecideMany(ids, approve)
  PROVE  ApprovalInv'
  <1> DEFINE decided == ids \cap InState(messages, {"pending"})
             ms == [i \in DOMAIN messages |->
                     IF i \in decided
                       THEN [messages[i] EXCEPT !.state = IF approve THEN "queued" ELSE "denied"]
                       ELSE messages[i]]
  <1>1. \A i \in DOMAIN messages : messages[i] \in Message
    BY DEF MTypeOK, Kept
  <1>2. Save(ms, nextId) /\ pastes' = pastes /\ approved \subseteq approved'
    BY DEF DecideMany
  <1>3. ASSUME NEW j \in InState(ms, {"queued"})
        PROVE  AsApproved(ms[j]) \in approved'
    <2>1. j \in DOMAIN messages /\ ms[j].state = "queued"
      BY DEF InState
    <2>2. CASE j \in decided
      <3>1. ms[j] = [messages[j] EXCEPT !.state = IF approve THEN "queued" ELSE "denied"]
        BY <2>1, <2>2
      <3>2. approve
        BY <1>1, <2>1, <3>1 DEF Message
      <3>3. AsApproved(ms[j]) = Approved(j, messages[j].body)
        BY <1>1, <2>1, <3>1 DEF AsApproved, Approved, Message
      <3> QED
        BY <2>2, <3>2, <3>3 DEF DecideMany
    <2>3. CASE j \notin decided
      <3>1. ms[j] = messages[j] /\ j \in InState(messages, {"queued"})
        BY <2>1, <2>3 DEF InState
      <3> QED
        BY <1>2, <3>1 DEF ApprovalInv, QueueApproved
    <2> QED
      BY <2>2, <2>3
  <1> HIDE DEF ms, decided
  <1> QED
    BY <1>2, <1>3, SaveApproved DEF ApprovalInv, NothingUnapproved

(* Here the words reach a thread: the message handed over is a queued one. *)
LEMMA DeliverNextApproved ==
  ASSUME MTypeOK, ApprovalInv, NEW w \in Worktrees, DeliverNext(w)
  PROVE  ApprovalInv'
  <1>1. approved' = approved
    BY DEF DeliverNext
  <1>2. ASSUME NEW s \in sessions, Deliver(w, s)
        PROVE  ApprovalInv'
    <2>1. PICK i \in Oldest(Queued(w)) :
            Save(Delivered(i), nextId) /\ pastes' = pastes \cup {Handed(i, w, s)}
      BY <1>2 DEF Deliver
    <2>2. i \in InState(messages, {"queued"}) /\ messages[i].to = w /\ messages[i] \in Message
      BY <2>1 DEF Oldest, Queued, InState, MTypeOK, Kept
    <2>3. AsApproved(messages[i]) \in approved
      BY <2>2 DEF ApprovalInv, QueueApproved
    <2>4. AsApproved(Handed(i, w, s)) = AsApproved(messages[i])
      BY <2>2 DEF AsApproved, Handed
    <2>5. NothingUnapproved'
      BY <1>1, <2>1, <2>3, <2>4 DEF ApprovalInv, NothingUnapproved
    <2>6. ASSUME NEW j \in InState(Delivered(i), {"queued"})
          PROVE  AsApproved(Delivered(i)[j]) \in approved'
      <3>1. j \in DOMAIN messages /\ Delivered(i)[j].state = "queued"
        BY DEF InState, Delivered
      <3>2. j # i
        <4>1. Delivered(i)[i].state = "delivered"
          BY <2>2 DEF Delivered, InState, Message
        <4> QED
          BY <3>1, <4>1
      <3>3. Delivered(i)[j] = messages[j] /\ j \in InState(messages, {"queued"})
        BY <3>1, <3>2 DEF Delivered, InState
      <3> QED
        BY <1>1, <3>3 DEF ApprovalInv, QueueApproved
    <2> QED
      BY <1>1, <2>1, <2>5, <2>6, SaveApproved DEF ApprovalInv
  <1>3. CASE NothingToDeliver(w)
    BY <1>1, <1>3 DEF NothingToDeliver, storeVars, ApprovalInv, NothingUnapproved, QueueApproved
  <1> QED
    BY <1>2, <1>3 DEF DeliverNext

LEMMA RescanApproved ==
  ASSUME MTypeOK, ApprovalInv, NEW fl, NEW st, Rescan(fl, st)
  PROVE  ApprovalInv'
  <1>1. approved' = approved /\ pastes' = pastes
    BY DEF Rescan
  <1>2. CASE UNCHANGED storeVars
    BY <1>1, <1>2 DEF storeVars, ApprovalInv, NothingUnapproved, QueueApproved
  <1>3. CASE Save(Expired(messages, fl), nextId)
    <2>1. Kept(messages, nextId) /\ QueueApproved(messages) /\ QueueApproved(store.messages)
      BY DEF MTypeOK, ApprovalInv
    <2>2. \A i \in InState(Expired(messages, fl), {"queued"}) :
            AsApproved(Expired(messages, fl)[i]) \in approved'
      BY <1>1, <2>1, ExpiredApproved
    <2> QED
      BY <1>1, <1>3, <2>1, <2>2, SaveApproved DEF ApprovalInv, NothingUnapproved
  <1> QED
    BY <1>2, <1>3 DEF Rescan

(* A restart loads an approved queue, an older one if saves have failed. *)
LEMMA RestartApproved ==
  ASSUME MTypeOK, ApprovalInv, NEW st, Restart(st)
  PROVE  ApprovalInv'
  <1>1. approved' = approved /\ pastes' = {}
    BY DEF Restart
  <1>2. NothingUnapproved'
    BY <1>1 DEF NothingUnapproved
  <1>3. CASE messages' = store.messages /\ UNCHANGED store
    BY <1>1, <1>2, <1>3 DEF ApprovalInv, QueueApproved
  <1>4. CASE Save(Expired(store.messages, folders), store.nextId)
    <2>1. Kept(store.messages, store.nextId) /\ QueueApproved(store.messages)
      BY DEF MTypeOK, ApprovalInv
    <2>2. \A i \in InState(Expired(store.messages, folders), {"queued"}) :
            AsApproved(Expired(store.messages, folders)[i]) \in approved'
      BY <1>1, <2>1, ExpiredApproved
    <2> QED
      BY <1>1, <1>2, <1>4, <2>1, <2>2, SaveApproved DEF ApprovalInv
  <1>5. CASE messages' = NoMessages /\ (UNCHANGED store \/ store' = EmptyStore)
    BY <1>1, <1>2, <1>5 DEF ApprovalInv, QueueApproved, NoMessages, EmptyStore, InState
  <1> QED
    BY <1>3, <1>4, <1>5 DEF Restart

LEMMA StepApproved == MTypeOK /\ ApprovalInv /\ [MNext]_mvars => ApprovalInv'
  <1> SUFFICES ASSUME MTypeOK, ApprovalInv, [MNext]_mvars
               PROVE  ApprovalInv'
    OBVIOUS
  <1> USE DEF ApprovalInv, NothingUnapproved, QueueApproved
  <1>1. CASE Operation
    <2>1. ASSUME NEW p \in pastes, PasteEnds(p)
          PROVE  ApprovalInv'
      BY <2>1 DEF PasteEnds, storeVars
    <2> HIDE DEF ApprovalInv
    <2> QED
      BY <1>1, <2>1, SendApproved, DecideApproved, DecideManyApproved, DeliverNextApproved
      DEF Operation
  <1>2. CASE Surroundings
    <2>1. ASSUME NEW n, OtherSave(n)
          PROVE  ApprovalInv'
      BY <2>1, SaveApproved DEF OtherSave
    <2>2. ASSUME UNCHANGED <<storeVars, pastes, approved>>
          PROVE  ApprovalInv'
      BY <2>2 DEF storeVars
    <2> HIDE DEF ApprovalInv
    <2> QED
      BY <1>2, <2>1, <2>2, RescanApproved, RestartApproved
      DEF Surroundings, FolderChanges, CallDeliver, StatusReported, SessionOpens, SessionCloses
  <1>3. CASE UNCHANGED mvars
    BY <1>3 DEF mvars
  <1> QED
    BY <1>1, <1>2, <1>3 DEF MNext

(* "Nothing is delivered until the user approves it" (messages.rs:1-2), with
   any number of worktrees, messages, sessions, failed saves, lost stores and
   restarts: every text handed to a session's console was approved by the
   user, for that worktree and in those words. *)
THEOREM NothingUnapprovedDelivered == MSpec => []NothingUnapproved
  <1>1. ApprovalInv => NothingUnapproved
    BY DEF ApprovalInv
  <1> QED
    BY <1>1, InitApproved, StepApproved, TypeCorrect, PTL DEF MSpec
-----------------------------------------------------------------------------
(***************************************************************************)
(* Why no message is handed over twice: while no save has failed, the file *)
(* is the memory, no two messages share a number, and what still waits has *)
(* not been handed over.  A failed save breaks all three at once.          *)
(***************************************************************************)
Fresh(ms, given, last) ==
  /\ \A i \in DOMAIN ms : ms[i].nth \in 1..last
  /\ \A i, j \in DOMAIN ms : ms[i].nth = ms[j].nth => i = j
  /\ \A i \in InState(ms, OpenStates) : ms[i].nth \notin given

OnceInv ==
  faults = 0 => /\ store = [messages |-> messages, nextId |-> nextId]
                /\ handed \subseteq 1..sent
                /\ Fresh(messages, handed, sent)

(* Changing the states of messages leaves them fresh if it opens none. *)
LEMMA SameNumbers ==
  ASSUME NEW ms, NEW new, NEW given, NEW last, Fresh(ms, given, last),
         DOMAIN new \subseteq DOMAIN ms,
         \A i \in DOMAIN new : new[i].nth = ms[i].nth,
         \A i \in InState(new, OpenStates) : i \in InState(ms, OpenStates)
  PROVE  Fresh(new, given, last)
  BY DEF Fresh, InState

(* A save that does not fail leaves the file and the memory alike, and what
   was fresh before trimming is fresh after it. *)
LEMMA SaveOnce ==
  ASSUME NEW ms, NEW n, Save(ms, n), MTypeOK, faults' = 0,
         handed' \subseteq 1..sent', Fresh(ms, handed', sent')
  PROVE  faults = 0 /\ OnceInv'
  <1>1. faults \in Nat /\ faults = 0 /\ store' = [messages |-> Trim(ms), nextId |-> n]
    BY DEF Save, MTypeOK
  <1>2. Fresh(Trim(ms), handed', sent')
    <2>1. \A i \in InState(Trim(ms), OpenStates) : i \in InState(ms, OpenStates)
      BY TrimKeeps DEF InState
    <2> QED
      BY <2>1, TrimKeeps, SameNumbers
  <1>3. messages' = Trim(ms) /\ nextId' = n
    BY DEF Save
  <1> QED
    BY <1>1, <1>2, <1>3 DEF OnceInv

(* Failures are only ever added. *)
LEMMA SaveFaults ==
  ASSUME NEW ms, NEW n, Save(ms, n), MTypeOK, faults' = 0
  PROVE  faults = 0
  BY DEF Save, MTypeOK

(* Expiring messages leaves them fresh. *)
LEMMA ExpiredFresh ==
  ASSUME NEW ms, NEW n, Kept(ms, n), NEW fl, NEW given, NEW last, Fresh(ms, given, last)
  PROVE  Fresh(Expired(ms, fl), given, last)
  <1>1. DOMAIN Expired(ms, fl) = DOMAIN ms
    BY DEF Expired
  <1>2. ASSUME NEW i \in DOMAIN ms
        PROVE  /\ Expired(ms, fl)[i].nth = ms[i].nth
               /\ Expired(ms, fl)[i].state \in OpenStates => ms[i].state \in OpenStates
    <2>1. ms[i] \in Message
      BY DEF Kept
    <2>2. Expired(ms, fl)[i] \in {ms[i], [ms[i] EXCEPT !.state = "expired"]}
      BY DEF Expired
    <2> QED
      BY <2>1, <2>2 DEF Message, OpenStates
  <1>3. \A i \in InState(Expired(ms, fl), OpenStates) : i \in InState(ms, OpenStates)
    BY <1>1, <1>2 DEF InState
  <1> QED
    BY <1>1, <1>2, <1>3, SameNumbers

LEMMA InitOnce == MInit => OnceInv
  BY DEF MInit, OnceInv, Fresh, NoMessages, EmptyStore, InState

(* A new message takes a number that no message has had. *)
LEMMA SendOnce ==
  ASSUME MTypeOK, OnceInv, NEW from \in Worktrees, NEW to \in Worktrees, Send(from, to),
         faults' = 0
  PROVE  OnceInv' /\ pastes' = pastes
  <1> DEFINE m == [nth |-> sent + 1, from |-> from, to |-> to, body |-> "asked",
                   state |-> "pending"]
             id == nextId + 1
             ms == [i \in DOMAIN messages \cup {id} |-> IF i = id THEN m ELSE messages[i]]
  <1>1. Save(ms, id) /\ handed' = handed /\ sent' = sent + 1 /\ pastes' = pastes
    BY DEF Send
  <1>2. faults = 0
    BY <1>1, SaveFaults
  <1>3. handed \subseteq 1..sent /\ Fresh(messages, handed, sent) /\ sent \in Nat
    BY <1>2 DEF OnceInv, MTypeOK
  <1>4. ms[id] = m /\ m.nth = sent + 1 /\ DOMAIN ms = DOMAIN messages \cup {id}
    OBVIOUS
  <1>5. \A i \in DOMAIN ms : i # id => i \in DOMAIN messages /\ ms[i] = messages[i]
    OBVIOUS
  <1> HIDE DEF m, ms, id
  <1>6. \A i \in DOMAIN ms : i # id => ms[i].nth \in 1..sent
    BY <1>3, <1>5 DEF Fresh
  <1>7. \A i \in DOMAIN ms : ms[i].nth \in 1..(sent + 1)
    BY <1>3, <1>4, <1>6
  <1>8. \A i, j \in DOMAIN ms : ms[i].nth = ms[j].nth => i = j
    <2> SUFFICES ASSUME NEW i \in DOMAIN ms, NEW j \in DOMAIN ms, ms[i].nth = ms[j].nth
                 PROVE  i = j
      OBVIOUS
    <2>1. CASE i # id /\ j # id
      BY <1>3, <1>5, <2>1 DEF Fresh
    <2>2. CASE i = id \/ j = id
      BY <1>3, <1>4, <1>6, <2>2
    <2> QED
      BY <2>1, <2>2
  <1>9. \A i \in InState(ms, OpenStates) : ms[i].nth \notin handed
    <2> SUFFICES ASSUME NEW i \in InState(ms, OpenStates)
                 PROVE  ms[i].nth \notin handed
      OBVIOUS
    <2>1. CASE i = id
      BY <1>3, <1>4, <2>1
    <2>2. CASE i # id
      BY <1>3, <1>5, <2>2 DEF Fresh, InState
    <2> QED
      BY <2>1, <2>2
  <1>10. Fresh(ms, handed', sent')
    BY <1>1, <1>7, <1>8, <1>9 DEF Fresh
  <1>11. handed' \subseteq 1..sent'
    BY <1>1, <1>3
  <1> QED
    BY <1>1, <1>10, <1>11, SaveOnce

LEMMA DecideOnce ==
  ASSUME MTypeOK, OnceInv, NEW i \in DOMAIN messages, NEW approve \in BOOLEAN,
         NEW body \in Bodies, Decide(i, approve, body), faults' = 0
  PROVE  OnceInv' /\ pastes' = pastes
  <1> DEFINE new == IF body = "edited" THEN body ELSE messages[i].body
             ms == [messages EXCEPT ![i].state = IF approve THEN "queued" ELSE "denied",
                                    ![i].body = new]
  <1>1. Save(ms, nextId) /\ handed' = handed /\ sent' = sent /\ pastes' = pastes
    BY DEF Decide
  <1>2. faults = 0
    BY <1>1, SaveFaults
  <1>3. messages[i] \in Message /\ i \in InState(messages, OpenStates)
    BY DEF MTypeOK, Kept, Decide, InState, OpenStates
  <1>4. DOMAIN ms = DOMAIN messages /\ \A j \in DOMAIN ms : ms[j].nth = messages[j].nth
    BY <1>3 DEF Message
  <1>5. \A j \in InState(ms, OpenStates) : j \in InState(messages, OpenStates)
    BY <1>3 DEF InState
  <1> HIDE DEF ms, new
  <1> QED
    BY <1>1, <1>2, <1>4, <1>5, SameNumbers, SaveOnce DEF OnceInv

LEMMA DecideManyOnce ==
  ASSUME MTypeOK, OnceInv, NEW ids \in SUBSET DOMAIN messages, NEW approve \in BOOLEAN,
         DecideMany(ids, approve), faults' = 0
  PROVE  OnceInv' /\ pastes' = pastes
  <1> DEFINE decided == ids \cap InState(messages, {"pending"})
             ms == [i \in DOMAIN messages |->
                     IF i \in decided
                       THEN [messages[i] EXCEPT !.state = IF approve THEN "queued" ELSE "denied"]
                       ELSE messages[i]]
  <1>1. Save(ms, nextId) /\ handed' = handed /\ sent' = sent /\ pastes' = pastes
    BY DEF DecideMany
  <1>2. faults = 0
    BY <1>1, SaveFaults
  <1>3. \A j \in DOMAIN messages : messages[j] \in Message
    BY DEF MTypeOK, Kept
  <1>4. DOMAIN ms = DOMAIN messages /\ \A j \in DOMAIN ms : ms[j].nth = messages[j].nth
    BY <1>3 DEF Message
  <1>5. \A j \in InState(ms, OpenStates) : j \in InState(messages, OpenStates)
    BY DEF InState, OpenStates
  <1> HIDE DEF ms, decided
  <1> QED
    BY <1>1, <1>2, <1>4, <1>5, SameNumbers, SaveOnce DEF OnceInv

(* What is handed over had not been, and is closed in the same step. *)
LEMMA DeliverNextOnce ==
  ASSUME MTypeOK, OnceInv, NEW w \in Worktrees, DeliverNext(w), faults' = 0
  PROVE  OnceInv' /\ \A p \in pastes' \ pastes : p.nth \notin handed
  <1>1. sent' = sent
    BY DEF DeliverNext
  <1>2. ASSUME NEW s \in sessions, Deliver(w, s)
        PROVE  OnceInv' /\ \A p \in pastes' \ pastes : p.nth \notin handed
    <2>1. PICK i \in Oldest(Queued(w)) :
            /\ Save(Delivered(i), nextId)
            /\ pastes' = pastes \cup {Handed(i, w, s)}
            /\ handed' = handed \cup {messages[i].nth}
      BY <1>2 DEF Deliver
    <2>2. i \in InState(messages, OpenStates) /\ i \in DOMAIN messages /\ messages[i] \in Message
      BY <2>1 DEF Oldest, Queued, InState, OpenStates, MTypeOK, Kept
    <2>3. faults = 0
      BY <2>1, SaveFaults
    <2>4. handed \subseteq 1..sent /\ Fresh(messages, handed, sent)
      BY <2>3 DEF OnceInv
    <2>5. messages[i].nth \notin handed /\ messages[i].nth \in 1..sent
      BY <2>2, <2>4 DEF Fresh
    <2>6. \A p \in pastes' \ pastes : p.nth \notin handed
      BY <2>1, <2>5 DEF Handed
    <2>7. DOMAIN Delivered(i) = DOMAIN messages
      BY DEF Delivered
    <2>8. \A j \in DOMAIN messages : Delivered(i)[j].nth = messages[j].nth
      BY <2>2 DEF Delivered, Message
    <2>9. \A j \in InState(Delivered(i), OpenStates) :
            j # i /\ j \in InState(messages, OpenStates)
      <3>1. Delivered(i)[i].state = "delivered"
        BY <2>2 DEF Delivered, Message
      <3> QED
        BY <2>7, <3>1 DEF InState, Delivered, OpenStates
    <2>10. Fresh(Delivered(i), handed, sent)
      BY <2>4, <2>7, <2>8, <2>9, SameNumbers
    <2>11. \A j \in InState(Delivered(i), OpenStates) : Delivered(i)[j].nth # messages[i].nth
      BY <2>2, <2>4, <2>7, <2>8, <2>9 DEF Fresh, InState
    <2>12. Fresh(Delivered(i), handed', sent')
      BY <1>1, <2>1, <2>10, <2>11 DEF Fresh
    <2>13. handed' \subseteq 1..sent'
      BY <1>1, <2>1, <2>4, <2>5
    <2> QED
      BY <2>1, <2>6, <2>12, <2>13, SaveOnce
  <1>3. CASE NothingToDeliver(w)
    BY <1>1, <1>3 DEF NothingToDeliver, storeVars, OnceInv
  <1> QED
    BY <1>2, <1>3 DEF DeliverNext

LEMMA RescanOnce ==
  ASSUME MTypeOK, OnceInv, NEW fl, NEW st, Rescan(fl, st), faults' = 0
  PROVE  OnceInv' /\ pastes' = pastes
  <1>1. handed' = handed /\ sent' = sent /\ pastes' = pastes
    BY DEF Rescan
  <1>2. CASE UNCHANGED storeVars
    BY <1>1, <1>2 DEF storeVars, OnceInv
  <1>3. CASE Save(Expired(messages, fl), nextId)
    <2>1. faults = 0 /\ Kept(messages, nextId)
      BY <1>3, SaveFaults DEF MTypeOK
    <2>2. Fresh(Expired(messages, fl), handed, sent)
      BY <2>1, ExpiredFresh DEF OnceInv
    <2> QED
      BY <1>1, <1>3, <2>1, <2>2, SaveOnce DEF OnceInv
  <1> QED
    BY <1>2, <1>3 DEF Rescan

(* A restart loads the memory it lost, unless a load or a save fails. *)
LEMMA RestartOnce ==
  ASSUME MTypeOK, OnceInv, NEW st, Restart(st), faults' = 0
  PROVE  OnceInv' /\ pastes' = {}
  <1>1. handed' = handed /\ sent' = sent /\ pastes' = {}
    BY DEF Restart
  <1>2. CASE /\ messages' = store.messages /\ nextId' = store.nextId
             /\ UNCHANGED <<store, faults>>
    BY <1>1, <1>2 DEF OnceInv
  <1>3. CASE Save(Expired(store.messages, folders), store.nextId)
    <2>1. faults = 0 /\ Kept(store.messages, store.nextId)
      BY <1>3, SaveFaults DEF MTypeOK
    <2>2. Fresh(store.messages, handed, sent) /\ handed \subseteq 1..sent
      BY <2>1 DEF OnceInv
    <2>3. Fresh(Expired(store.messages, folders), handed, sent)
      BY <2>1, <2>2, ExpiredFresh
    <2> QED
      BY <1>1, <1>3, <2>2, <2>3, SaveOnce
  <1>4. CASE faults' = faults + 1
    BY <1>4 DEF MTypeOK
  <1> QED
    BY <1>2, <1>3, <1>4 DEF Restart

LEMMA OtherSaveOnce ==
  ASSUME MTypeOK, OnceInv, NEW n, OtherSave(n), faults' = 0
  PROVE  OnceInv' /\ pastes' = pastes
  <1>1. Save(messages, n) /\ handed' = handed /\ sent' = sent /\ pastes' = pastes
    BY DEF OtherSave
  <1>2. faults = 0
    BY <1>1, SaveFaults
  <1> QED
    BY <1>1, <1>2, SaveOnce DEF OnceInv

LEMMA StepOnce ==
  ASSUME MTypeOK, OnceInv, [MNext]_mvars, faults' = 0
  PROVE  OnceInv' /\ \A p \in pastes' \ pastes : p.nth \notin handed
  <1> DEFINE Once == OnceInv' /\ \A p \in pastes' \ pastes : p.nth \notin handed
  <1> SUFFICES Once
    OBVIOUS
  <1>1. ASSUME UNCHANGED <<storeVars, sent, handed>>, pastes' \subseteq pastes
        PROVE  Once
    BY <1>1 DEF storeVars, OnceInv
  <1>2. ASSUME OnceInv', pastes' = pastes \/ pastes' = {}
        PROVE  Once
    BY <1>2
  <1> HIDE DEF Once
  <1>3. CASE Operation
    <2>1. ASSUME NEW from \in Worktrees, NEW to \in Worktrees, Send(from, to)
          PROVE  Once
      BY <1>2, <2>1, SendOnce
    <2>2. ASSUME NEW i \in DOMAIN messages, NEW approve \in BOOLEAN, NEW body \in Bodies,
                 Decide(i, approve, body)
          PROVE  Once
      BY <1>2, <2>2, DecideOnce
    <2>3. ASSUME NEW ids \in SUBSET DOMAIN messages, NEW approve \in BOOLEAN,
                 DecideMany(ids, approve)
          PROVE  Once
      BY <1>2, <2>3, DecideManyOnce
    <2>4. ASSUME NEW w \in Worktrees, DeliverNext(w)
          PROVE  Once
      BY <2>4, DeliverNextOnce DEF Once
    <2>5. ASSUME NEW p \in pastes, PasteEnds(p)
          PROVE  Once
      BY <1>1, <2>5 DEF PasteEnds
    <2> QED
      BY <1>3, <2>1, <2>2, <2>3, <2>4, <2>5 DEF Operation
  <1>4. CASE Surroundings
    <2>1. ASSUME UNCHANGED <<storeVars, sent, handed, pastes>>
          PROVE  Once
      BY <1>1, <2>1
    <2>2. ASSUME NEW fl, NEW st, Rescan(fl, st)
          PROVE  Once
      BY <1>2, <2>2, RescanOnce
    <2>3. ASSUME NEW n, OtherSave(n)
          PROVE  Once
      BY <1>2, <2>3, OtherSaveOnce
    <2>4. ASSUME NEW st, Restart(st)
          PROVE  Once
      BY <1>2, <2>4, RestartOnce
    <2> QED
      BY <1>4, <2>1, <2>2, <2>3, <2>4
      DEF Surroundings, FolderChanges, CallDeliver, StatusReported, SessionOpens, SessionCloses
  <1>5. CASE UNCHANGED mvars
    BY <1>1, <1>5 DEF mvars, storeVars
  <1> QED
    BY <1>3, <1>4, <1>5 DEF MNext

(* The invariant holds whatever fails: a failure ends its claim for good. *)
LEMMA StepOnceInv == MTypeOK /\ OnceInv /\ [MNext]_mvars => OnceInv'
  <1> SUFFICES ASSUME MTypeOK, OnceInv, [MNext]_mvars
               PROVE  OnceInv'
    OBVIOUS
  <1>1. CASE faults' = 0
    BY <1>1, StepOnce
  <1>2. CASE faults' # 0
    BY <1>2 DEF OnceInv
  <1> QED
    BY <1>1, <1>2

THEOREM OnceInvariant == MSpec => []OnceInv
  BY InitOnce, StepOnceInv, TypeCorrect, PTL DEF MSpec

(* While no save fails, store.json holds exactly what the daemon holds, after
   any operations, rescans and restarts (store.rs:3 "written atomically on
   every change"). *)
THEOREM Durability == MSpec => []Durable
  <1>1. OnceInv => Durable
    BY DEF OnceInv, Durable
  <1> QED
    BY <1>1, OnceInvariant, PTL

(* No message is handed to a session twice, whatever deliver_next calls
   overlap and however often the daemon restarts, while no save fails. *)
THEOREM HandedOnce == MSpec => AtMostOnce
  <1>1. MTypeOK /\ OnceInv /\ [MNext]_mvars
          => [faults' = 0 => \A p \in pastes' \ pastes : p.nth \notin handed]_mvars
    BY StepOnce
  <1> QED
    BY <1>1, OnceInvariant, TypeCorrect, PTL DEF MSpec, AtMostOnce
-----------------------------------------------------------------------------
(***************************************************************************)
(* The refinement: what the abstract MessageApproval sees of the store is  *)
(* the phase of each id.  Of a step that saves it sees the move of a set   *)
(* of messages, and what trimming forgets.                                 *)
(***************************************************************************)
PhaseIn(ms, n, i) == IF i \in DOMAIN ms THEN ms[i].state
                                        ELSE IF i <= n THEN "gone" ELSE "unsent"

LEMMA PhaseAsStored == \A i : Phase(i) = PhaseIn(messages, nextId, i)
  BY DEF Phase, PhaseIn

(* Saving messages that differ in the phases of S, now `to`, moves S. *)
LEMMA SaveMoves ==
  ASSUME NEW ms, NEW n, Kept(ms, n), Save(ms, n), NEW S, NEW to,
         \A i \in Ids : PhaseIn(ms, n, i) = IF i \in S THEN to ELSE Phases[i]
  PROVE  Approval!Move(S, to)
  <1> DEFINE forgotten == DOMAIN ms \ DOMAIN Trim(ms)
             closing == IF to \in Approval!Closed THEN S ELSE {}
  <1>1. DOMAIN ms \subseteq Ids /\ \A i \in DOMAIN ms : i <= n /\ ms[i] \in Message
    BY MessageAssumption DEF Kept, Ids
  <1>2. \A i \in forgotten : ms[i].state \in Approval!Closed
    BY <1>1 DEF Trim, Restrict, InState, Message, OpenStates, ClosedStates, Approval!Closed
  <1>3. forgotten \in SUBSET (Approval!In(Approval!Closed) \cup closing)
    <2> SUFFICES ASSUME NEW i \in forgotten
                 PROVE  i \in Approval!In(Approval!Closed) \cup closing
      OBVIOUS
    <2>1. ms[i].state = IF i \in S THEN to ELSE Phases[i]
      BY <1>1 DEF PhaseIn
    <2> QED
      BY <1>1, <1>2, <2>1 DEF Approval!In
  <1>4. messages' = Trim(ms) /\ nextId' = n
    BY DEF Save
  <1>5. ASSUME NEW i \in Ids
        PROVE  Phases'[i] = CASE i \in forgotten           -> "gone"
                              [] i \in S \ forgotten       -> to
                              [] i \notin S \cup forgotten -> Phases[i]
    <2>1. Phases'[i] = PhaseIn(Trim(ms), n, i)
      BY <1>4 DEF Phases, Phase, PhaseIn
    <2>2. CASE i \in forgotten
      BY <2>1, <2>2, <1>1 DEF PhaseIn
    <2>3. CASE i \notin forgotten
      <3>1. PhaseIn(Trim(ms), n, i) = PhaseIn(ms, n, i)
        BY <2>3, TrimKeeps DEF PhaseIn
      <3> QED
        BY <2>1, <2>3, <3>1
    <2> QED
      BY <2>2, <2>3
  <1>6. Phases' = [i \in Ids |-> CASE i \in forgotten           -> "gone"
                                   [] i \in S \ forgotten       -> to
                                   [] i \notin S \cup forgotten -> Phases[i]]
    <2>1. Phases' = [i \in Ids |-> Phases'[i]]
      BY DEF Phases
    <2> HIDE DEF forgotten
    <2> QED
      BY <1>5, <2>1
  <1> HIDE DEF forgotten
  <1> QED
    BY <1>3, <1>6 DEF Approval!Move

LEMMA InitMaps == MInit => Approval!Init
  <1> SUFFICES ASSUME MInit PROVE Phases = [i \in Ids |-> "unsent"]
    BY DEF Approval!Init
  <1>1. \A i \in Ids : Phase(i) = "unsent"
    BY MessageAssumption DEF MInit, NoMessages, Phase, Ids
  <1> QED
    BY <1>1 DEF Phases

LEMMA SendMaps ==
  ASSUME MTypeOK, NEW from \in Worktrees, NEW to \in Worktrees, Send(from, to)
  PROVE  Approval!Next
  <1> DEFINE m == [nth |-> sent + 1, from |-> from, to |-> to, body |-> "asked",
                   state |-> "pending"]
             id == nextId + 1
             ms == [i \in DOMAIN messages \cup {id} |-> IF i = id THEN m ELSE messages[i]]
  <1>1. Save(ms, id)
    BY DEF Send
  <1>2. m \in Message /\ m.state = "pending"
    BY DEF MTypeOK, Message, Bodies, OpenStates
  <1>3. id \in Ids /\ id \notin DOMAIN messages /\ DOMAIN messages \subseteq Ids
    BY MessageAssumption DEF MTypeOK, Kept, Send, Ids
  <1>4. Kept(ms, id)
    BY <1>2, MessageAssumption DEF MTypeOK, Kept, Send
  <1>5. Phases[id] = "unsent"
    BY <1>3, MessageAssumption DEF Phases, Phase, MTypeOK, Kept
  <1>6. ASSUME NEW i \in Ids
        PROVE  PhaseIn(ms, id, i) = IF i \in {id} THEN "pending" ELSE Phases[i]
    BY <1>2, MessageAssumption DEF PhaseIn, Phases, Phase, MTypeOK, Kept, Ids
  <1> HIDE DEF ms, m, id
  <1>7. Approval!Move({id}, "pending")
    BY <1>1, <1>4, <1>6, SaveMoves
  <1> QED
    BY <1>3, <1>5, <1>7 DEF Approval!Next, Approval!Request

(* The messages S of the store, none of them new, get the state `to`. *)
LEMMA RestatedMoves ==
  ASSUME MTypeOK, NEW ms, Kept(ms, nextId), Save(ms, nextId), NEW S, NEW to,
         DOMAIN ms = DOMAIN messages, S \subseteq DOMAIN messages,
         \A i \in DOMAIN ms : ms[i].state = IF i \in S THEN to ELSE messages[i].state
  PROVE  Approval!Move(S, to)
  <1>1. \A i \in Ids : PhaseIn(ms, nextId, i) = IF i \in S THEN to ELSE Phases[i]
    BY DEF PhaseIn, Phases, Phase
  <1> QED
    BY <1>1, SaveMoves

LEMMA StoredIn ==
  ASSUME MTypeOK, NEW states
  PROVE  InState(messages, states) \subseteq Approval!In(states)
  <1>1. \A i \in DOMAIN messages : i \in Ids /\ Phases[i] = messages[i].state
    BY MessageAssumption DEF MTypeOK, Kept, Ids, Phases, Phase
  <1> QED
    BY <1>1 DEF InState, Approval!In

LEMMA DecideMaps ==
  ASSUME MTypeOK, NEW i \in DOMAIN messages, NEW approve \in BOOLEAN, NEW body \in Bodies,
         Decide(i, approve, body)
  PROVE  Approval!Next
  <1> DEFINE new == IF body = "edited" THEN body ELSE messages[i].body
             verdict == IF approve THEN "queued" ELSE "denied"
             ms == [messages EXCEPT ![i].state = verdict, ![i].body = new]
  <1>1. messages[i] \in Message /\ new \in Bodies
    BY DEF MTypeOK, Kept, Message
  <1>2. Kept(ms, nextId)
    BY <1>1 DEF MTypeOK, Kept, Message, OpenStates, ClosedStates
  <1>3. Save(ms, nextId)
    BY DEF Decide
  <1>4. \A j \in DOMAIN ms : ms[j].state = IF j \in {i} THEN verdict ELSE messages[j].state
    BY <1>1 DEF Message, MTypeOK, Kept
  <1>5. DOMAIN ms = DOMAIN messages
    OBVIOUS
  <1>6. {i} \subseteq Approval!In(Approval!Undecided) /\ verdict \in {"queued", "denied"}
    BY StoredIn DEF Decide, Approval!Undecided
  <1> HIDE DEF ms, verdict
  <1>7. Approval!Move({i}, verdict)
    BY <1>2, <1>3, <1>4, <1>5, RestatedMoves
  <1>8. {i} \in SUBSET Ids
    BY <1>6 DEF Approval!In
  <1> QED
    BY <1>6, <1>7, <1>8 DEF Approval!Next, Approval!Decide

LEMMA DecideManyMaps ==
  ASSUME MTypeOK, NEW ids \in SUBSET DOMAIN messages, NEW approve \in BOOLEAN,
         DecideMany(ids, approve)
  PROVE  Approval!Next
  <1> DEFINE decided == ids \cap InState(messages, {"pending"})
             verdict == IF approve THEN "queued" ELSE "denied"
             ms == [i \in DOMAIN messages |->
                     IF i \in decided THEN [messages[i] EXCEPT !.state = verdict]
                                      ELSE messages[i]]
  <1>1. \A i \in DOMAIN messages : messages[i] \in Message
    BY DEF MTypeOK, Kept
  <1>2. Kept(ms, nextId)
    BY <1>1 DEF MTypeOK, Kept, Message, OpenStates, ClosedStates
  <1>3. Save(ms, nextId)
    BY DEF DecideMany
  <1>4. \A j \in DOMAIN ms : ms[j].state = IF j \in decided THEN verdict ELSE messages[j].state
    BY <1>1 DEF Message
  <1>5. DOMAIN ms = DOMAIN messages /\ decided \subseteq DOMAIN messages
    OBVIOUS
  <1>6. decided \subseteq Approval!In(Approval!Undecided) /\ verdict \in {"queued", "denied"}
    BY StoredIn DEF Approval!Undecided
  <1> HIDE DEF ms, verdict, decided
  <1>7. Approval!Move(decided, verdict)
    BY <1>2, <1>3, <1>4, <1>5, RestatedMoves
  <1>8. decided \in SUBSET Ids
    BY <1>6 DEF Approval!In
  <1> QED
    BY <1>6, <1>7, <1>8 DEF Approval!Next, Approval!Decide

LEMMA DeliverMaps ==
  ASSUME MTypeOK, NEW w \in Worktrees, NEW s \in sessions, Deliver(w, s)
  PROVE  Approval!Next
  <1>1. PICK i \in Oldest(Queued(w)) : Save(Delivered(i), nextId)
    BY DEF Deliver
  <1>2. i \in InState(messages, {"queued"}) /\ i \in DOMAIN messages /\ messages[i] \in Message
    BY DEF Oldest, Queued, InState, MTypeOK, Kept
  <1>3. Kept(Delivered(i), nextId)
    BY <1>2 DEF Delivered, MTypeOK, Kept, Message, ClosedStates
  <1>4. /\ DOMAIN Delivered(i) = DOMAIN messages
        /\ \A j \in DOMAIN Delivered(i) :
             Delivered(i)[j].state = IF j \in {i} THEN "delivered" ELSE messages[j].state
    BY <1>2 DEF Delivered, Message, MTypeOK, Kept
  <1>5. Approval!Move({i}, "delivered")
    BY <1>1, <1>2, <1>3, <1>4, RestatedMoves
  <1>6. i \in Approval!In({"queued"})
    BY <1>2, StoredIn
  <1> QED
    BY <1>5, <1>6 DEF Approval!Next, Approval!Deliver, Approval!In

(* What expires a set of messages: a rescan, or a restart from a file that
   holds what the memory held. *)
LEMMA ExpireMaps ==
  ASSUME MTypeOK, NEW fl, Save(Expired(messages, fl), nextId)
  PROVE  Approval!Next
  <1> DEFINE ms == Expired(messages, fl)
             S == Orphans(messages, fl)
  <1>1. Kept(ms, nextId)
    BY ExpiredKept DEF MTypeOK
  <1>2. S \subseteq InState(messages, OpenStates) /\ S \subseteq DOMAIN messages
    BY DEF Orphans, InState
  <1>3. \A i \in DOMAIN messages : messages[i] \in Message
    BY DEF MTypeOK, Kept
  <1>4. /\ DOMAIN ms = DOMAIN messages
        /\ \A j \in DOMAIN ms : ms[j].state = IF j \in S THEN "expired" ELSE messages[j].state
    BY <1>3 DEF Expired, Message
  <1> HIDE DEF ms, S
  <1>5. Approval!Move(S, "expired")
    BY <1>1, <1>2, <1>4, RestatedMoves DEF ms
  <1>6. S \subseteq Approval!In({"pending", "queued"})
    BY <1>2, StoredIn DEF OpenStates
  <1>7. S \in SUBSET Ids
    BY <1>6 DEF Approval!In
  <1> QED
    BY <1>5, <1>6, <1>7 DEF Approval!Next, Approval!Expire

LEMMA RestartMaps ==
  ASSUME MTypeOK, OnceInv, NEW st, Restart(st), faults' = 0
  PROVE  Approval!Next \/ UNCHANGED Phases
  <1>1. faults = 0
    BY SaveFaults DEF Restart, MTypeOK
  <1>2. store.messages = messages /\ store.nextId = nextId
    BY <1>1 DEF OnceInv
  <1>3. CASE UNCHANGED <<messages, nextId>>
    BY <1>3 DEF Phases, Phase
  <1>4. CASE Save(Expired(messages, folders), nextId)
    BY <1>4, ExpireMaps
  <1> QED
    BY <1>1, <1>2, <1>3, <1>4 DEF Restart

(* Something else is saved with the messages, perhaps under an id of theirs. *)
LEMMA OtherSaveMaps ==
  ASSUME MTypeOK, NEW n \in {nextId, nextId + 1}, OtherSave(n)
  PROVE  Approval!Next
  <1>1. Kept(messages, n) /\ Save(messages, n)
    BY MessageAssumption DEF OtherSave, MTypeOK, Kept
  <1>2. CASE n = nextId
    <2>1. Approval!Move({}, "queued")
      BY <1>1, <1>2, RestatedMoves
    <2> QED
      BY <2>1 DEF Approval!Next, Approval!Decide
  <1>3. CASE n = nextId + 1
    <2>1. n \in Ids /\ Phases[n] = "unsent"
      BY <1>3, MessageAssumption DEF OtherSave, MTypeOK, Kept, Ids, Phases, Phase
    <2>2. ASSUME NEW i \in Ids
          PROVE  PhaseIn(messages, n, i) = IF i \in {n} THEN "gone" ELSE Phases[i]
      BY <1>3, MessageAssumption DEF PhaseIn, Phases, Phase, MTypeOK, Kept, Ids
    <2>3. Approval!Move({n}, "gone")
      BY <1>1, <2>2, SaveMoves
    <2> QED
      BY <2>1, <2>3 DEF Approval!Next, Approval!Request
  <1> QED
    BY <1>2, <1>3

LEMMA StepMaps ==
  ASSUME MTypeOK, OnceInv, [MNext]_mvars, faults' = 0
  PROVE  Approval!Next \/ UNCHANGED Phases
  <1>1. CASE UNCHANGED <<messages, nextId>>
    BY <1>1 DEF Phases, Phase
  <1>2. ASSUME NEW w \in Worktrees, DeliverNext(w)
        PROVE  Approval!Next \/ UNCHANGED Phases
    <2>1. CASE NothingToDeliver(w)
      BY <1>1, <2>1 DEF NothingToDeliver, storeVars
    <2> QED
      BY <1>2, <2>1, DeliverMaps DEF DeliverNext
  <1>3. CASE Operation
    <2>1. ASSUME NEW p \in pastes, PasteEnds(p)
          PROVE  UNCHANGED <<messages, nextId>>
      BY <2>1 DEF PasteEnds, storeVars
    <2> QED
      BY <1>1, <1>2, <1>3, <2>1, SendMaps, DecideMaps, DecideManyMaps DEF Operation
  <1>4. CASE Surroundings
    <2>1. ASSUME NEW fl, NEW st, Rescan(fl, st)
          PROVE  Approval!Next \/ UNCHANGED Phases
      <3>1. CASE UNCHANGED storeVars
        BY <1>1, <3>1 DEF storeVars
      <3> QED
        BY <2>1, <3>1, ExpireMaps DEF Rescan
    <2>2. ASSUME NEW w, FolderChanges(w) \/ CallDeliver(w)
          PROVE  UNCHANGED <<messages, nextId>>
      BY <2>2 DEF FolderChanges, CallDeliver, storeVars
    <2>3. ASSUME NEW w, NEW s, StatusReported(w, s)
          PROVE  UNCHANGED <<messages, nextId>>
      BY <2>3 DEF StatusReported, storeVars
    <2>4. ASSUME NEW s, SessionOpens(s) \/ SessionCloses(s)
          PROVE  UNCHANGED <<messages, nextId>>
      BY <2>4 DEF SessionOpens, SessionCloses, storeVars
    <2> QED
      BY <1>1, <1>4, <2>1, <2>2, <2>3, <2>4, OtherSaveMaps, RestartMaps DEF Surroundings
  <1> QED
    BY <1>1, <1>3, <1>4 DEF MNext, mvars

(* The refinement: while no save and no load has failed, the store starts as
   MessageApproval starts, and every operation, rescan and restart is one of
   its steps or leaves every phase as it is: requested, decided once by the
   user, delivered at most once or expired, forgotten only when closed. *)
THEOREM ApprovalsKept == MSpec => Approvals
  <1>1. MTypeOK /\ OnceInv /\ [MNext]_mvars
          => [faults' = 0 => Approval!Next \/ UNCHANGED Phases]_mvars
    BY StepMaps
  <1> QED
    BY <1>1, InitMaps, OnceInvariant, TypeCorrect, PTL DEF MSpec, Approvals

-----------------------------------------------------------------------------
(***************************************************************************)
(* Delivery: the daemon with its agent, hooks, sessions and rescans.       *)
(***************************************************************************)
DTypeOK ==
  /\ MTypeOK /\ fleet = Worktrees
  /\ cur \in StatusStates /\ agent \in {"none", "idle", "turn", "ended"}
  /\ notices \in Seq(Statuses) /\ scan \in Statuses \cup {"idle"}
  /\ extras \in Nat /\ since \in Nat

(* An event applied to the files leaves them well typed. *)
LEMMA AppliedType ==
  ASSUME NEW s \in StatusStates, NEW w \in Words \ {"limited"}
  PROVE  Apply(s, Event(w)) \in StatusStates
  <1>1. s.status \in Statuses /\ s.stash \in Milestones \cup {"none"}
        /\ s.resets_at \in ResetTimes \cup {UnknownReset}
    BY DEF StatusStates
  <1> DEFINE t == Transition(s.status, s.stash, w)
  <1>2. t[1] \in Statuses /\ t[2] \in Milestones \cup {"none"}
    <2>1. w \in {"working", "tool", "stop", "sessionend", "wip", "edit", "done", "pr", "sync",
                 "scratch", "reviewing", "reviewed"}
      BY DEF Words, TurnWords, MarkWords
    <2>2. CASE w \in {"wip", "edit", "done", "pr", "sync", "scratch"}
      BY <1>1, <2>2 DEF Transition, Statuses, Milestones
    <2>3. CASE w \in {"reviewing", "reviewed"}
      BY <1>1, <2>3 DEF Transition, Statuses, Milestones
    <2>4. CASE w \in {"working", "tool"}
      <3>1. t = TurnStep(s.status, s.stash, "working")
        BY <2>4 DEF Transition
      <3> QED
        BY <1>1, <3>1 DEF TurnStep, Statuses, Milestones
    <2>5. CASE w \in {"stop", "sessionend"}
      <3>1. t \in {<<s.status, s.stash>>, TurnEnd(s.status, s.stash, "input"),
                   TurnEnd(s.status, s.stash, "stopped")}
        BY <2>5 DEF Transition
      <3> QED
        BY <1>1, <3>1 DEF TurnEnd, Statuses, Milestones
    <2> QED
      BY <2>1, <2>2, <2>3, <2>4, <2>5
  <1> HIDE DEF t
  <1>3. Apply(s, Event(w)).resets_at \in ResetTimes \cup {UnknownReset}
    BY <1>1 DEF Apply, Event
  <1>4. Apply(s, Event(w)) = [status |-> t[1], stash |-> t[2],
                              resets_at |-> Apply(s, Event(w)).resets_at]
    BY DEF Apply, Event, t
  <1> QED
    BY <1>2, <1>3, <1>4 DEF StatusStates

LEMMA TargetSessions ==
  /\ Target \in Worktrees /\ Hosted \in Session
  /\ \A id \in Unhosted : Other(id) \in Session
  BY DeliveryAssumption DEF Hosted, Other, Session

(* A hook applies its event and sends a notice of the status it left, which
   may be lost. *)
LEMMA HookType ==
  ASSUME DTypeOK, NEW w \in Words \ {"limited"}, NEW n \in {0, 1}, Hook(w, n)
  PROVE  cur' \in StatusStates /\ notices' \in Seq(Statuses) /\ extras' \in Nat
  <1>1. cur' \in StatusStates
    BY AppliedType DEF DTypeOK, Hook
  <1>2. cur'.status \in Statuses
    BY <1>1 DEF StatusStates
  <1>3. notices' \in {notices, Append(notices, cur'.status)}
    BY DEF Hook
  <1>4. extras' \in {extras, extras + 1}
    BY DEF Hook, Extra, DTypeOK
  <1> QED
    BY <1>1, <1>2, <1>3, <1>4 DEF DTypeOK

(* Taking one notice out leaves the others. *)
LEMMA ReceivedType ==
  ASSUME DTypeOK, NEW k \in DOMAIN notices, Received(k)
  PROVE  notices[k] \in Statuses /\ notices' \in Seq(Statuses)
  <1>1. k \in 1 .. Len(notices)
    BY DEF DTypeOK
  <1>2. /\ SubSeq(notices, 1, k - 1) \in Seq(Statuses)
        /\ SubSeq(notices, k + 1, Len(notices)) \in Seq(Statuses)
    BY <1>1 DEF DTypeOK
  <1> QED
    BY <1>1, <1>2 DEF Received, DTypeOK

LEMMA HookWords == {"working", "tool", "stop", "sessionend"} \cup Marks \subseteq Words \ {"limited"}
  BY DeliveryAssumption DEF Words, TurnWords, MarkWords

(***************************************************************************)
(* Every step of the daemon and of what surrounds it is one that the queue *)
(* allows, or leaves the queue and all it looks at alone.                  *)
(***************************************************************************)
LEMMA DeliveryStep ==
  ASSUME DTypeOK, [DNext]_allVars
  PROVE  [MNext]_mvars
  <1> USE TargetSessions
  <1>1. ASSUME Agent \/ ScanRead
        PROVE  UNCHANGED mvars
    BY <1>1 DEF Agent, Prompt, ToolCall, Mark, TurnEnds, ScanRead
  <1>2. ASSUME HandleNotice
        PROVE  Surroundings
    <2>1. PICK k \in DOMAIN notices : Received(k) /\ StatusReported(Target, notices[k])
      BY <1>2 DEF HandleNotice, Received
    <2>2. notices[k] \in Shown
      BY <2>1, ReceivedType, DeliveryAssumption
    <2> QED
      BY <2>1, <2>2 DEF Surroundings
  <1>3. ASSUME ScanApply
        PROVE  Surroundings
    <2>1. [status EXCEPT ![Target] = scan] \in [Worktrees -> Shown]
      BY <1>3, DeliveryAssumption DEF ScanApply, DTypeOK, MTypeOK
    <2>2. {} \in SUBSET Removable /\ fleet = Worktrees \ {}
      BY DEF DTypeOK
    <2> QED
      BY <1>3, <2>1, <2>2 DEF ScanApply, Surroundings
  <1>4. ASSUME TimerFires
        PROVE  Surroundings
    BY <1>4 DEF TimerFires, Surroundings
  <1>5. ASSUME DeliverStep
        PROVE  Operation
    BY <1>5 DEF DeliverStep, Operation
  <1>6. ASSUME Request
        PROVE  Operation
    BY <1>6 DEF Request, Operation
  <1>7. ASSUME Approve
        PROVE  Operation
    <2>1. PICK i \in DOMAIN messages : Decide(i, TRUE, messages[i].body)
      BY <1>7 DEF Approve
    <2>2. messages[i].body \in Bodies
      BY DEF DTypeOK, MTypeOK, Kept, Message
    <2> QED
      BY <2>1, <2>2 DEF Operation
  <1>8. ASSUME NEW p \in pastes, PasteLands(p)
        PROVE  Operation
    BY <1>8 DEF PasteLands, Operation
  <1>9. ASSUME Spawn \/ Exited
        PROVE  Surroundings
    BY <1>9 DEF Spawn, Exited, Surroundings
  <1>10. ASSUME NEW id \in Unhosted, Terminal(id)
         PROVE  Surroundings
    BY <1>10 DEF Terminal, Surroundings
  <1>11. CASE UNCHANGED allVars
    BY <1>11 DEF allVars
  <1> QED
    BY <1>1, <1>2, <1>3, <1>4, <1>5, <1>6, <1>7, <1>8, <1>9, <1>10, <1>11
       DEF DNext, Daemon, MNext

(* A call that hands a message over hands over one. *)
LEMMA HandsOverOne ==
  ASSUME DTypeOK, NEW w \in Worktrees, DeliverNext(w)
  PROVE  Cardinality(handed' \ handed) \in {0, 1}
  <1>1. CASE NothingToDeliver(w)
    <2>1. handed' \ handed = {}
      BY <1>1 DEF NothingToDeliver
    <2> QED
      BY <2>1, FS_EmptySet
  <1>2. ASSUME NEW s \in sessions, Deliver(w, s)
        PROVE  Cardinality(handed' \ handed) \in {0, 1}
    <2>1. PICK n : handed' = handed \cup {n}
      BY <1>2 DEF Deliver
    <2>2. handed' \ handed = {} \/ handed' \ handed = {n}
      BY <2>1
    <2> QED
      BY <2>2, FS_EmptySet, FS_Singleton
  <1> QED
    BY <1>1, <1>2 DEF DeliverNext

LEMMA InitDelivery == DInit => DTypeOK
  <1>1. StatusDefault \in StatusStates
    BY DEF StatusDefault, StatusStates, Statuses, Milestones
  <1> SUFFICES ASSUME DInit PROVE DTypeOK
    OBVIOUS
  <1>3. notices \in Seq(Statuses)
    BY DEF DInit
  <1>4. MTypeOK /\ fleet = Worktrees
    BY InitType DEF DInit, MInit
  <1> QED
    BY <1>1, <1>3, <1>4 DEF DInit, DTypeOK

LEMMA StepDelivery == DTypeOK /\ [DNext]_allVars => DTypeOK'
  <1> SUFFICES ASSUME DTypeOK, [DNext]_allVars
               PROVE  DTypeOK'
    OBVIOUS
  <1> USE TargetSessions
  <1>1. MTypeOK'
    BY DeliveryStep, StepType DEF DTypeOK
  <1>2. ASSUME UNCHANGED <<fleet, cur, agent, notices, scan, extras, since>>
        PROVE  DTypeOK'
    BY <1>1, <1>2 DEF DTypeOK
  <1>3. ASSUME NEW w \in Words \ {"limited"}, NEW n \in {0, 1}, Hook(w, n),
               fleet' = fleet, agent' \in {"idle", "turn"}, since' \in {since, 0},
               scan' = scan
        PROVE  DTypeOK'
    <2>1. since' \in Nat
      BY <1>3 DEF DTypeOK
    <2> QED
      BY <1>1, <1>3, <2>1, HookType DEF DTypeOK
  <1>4. ASSUME Agent
        PROVE  DTypeOK'
    <2>1. CASE Prompt
      BY <1>3, <2>1, HookWords DEF Prompt, TurnBegins, mvars
    <2>2. CASE ToolCall
      BY <1>3, <2>2, HookWords DEF ToolCall, mvars
    <2>3. ASSUME NEW w \in Marks, Mark(w)
          PROVE  DTypeOK'
      BY <1>3, <2>3, HookWords DEF Mark, mvars
    <2>4. CASE TurnEnds
      BY <1>3, <2>4, HookWords DEF TurnEnds, mvars
    <2> QED
      BY <1>4, <2>1, <2>2, <2>3, <2>4 DEF Agent
  <1>5. ASSUME HandleNotice
        PROVE  DTypeOK'
    <2>1. PICK k \in DOMAIN notices : Received(k)
      BY <1>5 DEF HandleNotice
    <2>2. notices' \in Seq(Statuses)
      BY <2>1, ReceivedType
    <2> QED
      BY <1>1, <2>1, <2>2 DEF Received, StatusReported, aroundVars, DTypeOK
  <1>6. ASSUME ScanRead
        PROVE  DTypeOK'
    <2>1. scan' \in Statuses /\ extras' \in Nat
      BY <1>6 DEF ScanRead, Extra, DTypeOK, StatusStates
    <2> QED
      BY <1>1, <1>6, <2>1 DEF ScanRead, history, mvars, DTypeOK
  <1>7. ASSUME ScanApply
        PROVE  DTypeOK'
    BY <1>1, <1>7 DEF ScanApply, Rescan, DTypeOK
  <1>8. ASSUME DeliverStep
        PROVE  DTypeOK'
    <2>1. since' \in Nat
      <3>1. Cardinality(handed' \ handed) \in {0, 1}
        BY <1>8, HandsOverOne DEF DeliverStep
      <3> QED
        BY <1>8, <3>1 DEF DeliverStep, DTypeOK
    <2> QED
      BY <1>1, <1>8, <2>1 DEF DeliverStep, DeliverNext, aroundVars, DTypeOK
  <1>9. ASSUME TimerFires \/ Request \/ Approve
        PROVE  DTypeOK'
    <2>1. CASE TimerFires
      BY <1>2, <2>1 DEF TimerFires, CallDeliver, aroundVars, history
    <2>2. CASE Request
      BY <1>2, <2>2 DEF Request, Send, aroundVars, dvars, history
    <2>3. CASE Approve
      <3>1. UNCHANGED dvars /\ fleet' = fleet
        BY <2>3 DEF Approve, Decide, aroundVars
      <3> QED
        BY <1>2, <3>1 DEF dvars, history
    <2> QED
      BY <1>9, <2>1, <2>2, <2>3
  <1>10. ASSUME NEW p \in pastes, PasteLands(p)
         PROVE  DTypeOK'
    <2>1. fleet' = fleet
      BY <1>10 DEF PasteLands, PasteEnds, aroundVars
    <2>2. CASE agent = "idle"
      BY <1>3, <1>10, <2>1, <2>2, HookWords DEF PasteLands, TurnBegins
    <2> QED
      BY <1>2, <1>10, <2>1, <2>2 DEF PasteLands, TurnBegins
  <1>11. ASSUME Spawn
         PROVE  DTypeOK'
    BY <1>1, <1>11 DEF Spawn, SessionOpens, history, DTypeOK
  <1>12. ASSUME Exited
         PROVE  DTypeOK'
    <2>1. cur' \in StatusStates
      BY <1>12, AppliedType, HookWords DEF Exited, DTypeOK
    <2> QED
      BY <1>1, <1>12, <2>1 DEF Exited, SessionCloses, DTypeOK
  <1>13. ASSUME NEW id \in Unhosted, Terminal(id)
         PROVE  DTypeOK'
    BY <1>2, <1>13 DEF Terminal, SessionOpens, SessionCloses, dvars, history
  <1>14. CASE UNCHANGED allVars
    BY <1>2, <1>14 DEF history, allVars, mvars, dvars
  <1> QED
    BY <1>4, <1>5, <1>6, <1>7, <1>8, <1>9, <1>10, <1>11, <1>12, <1>13, <1>14 DEF DNext, Daemon

(* The daemon's state with its agents and hooks is well typed. *)
THEOREM DeliveryTypeCorrect == DSpec => []DTypeOK
  BY InitDelivery, StepDelivery, PTL DEF DSpec

(* Whatever hooks, sessions and rescans do, they do to the queue what
   messages.rs allows: Delivery implements MessageStore, so all that is
   proved of the queue holds of the daemon. *)
THEOREM QueueIsUndisturbed == DSpec => QueueUndisturbed
  <1>1. DInit => MInit
    BY DEF DInit
  <1>2. DTypeOK /\ [DNext]_allVars => [MNext]_mvars
    BY DeliveryStep
  <1> QED
    BY <1>1, <1>2, DeliveryTypeCorrect, PTL DEF DSpec, MSpec, QueueUndisturbed

-----------------------------------------------------------------------------
(***************************************************************************)
(* One message a turn, and none in the middle of one.  As long as no       *)
(* rescan changes what is shown, no mark is made and no notice is lost or  *)
(* overtaken, what the daemon                                              *)
(* shows of the target lags behind its agent by at most the one notice     *)
(* under way, and only in the safe direction: a turn the daemon has not    *)
(* heard of has its notice under way, and a message handed over shows the  *)
(* target as working until the end of a turn has been heard.               *)
(***************************************************************************)
Only(s) == [status |-> s, stash |-> "none", resets_at |-> UnknownReset]

HostedRuns ==
  \A s \in sessions : s.wt = Target /\ s.hosted => s = Hosted /\ agent \in {"idle", "turn"}

BeforeIt == agent = "none" => cur = Only("none") /\ notices = <<>> /\ since = 0

BetweenThem ==
  agent = "idle" =>
    \/ cur \in {Only("none"), Only("input")} /\ notices = <<>>
    \/ cur = Only("input") /\ notices = <<"input">> /\ status[Target] = "working" /\ since = 0

WithinIt ==
  agent = "turn" =>
    /\ cur = Only("working")
    /\ (notices = <<>> /\ status[Target] = "working") \/ notices = <<"working">>

AfterIt == agent = "ended" => cur = Only("stopped") /\ since = 0

CountedOnce == since \in {0, 1} /\ (since = 1 => status[Target] = "working")

Heard ==
  Undisturbed => BeforeIt /\ BetweenThem /\ WithinIt /\ AfterIt /\ CountedOnce

(* What a turn's own events do to files that hold no milestone. *)
LEMMA PlainEvents ==
  /\ \A s \in {"none", "input"} : Apply(Only(s), Event("working")) = Only("working")
  /\ Apply(Only("working"), Event("tool")) = Only("working")
  /\ Apply(Only("working"), Event("stop")) = Only("input")
  /\ \A s \in {"none", "input", "working"} : Apply(Only(s), Event("sessionend")) = Only("stopped")
  BY DEF Only, Apply, Event, Transition, TurnStep, TurnEnd, Milestones

(* A request and an approval concern nothing but the messages. *)
LEMMA OnlyMessages ==
  ASSUME Request \/ Approve
  PROVE  UNCHANGED <<dvars, aroundVars, status, handed>>
  <1>1. CASE Request
    BY <1>1 DEF Request, Send
  <1>2. CASE Approve
    <2>1. PICK i \in DOMAIN messages : Decide(i, TRUE, messages[i].body) /\ UNCHANGED dvars
      BY <1>2 DEF Approve
    <2>2. UNCHANGED <<aroundVars, status, handed>>
      BY <2>1 DEF Decide
    <2> QED
      BY <2>1, <2>2
  <1> QED
    BY <1>1, <1>2

(* Nothing that has disturbed delivery is undone. *)
LEMMA StaysDisturbed ==
  ASSUME DTypeOK, [DNext]_allVars, Undisturbed'
  PROVE  Undisturbed
  <1>1. ASSUME marked => marked', late => late', lost => lost', rewound => rewound'
        PROVE  Undisturbed
    BY <1>1 DEF Undisturbed
  <1>2. CASE Agent
    BY <1>1, <1>2 DEF Agent, Prompt, TurnBegins, ToolCall, Mark, TurnEnds, Hook
  <1>3. CASE Daemon
    BY <1>1, <1>3 DEF Daemon, HandleNotice, Received, ScanRead, ScanApply, TimerFires,
                      DeliverStep, history
  <1>4. CASE Request \/ Approve \/ UNCHANGED allVars
    BY <1>1, <1>4, OnlyMessages DEF dvars, history, allVars
  <1>5. ASSUME NEW p \in pastes, PasteLands(p)
        PROVE  Undisturbed
    <2>1. marked' = marked
      BY <1>5 DEF PasteLands
    <2>2. CASE TurnBegins(0)
      <3>1. rewound' = rewound /\ late' = (late \/ notices # <<>>)
        BY <2>2 DEF TurnBegins, Hook
      <3>2. lost' = lost \/ lost' = TRUE
        BY <2>2 DEF TurnBegins, Hook
      <3> QED
        BY <1>1, <2>1, <3>1, <3>2, Zenon
    <2>3. CASE UNCHANGED <<late, lost, rewound>>
      BY <1>1, <2>1, <2>3
    <2> QED
      BY <1>5, <2>2, <2>3 DEF PasteLands
  <1>6. CASE Spawn \/ Exited \/ \E id \in Unhosted : Terminal(id)
    BY <1>1, <1>6 DEF Spawn, Exited, Terminal, dvars, history
  <1> QED
    BY <1>2, <1>3, <1>4, <1>5, <1>6 DEF DNext

LEMMA StepHosted ==
  ASSUME DTypeOK, HostedRuns, [DNext]_allVars
  PROVE  HostedRuns'
  <1>1. ASSUME sessions' = sessions, agent' = agent \/ agent' \in {"idle", "turn"}
        PROVE  HostedRuns'
    BY <1>1 DEF HostedRuns
  <1>2. CASE Agent \/ Request \/ Approve \/ UNCHANGED allVars
    BY <1>1, <1>2, OnlyMessages
       DEF Agent, Prompt, TurnBegins, ToolCall, Mark, TurnEnds, aroundVars, mvars, dvars, allVars
  <1>3. CASE Daemon
    BY <1>1, <1>3 DEF Daemon, HandleNotice, Received, StatusReported, ScanRead, ScanApply, Rescan,
                      TimerFires, CallDeliver, DeliverStep, DeliverNext, aroundVars, mvars
  <1>4. ASSUME NEW p \in pastes, PasteLands(p)
        PROVE  HostedRuns'
    BY <1>1, <1>4 DEF PasteLands, PasteEnds, TurnBegins, aroundVars
  <1>5. CASE Spawn
    BY <1>5 DEF Spawn, SessionOpens, HostedRuns
  <1>6. CASE Exited
    BY <1>6 DEF Exited, SessionCloses, HostedRuns
  <1>7. ASSUME NEW id \in Unhosted, Terminal(id)
        PROVE  HostedRuns'
    BY <1>7 DEF Terminal, SessionOpens, SessionCloses, Other, dvars, HostedRuns
  <1> QED
    BY <1>2, <1>3, <1>4, <1>5, <1>6, <1>7 DEF DNext

(* A hook that overtakes no notice and loses none leaves its own alone under
   way. *)
LEMMA HookHeard ==
  ASSUME DTypeOK, NEW w \in Words, NEW n \in {0, 1}, Hook(w, n), Undisturbed'
  PROVE  notices = <<>> /\ notices' = <<cur'.status>> /\ cur' = Apply(cur, Event(w))
  <1>1. notices = <<>>
    BY DEF Hook, Undisturbed
  <1> QED
    BY <1>1 DEF Hook, Undisturbed, DTypeOK

LEMMA AgentHeard ==
  ASSUME DTypeOK, Heard, Undisturbed, Undisturbed', Agent
  PROVE  Heard'
  <1> USE DEF Heard, BeforeIt, BetweenThem, WithinIt, AfterIt, CountedOnce
  <1>1. {"working", "tool", "stop"} \subseteq Words
    BY HookWords
  <1>2. CASE Prompt
    <2>1. /\ agent = "idle" /\ agent' = "turn" /\ Hook("working", 1)
          /\ UNCHANGED <<status, since>>
      BY <1>2 DEF Prompt, TurnBegins, mvars
    <2>2. cur' = Only("working")
      BY <1>1, <2>1, HookHeard, PlainEvents
    <2>3. notices' = <<"working">>
      BY <1>1, <2>1, <2>2, HookHeard DEF Only
    <2> QED
      BY <2>1, <2>2, <2>3
  <1>3. CASE ToolCall
    <2>1. cur = Only("working") /\ Apply(cur, Event("tool")) # cur
      BY <1>3 DEF ToolCall
    <2> QED
      BY <2>1, PlainEvents
  <1>4. ASSUME NEW w \in Marks, Mark(w)
        PROVE  FALSE
    BY <1>4 DEF Mark, Undisturbed
  <1>5. CASE TurnEnds
    <2>1. /\ agent = "turn" /\ agent' = "idle" /\ Hook("stop", 0) /\ since' = 0
          /\ status' = status
      BY <1>5 DEF TurnEnds, mvars
    <2>2. notices = <<>> /\ cur' = Only("input")
      BY <1>1, <2>1, HookHeard, PlainEvents
    <2>3. notices' = <<"input">>
      BY <1>1, <2>1, <2>2, HookHeard DEF Only
    <2>4. status'[Target] = "working"
      BY <2>1, <2>2
    <2> QED
      BY <2>1, <2>2, <2>3, <2>4
  <1> QED
    BY <1>2, <1>3, <1>4, <1>5 DEF Agent

(* A message that is handed over goes to a target that is shown as idle, and
   leaves it shown as working. *)
LEMMA HandOver ==
  ASSUME DTypeOK, HostedRuns, DeliverStep
  PROVE  \/ handed' = handed /\ UNCHANGED <<status, since>>
         \/ /\ agent \in {"idle", "turn"} /\ status[Target] # "working"
            /\ status'[Target] = "working" /\ since' \in {since, since + 1}
  <1> USE TargetSessions
  <1>1. DeliverNext(Target) /\ since' = since + Cardinality(handed' \ handed)
    BY DEF DeliverStep
  <1>2. CASE NothingToDeliver(Target)
    <2>1. handed' = handed /\ status' = status /\ handed' \ handed = {}
      BY <1>2 DEF NothingToDeliver
    <2>2. Cardinality(handed' \ handed) = 0
      BY <2>1, FS_EmptySet
    <2>3. since' = since
      BY <1>1, <2>2 DEF DTypeOK
    <2> QED
      BY <2>1, <2>3
  <1>3. ASSUME NEW s \in sessions, Deliver(Target, s)
        PROVE  /\ agent \in {"idle", "turn"} /\ status[Target] # "working"
               /\ status'[Target] = "working" /\ since' \in {since, since + 1}
    <2>1. agent \in {"idle", "turn"}
      BY <1>3 DEF Deliver, HostedRuns
    <2>2. status[Target] # "working" /\ status' = [status EXCEPT ![Target] = "working"]
      BY <1>3 DEF Deliver, Busy, DTypeOK
    <2>3. Cardinality(handed' \ handed) \in {0, 1}
      BY <1>1, HandsOverOne
    <2>4. since' \in {since, since + 1}
      BY <1>1, <2>3 DEF DTypeOK
    <2> QED
      BY <2>1, <2>2, <2>4 DEF DTypeOK, MTypeOK
  <1> QED
    BY <1>1, <1>2, <1>3 DEF DeliverNext

LEMMA DaemonHeard ==
  ASSUME DTypeOK, HostedRuns, Heard, Undisturbed, Undisturbed', Daemon
  PROVE  Heard'
  <1> USE DEF Heard, BeforeIt, BetweenThem, WithinIt, AfterIt, CountedOnce
  <1>1. CASE HandleNotice
    <2>1. PICK k \in DOMAIN notices : Received(k)
      BY <1>1 DEF HandleNotice
    <2>2. /\ notices # <<>>
          /\ status' = [status EXCEPT ![Target] = notices[k]]
          /\ UNCHANGED <<cur, agent, since>>
      BY <2>1 DEF Received, StatusReported
    <2>3. status'[Target] = notices[k]
      BY <2>2, TargetSessions DEF DTypeOK, MTypeOK
    <2>4. agent # "none"
      BY <2>2
    <2>5. ASSUME NEW n, notices = <<n>>
          PROVE  notices' = <<>> /\ status'[Target] = n
      <3>1. k = 1
        BY <2>5
      <3> QED
        BY <2>1, <2>3, <2>5, <3>1 DEF Received
    <2>6. CASE agent = "idle"
      <3>1. cur = Only("input") /\ notices = <<"input">> /\ since = 0
        BY <2>2, <2>6
      <3> QED
        BY <2>2, <2>5, <2>6, <3>1
    <2>7. CASE agent = "turn"
      <3>1. cur = Only("working") /\ notices = <<"working">>
        BY <2>2, <2>7
      <3> QED
        BY <2>2, <2>5, <2>7, <3>1
    <2>8. CASE agent = "ended"
      BY <2>2, <2>8
    <2> QED
      BY <2>4, <2>6, <2>7, <2>8 DEF DTypeOK
  <1>2. CASE ScanRead
    BY <1>2 DEF ScanRead, history, mvars
  <1>3. CASE ScanApply
    <2>1. /\ status' = [status EXCEPT ![Target] = scan] /\ scan = status[Target]
          /\ UNCHANGED <<cur, agent, notices, since>>
      BY <1>3 DEF ScanApply, Rescan, Undisturbed
    <2>2. status' = status
      BY <2>1 DEF DTypeOK, MTypeOK
    <2> QED
      BY <2>1, <2>2
  <1>4. CASE TimerFires
    BY <1>4 DEF TimerFires, CallDeliver, history
  <1>5. CASE DeliverStep
    <2>1. UNCHANGED <<cur, agent, notices>>
      BY <1>5 DEF DeliverStep
    <2>2. CASE UNCHANGED <<status, since>>
      BY <2>1, <2>2
    <2>3. CASE /\ agent \in {"idle", "turn"} /\ status[Target] # "working"
               /\ status'[Target] = "working" /\ since' \in {since, since + 1}
      <3>1. since = 0 /\ since' \in {0, 1}
        BY <2>3 DEF DTypeOK
      <3> QED
        BY <2>1, <2>3, <3>1
    <2> QED
      BY <1>5, <2>2, <2>3, HandOver
  <1> QED
    BY <1>1, <1>2, <1>3, <1>4, <1>5 DEF Daemon

LEMMA StepHeard ==
  ASSUME DTypeOK, HostedRuns, Heard, [DNext]_allVars
  PROVE  Heard'
  <1> SUFFICES ASSUME Undisturbed'
               PROVE  Heard'
    BY DEF Heard
  <1>1. Undisturbed
    BY StaysDisturbed
  <1>2. ASSUME UNCHANGED <<cur, agent, notices, since, status>>
        PROVE  Heard'
    BY <1>1, <1>2 DEF Heard, BeforeIt, BetweenThem, WithinIt, AfterIt, CountedOnce
  <1>3. CASE Request \/ Approve \/ UNCHANGED allVars
    BY <1>2, <1>3, OnlyMessages DEF dvars, history, mvars, allVars
  <1>4. ASSUME NEW p \in pastes, PasteLands(p)
        PROVE  Heard'
    <2>1. UNCHANGED <<status, since>>
      BY <1>4 DEF PasteLands, PasteEnds
    <2>2. CASE agent = "idle"
      <3>1. agent' = "turn" /\ Hook("working", 0) /\ "working" \in Words
        BY <1>4, <2>2, HookWords DEF PasteLands, TurnBegins
      <3>2. cur \in {Only("none"), Only("input")}
        BY <1>1, <2>2 DEF Heard, BetweenThem
      <3>3. cur' = Only("working")
        BY <3>1, <3>2, HookHeard, PlainEvents
      <3>4. notices' = <<"working">>
        BY <3>1, <3>3, HookHeard DEF Only
      <3> QED
        BY <1>1, <2>1, <3>1, <3>3, <3>4
           DEF Heard, BeforeIt, BetweenThem, WithinIt, AfterIt, CountedOnce
    <2> QED
      BY <1>2, <1>4, <2>1, <2>2 DEF PasteLands, TurnBegins
  <1>5. CASE Spawn
    <2>1. agent = "none" /\ agent' = "idle" /\ UNCHANGED <<status, cur, notices, since>>
      BY <1>5 DEF Spawn, SessionOpens, history
    <2> QED
      BY <1>1, <2>1 DEF Heard, BeforeIt, BetweenThem, WithinIt, AfterIt, CountedOnce
  <1>6. CASE Exited
    <2>1. /\ agent \in {"idle", "turn"} /\ agent' = "ended" /\ since' = 0
          /\ cur' = Apply(cur, Event("sessionend"))
      BY <1>6 DEF Exited
    <2>2. cur \in {Only("none"), Only("input"), Only("working")}
      BY <1>1, <2>1 DEF Heard, BetweenThem, WithinIt
    <2>3. cur' = Only("stopped")
      BY <2>1, <2>2, PlainEvents
    <2> QED
      BY <1>1, <2>1, <2>3 DEF Heard, BeforeIt, BetweenThem, WithinIt, AfterIt, CountedOnce
  <1>7. ASSUME NEW id \in Unhosted, Terminal(id)
        PROVE  Heard'
    BY <1>2, <1>7 DEF Terminal, SessionOpens, dvars, history
  <1> QED
    BY <1>1, <1>3, <1>4, <1>5, <1>6, <1>7, AgentHeard, DaemonHeard DEF DNext

THEOREM DeliveryHeard == DSpec => [](HostedRuns /\ Heard)
  <1>1. DInit => HostedRuns /\ Heard
    BY DEF DInit, MInit, HostedRuns, Heard, BeforeIt, BetweenThem, WithinIt, AfterIt, CountedOnce,
           StatusDefault, Only
  <1>2. DTypeOK /\ HostedRuns /\ Heard /\ [DNext]_allVars => (HostedRuns /\ Heard)'
    BY StepHosted, StepHeard
  <1> QED
    BY <1>1, <1>2, DeliveryTypeCorrect, PTL DEF DSpec

(* "one per turn" (messages.rs:3-4): between two ends of turns at most one
   message is handed over, while no mark and no lost or overtaken notice
   disturbs what the daemon shows, and no rescan changes it. *)
THEOREM OneMessagePerTurn == DSpec => []OnePerTurn
  <1>1. Heard => OnePerTurn
    BY DEF Heard, CountedOnce, OnePerTurn
  <1> QED
    BY <1>1, DeliveryHeard, PTL

(* "never mid-turn" (messages.rs:3), under the same conditions and once the
   daemon has heard all there is to hear. *)
THEOREM HandedBetweenTurns == DSpec => BetweenTurns
  <1>1. ASSUME DTypeOK, HostedRuns, Heard, [DNext]_allVars, handed' # handed, notices = <<>>,
               Undisturbed
        PROVE  agent # "turn"
    <2>1. DeliverStep
      <3>1. CASE Agent \/ Request \/ Approve \/ UNCHANGED allVars
        BY <1>1, <3>1, OnlyMessages DEF Agent, Prompt, ToolCall, Mark, TurnEnds, mvars, allVars
      <3>2. CASE Daemon
        BY <1>1, <3>2 DEF Daemon, HandleNotice, Received, StatusReported, ScanRead, ScanApply, Rescan,
                          TimerFires, CallDeliver, mvars
      <3>3. CASE \E p \in pastes : PasteLands(p)
        BY <1>1, <3>3 DEF PasteLands, PasteEnds
      <3>4. CASE Spawn \/ Exited \/ \E id \in Unhosted : Terminal(id)
        BY <1>1, <3>4 DEF Spawn, Exited, Terminal, SessionOpens, SessionCloses
      <3> QED
        BY <1>1, <3>1, <3>2, <3>3, <3>4 DEF DNext
    <2>2. status[Target] # "working"
      BY <1>1, <2>1, HandOver
    <2> QED
      BY <1>1, <2>2 DEF Heard, WithinIt
  <1>2. DTypeOK /\ (HostedRuns /\ Heard) /\ [DNext]_allVars
          => [handed' # handed /\ notices = <<>> /\ Undisturbed => agent # "turn"]_allVars
    BY <1>1
  <1> QED
    BY <1>2, DeliveryHeard, DeliveryTypeCorrect, PTL DEF DSpec, BetweenTurns

(* Both at once: a message is handed over between turns, by an operation of
   the queue's own (messages.rs:141-170). *)
THEOREM OrderlyDelivery == DSpec => DeliveryOrderly
  BY QueueIsUndisturbed, HandedBetweenTurns, PTL DEF DeliveryOrderly
=============================================================================
