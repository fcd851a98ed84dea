------------------------------ MODULE Console ------------------------------
(***************************************************************************)
(* The size of one hosted console that several terminals show              *)
(* (crates/wtd/src: daemon/host.rs attach, daemon/pty.rs resize, repaint   *)
(* and size, attach.rs relay_async, tui/session.rs Session and pump).      *)
(*                                                                         *)
(* A terminal asks to be attached at the size its window has, then sends   *)
(* what is typed and, when it notices, its new sizes.  In the daemon every *)
(* terminal has two tasks on a multi-threaded runtime: one reads its       *)
(* frames, the other pumps output to it and repaints when it lost some.    *)
(* Pty::resize records the size under one lock and resizes the pseudo      *)
(* console under none, so each call is two steps here, and the tasks       *)
(* interleave between them.                                                *)
(*                                                                         *)
(* The agent runs throughout: its end is modelled in HostSessions.         *)
(***************************************************************************)
EXTENDS Integers, Sequences, FiniteSets

CONSTANTS Viewers,     \* the terminals that may show the session
          Sizes,       \* the sizes of windows, none under the least a console has
          Short,       \* size -> the one a repaint puts the console to in between
          MaxWindow,   \* bound: how often windows change size
          MaxTyped,    \* bound: how often something is typed
          MaxLags,     \* bound: how often a pump loses output
          MaxAttach    \* bound: how often terminals attach

NoSize == <<>>

ASSUME BoundsAssumption ==
  {MaxWindow, MaxTyped, MaxLags, MaxAttach} \subseteq Nat
ASSUME SizesAssumption == NoSize \notin Sizes /\ Short \in [Sizes -> Sizes]

VARIABLES window,    \* terminal -> the size of its window
          client,    \* terminal -> "off", "asking" or "on"
          sent,      \* terminal -> the size it last told the daemon
          wire,      \* terminal -> the frames on their way to the daemon
          told,      \* terminal -> the size its reading task holds
          todo,      \* task -> the calls it has still to make
          recorded,  \* Pty::size: the size the daemon believes the console has
          console,   \* the size of the pseudo console
          owner,     \* ghost: the terminal whose frame was handled last
          crossed,   \* ghost: the last resize or claim had another resize under way
          alone,     \* ghost: terminal -> no other task resized since its frame was read
          budget       \* what remains of the bounds

consolevars == <<window, client, sent, wire, told, todo, recorded, console,
          owner, crossed, alone, budget>>

NoOwner == "nobody"
Tasks  == Viewers \X {"read", "pump"}

Record(s) == [call |-> "record", size |-> s]
Apply(s)  == [call |-> "apply", size |-> s]
Write     == [call |-> "write", size |-> NoSize]

Resize(s)  == <<Record(s), Apply(s)>>
(* Pty::repaint steps one row down, if there are that many, and back. *)
Repaint(s) == Resize(Short[s]) \o Resize(s)

Typed      == [frame |-> "data", size |-> NoSize]
NewSize(s) == [frame |-> "resize", size |-> s]

CInit ==
  /\ window \in [Viewers -> Sizes]
  /\ client = [t \in Viewers |-> "off"]
  /\ sent = [t \in Viewers |-> NoSize]
  /\ wire = [t \in Viewers |-> <<>>]
  /\ told = [t \in Viewers |-> NoSize]
  /\ todo = [k \in Tasks |-> <<>>]
  /\ recorded = NoSize
  /\ console = NoSize
  /\ owner = NoOwner
  /\ crossed = FALSE
  /\ alone = [t \in Viewers |-> FALSE]
  /\ budget = [window |-> MaxWindow, typed |-> MaxTyped, lags |-> MaxLags,
             attach |-> MaxAttach]

(* Does another task than k have calls to the console before it? *)
Busy(k) == \E j \in Tasks \ {k} : \E i \in 1..Len(todo[j]) : todo[j][i] # Write

(* A task takes on calls; they cross the resizes under way, and a resize a *)
(* terminal asks for settles what crossed before.                          *)
Takes(k, calls) ==
  /\ todo' = [todo EXCEPT ![k] = calls]
  /\ crossed' = (Busy(k) \/ (crossed /\ (k[2] = "pump" \/ calls = <<Write>>)))
  /\ alone' = [t \in Viewers |-> IF <<t, "read">> = k THEN ~Busy(k)
                                 ELSE alone[t] /\ calls = <<Write>>]

(***************************************************************************)
(* The terminals.                                                          *)
(***************************************************************************)
ChangeWindow(t) ==
  /\ budget.window > 0
  /\ \E s \in Sizes \ {window[t]} : window' = [window EXCEPT ![t] = s]
  /\ budget' = [budget EXCEPT !.window = @ - 1]
  /\ UNCHANGED <<client, sent, wire, told, todo, recorded, console, owner, crossed, alone>>

(* The size of the moment goes with the request to attach. *)
AskResize(t) ==
        /\ client[t] = "off" /\ budget.attach > 0
        /\ client' = [client EXCEPT ![t] = "asking"]
        /\ sent' = [sent EXCEPT ![t] = window[t]]
        /\ budget' = [budget EXCEPT !.attach = @ - 1]
        /\ UNCHANGED <<window, wire, told, todo, recorded, console, owner, crossed, alone>>

(* The size is compared with the one last told, not with the one before.   *)
Notice(t) ==
  /\ client[t] = "on" /\ window[t] # sent[t]
  /\ wire' = [wire EXCEPT ![t] = Append(@, NewSize(window[t]))]
  /\ sent' = [sent EXCEPT ![t] = window[t]]
  /\ UNCHANGED <<window, client, told, todo, recorded, console, owner, crossed, alone, budget>>

Type(t) ==
  /\ client[t] = "on" /\ budget.typed > 0
  /\ wire' = [wire EXCEPT ![t] = Append(@, Typed)]
  /\ budget' = [budget EXCEPT !.typed = @ - 1]
  /\ UNCHANGED <<window, client, sent, told, todo, recorded, console, owner, crossed, alone>>

(***************************************************************************)
(* The daemon.                                                             *)
(***************************************************************************)
(* A mutant for AttachTerminal: resizes are compared with the size the window has  *)
(* by now, so one made while the request was on its way is never sent.     *)
AttachForgets(t) ==
  /\ client[t] = "asking" /\ todo[<<t, "read">>] = <<>>
  /\ client' = [client EXCEPT ![t] = "on"]
  /\ told' = [told EXCEPT ![t] = sent[t]]
  /\ sent' = [sent EXCEPT ![t] = window[t]]
  /\ owner' = t
  /\ IF console = NoSize
     THEN /\ recorded' = sent[t]
          /\ console' = sent[t]
          /\ UNCHANGED <<todo, crossed, alone>>
     ELSE /\ Takes(<<t, "read">>, Repaint(sent[t]))
          /\ UNCHANGED <<recorded, console>>
  /\ UNCHANGED <<window, wire, budget>>

(* The request is answered and the connection becomes a stream: the first  *)
(* terminal started the console at its size, a later one has it repainted. *)
AttachTerminal(t) ==
  /\ client[t] = "asking" /\ todo[<<t, "read">>] = <<>>
  /\ client' = [client EXCEPT ![t] = "on"]
  /\ told' = [told EXCEPT ![t] = sent[t]]
  /\ owner' = t
  /\ IF console = NoSize
     THEN /\ recorded' = sent[t]
          /\ console' = sent[t]
          /\ UNCHANGED <<todo, crossed, alone>>
     ELSE /\ Takes(<<t, "read">>, Repaint(sent[t]))
          /\ UNCHANGED <<recorded, console>>
  /\ UNCHANGED <<window, sent, wire, budget>>

(* A mutant for Claim: typing claims nothing. *)
ClaimNever(t) == <<>>

(* Input claims the console for the size its terminal has. *)
Claim(t) == IF recorded # told[t] THEN Resize(told[t]) ELSE <<>>

Read(t) ==
  /\ client[t] = "on" /\ wire[t] # <<>> /\ todo[<<t, "read">>] = <<>>
  /\ LET f == Head(wire[t]) IN
     IF f.frame = "data"
     THEN /\ Takes(<<t, "read">>, Append(Claim(t), Write))
          /\ UNCHANGED told
     ELSE /\ told' = [told EXCEPT ![t] = f.size]
          /\ Takes(<<t, "read">>, Resize(f.size))
  /\ wire' = [wire EXCEPT ![t] = Tail(@)]
  /\ owner' = t
  /\ UNCHANGED <<window, client, sent, recorded, console, budget>>

(* One call of a task: the size is recorded, then the console is resized.  *)
Call(k) ==
  /\ todo[k] # <<>>
  /\ LET c == Head(todo[k]) IN
     /\ recorded' = IF c.call = "record" THEN c.size ELSE recorded
     /\ console' = IF c.call = "apply" THEN c.size ELSE console
     /\ alone' = [t \in Viewers |->
                    alone[t] /\ (c = Write \/ k = <<t, "read">>)]
  /\ todo' = [todo EXCEPT ![k] = Tail(@)]
  /\ UNCHANGED <<window, client, sent, wire, told, owner, crossed, budget>>

(* A pump that lost output repaints at the size recorded just before.  The *)
(* size it reads is that of a moment earlier than its first call.          *)
Lag(t) ==
  /\ client[t] = "on" /\ budget.lags > 0 /\ todo[<<t, "pump">>] = <<>>
  /\ Takes(<<t, "pump">>, Repaint(recorded))
  /\ budget' = [budget EXCEPT !.lags = @ - 1]
  /\ UNCHANGED <<window, client, sent, wire, told, recorded, console, owner>>

(* The terminal goes: frames it has sent are read first, a pump in the     *)
(* middle of a repaint finishes it (it is aborted only where it waits).    *)
HangUp(t) ==
  /\ client[t] = "on" /\ wire[t] = <<>> /\ todo[<<t, "read">>] = <<>>
  /\ client' = [client EXCEPT ![t] = "off"]
  /\ sent' = [sent EXCEPT ![t] = NoSize]
  /\ told' = [told EXCEPT ![t] = NoSize]
  /\ alone' = [alone EXCEPT ![t] = FALSE]
  /\ UNCHANGED <<window, wire, todo, recorded, console, owner, crossed, budget>>

CNext ==
  \/ \E t \in Viewers :
       \/ ChangeWindow(t) \/ AskResize(t) \/ Notice(t) \/ Type(t)
       \/ AttachTerminal(t) \/ Read(t) \/ Lag(t) \/ HangUp(t)
  \/ \E k \in Tasks : Call(k)

CSpec == CInit /\ [][CNext]_consolevars

(* The polling of the terminals and the daemon's tasks go on; nobody has   *)
(* to type, to resize a window, to attach or to leave.                     *)
CFair == /\ \A t \in Viewers : WF_consolevars(Notice(t)) /\ WF_consolevars(AttachTerminal(t)) /\ WF_consolevars(Read(t))
         /\ \A k \in Tasks : WF_consolevars(Call(k))

CFairSpec == CSpec /\ CFair

-----------------------------------------------------------------------------
(* A terminal that is attached has told the daemon a size, and one that is   *)
(* not has no frame under way; the console has the size that was recorded    *)
(* when no task is at work and no two of them crossed.                       *)
ConsoleTypeOK ==
  /\ window \in [Viewers -> Sizes] /\ client \in [Viewers -> {"off", "asking", "on"}]
  /\ \A t \in Viewers :
       /\ sent[t] \in IF client[t] = "off" THEN {NoSize} ELSE Sizes
       /\ told[t] \in IF client[t] = "on" THEN Sizes ELSE {NoSize}
       /\ \A i \in DOMAIN wire[t] : wire[t][i] \in {Typed} \cup {NewSize(s) : s \in Sizes}
       /\ client[t] # "on" => wire[t] = <<>>
  /\ \A k \in Tasks : \A i \in DOMAIN todo[k] :
       todo[k][i] \in {Write} \cup {Record(s) : s \in Sizes} \cup {Apply(s) : s \in Sizes}
  /\ {recorded, console} \subseteq {NoSize} \cup Sizes
  /\ (\A k \in Tasks : todo[k] = <<>>) /\ ~crossed => recorded = console
  /\ owner \in Viewers \cup {NoOwner} /\ crossed \in BOOLEAN /\ alone \in [Viewers -> BOOLEAN]
  /\ budget \in [window : 0..MaxWindow, typed : 0..MaxTyped, lags : 0..MaxLags, attach : 0..MaxAttach]

(* Typing into a terminal writes to a console of that terminal's size      *)
(* (host.rs:165), when no other task touched the console while the input   *)
(* was handled and no two resizes crossed before it.                       *)
Writes(t) == /\ todo[<<t, "read">>] # <<>> /\ Head(todo[<<t, "read">>]) = Write
             /\ Call(<<t, "read">>)

WritesAtSize ==
  [][\A t \in Viewers : Writes(t) /\ alone[t] /\ ~crossed => console = told[t]]_consolevars

InputClaims == []ConsoleTypeOK /\ WritesAtSize

(* The same without the second excuse, as host.rs:165 and the comment of   *)
(* its test have it.                                                       *)
InputAlwaysClaims ==
  [][\A t \in Viewers : Writes(t) /\ alone[t] => console = told[t]]_consolevars

(* In the end the console has the size of the window that used it last,    *)
(* even one that changed while the request to attach was on its way        *)
(* (attach.rs:331), unless two resizes crossed.                            *)
Settles ==
  <>[](owner \in Viewers /\ client[owner] = "on" /\ ~crossed
         => console = window[owner] /\ recorded = console)
=============================================================================
