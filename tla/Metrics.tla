------------------------------ MODULE Metrics ------------------------------
(***************************************************************************)
(* The resource metrics (crates/wtd/src/daemon/mod.rs: handle, subscribe,  *)
(* metrics_loop): measured every five seconds, but only while a client     *)
(* that asked for them is connected.                                       *)
(*                                                                         *)
(* A connection that registers a session is one more session to measure;   *)
(* the measurement runs outside the lock, while sessions and clients come  *)
(* and go.  What is measured is reduced to the number of sessions.         *)
(***************************************************************************)
EXTENDS FiniteSets, Integers

CONSTANTS Clients,     \* connections
          MaxConnects  \* bound: what connections do

ASSUME MetricsAssumption == MaxConnects \in Nat

VARIABLES sub,       \* connection -> "off", "plain" or "metrics"
          session,   \* connections that hold a session
          subs,      \* metrics_subs
          tick,      \* the number of sessions being measured, or NoTick
          latest,    \* the last measurement, which every snapshot carries
          shown,     \* connection -> the last number it was sent, or NoTick
          connects   \* what remains of the bound

metricsvars  == <<sub, session, subs, tick, latest, shown, connects>>
NoTick == -1

MetricsInit ==
  /\ sub = [c \in Clients |-> "off"]
  /\ session = {}
  /\ subs = 0
  /\ tick = NoTick
  /\ latest = NoTick
  /\ shown = [c \in Clients |-> NoTick]
  /\ connects = MaxConnects

(* SUBSCRIBE, with `metrics` or without: a tray wants them, a tool that    *)
(* waits for a status does not.  A client subscribes once.                 *)
SubscribeMetrics(c, wish) ==
         /\ connects > 0 /\ sub[c] = "off" /\ c \notin session
         /\ connects' = connects - 1
         /\ sub' = [sub EXCEPT ![c] = wish]
         /\ subs' = IF wish = "metrics" THEN subs + 1 ELSE subs
         /\ shown' = [shown EXCEPT ![c] = latest]
         /\ UNCHANGED <<session, tick, latest>>

(* SESSION_REGISTER: the connection stands for a session.                  *)
Register(c) ==
  /\ connects > 0 /\ sub[c] = "off" /\ c \notin session
  /\ connects' = connects - 1
  /\ session' = session \cup {c}
  /\ UNCHANGED <<sub, subs, tick, latest, shown>>

(* A mutant for Disconnect: every subscriber that leaves is counted out.   *)
DisconnectAny(c) ==
  /\ sub[c] # "off" \/ c \in session
  /\ subs' = IF sub[c] # "off" /\ subs > 0 THEN subs - 1 ELSE subs
  /\ sub' = [sub EXCEPT ![c] = "off"]
  /\ session' = session \ {c}
  /\ shown' = [shown EXCEPT ![c] = NoTick]
  /\ UNCHANGED <<tick, latest, connects>>

(* The connection ends, with all it stood for.                             *)
Disconnect(c) ==
  /\ sub[c] # "off" \/ c \in session
  /\ subs' = IF sub[c] = "metrics" /\ subs > 0 THEN subs - 1 ELSE subs
  /\ sub' = [sub EXCEPT ![c] = "off"]
  /\ session' = session \ {c}
  /\ shown' = [shown EXCEPT ![c] = NoTick]
  /\ UNCHANGED <<tick, latest, connects>>

(* The timer ticks: nothing without a subscriber, else the sessions of the *)
(* moment are measured on a thread.                                        *)
Measure ==
  /\ tick = NoTick /\ subs > 0
  /\ tick' = Cardinality(session)
  /\ UNCHANGED <<sub, session, subs, latest, shown, connects>>

(* The numbers are pushed, and forwarded to whoever wants them by now.     *)
PushMetrics ==
  /\ tick # NoTick
  /\ tick' = NoTick
  /\ latest' = tick
  /\ shown' = [c \in Clients |-> IF sub[c] = "metrics" THEN tick ELSE shown[c]]
  /\ UNCHANGED <<sub, session, subs, connects>>

MetricsNext ==
  \/ \E c \in Clients, wish \in {"plain", "metrics"} : SubscribeMetrics(c, wish)
  \/ \E c \in Clients : Register(c) \/ Disconnect(c)
  \/ Measure
  \/ PushMetrics

(* The timer ticks and the thread ends.                                    *)
MetricsFair == WF_metricsvars(Measure) /\ WF_metricsvars(PushMetrics)

MetricsSpec     == MetricsInit /\ [][MetricsNext]_metricsvars
MetricsFairSpec == MetricsSpec /\ MetricsFair

(***************************************************************************)
(* Properties                                                              *)
(***************************************************************************)
(* A terminal that has taken its connection over subscribes to nothing.    *)
MetricsTypeOK ==
  /\ sub \in [Clients -> {"off", "plain", "metrics"}]
  /\ session \subseteq {c \in Clients : sub[c] = "off"}
  /\ {tick, latest} \subseteq (0..Cardinality(Clients)) \cup {NoTick}
  /\ shown \in [Clients -> (0..Cardinality(Clients)) \cup {NoTick}]
  /\ connects \in 0..MaxConnects

(* metrics_subs counts the clients that want metrics, whatever connections *)
(* come and go, and no session nor a client that is gone is counted.       *)
SubsCounted == subs = Cardinality({c \in Clients : sub[c] = "metrics"})

(* mod.rs metrics_subs: once sessions and clients stop coming and going,   *)
(* every client that wants metrics is shown the sessions there are: no     *)
(* order of connections, ends and measurements leaves the loop idle, or    *)
(* the last measurement for good one of sessions that ended.               *)
MetricsSettle ==
  <>[][UNCHANGED <<sub, session>>]_metricsvars
    => <>[](\A c \in Clients : sub[c] = "metrics" => shown[c] = Cardinality(session))

MetricsReach == [](MetricsTypeOK /\ SubsCounted) /\ MetricsSettle
==============================================================================
