------------------------------- MODULE Gauge -------------------------------
(***************************************************************************)
(* The gauges dccex.connection.active and dccex.station.current            *)
(* (telemetry/telemetry.go), kept by station clients that open and close   *)
(* (dccex/client/client.go) and by the session that takes the clients'     *)
(* events one by one (throttle/session.go): the count changes where a      *)
(* client is made or shut down, the current where a report is taken out of *)
(* its channel.  Session.tla and Client.tla model both sides in full.      *)
(***************************************************************************)
EXTENDS Naturals, Sequences

CONSTANTS
  None,            \* nothing, and no number
  Capacity,        \* events a client's channel holds (64), at least one
  MaxConnections   \* bound: connections opened

VARIABLES
  opened,      \* connections opened so far; the last is the newest
  alive,       \* clients that have not been shut down
  ending,      \* clients whose reader has failed and is about to shut down
  events,      \* what each client's channel holds: "current" or "end"
  linked,      \* the client the session takes events from
  active,      \* m.active
  hasCurrent,  \* m.hasCurrent
  origin       \* history: the connection m.currentMA was reported on

vars == <<opened, alive, ending, events, linked, active, hasCurrent, origin>>

Connections == 1..MaxConnections

Init ==
  /\ opened = 0 /\ alive = {} /\ ending = {} /\ linked = None
  /\ events = [c \in Connections |-> <<>>]
  /\ active = 0 /\ hasCurrent = FALSE /\ origin = None

(***************************************************************************)
(* Active: the last report is forgotten when no connection is left.        *)
(***************************************************************************)
Active(n) ==
  /\ active' = n
  /\ hasCurrent' = (hasCurrent /\ n > 0)

\* closeWithCause, by whoever comes first.
Shut(c) ==
  IF c \in alive
    THEN alive' = alive \ {c} /\ Active(active - 1)
    ELSE UNCHANGED <<alive, active, hasCurrent>>

\* NewObserved: a client for a transport just opened.
Connect ==
  /\ linked = None /\ opened < MaxConnections
  /\ opened' = opened + 1 /\ linked' = opened + 1
  /\ alive' = alive \cup {opened + 1}
  /\ Active(active + 1)
  /\ UNCHANGED <<ending, events, origin>>

Disconnect ==
  /\ linked # None
  /\ linked' = None /\ Shut(linked)
  /\ UNCHANGED <<opened, ending, events, origin>>

\* The reader: a report of the current, or a failed read and then the shutdown.
Report(c) ==
  /\ c \in alive \ ending /\ Len(events[c]) < Capacity
  /\ events' = [events EXCEPT ![c] = Append(@, "current")]
  /\ UNCHANGED <<opened, alive, ending, linked, active, hasCurrent, origin>>

ReadFails(c) ==
  /\ c \in alive \ ending /\ Len(events[c]) < Capacity
  /\ events' = [events EXCEPT ![c] = Append(@, "end")]
  /\ ending' = ending \cup {c}
  /\ UNCHANGED <<opened, alive, linked, active, hasCurrent, origin>>

ReaderShuts(c) ==
  /\ c \in ending /\ ending' = ending \ {c}
  /\ Shut(c)
  /\ UNCHANGED <<opened, events, linked, origin>>

\* The session: Current for a report, Detach for the end.
Hear ==
  /\ linked # None /\ events[linked] # <<>>
  /\ events' = [events EXCEPT ![linked] = Tail(@)]
  /\ IF Head(events[linked]) = "current"
       THEN /\ hasCurrent' = TRUE /\ origin' = linked
            /\ UNCHANGED <<alive, active, linked>>
       ELSE linked' = None /\ Shut(linked) /\ UNCHANGED origin
  /\ UNCHANGED <<opened, ending>>

Next ==
  \/ Connect \/ Disconnect \/ Hear
  \/ \E c \in Connections : Report(c) \/ ReadFails(c) \/ ReaderShuts(c)

Spec == Init /\ [][Next]_vars

\* What the gauge's callback observes.
Observed == active > 0 /\ hasCurrent

(***************************************************************************)
(* The gauge shows the "last reported current in mA while connected and    *)
(* known" (TELEMETRY.md:56) and what a station reported does not survive   *)
(* its connection ("station current survived disconnect",                  *)
(* telemetry/setup_test.go:191).  A report still in the channel of a       *)
(* client that has shut down is recorded after the count cleared it.       *)
(***************************************************************************)
CurrentIsOfThisConnection == Observed => origin \in alive
=============================================================================
