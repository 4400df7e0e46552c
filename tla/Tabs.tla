-------------------------------- MODULE Tabs --------------------------------
(***************************************************************************)
(* What the throttle controller promises its operator: every open tab is a *)
(* locomotive of its own.  A step operates one tab, or is one of the few   *)
(* that reach all of them (a tick, an emergency stop, a lost connection),  *)
(* or rearranges the tabs without touching what they show.  Which tab is   *)
(* on top never decides which locomotive a step is about.                  *)
(*                                                                         *)
(* There is one record per tab here.  Controller.tla keeps two copies of   *)
(* the selected one and is shown to implement this module.                 *)
(***************************************************************************)
CONSTANTS Cab, None

VARIABLES
  online,     \* is there a station connection
  selected,   \* the tab on top
  tabs        \* [open cabs -> [speed, dir, fns, intent]]

vars == <<online, selected, tabs>>

\* A tab just opened shows a stopped locomotive, forward, every function off.
Blank == [speed |-> 0, dir |-> 1, fns |-> {}, intent |-> None]

Parked(t) == t.speed = 0 /\ t.intent = None

Forget(t) == [t EXCEPT !.intent = None]

\* Only the tabs of K may differ between m and n.
SameBut(m, n, K) ==
  /\ DOMAIN m = DOMAIN n
  /\ \A k \in DOMAIN m \ K : n[k] = m[k]

Init ==
  /\ online = FALSE
  /\ \E open \in SUBSET Cab : tabs = [k \in open |-> Blank]
  /\ selected \in DOMAIN tabs

(***************************************************************************)
(* One tab is operated or hears from its locomotive; offline it can gather *)
(* no intent.                                                              *)
(***************************************************************************)
Operate(k) ==
  /\ SameBut(tabs, tabs', {k})
  /\ tabs'[k].intent = None \/ (online /\ tabs'[k].intent = tabs'[k].speed)
  /\ UNCHANGED <<online, selected>>

(***************************************************************************)
(* Waiting intents of any tabs are sent, or found to be sent already.      *)
(***************************************************************************)
Flush ==
  /\ DOMAIN tabs' = DOMAIN tabs
  /\ \A k \in DOMAIN tabs : tabs'[k] \in {tabs[k], Forget(tabs[k])}
  /\ UNCHANGED <<online, selected>>

(***************************************************************************)
(* An emergency stop reaches every tab: none keeps an intent and all show  *)
(* a stop.  One that cannot be sent is a lost connection.                  *)
(***************************************************************************)
StopAll ==
  /\ online
  /\ tabs' = [k \in DOMAIN tabs |-> Forget([tabs[k] EXCEPT !.speed = 0])]
  /\ UNCHANGED <<online, selected>>

(***************************************************************************)
(* The connection ends: every intent is dropped, everything shown stays.   *)
(* The functions of one tab may have been switched off part of the way.    *)
(***************************************************************************)
Lose ==
  /\ online' = FALSE
  /\ \E k \in DOMAIN tabs : \E F \in SUBSET tabs[k].fns :
       tabs' = [j \in DOMAIN tabs |->
                  Forget(IF j = k THEN [tabs[k] EXCEPT !.fns = F] ELSE tabs[j])]
  /\ UNCHANGED selected

Connect ==
  /\ ~online
  /\ online' = TRUE
  /\ UNCHANGED <<selected, tabs>>

-----------------------------------------------------------------------------
(***************************************************************************)
(* Rearranging tabs.  The query that follows may cost the connection, and  *)
(* with it the intents.  A tab goes only when parked, and never the last.  *)
(***************************************************************************)
Rearranged(shown) ==
  \/ tabs' = shown /\ UNCHANGED online
  \/ tabs' = [k \in DOMAIN shown |-> Forget(shown[k])] /\ online' = FALSE

Opened(m, k) == [j \in DOMAIN m \cup {k} |-> IF j = k THEN Blank ELSE m[j]]

Without(m, k) == [j \in DOMAIN m \ {k} |-> m[j]]

\* Leaving a tab keeps its intent, unless the caller picks another locomotive.
Show(k) ==
  /\ selected' = k
  /\ \E m \in {tabs, [tabs EXCEPT ![selected] = Forget(@)]} :
       Rearranged(IF k \in DOMAIN tabs THEN m ELSE Opened(m, k))

Close(k) ==
  /\ Parked(tabs[k]) /\ DOMAIN tabs # {k}
  /\ tabs' = Without(tabs, k)
  /\ selected' \in IF selected = k THEN DOMAIN tabs' ELSE {selected}
  /\ UNCHANGED online

Reassign(k, n) ==
  /\ Parked(tabs[k]) /\ n \notin DOMAIN tabs
  /\ selected' = n
  /\ Rearranged(Opened(Without(tabs, k), n))

Next ==
  \/ \E k \in DOMAIN tabs : Operate(k) \/ Close(k)
  \/ Flush \/ StopAll \/ Lose \/ Connect
  \/ \E k \in Cab : Show(k)
  \/ \E k \in DOMAIN tabs, n \in Cab : Reassign(k, n)

Spec == Init /\ [][Next]_vars
=============================================================================
