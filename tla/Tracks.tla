------------------------------- MODULE Tracks -------------------------------
(***************************************************************************)
(* What the controller knows of the station: track power per role          *)
(* (src/throttle/power.go and the power branches of Receive) and the       *)
(* features of Discovery, against a station whose outputs trip, are        *)
(* switched by others and change role.                                     *)
(*                                                                         *)
(* A "managed" station names its outputs and their modes; another reports  *)
(* by role only.  Reports are true when they are sent and arrive in order; *)
(* a summary of a managed station may leave a fault out.                   *)
(***************************************************************************)
EXTENDS Discovery, SequencesExt

CONSTANTS
  Output,          \* outputs of the station ("A" to "H")
  Mode,            \* modes an output of a managed station can be in
  MaxChanges,      \* bound: changes at the station without our doing, and attempts
  MaxEpochs,       \* bound: connections begun and ended
  MaxWire          \* bound: commands and reports on the way, together

ASSUME TracksAssumption ==
  /\ {MaxChanges, MaxEpochs, MaxWire} \subseteq Nat
  /\ IsFiniteSet(Output)
  /\ Output \cap {"MAIN", "PROG", "JOIN", "ALL"} = {}  \* no output is named so

VARIABLES
  managed, mode, power,    \* the station: its kind, its outputs
  changes,
  asked, wire,             \* commands on the way, reports on the way
  connected,
  modes, powers, display   \* trackModes, trackPowers, MainPower and ProgPower

station == <<managed, mode, power, changes>>
wires == <<asked, wire>>
known == <<modes, powers, display>>
vars == <<station, wires, known, connected, found>>

Role == {"MAIN", "PROG"}
Power == {"On", "Off", "Overload"}
Unknown == ""

\* Modes that start with the role's name are the role's.
ModesOf(r) == IF r = "MAIN" THEN {"MAIN", "MAIN_INV"} ELSE {"PROG"}

OutputsOf(r, in) == {o \in Output : in[o] \in ModesOf(r)}

Nowhere == [o \in Output |-> Unknown]
Dark == [r \in Role |-> Unknown]

PowerOf(whom, p) == [kind |-> "power", of |-> whom, is |-> p]
ModeOf(o, m) == [kind |-> "mode", of |-> o, is |-> m]
Switch(on, whom) == [kind |-> "switch", of |-> whom, is |-> on]
Ask(what) == [kind |-> "ask", of |-> "", is |-> what]

-----------------------------------------------------------------------------
(***************************************************************************)
(* updateTrackPower: the outputs of a role decide, once any is known, and  *)
(* a fault decides first.                                                  *)
(***************************************************************************)
\* Variant: one output that is on makes the role on.
GroupAnyOn(r, in, ps, fallback) ==
  LET its == {ps[o] : o \in OutputsOf(r, in)}
  IN IF its = {} THEN fallback
     ELSE IF "Overload" \in its THEN "Overload"
     ELSE IF "On" \in its THEN "On"
     ELSE IF Unknown \in its THEN Unknown ELSE "Off"

Group(r, in, ps, fallback) ==
  LET its == {ps[o] : o \in OutputsOf(r, in)}
  IN IF its = {} THEN fallback
     ELSE IF "Overload" \in its THEN "Overload"
     ELSE IF Unknown \in its THEN Unknown
     ELSE IF its = {"On"} THEN "On"
     ELSE IF its = {"Off"} THEN "Off"
     ELSE "MIXED"

Updated(in, ps, summary) == [r \in Role |-> Group(r, in, ps, summary[r])]

Summarized(whom) == IF whom \in {"ALL", "JOIN"} THEN Role ELSE {whom} \cap Role

\* Variant: a summary is taken as it is.
ReceivePowerAsIs(m) ==
  /\ powers' = IF m.of \in Output THEN [powers EXCEPT ![m.of] = m.is] ELSE powers
  /\ display' = IF m.of \in Output THEN Updated(modes, powers', display)
                ELSE [r \in Role |-> IF r \in Summarized(m.of) THEN m.is ELSE display[r]]
  /\ UNCHANGED modes

ReceivePower(m) ==
  /\ powers' = IF m.of \in Output THEN [powers EXCEPT ![m.of] = m.is] ELSE powers
  /\ display' = Updated(modes, powers',
                  [r \in Role |-> IF r \in Summarized(m.of) THEN m.is ELSE display[r]])
  /\ UNCHANGED modes

ReceiveMode(m) ==
  /\ modes' = [modes EXCEPT ![m.of] = m.is]
  /\ display' = Updated(modes', powers, Dark)
  /\ UNCHANGED powers

Receive ==
  /\ connected /\ wire # <<>>
  /\ LET m == Head(wire)
     IN \/ m.kind = "power" /\ ReceivePower(m)
        \/ m.kind = "mode" /\ ReceiveMode(m)
  /\ wire' = Tail(wire)
  /\ UNCHANGED <<asked, station, connected, found>>

-----------------------------------------------------------------------------
(***************************************************************************)
(* The station.  It says what changed, output by output if it is managed,  *)
(* or else by role; it may add a summary.                                  *)
(***************************************************************************)
ReportOf(o) == IF managed THEN PowerOf(o, power'[o]) ELSE PowerOf(mode[o], power'[o])

\* Reports in any order, if there is room for them.
Says(reports) ==
  IF connected
    THEN /\ Len(asked') + Len(wire) + Cardinality(reports) <= MaxWire
         /\ \E s \in SetToSeqs(reports) : wire' = wire \o s
    ELSE UNCHANGED wire

Reports(outs) == Says({ReportOf(o) : o \in outs})

\* Something trips, or is switched by another operator.
Happens ==
  /\ changes < MaxChanges /\ changes' = changes + 1
  /\ UNCHANGED <<managed, mode, asked, connected, known, found>>
  /\ \E o \in Output, p \in Power :
       power[o] # p /\ power' = [power EXCEPT ![o] = p] /\ Reports({o})

Remapped ==
  /\ managed /\ changes < MaxChanges /\ changes' = changes + 1
  /\ UNCHANGED <<managed, power, asked, connected, known, found>>
  /\ \E o \in Output, m \in Mode :
       mode[o] # m /\ mode' = [mode EXCEPT ![o] = m] /\ Says({ModeOf(o, m)})

\* "On" when everything is on, for all as "JOIN"; "Off" when nothing is on,
\* though a managed station may have an output that tripped.
Summaries ==
  LET outs(w) == IF w \in Role THEN OutputsOf(w, mode) ELSE Output
      fault == IF managed THEN {"Overload"} ELSE {}
  IN {PowerOf(w, "On") : w \in {v \in {"JOIN"} \cup Role :
        \A o \in outs(v) : power[o] = "On"}}
     \cup {PowerOf(w, "Off") : w \in {v \in {"ALL"} \cup Role :
        \A o \in outs(v) : power[o] \in {"Off"} \cup fault}}

Volunteers ==
  /\ connected
  /\ UNCHANGED <<asked, station, connected, known, found>>
  /\ \E m \in Summaries : Says({m})

\* <=> and <s> are answered in full; a switch that meets a fault may find it
\* gone or trip again.
Answers ==
  /\ asked # <<>> /\ asked' = Tail(asked)
  /\ LET m == Head(asked)
     IN \/ /\ m = Ask("modes") /\ UNCHANGED power
           /\ Says(IF managed THEN {ModeOf(o, mode[o]) : o \in Output} ELSE {})
        \/ m = Ask("status") /\ UNCHANGED power /\ Reports(Output)
        \/ /\ m.kind = "switch"
           /\ LET outs == IF m.of = "ALL" THEN Output ELSE OutputsOf(m.of, mode)
              IN \E p \in (IF m.is THEN {"On", "Overload"} ELSE {"Off"}) :
                   /\ power' = [o \in Output |-> IF o \in outs THEN p ELSE power[o]]
                   /\ Reports(outs)
  /\ UNCHANGED <<managed, mode, changes, connected, known, found>>

-----------------------------------------------------------------------------
(***************************************************************************)
(* The operations.  A connection that ends takes with it all that was      *)
(* known, what is on the way to us, and the features.                      *)
(***************************************************************************)
\* Variant: what the outputs were is kept.
ForgottenKeeping ==
  modes' = Nowhere /\ display' = Dark /\ UNCHANGED powers

Forgotten ==
  modes' = Nowhere /\ powers' = Nowhere /\ display' = Dark

Detach ==
  /\ connected' = FALSE /\ asked' = <<>> /\ wire' = <<>>
  /\ Forgotten /\ Reset

Lost == connected /\ Detach /\ UNCHANGED station

\* Attach detaches first; either query may fail and so detach again.
Attach ==
  /\ ~connected /\ epoch < MaxEpochs
  /\ \/ connected' = TRUE /\ asked' = <<Ask("modes"), Ask("status")>> /\ UNCHANGED wire
     \/ connected' = FALSE /\ UNCHANGED wires
  /\ Forgotten /\ Reset
  /\ UNCHANGED station

Sends(m) ==
  /\ connected /\ Len(asked) + Len(wire) < MaxWire
  /\ asked' = Append(asked, m)
  /\ UNCHANGED <<wire, station, known, connected, found>>

\* Variant: everything that is not on is switched on.
OnWhenNotOn(r) == display[r] # "On"

\* TogglePower: only a role that is off is switched on.
Energizes(r) == display[r] = "Off"

TogglePower(r) == display[r] # Unknown /\ Sends(Switch(Energizes(r), r))

PowerAll(on) == Sends(Switch(on, "ALL"))

\* An attempt by a caller that keeps its query apart from other requests.
Attempt ==
  /\ asked = <<>> /\ wire = <<>> /\ changes < MaxChanges
  /\ Begin /\ changes' = changes + 1
  /\ UNCHANGED <<managed, mode, power, wires, known, connected>>

-----------------------------------------------------------------------------
Init ==
  /\ managed \in BOOLEAN /\ changes = 0
  /\ power \in [Output -> Power]
  /\ mode \in [Output -> IF managed THEN Mode ELSE Role]
  /\ ~managed => IsInjective(mode)
  /\ connected = FALSE /\ asked = <<>> /\ wire = <<>>
  /\ modes = Nowhere /\ powers = Nowhere /\ display = Dark
  /\ DiscoveryInit

Next ==
  \/ Receive \/ Happens \/ Remapped \/ Volunteers \/ Answers \/ Lost \/ Attach
  \/ \E r \in Role : TogglePower(r)
  \/ \E on \in BOOLEAN : PowerAll(on)
  \/ connected /\ Attempt
  \/ connected /\ Pursue /\ UNCHANGED <<station, wires, known, connected>>

Spec == Init /\ [][Next]_vars

-----------------------------------------------------------------------------
Quiet == connected /\ asked = <<>> /\ wire = <<>>

(***************************************************************************)
(* Once the station has nothing more to say, each role that has outputs    *)
(* shows what they are: whatever came first of modes, powers and           *)
(* summaries, and whatever changed on the way ("Track Manager replies are  *)
(* authoritative", power.go:44).                                           *)
(***************************************************************************)
QuietPowerIsTrue ==
  Quiet => \A r \in Role :
    LET its == {power[o] : o \in OutputsOf(r, mode)}
    IN its # {} => display[r] = IF "Overload" \in its THEN "Overload"
                                ELSE IF Cardinality(its) > 1 THEN "MIXED"
                                ELSE CHOOSE p \in its : TRUE

(***************************************************************************)
(* A fault the station told of an output is shown for its role until the   *)
(* station takes it back, whatever summary comes after ("do not let that   *)
(* summary hide the per-output fault", power.go:46).                       *)
(***************************************************************************)
FaultIsShown ==
  \A r \in Role : \A o \in OutputsOf(r, modes) :
    powers[o] = "Overload" => display[r] = "Overload"

(***************************************************************************)
(* A toggle of a role the station has nothing more to say of puts power on *)
(* outputs that are all off, never on one that tripped or that is on       *)
(* already ("Mixed or faulted outputs are switched OFF, never implicitly   *)
(* re-energized", power.go:23).                                            *)
(***************************************************************************)
NeverReenergizes ==
  [][Quiet => \A r \in Role : asked' = <<Switch(TRUE, r)>> =>
       \A o \in OutputsOf(r, mode) : power[o] = "Off"]_vars

(***************************************************************************)
(* Nothing of a station outlives its connection: not its outputs, not its  *)
(* features.                                                               *)
(***************************************************************************)
NothingOfTheStationIsLeft ==
  ~connected =>
    /\ modes = Nowhere /\ powers = Nowhere /\ display = Dark
    /\ status = "NotRequested"
=============================================================================
