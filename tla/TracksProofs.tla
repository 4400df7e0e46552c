---------------------------- MODULE TracksProofs ----------------------------
(***************************************************************************)
(* Theorems about Discovery.tla and Tracks.tla, for every number of        *)
(* outputs, modes, attempts, connections and messages on the wire: what is *)
(* believed of a station's features, what is shown of its faults, and that *)
(* a quiet layout's power is shown as it is.                               *)
(***************************************************************************)
EXTENDS Tracks, FiniteSetTheorems, SequenceTheorems, TLAPS

-----------------------------------------------------------------------------
(***************************************************************************)
(* Discovery.  The attempt that counts is always the last one begun, and   *)
(* while it is pending or answered it belongs to the connection there is:  *)
(* Reset, which ends a connection, also ends the attempt, and keeps its    *)
(* number from being used again.                                           *)
(***************************************************************************)
Numbered ==
  /\ attempt \in Nat /\ epoch \in Nat /\ left \in Nat
  /\ begun \in Seq(Nat) /\ Len(begun) = attempt

Current ==
  status \in {"Pending", "Available"} => attempt > 0 /\ begun[attempt] = epoch

FoundOK ==
  /\ Numbered /\ Current
  /\ status = "Available" => catalog = attempt
  /\ status \in Settled => left > 0

LEMMA FoundInit == DiscoveryInit => FoundOK
BY DEF DiscoveryInit, FoundOK, Numbered, Current, Settled

LEMMA FoundFrame == FoundOK /\ UNCHANGED found => FoundOK'
BY DEF found, FoundOK, Numbered, Current, Settled

LEMMA BeginKeeps == FoundOK /\ Begin => FoundOK'
<1> SUFFICES ASSUME FoundOK, Begin PROVE FoundOK'
  OBVIOUS
<1>1. /\ status' = "Pending" /\ attempt' = attempt + 1 /\ left' = Timeout
      /\ begun' = Append(begun, epoch) /\ epoch' = epoch
  BY DEF Begin
<1>2. attempt \in Nat /\ epoch \in Nat /\ begun \in Seq(Nat) /\ Len(begun) = attempt
  BY DEF FoundOK, Numbered
<1>3. begun' \in Seq(Nat) /\ Len(begun') = attempt + 1 /\ begun'[attempt + 1] = epoch
  BY <1>1, <1>2
<1>4. Timeout \in Nat
  BY DiscoveryAssumption
<1>5. Numbered'
  BY <1>1, <1>2, <1>3, <1>4 DEF Numbered
<1>6. Current'
  BY <1>1, <1>2, <1>3 DEF Current
<1> QED BY <1>1, <1>5, <1>6 DEF FoundOK, Settled

LEMMA PursueKeeps == FoundOK /\ Pursue => FoundOK'
<1> SUFFICES ASSUME FoundOK, Pursue PROVE FoundOK'
  OBVIOUS
<1>1. CASE Elapse
  BY <1>1 DEF Elapse, FoundOK, Numbered, Current, Settled
<1>2. CASE Expire
  BY <1>2 DEF Expire, Concludes, FoundOK, Numbered, Current, Settled
<1>3. CASE \E a \in 1..Len(begun) : Answered(a)
  <2>1. PICK a \in 1..Len(begun) : Answered(a)
    BY <1>3
  <2>2. status = "Pending" /\ a = attempt
    BY <2>1 DEF Answered, IsPending
  <2>3. CASE Expired /\ Concludes("Inconclusive", 0)
    BY <2>2, <2>3 DEF Concludes, FoundOK, Numbered, Current, Settled
  <2>4. CASE ~Expired /\ Concludes("Available", a)
    BY <2>2, <2>4 DEF Expired, Concludes, FoundOK, Numbered, Current, Settled
  <2>5. CASE ~Expired /\ (Concludes("InvalidResponse", 0) \/ Concludes("Unsupported", 0))
    BY <2>2, <2>5 DEF Expired, Concludes, FoundOK, Numbered, Current, Settled
  <2> QED BY <2>1, <2>3, <2>4, <2>5 DEF Answered
<1> QED BY <1>1, <1>2, <1>3 DEF Pursue

LEMMA ResetKeeps == FoundOK /\ Reset => FoundOK'
BY DEF Reset, FoundOK, Numbered, Current, Settled

LEMMA FoundIsCurrent == FoundOK => FeaturesAreOfThisStation
BY DEF FoundOK, Numbered, Current, FeaturesAreOfThisStation

(***************************************************************************)
(* Discovery on its own, whoever calls it and in whatever order: no late   *)
(* callback completes another attempt, and none is believed at the         *)
(* deadline (discovery.go:87, 96).                                         *)
(***************************************************************************)
THEOREM DiscoveryIsSound == DiscoverySpec => []FeaturesAreOfThisStation
<1>1. FoundOK /\ [Begin \/ Pursue \/ Reset]_found => FoundOK'
  BY FoundFrame, BeginKeeps, PursueKeeps, ResetKeeps
<1> QED BY <1>1, FoundInit, FoundIsCurrent, PTL DEF DiscoverySpec

-----------------------------------------------------------------------------
(***************************************************************************)
(* Tracks: the three copies of what is known are updated together.         *)
(***************************************************************************)
IInv == FoundOK /\ FaultIsShown /\ NothingOfTheStationIsLeft

\* A fault of one output decides what its role shows.
LEMMA FaultDecides ==
  ASSUME NEW in, NEW ps, NEW summary, NEW r \in Role,
         NEW o \in OutputsOf(r, in), ps[o] = "Overload"
  PROVE  Updated(in, ps, summary)[r] = "Overload"
<1>1. "Overload" \in {ps[q] : q \in OutputsOf(r, in)}
  OBVIOUS
<1>2. Group(r, in, ps, summary[r]) = "Overload"
  BY <1>1 DEF Group
<1> QED BY <1>2 DEF Updated

\* So whatever updates the display from the outputs shows their faults.
LEMMA UpdatedShowsFaults ==
  ASSUME NEW summary, display' = Updated(modes', powers', summary)
  PROVE  FaultIsShown'
<1> SUFFICES ASSUME NEW r \in Role, NEW o \in OutputsOf(r, modes'), powers'[o] = "Overload"
             PROVE  display'[r] = "Overload"
  BY DEF FaultIsShown
<1> QED BY FaultDecides

LEMMA ForgottenShowsNothing == Forgotten => FaultIsShown'
BY DEF Forgotten, FaultIsShown, OutputsOf, Nowhere, Unknown

LEMMA KnownFrame ==
  ASSUME IInv, UNCHANGED <<known, connected, found>>
  PROVE  IInv'
BY FoundFrame DEF IInv, known, found, FaultIsShown, NothingOfTheStationIsLeft

LEMMA ReceiveKeeps == IInv /\ Receive => IInv'
<1> SUFFICES ASSUME IInv, Receive PROVE IInv'
  OBVIOUS
<1>1. FoundOK'
  BY FoundFrame DEF IInv, Receive
<1>2. NothingOfTheStationIsLeft'
  BY DEF Receive, NothingOfTheStationIsLeft
<1>3. CASE ReceivePower(Head(wire))
  <2>1. modes' = modes
    BY <1>3 DEF ReceivePower
  <2> QED BY <1>1, <1>2, <1>3, <2>1, UpdatedShowsFaults DEF ReceivePower, IInv
<1>4. CASE ReceiveMode(Head(wire))
  <2>1. powers' = powers
    BY <1>4 DEF ReceiveMode
  <2> QED BY <1>1, <1>2, <1>4, <2>1, UpdatedShowsFaults DEF ReceiveMode, IInv
<1> QED BY <1>3, <1>4 DEF Receive

LEMMA ForgottenKeeps == IInv /\ Forgotten /\ Reset => IInv'
<1> SUFFICES ASSUME IInv, Forgotten, Reset PROVE IInv'
  OBVIOUS
<1>1. FoundOK'
  BY ResetKeeps DEF IInv
<1>2. FaultIsShown'
  BY ForgottenShowsNothing
<1>3. NothingOfTheStationIsLeft'
  BY DEF Forgotten, Reset, NothingOfTheStationIsLeft
<1> QED BY <1>1, <1>2, <1>3 DEF IInv

LEMMA AttemptKeeps ==
  ASSUME IInv, connected, UNCHANGED <<known, connected>>,
         Begin \/ Pursue
  PROVE  IInv'
<1>1. FoundOK'
  BY BeginKeeps, PursueKeeps DEF IInv
<1>2. FaultIsShown'
  BY DEF IInv, known, FaultIsShown
<1>3. NothingOfTheStationIsLeft'
  BY DEF NothingOfTheStationIsLeft
<1> QED BY <1>1, <1>2, <1>3 DEF IInv

LEMMA NextKeeps == IInv /\ [Next]_vars => IInv'
<1> SUFFICES ASSUME IInv, [Next]_vars PROVE IInv'
  OBVIOUS
<1>1. CASE Receive
  BY <1>1, ReceiveKeeps
<1>2. CASE Happens \/ Remapped \/ Volunteers \/ Answers
  BY <1>2, KnownFrame DEF Happens, Remapped, Volunteers, Answers
<1>3. CASE Lost \/ Attach
  BY <1>3, ForgottenKeeps DEF Lost, Detach, Attach
<1>4. CASE \E r \in Role : TogglePower(r)
  BY <1>4, KnownFrame DEF TogglePower, Sends
<1>5. CASE \E on \in BOOLEAN : PowerAll(on)
  BY <1>5, KnownFrame DEF PowerAll, Sends
<1>6. CASE connected /\ Attempt
  BY <1>6, AttemptKeeps DEF Attempt
<1>7. CASE connected /\ Pursue /\ UNCHANGED <<station, wires, known, connected>>
  BY <1>7, AttemptKeeps
<1>8. CASE UNCHANGED vars
  BY <1>8, KnownFrame DEF vars
<1> QED BY <1>1, <1>2, <1>3, <1>4, <1>5, <1>6, <1>7, <1>8 DEF Next

LEMMA Inductive == Spec => []IInv
<1>1. Init => IInv
  <2> SUFFICES ASSUME Init PROVE IInv
    OBVIOUS
  <2>1. FoundOK
    BY FoundInit DEF Init
  <2>2. FaultIsShown
    BY DEF Init, FaultIsShown, OutputsOf, Nowhere, Unknown
  <2>3. NothingOfTheStationIsLeft
    BY DEF Init, DiscoveryInit, NothingOfTheStationIsLeft
  <2> QED BY <2>1, <2>2, <2>3 DEF IInv
<1> QED BY <1>1, NextKeeps, PTL DEF Spec

(***************************************************************************)
(* The features believed of a station are this station's (discovery.go:87).*)
(***************************************************************************)
THEOREM FeaturesAreCurrent == Spec => []FeaturesAreOfThisStation
<1>1. IInv => FeaturesAreOfThisStation
  BY FoundIsCurrent DEF IInv
<1> QED BY <1>1, Inductive, PTL

(***************************************************************************)
(* No summary, no mode and no other output hides a fault the station told  *)
(* of an output (power.go:46).                                             *)
(***************************************************************************)
THEOREM FaultsAreShown == Spec => []FaultIsShown
<1>1. IInv => FaultIsShown
  BY DEF IInv
<1> QED BY <1>1, Inductive, PTL

(***************************************************************************)
(* A connection that ended has left nothing of its station                 *)
(* (controller.go:132).                                                    *)
(***************************************************************************)
THEOREM NothingIsLeft == Spec => []NothingOfTheStationIsLeft
<1>1. IInv => NothingOfTheStationIsLeft
  BY DEF IInv
<1> QED BY <1>1, Inductive, PTL

-----------------------------------------------------------------------------
(***************************************************************************)
(* What is shown once the station has nothing more to say.                 *)
(***************************************************************************)
Spoken == Role \cup {"ALL", "JOIN"}

Report ==
  {PowerOf(w, p) : w \in Output \cup Spoken, p \in Power}
    \cup {ModeOf(o, m) : o \in Output, m \in Mode}

Command ==
  {Ask("modes"), Ask("status")}
    \cup {Switch(on, w) : on \in BOOLEAN, w \in Role \cup {"ALL"}}

Typed ==
  /\ managed \in BOOLEAN /\ connected \in BOOLEAN
  /\ power \in [Output -> Power]
  /\ mode \in [Output -> IF managed THEN Mode ELSE Role]
  /\ modes \in [Output -> Mode \cup {Unknown}]
  /\ powers \in [Output -> Power \cup {Unknown}]
  /\ DOMAIN display = Role
  /\ asked \in Seq(Command) /\ wire \in Seq(Report)
  /\ ~connected => asked = <<>> /\ wire = <<>>

\* The reports that change what is known of the power of o, or of its mode.
OfPower(o) ==
  {m \in Report : m.kind = "power" /\ IF managed THEN m.of = o
                                               ELSE mode[o] \in Summarized(m.of)}
OfMode(o) == {m \in Report : m.kind = "mode" /\ m.of = o}

\* The last of the queue q that is in S says v; or, when none is in S, d is v.
Ends(q, S, v, d) ==
  /\ \A i \in DOMAIN q :
       q[i] \in S /\ (\A j \in DOMAIN q : j > i => q[j] \notin S) => q[i].is = v
  /\ (\A i \in DOMAIN q : q[i] \notin S) => d = v

KnownPower(o) == IF managed THEN powers[o] ELSE display[mode[o]]

Awaits(what) == \E i \in DOMAIN asked : asked[i] = Ask(what)

PowerTold ==
  connected => Awaits("status")
               \/ \A o \in Output : Ends(wire, OfPower(o), power[o], KnownPower(o))

ModeTold ==
  connected /\ managed =>
    Awaits("modes") \/ \A o \in Output : Ends(wire, OfMode(o), mode[o], modes[o])

\* A station that reports by role has one output for a role, and is not
\* known output by output.
ByRole ==
  ~managed => /\ IsInjective(mode)
              /\ modes = Nowhere /\ powers = Nowhere
              /\ \A i \in DOMAIN wire : wire[i].kind = "power" /\ wire[i].of \in Spoken

\* A role with known outputs shows what they come to.
Grouped ==
  \A r \in Role : OutputsOf(r, modes) # {} =>
    display[r] = Group(r, modes, powers, Unknown)

Told == Typed /\ ByRole /\ Grouped /\ PowerTold /\ ModeTold

-----------------------------------------------------------------------------
(***************************************************************************)
(* Queues of reports.                                                      *)
(***************************************************************************)
LEMMA EndsTail ==
  ASSUME NEW R, NEW q \in Seq(R), q # <<>>, NEW S, NEW v, NEW d, NEW e,
         Ends(q, S, v, d), e = IF Head(q) \in S THEN Head(q).is ELSE d
  PROVE  Ends(Tail(q), S, v, e)
<1> DEFINE t == Tail(q)
<1>1. /\ Len(q) \in Nat \ {0} /\ DOMAIN q = 1..Len(q) /\ Head(q) = q[1]
      /\ DOMAIN t = 1..(Len(q) - 1)
      /\ \A i \in 1..(Len(q) - 1) : t[i] = q[i + 1]
  OBVIOUS
<1> HIDE DEF t
<1>2. ASSUME NEW i \in DOMAIN t, t[i] \in S,
             \A j \in DOMAIN t : j > i => t[j] \notin S
      PROVE  t[i].is = v
  <2>1. i + 1 \in DOMAIN q /\ q[i + 1] = t[i]
    BY <1>1
  <2>2. ASSUME NEW j \in DOMAIN q, j > i + 1
        PROVE  q[j] \notin S
    <3>1. j - 1 \in DOMAIN t /\ j - 1 > i /\ t[j - 1] = q[j]
      BY <1>1, <2>2
    <3>2. QED
      BY <1>2, <3>1
  <2>3. QED
    BY <1>2, <2>1, <2>2 DEF Ends
<1>3. ASSUME \A i \in DOMAIN t : t[i] \notin S
      PROVE  e = v
  <2>1. \A j \in DOMAIN q : j > 1 => q[j] \notin S
    <3>1. SUFFICES ASSUME NEW j \in DOMAIN q, j > 1 PROVE q[j] \notin S
      OBVIOUS
    <3>2. j - 1 \in DOMAIN t /\ t[j - 1] = q[j]
      BY <1>1, <3>1
    <3>3. QED
      BY <1>3, <3>2
  <2>2. CASE q[1] \in S
    BY <1>1, <2>1, <2>2 DEF Ends
  <2>3. CASE q[1] \notin S
    <3>1. \A j \in DOMAIN q : q[j] \notin S
      BY <1>1, <2>1, <2>3
    <3>2. QED
      BY <1>1, <2>3, <3>1 DEF Ends
  <2>4. QED
    BY <2>2, <2>3
<1>4. QED
  BY <1>2, <1>3 DEF Ends, t

LEMMA EndsSaid ==
  ASSUME NEW R, NEW q \in Seq(R), NEW s \in Seq(R), NEW S, NEW v, NEW d,
         Ends(q, S, v, d) \/ \E i \in DOMAIN s : s[i] \in S,
         \A i \in DOMAIN s : s[i] \in S => s[i].is = v
  PROVE  Ends(q \o s, S, v, d)
<1> DEFINE t == q \o s
<1>1. /\ Len(q) \in Nat /\ Len(s) \in Nat
      /\ DOMAIN q = 1..Len(q) /\ DOMAIN s = 1..Len(s)
      /\ DOMAIN t = 1..(Len(q) + Len(s))
      /\ \A i \in 1..Len(q) : t[i] = q[i]
      /\ \A i \in 1..Len(s) : t[Len(q) + i] = s[i]
  OBVIOUS
<1> HIDE DEF t
<1>2. \A i \in DOMAIN s : Len(q) + i \in DOMAIN t /\ t[Len(q) + i] = s[i]
  BY <1>1
<1>3. \A i \in DOMAIN q : i \in DOMAIN t /\ t[i] = q[i]
  BY <1>1
<1>4. \A i \in DOMAIN t : i \notin DOMAIN q => i - Len(q) \in DOMAIN s
                                              /\ t[i] = s[i - Len(q)]
  <2>1. SUFFICES ASSUME NEW i \in DOMAIN t, i \notin DOMAIN q
                 PROVE  i - Len(q) \in DOMAIN s /\ t[i] = s[i - Len(q)]
    OBVIOUS
  <2>2. i - Len(q) \in DOMAIN s /\ Len(q) + (i - Len(q)) = i
    BY <1>1, <2>1
  <2>3. QED
    BY <1>2, <2>2
<1>5. ASSUME NEW i \in DOMAIN t, t[i] \in S,
             \A j \in DOMAIN t : j > i => t[j] \notin S
      PROVE  t[i].is = v
  <2>1. CASE i \in DOMAIN q
    <3>1. \A j \in DOMAIN s : s[j] \notin S
      <4>1. SUFFICES ASSUME NEW j \in DOMAIN s PROVE s[j] \notin S
        OBVIOUS
      <4>2. Len(q) + j > i
        BY <1>1, <2>1
      <4>3. QED
        BY <1>2, <1>5, <4>2
    <3>2. \A j \in DOMAIN q : j > i => q[j] \notin S
      BY <1>3, <1>5
    <3>3. QED
      BY <1>3, <1>5, <2>1, <3>1, <3>2 DEF Ends
  <2>2. CASE i \notin DOMAIN q
    BY <1>4, <1>5, <2>2
  <2>3. QED
    BY <2>1, <2>2
<1>6. ASSUME \A i \in DOMAIN t : t[i] \notin S
      PROVE  d = v
  <2>1. \A j \in DOMAIN s : s[j] \notin S
    BY <1>2, <1>6
  <2>2. \A j \in DOMAIN q : q[j] \notin S
    BY <1>3, <1>6
  <2>3. QED
    BY <2>1, <2>2 DEF Ends
<1>7. QED
  BY <1>5, <1>6 DEF Ends, t

\* What the station says arrives behind what it said before, each report once.
LEMMA Said ==
  ASSUME connected, wire \in Seq(Report),
         NEW reports \in SUBSET Report, IsFiniteSet(reports), Says(reports)
  PROVE  \E s \in Seq(Report) :
           /\ wire' = wire \o s
           /\ \A i \in DOMAIN s : s[i] \in reports
           /\ \A m \in reports : \E i \in DOMAIN s : s[i] = m
<1>1. PICK s \in SetToSeqs(reports) : wire' = wire \o s
  BY DEF Says
<1> DEFINE n == Cardinality(reports)
<1>2. n \in Nat
  BY FS_CardinalityType
<1>3. s \in [1..n -> reports] /\ \A i, j \in 1..n : i # j => s[i] # s[j]
  BY <1>1 DEF SetToSeqs
<1>4. s \in Injection(1..n, reports)
  BY <1>3 DEF Injection, IsInjective
<1>5. Cardinality(1..n) = n
  BY <1>2, FS_Interval
<1>6. s \in Surjection(1..n, reports)
  BY <1>4, <1>5, FS_Injection
<1>7. \A m \in reports : \E i \in 1..n : s[i] = m
  BY <1>6 DEF Surjection
<1>8. s \in Seq(Report) /\ DOMAIN s = 1..n
  BY <1>2, <1>3
<1>9. QED
  BY <1>1, <1>3, <1>7, <1>8

-----------------------------------------------------------------------------
(***************************************************************************)
(* The station speaks.                                                     *)
(***************************************************************************)
LEMMA Speaks ==
  ASSUME Told, connected, connected' = connected, managed' = managed,
         UNCHANGED known,
         power' \in [Output -> Power], asked' \in Seq(Command),
         mode' \in [Output -> IF managed THEN Mode ELSE Role],
         NEW reports \in SUBSET Report, IsFiniteSet(reports), Says(reports),
         ~managed => mode' = mode /\ \A m \in reports : m.kind = "power" /\ m.of \in Spoken,
         \A o \in Output : \A m \in reports : m \in OfPower(o) => m.is = power'[o],
         \A o \in Output : \A m \in reports : m \in OfMode(o) => m.is = mode'[o],
         \A o \in Output : power'[o] = power[o] \/ \E m \in reports : m \in OfPower(o),
         \A o \in Output : mode'[o] = mode[o] \/ \E m \in reports : m \in OfMode(o),
         Awaits("status") => Awaits("status")'
           \/ \A o \in Output : \E m \in reports : m \in OfPower(o),
         managed /\ Awaits("modes") => Awaits("modes")'
           \/ \A o \in Output : \E m \in reports : m \in OfMode(o)
  PROVE  Told'
<1>1. wire \in Seq(Report) /\ modes' = modes /\ powers' = powers /\ display' = display
  BY DEF Told, Typed, known
<1>2. PICK s \in Seq(Report) :
        /\ wire' = wire \o s
        /\ \A i \in DOMAIN s : s[i] \in reports
        /\ \A m \in reports : \E i \in DOMAIN s : s[i] = m
  BY <1>1, Said
<1>3. Typed'
  BY <1>1, <1>2 DEF Told, Typed
<1>4. Grouped'
  BY <1>1 DEF Told, Grouped, OutputsOf
<1>5. ByRole'
  <2>1. SUFFICES ASSUME ~managed PROVE ByRole'
    BY DEF ByRole
  <2>2. ASSUME NEW i \in DOMAIN (wire \o s)
        PROVE  (wire \o s)[i].kind = "power" /\ (wire \o s)[i].of \in Spoken
    <3>1. \/ i \in DOMAIN wire /\ (wire \o s)[i] = wire[i]
          \/ \E j \in DOMAIN s : (wire \o s)[i] = s[j]
      BY <1>1, <1>2, <2>2
    <3>2. QED
      BY <1>2, <2>1, <3>1 DEF Told, ByRole
  <2>3. QED
    BY <1>1, <1>2, <2>1, <2>2 DEF Told, ByRole, IsInjective
<1>6. \A o \in Output : OfPower(o)' = OfPower(o) /\ OfMode(o)' = OfMode(o)
  BY DEF OfPower, OfMode
<1>7. PowerTold'
  <2>1. SUFFICES ASSUME ~Awaits("status")', NEW o \in Output
                 PROVE  Ends(wire', OfPower(o)', power'[o], KnownPower(o)')
    BY DEF PowerTold
  <2>2. KnownPower(o)' = KnownPower(o)
    BY <1>1 DEF KnownPower
  <2>3. Ends(wire, OfPower(o), power'[o], KnownPower(o))
        \/ \E i \in DOMAIN s : s[i] \in OfPower(o)
    BY <1>2, <2>1 DEF Told, PowerTold
  <2>4. Ends(wire \o s, OfPower(o), power'[o], KnownPower(o))
    BY <1>1, <1>2, <2>3, EndsSaid
  <2>5. QED
    BY <1>2, <1>6, <2>2, <2>4
<1>8. ModeTold'
  <2>1. SUFFICES ASSUME managed, ~Awaits("modes")', NEW o \in Output
                 PROVE  Ends(wire', OfMode(o)', mode'[o], modes'[o])
    BY DEF ModeTold
  <2>2. Ends(wire, OfMode(o), mode'[o], modes[o])
        \/ \E i \in DOMAIN s : s[i] \in OfMode(o)
    BY <1>2, <2>1 DEF Told, ModeTold
  <2>3. Ends(wire \o s, OfMode(o), mode'[o], modes[o])
    BY <1>1, <1>2, <2>2, EndsSaid
  <2>4. QED
    BY <1>1, <1>2, <1>6, <2>3
<1>9. QED
  BY <1>3, <1>4, <1>5, <1>7, <1>8 DEF Told

LEMMA PowerReports ==
  ASSUME NEW w \in Output \cup Spoken, NEW p \in Power
  PROVE  LET m == PowerOf(w, p)
         IN /\ m \in Report /\ m.kind = "power" /\ m.of = w /\ m.is = p
            /\ \A o \in Output :
                 /\ m \in OfPower(o) <=> IF managed THEN w = o
                                         ELSE mode[o] \in Summarized(w)
                 /\ m \notin OfMode(o)
<1> DEFINE m == PowerOf(w, p)
<1>1. m \in Report /\ m.kind = "power" /\ m.of = w /\ m.is = p
  BY DEF Report, PowerOf
<1> HIDE DEF m
<1>2. QED
  BY <1>1 DEF OfPower, OfMode, m

LEMMA ModeReports ==
  ASSUME NEW q \in Output, NEW x \in Mode
  PROVE  LET m == ModeOf(q, x)
         IN /\ m \in Report /\ m.is = x
            /\ \A o \in Output : /\ m \in OfMode(o) <=> q = o
                                 /\ m \notin OfPower(o)
<1> DEFINE m == ModeOf(q, x)
<1>1. m \in Report /\ m.kind = "mode" /\ m.of = q /\ m.is = x
  BY DEF Report, ModeOf
<1> HIDE DEF m
<1>2. QED
  BY <1>1 DEF OfPower, OfMode, m

\* The report of an output tells of that output and of no other.
LEMMA ReportsOfOutputs ==
  ASSUME Told, power' \in [Output -> Power], NEW q \in Output
  PROVE  /\ ReportOf(q) \in Report
         /\ ReportOf(q).kind = "power" /\ ReportOf(q).is = power'[q]
         /\ ~managed => ReportOf(q).of \in Spoken
         /\ \A o \in Output : /\ ReportOf(q) \in OfPower(o) <=> q = o
                              /\ ReportOf(q) \notin OfMode(o)
<1>1. power'[q] \in Power
  OBVIOUS
<1>2. CASE managed
  <2>1. ReportOf(q) = PowerOf(q, power'[q])
    BY <1>2 DEF ReportOf
  <2>2. QED
    BY <1>1, <1>2, <2>1, PowerReports
<1>3. CASE ~managed
  <2>1. ReportOf(q) = PowerOf(mode[q], power'[q]) /\ mode[q] \in Role
    BY <1>3 DEF ReportOf, Told, Typed
  <2>2. Summarized(mode[q]) = {mode[q]} /\ mode[q] \in Spoken
    BY <2>1 DEF Summarized, Role, Spoken
  <2>3. \A o \in Output : mode[o] = mode[q] => o = q
    BY <1>3 DEF Told, Typed, ByRole, IsInjective
  <2>4. QED
    BY <1>1, <1>3, <2>1, <2>2, <2>3, PowerReports
<1>4. QED
  BY <1>2, <1>3

\* There are finitely many.
LEMMA FiniteReports ==
  ASSUME NEW outs \in SUBSET Output, NEW f \in [outs -> Report]
  PROVE  /\ IsFiniteSet({f[o] : o \in outs})
         /\ {f[o] : o \in outs} \in SUBSET Report
<1>1. IsFiniteSet(outs)
  BY TracksAssumption, FS_Subset DEF TracksAssumption
<1>2. f \in Surjection(outs, {f[o] : o \in outs})
  BY DEF Surjection
<1>3. QED
  BY <1>1, <1>2, FS_Surjection

-----------------------------------------------------------------------------
(***************************************************************************)
(* The steps.                                                              *)
(***************************************************************************)
LEMMA Unheard ==
  ASSUME Told, ~connected, UNCHANGED <<connected, managed, known, asked, wire>>,
         power' \in [Output -> Power],
         mode' \in [Output -> IF managed THEN Mode ELSE Role],
         ~managed => mode' = mode
  PROVE  Told'
<1>1. Typed'
  BY DEF Told, Typed, known
<1>2. ByRole'
  BY DEF Told, ByRole, IsInjective, known
<1>3. Grouped'
  BY DEF Told, Grouped, OutputsOf, known
<1>4. QED
  BY <1>1, <1>2, <1>3 DEF Told, PowerTold, ModeTold

LEMMA ToldTypes ==
  ASSUME Told
  PROVE  /\ managed \in BOOLEAN /\ power \in [Output -> Power]
         /\ mode \in [Output -> IF managed THEN Mode ELSE Role]
         /\ asked \in Seq(Command) /\ wire \in Seq(Report)
BY DEF Told, Typed

\* The station reports some outputs, at least those that have changed.
LEMMA OutputsSpeak ==
  ASSUME Told, connected, UNCHANGED <<managed, mode, connected, known>>,
         power' \in [Output -> Power], asked' \in Seq(Command),
         NEW outs \in SUBSET Output, Reports(outs),
         \A o \in Output \ outs : power'[o] = power[o],
         Awaits("status") => Awaits("status")' \/ outs = Output,
         Awaits("modes") => Awaits("modes")'
  PROVE  Told'
<1> DEFINE f == [o \in outs |-> ReportOf(o)]
           reports == {f[o] : o \in outs}
<1>1. \A q \in outs :
        /\ f[q] \in Report /\ f[q].kind = "power" /\ f[q].is = power'[q]
        /\ ~managed => f[q].of \in Spoken
        /\ \A o \in Output : f[q] \notin OfMode(o) /\ (f[q] \in OfPower(o) <=> q = o)
  BY ReportsOfOutputs
<1>2. Says(reports)
  <2>1. reports = {ReportOf(o) : o \in outs}
    OBVIOUS
  <2>2. QED
    BY <2>1 DEF Reports, Says
<1>3. f \in [outs -> Report]
  BY <1>1
<1> HIDE DEF f
<1>4. IsFiniteSet(reports) /\ reports \in SUBSET Report
  BY <1>3, FiniteReports
<1>5. \A o \in outs : f[o] \in reports /\ f[o] \in OfPower(o)
  BY <1>1
<1>6. /\ \A m \in reports : ~managed => m.kind = "power" /\ m.of \in Spoken
      /\ \A o \in Output : \A m \in reports :
           m \notin OfMode(o) /\ (m \in OfPower(o) => m.is = power'[o])
  BY <1>1
<1> HIDE DEF reports
<1>7. \A o \in Output : power'[o] = power[o] \/ \E m \in reports : m \in OfPower(o)
  BY <1>5
<1>8. Awaits("status") => Awaits("status")'
        \/ \A o \in Output : \E m \in reports : m \in OfPower(o)
  BY <1>5
<1>9. QED
  BY <1>2, <1>4, <1>6, <1>7, <1>8, ToldTypes, Speaks

LEMMA HappensTold ==
  ASSUME Told, Happens
  PROVE  Told'
<1>1. PICK q \in Output, p \in Power : power' = [power EXCEPT ![q] = p] /\ Reports({q})
  BY DEF Happens
<1>2. /\ power' \in [Output -> Power] /\ UNCHANGED <<managed, mode, asked, connected, known>>
      /\ \A o \in Output \ {q} : power'[o] = power[o]
  BY <1>1, ToldTypes DEF Happens
<1>3. CASE ~connected
  BY <1>1, <1>2, <1>3, ToldTypes, Unheard DEF Reports, Says
<1>4. CASE connected
  <2>1. Awaits("status") => Awaits("status")'
    BY <1>2 DEF Awaits
  <2>2. Awaits("modes") => Awaits("modes")'
    BY <1>2 DEF Awaits
  <2>3. QED
    BY <1>1, <1>2, <1>4, <2>1, <2>2, ToldTypes, OutputsSpeak
<1>5. QED
  BY <1>3, <1>4

LEMMA RemappedTold ==
  ASSUME Told, Remapped
  PROVE  Told'
<1>1. PICK q \in Output, x \in Mode : mode' = [mode EXCEPT ![q] = x] /\ Says({ModeOf(q, x)})
  BY DEF Remapped
<1>2. /\ managed /\ UNCHANGED <<managed, power, asked, connected, known>>
      /\ mode' \in [Output -> IF managed THEN Mode ELSE Role]
      /\ mode'[q] = x /\ \A o \in Output : o # q => mode'[o] = mode[o]
  BY <1>1, ToldTypes DEF Remapped
<1>3. CASE ~connected
  BY <1>1, <1>2, <1>3, ToldTypes, Unheard DEF Says
<1>4. CASE connected
  <2> DEFINE m == ModeOf(q, x)
  <2>1. /\ m \in Report /\ m.is = mode'[q]
        /\ \A o \in Output : m \notin OfPower(o) /\ (m \in OfMode(o) <=> q = o)
    BY <1>2, ModeReports
  <2>2. Says({m})
    BY <1>1
  <2> HIDE DEF m
  <2>3. IsFiniteSet({m}) /\ {m} \in SUBSET Report
    BY <2>1, FS_Singleton
  <2>4. Awaits("status") => Awaits("status")'
    BY <1>2 DEF Awaits
  <2>5. Awaits("modes") => Awaits("modes")'
    BY <1>2 DEF Awaits
  <2>6. QED
    BY <1>2, <1>4, <2>1, <2>2, <2>3, <2>4, <2>5, ToldTypes, Speaks
<1>5. QED
  BY <1>3, <1>4

\* A summary says what is so of every output it covers on a station that
\* reports by role, and names none on one that does not.
LEMMA SummariesTrue ==
  ASSUME Told, NEW m \in Summaries
  PROVE  /\ m \in Report /\ m.kind = "power" /\ m.of \in Spoken
         /\ \A o \in Output : m \notin OfMode(o)
                              /\ (m \in OfPower(o) => m.is = power[o])
<1> DEFINE outs(w) == IF w \in Role THEN OutputsOf(w, mode) ELSE Output
           fault == IF managed THEN {"Overload"} ELSE {}
<1>1. PICK w \in Spoken, p \in Power :
        /\ m = PowerOf(w, p)
        /\ \A o \in outs(w) : power[o] = p \/ managed
  BY DEF Summaries, Spoken, Power
<1>2. /\ m \in Report /\ m.kind = "power" /\ m.of = w /\ m.is = p
      /\ \A o \in Output : /\ m \notin OfMode(o)
                           /\ m \in OfPower(o) <=> IF managed THEN w = o
                                                   ELSE mode[o] \in Summarized(w)
  BY <1>1, PowerReports
<1>3. CASE managed
  <2>1. w \notin Output
    BY TracksAssumption DEF TracksAssumption, Spoken, Role
  <2>2. QED
    BY <1>2, <1>3, <2>1
<1>4. CASE ~managed
  <2>1. SUFFICES ASSUME NEW o \in Output, mode[o] \in Summarized(w)
                 PROVE  power[o] = p
    BY <1>2, <1>4
  <2>2. mode[o] \in Role
    BY <1>4 DEF Told, Typed
  <2>3. CASE w \in Role
    <3>1. mode[o] = w
      BY <2>1, <2>3 DEF Summarized, Role
    <3>2. w \in ModesOf(w)
      BY <2>3 DEF ModesOf, Role
    <3>3. o \in outs(w)
      BY <2>3, <3>1, <3>2 DEF OutputsOf
    <3>4. QED
      BY <1>1, <1>4, <3>3
  <2>4. CASE w \notin Role
    BY <1>1, <1>4, <2>4
  <2>5. QED
    BY <2>3, <2>4
<1>5. QED
  BY <1>2, <1>3, <1>4

LEMMA VolunteersTold ==
  ASSUME Told, Volunteers
  PROVE  Told'
<1>1. PICK m \in Summaries : Says({m})
  BY DEF Volunteers
<1>2. connected /\ UNCHANGED <<managed, mode, power, asked, connected, known>>
  BY DEF Volunteers, station
<1>3. /\ m \in Report /\ m.kind = "power" /\ m.of \in Spoken
      /\ \A o \in Output : m \notin OfMode(o) /\ (m \in OfPower(o) => m.is = power[o])
  BY SummariesTrue
<1>4. IsFiniteSet({m}) /\ {m} \in SUBSET Report
  BY <1>3, FS_Singleton
<1>5. Awaits("status") => Awaits("status")'
  BY <1>2 DEF Awaits
<1>6. Awaits("modes") => Awaits("modes")'
  BY <1>2 DEF Awaits
<1>7. QED
  BY <1>1, <1>2, <1>3, <1>4, <1>5, <1>6, ToldTypes, Speaks

\* Taking a command off the queue leaves the others.
LEMMA StillAwaited ==
  ASSUME Told, asked # <<>>, asked' = Tail(asked), NEW w, Head(asked) # Ask(w), Awaits(w)
  PROVE  Awaits(w)'
<1>1. asked \in Seq(Command)
  BY ToldTypes
<1>2. PICK i \in DOMAIN asked : asked[i] = Ask(w)
  BY DEF Awaits
<1>3. i - 1 \in DOMAIN Tail(asked) /\ Tail(asked)[i - 1] = asked[i]
  <2>1. i # 1
    BY <1>1, <1>2
  <2>2. QED
    BY <1>1, <1>2, <2>1
<1>4. QED
  BY <1>2, <1>3 DEF Awaits

LEMMA AskApart ==
  /\ Ask("modes") # Ask("status")
  /\ \A w : Ask(w).kind # "switch"
<1>1. \A w : Ask(w).is = w /\ Ask(w).kind = "ask"
  BY DEF Ask
<1>2. QED
  BY <1>1

LEMMA AnswersTold ==
  ASSUME Told, Answers
  PROVE  Told'
<1> DEFINE m == Head(asked)
<1>1. /\ connected /\ UNCHANGED <<managed, mode, connected, known>>
      /\ asked # <<>> /\ asked' = Tail(asked) /\ asked' \in Seq(Command)
      /\ m \in Command
  BY DEF Answers, Told, Typed
<1>2. \A w : m # Ask(w) => (Awaits(w) => Awaits(w)')
  BY <1>1, StillAwaited
<1>3. CASE m = Ask("modes") /\ UNCHANGED power
           /\ Says(IF managed THEN {ModeOf(o, mode[o]) : o \in Output} ELSE {})
  <2>1. m # Ask("status")
    BY <1>3, AskApart
  <2> DEFINE outs == IF managed THEN Output ELSE {}
             f == [o \in outs |-> ModeOf(o, mode[o])]
             reports == {f[o] : o \in outs}
  <2>2. \A q \in outs :
          /\ managed /\ f[q] \in Report /\ f[q].is = mode[q]
          /\ \A o \in Output : f[q] \notin OfPower(o) /\ (f[q] \in OfMode(o) <=> q = o)
    BY ModeReports, ToldTypes
  <2>3. Says(reports)
    <3>1. reports = IF managed THEN {ModeOf(o, mode[o]) : o \in Output} ELSE {}
      OBVIOUS
    <3>2. QED
      BY <1>3, <3>1 DEF Says
  <2>4. f \in [outs -> Report] /\ outs \in SUBSET Output
    BY <2>2
  <2> HIDE DEF f
  <2>5. IsFiniteSet(reports) /\ reports \in SUBSET Report
    BY <2>4, FiniteReports
  <2>6. /\ \A r \in reports : managed
        /\ \A o \in Output : \A r \in reports :
             r \notin OfPower(o) /\ (r \in OfMode(o) => r.is = mode[o])
        /\ managed => \A o \in Output : \E r \in reports : r \in OfMode(o)
    BY <2>2
  <2> HIDE DEF reports
  <2>7. QED
    BY <1>1, <1>2, <1>3, <2>1, <2>3, <2>5, <2>6, ToldTypes, Speaks
<1>4. CASE m = Ask("status") /\ UNCHANGED power /\ Reports(Output)
  <2>1. m # Ask("modes")
    BY <1>4, AskApart
  <2>2. QED
    BY <1>1, <1>2, <1>4, <2>1, ToldTypes, OutputsSpeak
<1>5. ASSUME m.kind = "switch",
             NEW outs \in SUBSET Output, NEW p \in Power, Reports(outs),
             power' = [o \in Output |-> IF o \in outs THEN p ELSE power[o]]
      PROVE  Told'
  <2>1. m # Ask("modes") /\ m # Ask("status")
    BY <1>5, AskApart
  <2>2. power' \in [Output -> Power] /\ \A o \in Output \ outs : power'[o] = power[o]
    BY <1>5, ToldTypes
  <2>3. QED
    BY <1>1, <1>2, <1>5, <2>1, <2>2, OutputsSpeak
<1>6. CASE /\ m.kind = "switch"
           /\ LET outs == IF m.of = "ALL" THEN Output ELSE OutputsOf(m.of, mode)
              IN \E p \in (IF m.is THEN {"On", "Overload"} ELSE {"Off"}) :
                   /\ power' = [o \in Output |-> IF o \in outs THEN p ELSE power[o]]
                   /\ Reports(outs)
  <2> DEFINE outs == IF m.of = "ALL" THEN Output ELSE OutputsOf(m.of, mode)
  <2>1. PICK p \in (IF m.is THEN {"On", "Overload"} ELSE {"Off"}) :
          /\ power' = [o \in Output |-> IF o \in outs THEN p ELSE power[o]]
          /\ Reports(outs)
    BY <1>6
  <2>2. p \in Power /\ outs \in SUBSET Output
    BY DEF Power, OutputsOf
  <2> HIDE DEF outs
  <2>3. QED
    BY <1>5, <1>6, <2>1, <2>2
<1>7. QED
  BY <1>3, <1>4, <1>6 DEF Answers

-----------------------------------------------------------------------------
(***************************************************************************)
(* The controller hears, sends, connects and is cut off.                   *)
(***************************************************************************)
LEMMA UpdatedGrouped ==
  ASSUME NEW summary, DOMAIN modes' = Output, display' = Updated(modes', powers', summary)
  PROVE  Grouped'
<1>1. SUFFICES ASSUME NEW r \in Role, OutputsOf(r, modes') # {}
               PROVE  display'[r] = Group(r, modes', powers', Unknown)
  BY DEF Grouped
<1>2. {powers'[o] : o \in OutputsOf(r, modes')} # {}
  BY <1>1
<1>3. Group(r, modes', powers', summary[r]) = Group(r, modes', powers', Unknown)
  BY <1>2 DEF Group
<1>4. QED
  BY <1>3 DEF Updated

LEMMA Nobody ==
  ASSUME NEW r
  PROVE  OutputsOf(r, Nowhere) = {}
BY DEF OutputsOf, Nowhere, ModesOf, Unknown

\* On a station that reports by role a summary is what is shown.
LEMMA UpdatedByRole ==
  ASSUME NEW summary, NEW r \in Role
  PROVE  Updated(Nowhere, Nowhere, summary)[r] = summary[r]
BY Nobody DEF Updated, Group

LEMMA ReceiveTold ==
  ASSUME Told, Receive
  PROVE  Told'
<1> DEFINE m == Head(wire)
<1>1. /\ connected /\ wire # <<>> /\ wire' = Tail(wire)
      /\ UNCHANGED <<asked, managed, mode, power, connected>>
      /\ wire \in Seq(Report) /\ wire' \in Seq(Report) /\ m \in Report
      /\ \A i \in DOMAIN Tail(wire) : Tail(wire)[i] \in {wire[j] : j \in DOMAIN wire}
      /\ m \in {wire[j] : j \in DOMAIN wire}
  BY DEF Receive, station, Told, Typed
<1>2. \A o \in Output : OfPower(o)' = OfPower(o) /\ OfMode(o)' = OfMode(o)
  BY <1>1 DEF OfPower, OfMode
<1>3. \A w : Awaits(w)' <=> Awaits(w)
  BY <1>1 DEF Awaits
<1>4. ~managed => m.kind = "power" /\ m.of \in Spoken
  BY <1>1 DEF Told, ByRole
<1>5. ASSUME /\ modes' \in [Output -> Mode \cup {Unknown}]
             /\ powers' \in [Output -> Power \cup {Unknown}]
             /\ \E summary : display' = Updated(modes', powers', summary)
             /\ ~managed => modes' = Nowhere /\ powers' = Nowhere,
             \A o \in Output :
               /\ KnownPower(o)' = IF m \in OfPower(o) THEN m.is ELSE KnownPower(o)
               /\ modes'[o] = IF m \in OfMode(o) THEN m.is ELSE modes[o]
      PROVE  Told'
  <2>1. Typed'
    BY <1>1, <1>5 DEF Told, Typed, Updated
  <2>2. ByRole'
    BY <1>1, <1>5 DEF Told, ByRole, IsInjective
  <2>3. Grouped'
    BY <1>5, UpdatedGrouped
  <2>4. PowerTold'
    <3>1. SUFFICES ASSUME ~Awaits("status"), NEW o \in Output
                   PROVE  Ends(wire', OfPower(o)', power'[o], KnownPower(o)')
      BY <1>3 DEF PowerTold
    <3>2. Ends(wire, OfPower(o), power[o], KnownPower(o))
      BY <1>1, <3>1 DEF Told, PowerTold
    <3>3. Ends(Tail(wire), OfPower(o), power[o], KnownPower(o)')
      BY <1>1, <1>5, <3>2, EndsTail
    <3>4. QED
      BY <1>1, <1>2, <3>3
  <2>5. ModeTold'
    <3>1. SUFFICES ASSUME managed, ~Awaits("modes"), NEW o \in Output
                   PROVE  Ends(wire', OfMode(o)', mode'[o], modes'[o])
      BY <1>1, <1>3 DEF ModeTold
    <3>2. Ends(wire, OfMode(o), mode[o], modes[o])
      BY <1>1, <3>1 DEF Told, ModeTold
    <3>3. Ends(Tail(wire), OfMode(o), mode[o], modes'[o])
      BY <1>1, <1>5, <3>2, EndsTail
    <3>4. QED
      BY <1>1, <1>2, <3>3
  <2>6. QED
    BY <2>1, <2>2, <2>3, <2>4, <2>5 DEF Told
<1>6. /\ modes \in [Output -> Mode \cup {Unknown}]
      /\ powers \in [Output -> Power \cup {Unknown}]
      /\ ~managed => modes = Nowhere /\ powers = Nowhere
      /\ ~managed => mode \in [Output -> Role]
  BY DEF Told, Typed, ByRole
<1>7. CASE m.kind = "power" /\ ReceivePower(m)
  <2> DEFINE summary == [r \in Role |-> IF r \in Summarized(m.of) THEN m.is ELSE display[r]]
  <2>1. /\ powers' = IF m.of \in Output THEN [powers EXCEPT ![m.of] = m.is] ELSE powers
        /\ display' = Updated(modes', powers', summary) /\ modes' = modes
    BY <1>7 DEF ReceivePower
  <2>2. m.is \in Power
    BY <1>1, <1>7 DEF Report, PowerOf, ModeOf
  <2>3. \A o \in Output : /\ m \notin OfMode(o)
                          /\ m \in OfPower(o) <=> IF managed THEN m.of = o
                                                  ELSE mode[o] \in Summarized(m.of)
    BY <1>1, <1>7 DEF OfMode, OfPower
  <2>4. ~managed => powers' = powers
    BY <1>4, <2>1, TracksAssumption DEF TracksAssumption, Spoken, Role
  <2>5. powers' \in [Output -> Power \cup {Unknown}]
    BY <1>6, <2>1, <2>2
  <2>6. \A o \in Output :
          KnownPower(o)' = IF m \in OfPower(o) THEN m.is ELSE KnownPower(o)
    <3>1. SUFFICES ASSUME NEW o \in Output
                   PROVE  KnownPower(o)' = IF m \in OfPower(o) THEN m.is ELSE KnownPower(o)
      OBVIOUS
    <3>2. CASE managed
      BY <1>1, <1>6, <2>1, <2>3, <3>2 DEF KnownPower
    <3>3. CASE ~managed
      <4>1. mode[o] \in Role /\ modes' = Nowhere /\ powers' = Nowhere
        BY <1>6, <2>1, <2>4, <3>3
      <4>2. display'[mode[o]] = summary[mode[o]]
        BY <2>1, <4>1, UpdatedByRole
      <4>3. QED
        BY <1>1, <2>3, <3>3, <4>1, <4>2 DEF KnownPower
    <3>4. QED
      BY <3>2, <3>3
  <2> HIDE DEF summary
  <2>7. QED
    BY <1>5, <1>6, <2>1, <2>3, <2>4, <2>5, <2>6
<1>8. CASE m.kind = "mode" /\ ReceiveMode(m)
  <2>1. /\ modes' = [modes EXCEPT ![m.of] = m.is] /\ powers' = powers /\ managed
        /\ display' = Updated(modes', powers', Dark)
    BY <1>4, <1>6, <1>8 DEF ReceiveMode
  <2>2. m.of \in Output /\ m.is \in Mode
    BY <1>1, <1>8 DEF Report, PowerOf, ModeOf
  <2>3. \A o \in Output : m \notin OfPower(o) /\ (m \in OfMode(o) <=> m.of = o)
    BY <1>1, <1>8 DEF OfMode, OfPower
  <2>4. modes' \in [Output -> Mode \cup {Unknown}]
    BY <1>6, <2>1, <2>2
  <2>5. \A o \in Output :
          /\ KnownPower(o)' = IF m \in OfPower(o) THEN m.is ELSE KnownPower(o)
          /\ modes'[o] = IF m \in OfMode(o) THEN m.is ELSE modes[o]
    BY <1>1, <1>6, <2>1, <2>3 DEF KnownPower
  <2>6. QED
    BY <1>5, <1>6, <2>1, <2>4, <2>5
<1>9. QED
  BY <1>7, <1>8 DEF Receive

\* What the connection's end leaves, or its beginning.
LEMMA ForgottenTold ==
  ASSUME Told, Forgotten, UNCHANGED <<managed, mode, power>>, wire' = <<>>,
         connected' \in BOOLEAN, asked' \in Seq(Command),
         ~connected' => asked' = <<>>,
         connected' => Awaits("modes")' /\ Awaits("status")'
  PROVE  Told'
<1>1. modes' = Nowhere /\ powers' = Nowhere /\ display' = Dark
  BY DEF Forgotten
<1>2. Typed'
  BY <1>1 DEF Told, Typed, Nowhere, Dark
<1>3. ByRole'
  BY <1>1 DEF Told, ByRole, IsInjective
<1>4. Grouped'
  BY <1>1, Nobody DEF Grouped, Nowhere
<1>5. PowerTold' /\ ModeTold'
  BY DEF PowerTold, ModeTold
<1>6. QED
  BY <1>2, <1>3, <1>4, <1>5 DEF Told

LEMMA LostTold ==
  ASSUME Told, Lost
  PROVE  Told'
<1>1. /\ Forgotten /\ UNCHANGED <<managed, mode, power>>
      /\ connected' = FALSE /\ asked' = <<>> /\ wire' = <<>>
  BY DEF Lost, Detach, station
<1>2. asked' \in Seq(Command)
  BY <1>1
<1>3. QED
  BY <1>1, <1>2, ForgottenTold

LEMMA AttachTold ==
  ASSUME Told, Attach
  PROVE  Told'
<1>1. /\ ~connected /\ Forgotten /\ UNCHANGED <<managed, mode, power>>
      /\ asked = <<>> /\ wire = <<>> /\ wire' = wire
  BY DEF Attach, station, wires, Told, Typed
<1>2. CASE connected' = TRUE /\ asked' = <<Ask("modes"), Ask("status")>>
  <2>1. asked' \in Seq(Command) /\ Awaits("modes")' /\ Awaits("status")'
    <3>1. DOMAIN asked' = {1, 2} /\ asked'[1] = Ask("modes") /\ asked'[2] = Ask("status")
      BY <1>2
    <3>2. asked' \in Seq(Command)
      BY <1>2 DEF Command
    <3>3. QED
      BY <3>1, <3>2 DEF Awaits
  <2>2. QED
    BY <1>1, <1>2, <2>1, ForgottenTold
<1>3. CASE connected' = FALSE /\ UNCHANGED wires
  <2>1. asked' = <<>> /\ wire' = <<>>
    BY <1>1, <1>3 DEF wires
  <2>2. asked' \in Seq(Command)
    BY <2>1
  <2>3. QED
    BY <1>1, <1>3, <2>1, <2>2, ForgottenTold
<1>4. QED
  BY <1>2, <1>3 DEF Attach

\* The queue of commands grows, or nothing here changes.
LEMMA SendsTold ==
  ASSUME Told, UNCHANGED <<managed, mode, power, wire, connected, known>>,
         asked' \in Seq(Command), ~connected => asked' = <<>>,
         \A w : Awaits(w) => Awaits(w)'
  PROVE  Told'
<1>1. modes' = modes /\ powers' = powers /\ display' = display
  BY DEF known
<1>2. Typed'
  BY <1>1 DEF Told, Typed
<1>3. ByRole' /\ Grouped'
  BY <1>1 DEF Told, ByRole, IsInjective, Grouped, OutputsOf
<1>4. \A o \in Output : /\ OfPower(o)' = OfPower(o) /\ OfMode(o)' = OfMode(o)
                        /\ KnownPower(o)' = KnownPower(o)
  BY <1>1 DEF OfPower, OfMode, KnownPower
<1>5. PowerTold'
  BY <1>4 DEF Told, PowerTold
<1>6. ModeTold'
  BY <1>1, <1>4 DEF Told, ModeTold
<1>7. QED
  BY <1>2, <1>3, <1>5, <1>6 DEF Told

LEMMA CommandsTold ==
  ASSUME Told, NEW c \in Command, Sends(c)
  PROVE  Told'
<1>1. /\ connected /\ asked' = Append(asked, c) /\ asked \in Seq(Command)
      /\ UNCHANGED <<managed, mode, power, wire, connected, known>>
  BY ToldTypes DEF Sends, station
<1>2. asked' \in Seq(Command)
      /\ \A i \in DOMAIN asked : i \in DOMAIN asked' /\ asked'[i] = asked[i]
  BY <1>1
<1>3. \A w : Awaits(w) => Awaits(w)'
  BY <1>2 DEF Awaits
<1>4. QED
  BY <1>1, <1>2, <1>3, SendsTold

LEMMA FrameTold ==
  ASSUME Told, UNCHANGED <<managed, mode, power, asked, wire, connected, known>>
  PROVE  Told'
<1>1. asked' \in Seq(Command) /\ (~connected => asked' = <<>>)
  BY DEF Told, Typed
<1>2. \A w : Awaits(w) => Awaits(w)'
  BY DEF Awaits
<1>3. QED
  BY <1>1, <1>2, SendsTold

LEMMA NextTold == Told /\ [Next]_vars => Told'
<1> SUFFICES ASSUME Told, [Next]_vars PROVE Told'
  OBVIOUS
<1>1. CASE Receive \/ Happens \/ Remapped \/ Volunteers \/ Answers \/ Lost \/ Attach
  BY <1>1, ReceiveTold, HappensTold, RemappedTold, VolunteersTold, AnswersTold,
     LostTold, AttachTold
<1>2. CASE \E r \in Role : TogglePower(r)
  <2>1. PICK r \in Role : Sends(Switch(Energizes(r), r))
    BY <1>2 DEF TogglePower
  <2>2. Energizes(r) \in BOOLEAN
    BY DEF Energizes
  <2>3. Switch(Energizes(r), r) \in Command
    BY <2>2 DEF Command
  <2>4. QED
    BY <2>1, <2>3, CommandsTold
<1>3. CASE \E on \in BOOLEAN : PowerAll(on)
  BY <1>3, CommandsTold DEF PowerAll, Command
<1>4. CASE connected /\ Attempt
  BY <1>4, FrameTold DEF Attempt, wires
<1>5. CASE connected /\ Pursue /\ UNCHANGED <<station, wires, known, connected>>
  BY <1>5, FrameTold DEF station, wires
<1>6. CASE UNCHANGED vars
  BY <1>6, FrameTold DEF vars, station, wires
<1>7. QED
  BY <1>1, <1>2, <1>3, <1>4, <1>5, <1>6 DEF Next

LEMMA InitTold == Init => Told
<1> SUFFICES ASSUME Init PROVE Told
  OBVIOUS
<1>1. Typed
  <2>1. asked \in Seq(Command) /\ wire \in Seq(Report)
    BY DEF Init
  <2>2. /\ modes \in [Output -> Mode \cup {Unknown}]
        /\ powers \in [Output -> Power \cup {Unknown}] /\ DOMAIN display = Role
    BY DEF Init, Nowhere, Dark
  <2>3. QED
    BY <2>1, <2>2 DEF Init, Typed
<1>2. ByRole
  BY DEF Init, ByRole
<1>3. Grouped
  BY Nobody DEF Init, Grouped
<1>4. PowerTold /\ ModeTold
  BY DEF Init, PowerTold, ModeTold
<1>5. QED
  BY <1>1, <1>2, <1>3, <1>4 DEF Told

LEMMA AlwaysTold == Spec => []Told
BY InitTold, NextTold, PTL DEF Spec

\* What a set of powers comes to.
LEMMA TwoPowers ==
  ASSUME NEW its \in SUBSET {"On", "Off"}, its # {}
  PROVE  /\ its = {"On"} \/ its = {"Off"} \/ its = {"On", "Off"}
         /\ Cardinality(its) > 1 <=> its = {"On", "Off"}
<1>1. its = {"On"} \/ its = {"Off"} \/ its = {"On", "Off"}
  OBVIOUS
<1>2. Cardinality({"On"}) = 1 /\ Cardinality({"Off"}) = 1
  BY FS_Singleton
<1>3. Cardinality({"On", "Off"}) = 2
  <2>1. {"On", "Off"} = {"On"} \cup {"Off"} /\ "Off" \notin {"On"}
    OBVIOUS
  <2>2. IsFiniteSet({"On"})
    BY FS_Singleton
  <2>3. Cardinality({"On"} \cup {"Off"}) = 1 + 1
    BY <1>2, <2>1, <2>2, FS_AddElement
  <2>4. QED
    BY <2>1, <2>3
<1>4. {"On"} # {"On", "Off"} /\ {"Off"} # {"On", "Off"}
  OBVIOUS
<1>5. QED
  BY <1>1, <1>2, <1>3, <1>4

LEMMA GroupIsTrue ==
  ASSUME NEW r, NEW in, NEW ps, \A o \in Output : ps[o] \in Power, OutputsOf(r, in) # {}
  PROVE  LET its == {ps[o] : o \in OutputsOf(r, in)}
         IN Group(r, in, ps, Unknown) =
              IF "Overload" \in its THEN "Overload"
              ELSE IF Cardinality(its) > 1 THEN "MIXED"
              ELSE CHOOSE p \in its : TRUE
<1> DEFINE its == {ps[o] : o \in OutputsOf(r, in)}
<1>1. its # {} /\ its \in SUBSET Power
  BY DEF OutputsOf
<1>2. Unknown \notin its
  BY <1>1 DEF Power, Unknown
<1>3. Group(r, in, ps, Unknown) =
        IF "Overload" \in its THEN "Overload"
        ELSE IF its = {"On"} THEN "On" ELSE IF its = {"Off"} THEN "Off" ELSE "MIXED"
  BY <1>1, <1>2 DEF Group
<1> HIDE DEF its
<1>4. CASE "Overload" \notin its
  <2>1. its \in SUBSET {"On", "Off"}
    BY <1>1, <1>4 DEF Power
  <2>2. CASE its = {"On"}
    <3>1. ~(Cardinality(its) > 1) /\ (CHOOSE p \in its : TRUE) = "On"
      BY <1>1, <2>1, <2>2, TwoPowers
    <3>2. QED
      BY <1>3, <1>4, <2>2, <3>1 DEF its
  <2>3. CASE its = {"Off"}
    <3>1. ~(Cardinality(its) > 1) /\ (CHOOSE p \in its : TRUE) = "Off"
      BY <1>1, <2>1, <2>3, TwoPowers
    <3>2. QED
      BY <1>3, <1>4, <2>3, <3>1 DEF its
  <2>4. CASE its = {"On", "Off"}
    <3>1. Cardinality(its) > 1
      BY <1>1, <2>1, <2>4, TwoPowers
    <3>2. QED
      BY <1>3, <1>4, <2>4, <3>1 DEF its
  <2>5. QED
    BY <1>1, <2>1, <2>2, <2>3, <2>4, TwoPowers
<1>5. CASE "Overload" \in its
  BY <1>3, <1>5 DEF its
<1>6. QED
  BY <1>4, <1>5

LEMMA QuietTold == Told => QuietPowerIsTrue
<1>1. SUFFICES ASSUME Told, Quiet, NEW r \in Role, OutputsOf(r, mode) # {}
               PROVE  display[r] = LET its == {power[o] : o \in OutputsOf(r, mode)}
                                   IN IF "Overload" \in its THEN "Overload"
                                      ELSE IF Cardinality(its) > 1 THEN "MIXED"
                                      ELSE CHOOSE p \in its : TRUE
  BY DEF QuietPowerIsTrue
<1>2. ~Awaits("status") /\ ~Awaits("modes") /\ DOMAIN wire = {} /\ connected
  BY <1>1 DEF Quiet, Awaits
<1>3. \A o \in Output : KnownPower(o) = power[o] /\ (managed => modes[o] = mode[o])
  BY <1>1, <1>2 DEF Told, PowerTold, ModeTold, Ends
<1>4. power \in [Output -> Power]
  BY <1>1, ToldTypes
<1>5. Group(r, mode, power, Unknown) =
        LET its == {power[o] : o \in OutputsOf(r, mode)}
        IN IF "Overload" \in its THEN "Overload"
           ELSE IF Cardinality(its) > 1 THEN "MIXED" ELSE CHOOSE p \in its : TRUE
  BY <1>1, <1>4, GroupIsTrue
<1>6. CASE managed
  <2>1. modes = mode /\ powers = power
    BY <1>1, <1>3, <1>6 DEF Told, Typed, KnownPower
  <2>2. display[r] = Group(r, mode, power, Unknown)
    BY <1>1, <2>1 DEF Told, Grouped
  <2>3. QED
    BY <1>5, <2>2
<1>7. CASE ~managed
  <2>1. PICK o \in Output : mode[o] \in ModesOf(r)
    BY <1>1 DEF OutputsOf
  <2>2. mode \in [Output -> Role] /\ IsInjective(mode)
    BY <1>1, <1>7 DEF Told, Typed, ByRole
  <2>3. \A x \in Role : x \in ModesOf(r) <=> x = r
    BY DEF ModesOf, Role
  <2>4. OutputsOf(r, mode) = {o}
    BY <2>1, <2>2, <2>3 DEF OutputsOf, IsInjective
  <2>5. display[r] = power[o]
    BY <1>3, <1>7, <2>1, <2>2, <2>3 DEF KnownPower
  <2>6. {power[q] : q \in OutputsOf(r, mode)} = {power[o]}
    BY <2>4
  <2>7. Cardinality({power[o]}) = 1
    BY FS_Singleton
  <2>8. QED
    BY <2>5, <2>6, <2>7
<1>8. QED
  BY <1>6, <1>7

(***************************************************************************)
(* When the station has nothing more to say, the two track buttons show    *)
(* what its outputs are, whatever came first of modes, powers and          *)
(* summaries and whatever changed on the way (power.go:44).                *)
(***************************************************************************)
THEOREM PowerIsTrue == Spec => []QuietPowerIsTrue
BY AlwaysTold, QuietTold, PTL

(***************************************************************************)
(* No toggle puts power on an output that tripped or is on already: the    *)
(* step is one of TogglePower, of a role shown off (power.go:23).          *)
(***************************************************************************)
THEOREM TogglesOnlyWhatIsOff == Spec => NeverReenergizes
<1>1. ASSUME Told, [Next]_vars, Quiet, NEW r \in Role, asked' = <<Switch(TRUE, r)>>,
             NEW o \in OutputsOf(r, mode)
      PROVE  power[o] = "Off"
  <2>1. asked = <<>> /\ connected
    BY <1>1 DEF Quiet
  <2>2. asked' # asked
    BY <1>1, <2>1
  <2>3. \/ \E q \in Role : TogglePower(q)
        \/ \E on \in BOOLEAN : PowerAll(on)
        \/ Receive \/ Happens \/ Remapped \/ Volunteers \/ Answers \/ Lost \/ Attach
    BY <1>1, <2>2 DEF Next, vars, wires, Attempt
  <2>4. asked'[1] = Switch(TRUE, r)
    BY <1>1
  <2>5. CASE \E on \in BOOLEAN : PowerAll(on)
    <3>1. PICK on \in BOOLEAN : asked' = <<Switch(on, "ALL")>>
      BY <2>1, <2>5 DEF PowerAll, Sends
    <3>2. Switch(on, "ALL") = Switch(TRUE, r)
      BY <2>4, <3>1
    <3>3. r = "ALL"
      BY <3>2 DEF Switch
    <3>4. QED
      BY <3>3 DEF Role
  <2>6. CASE Receive \/ Happens \/ Remapped \/ Volunteers \/ Answers \/ Lost \/ Attach
    BY <2>1, <2>2, <2>6 DEF Receive, Happens, Remapped, Volunteers, Answers, Lost,
       Detach, Attach
  <2>7. CASE \E q \in Role : TogglePower(q)
    <3>1. PICK q \in Role : asked' = <<Switch(Energizes(q), q)>>
      BY <2>1, <2>7 DEF TogglePower, Sends
    <3>2. Switch(Energizes(q), q) = Switch(TRUE, r)
      BY <2>4, <3>1
    <3>3. q = r
      BY <3>2 DEF Switch
    <3>4. Energizes(q)
      BY <3>2 DEF Switch
    <3>5. display[r] = "Off"
      BY <3>3, <3>4 DEF Energizes
    <3> DEFINE its == {power[p] : p \in OutputsOf(r, mode)}
    <3>6. power[o] \in its
      OBVIOUS
    <3> HIDE DEF its
    <3>7. "Off" = IF "Overload" \in its THEN "Overload"
                  ELSE IF Cardinality(its) > 1 THEN "MIXED" ELSE CHOOSE p \in its : TRUE
      BY <1>1, <3>5, <3>6, QuietTold DEF QuietPowerIsTrue, its
    <3>8. its \in SUBSET {"On", "Off"} /\ its # {}
      <4>1. "Overload" \notin its
        BY <3>7
      <4>2. its \in SUBSET Power
        BY <1>1, ToldTypes DEF its, OutputsOf
      <4>3. QED
        BY <3>6, <4>1, <4>2 DEF Power
    <3>9. its = {"Off"}
      BY <3>7, <3>8, TwoPowers
    <3>10. QED
      BY <3>6, <3>9
  <2>8. QED
    BY <2>3, <2>5, <2>6, <2>7
<1>2. Told /\ [Next]_vars =>
        [Quiet => \A r \in Role : asked' = <<Switch(TRUE, r)>> =>
           \A o \in OutputsOf(r, mode) : power[o] = "Off"]_vars
  BY <1>1
<1>3. QED
  BY <1>2, AlwaysTold, PTL DEF Spec, NeverReenergizes
=============================================================================
