--------------------------- MODULE SessionProofs ---------------------------
(***************************************************************************)
(* Theorems about Session.tla, for every mailbox, every number of          *)
(* locomotives and connections and every bound.  What is stored, what is   *)
(* connected and what is drained hang together through pc, so one          *)
(* inductive invariant carries them all; the promises made to callers and  *)
(* the states published have one each.                                     *)
(***************************************************************************)
EXTENDS Session, FiniteSetTheorems, FunctionTheorems, TLAPS

\* The mailbox: what is in it was posted, and it never grows past its capacity.
QueueOK ==
  /\ posting \in Intent \cup {None} /\ closing \in BOOLEAN
  /\ mailbox \in Seq(Intent) /\ Len(mailbox) <= Capacity
  /\ accepted \in Nat /\ promised \in Nat

\* The tabs: nothing is saved over a record that could not be read.
LayoutOK ==
  /\ layout \in Layouts /\ stored \in Layouts \cup {Unreadable}
  /\ saving \in BOOLEAN /\ missed \in BOOLEAN
  /\ kept \in Nat /\ launches \in Nat
  /\ saving => stored # Unreadable
  /\ StoredIsRunning

\* The loop and its connection: the sender the controller has is the session's,
\* there is none while one is being opened, draining begins after Close and
\* applies preferences only.
LinkOK ==
  /\ pc \in {"start", "look", "select", "acting", "opening", "attaching", "drain", "stopped"}
  /\ draining \in BOOLEAN
  /\ doing \in Intent \cup {None} /\ (pc = "acting" => doing \in Intent)
  /\ conns \in [Connections -> {"unused", "open", "closed"}]
  /\ inbox \in [Connections -> {"none", "frame", "failed"}]
  /\ linked \in Connections \cup {None} /\ current \in Connections \cup {None}
  /\ linked # None => current = linked
  /\ pc = "start" => linked = None /\ current = None
  /\ pc \in {"opening", "attaching"} => linked = None
  /\ pc = "attaching" => current # None
  /\ pc = "drain" => draining
  /\ draining => closing /\ pc \in {"drain", "acting", "stopped"}
  /\ draining /\ pc = "acting" => doing \in Preference
  /\ DrainsDetached /\ NoConnectionLeaks /\ EventsAreOfThisConnection

IInv == QueueOK /\ LayoutOK /\ LinkOK /\ Len(updates) <= 1

USE DEF Connections

-----------------------------------------------------------------------------
(***************************************************************************)
(* Layouts.                                                                *)
(***************************************************************************)
LEMMA LayoutIs ==
  \A f : f \in Layouts <=>
    \E S \in SUBSET Cab : S # {} /\ f \in [S -> BOOLEAN]
BY DEF Layouts

LEMMA LayoutDomain ==
  ASSUME NEW f \in Layouts
  PROVE  /\ DOMAIN f \in SUBSET Cab /\ DOMAIN f # {}
         /\ f \in [DOMAIN f -> BOOLEAN]
<1>1. PICK S \in SUBSET Cab : S # {} /\ f \in [S -> BOOLEAN]
  BY LayoutIs
<1> QED BY <1>1

LEMMA LayoutOn ==
  ASSUME NEW S \in SUBSET Cab, S # {}, NEW f \in [S -> BOOLEAN]
  PROVE  f \in Layouts
BY LayoutIs

LEMMA DefaultIsLayout == Default \in Layouts
<1>1. DefaultCab \in Cab
  BY SessionAssumption
<1>2. {DefaultCab} \in SUBSET Cab /\ {DefaultCab} # {}
  BY <1>1
<1>3. Default \in [{DefaultCab} -> BOOLEAN]
  BY DEF Default
<1> QED BY <1>2, <1>3, LayoutOn

LEMMA RestoredIsLayout ==
  ASSUME NEW r \in Layouts \cup {Unreadable}
  PROVE  Restored(r) \in Layouts
BY DefaultIsLayout DEF Restored

LEMMA FlippedIsLayout ==
  ASSUME NEW f \in Layouts, NEW k \in DOMAIN f
  PROVE  [f EXCEPT ![k] = ~@] \in Layouts
<1>1. [f EXCEPT ![k] = ~@] \in [DOMAIN f -> BOOLEAN]
  BY LayoutDomain
<1> QED BY <1>1, LayoutDomain, LayoutOn

LEMMA OpenedIsLayout ==
  ASSUME NEW f \in Layouts, NEW k \in Cab
  PROVE  [j \in DOMAIN f \cup {k} |-> IF j = k THEN FALSE ELSE f[j]] \in Layouts
<1> DEFINE g == [j \in DOMAIN f \cup {k} |-> IF j = k THEN FALSE ELSE f[j]]
<1>1. g \in [DOMAIN f \cup {k} -> BOOLEAN]
  BY LayoutDomain
<1>2. DOMAIN f \cup {k} \in SUBSET Cab /\ DOMAIN f \cup {k} # {}
  BY LayoutDomain
<1> QED BY <1>1, <1>2, LayoutOn

LEMMA ClosedIsLayout ==
  ASSUME NEW f \in Layouts, NEW k \in DOMAIN f, DOMAIN f # {k}
  PROVE  [j \in DOMAIN f \ {k} |-> f[j]] \in Layouts
<1> DEFINE g == [j \in DOMAIN f \ {k} |-> f[j]]
<1>1. g \in [DOMAIN f \ {k} -> BOOLEAN]
  BY LayoutDomain
<1>2. DOMAIN f \ {k} \in SUBSET Cab /\ DOMAIN f \ {k} # {}
  BY LayoutDomain
<1> QED BY <1>1, <1>2, LayoutOn

-----------------------------------------------------------------------------
(***************************************************************************)
(* What leaves a part of the state alone leaves its invariant alone.       *)
(***************************************************************************)
LEMMA QueueFrame ==
  QueueOK /\ UNCHANGED queueVars => QueueOK'
BY DEF QueueOK, queueVars

LEMMA LayoutFrame ==
  LayoutOK /\ UNCHANGED layoutVars => LayoutOK'
BY DEF LayoutOK, layoutVars, StoredIsRunning

LEMMA LinkFrame ==
  LinkOK /\ UNCHANGED <<loopVars, connVars, closing>> => LinkOK'
BY DEF LinkOK, loopVars, connVars, DrainsDetached, NoConnectionLeaks,
       EventsAreOfThisConnection

(***************************************************************************)
(* A save: the record is what runs, or the miss is known.                  *)
(***************************************************************************)
LEMMA SavesKeeps ==
  ASSUME LayoutOK, NEW next \in Layouts, NEW failed, Saves(next, failed),
         layout' = next, saving' = saving, launches' = launches, kept' \in Nat
  PROVE  LayoutOK'
<1>1. next # Unreadable
  BY MarksAreNoValues
<1>2. CASE saving /\ next # layout
  BY <1>1, <1>2 DEF LayoutOK, Saves, StoredIsRunning
<1>3. CASE ~(saving /\ next # layout)
  BY <1>3 DEF LayoutOK, Saves, StoredIsRunning
<1> QED BY <1>2, <1>3

(***************************************************************************)
(* Giving the connection up closes it.                                     *)
(***************************************************************************)
LEMMA DetachCloses ==
  ASSUME LinkOK, Detach
  PROVE  /\ linked' = None
         /\ conns' \in [Connections -> {"unused", "open", "closed"}]
         /\ pc # "attaching" => \A c \in Connections : conns'[c] # "open"
<1>1. linked' = None /\ conns' = Detached
  BY DEF Detach
<1>2. CASE linked = None
  <2>1. None \notin Connections
    BY SessionAssumption
  <2> QED BY <1>1, <1>2, <2>1 DEF LinkOK, Detached, NoConnectionLeaks
<1>3. CASE linked # None
  BY <1>1, <1>3 DEF LinkOK, Detached, NoConnectionLeaks
<1> QED BY <1>1, <1>2, <1>3

(***************************************************************************)
(* The end of an iteration with no connection, and with the one there was. *)
(***************************************************************************)
LEMMA SettlesDetached ==
  ASSUME LinkOK, NEW c, Settles(c), linked' = None, ~draining, closing' = closing,
         conns' \in [Connections -> {"unused", "open", "closed"}],
         \A d \in Connections : conns'[d] # "open",
         inbox' \in [Connections -> {"none", "frame", "failed"}]
  PROVE  LinkOK'
<1>1. pc' = "look" /\ doing' = None /\ draining' = FALSE /\ current' = None
  BY DEF Settles, LinkOK
<1> QED
  BY <1>1 DEF LinkOK, DrainsDetached, NoConnectionLeaks, EventsAreOfThisConnection

LEMMA SettlesLinked ==
  ASSUME LinkOK, Settles(current), Stays, ~draining, closing' = closing,
         pc # "attaching",
         inbox' \in [Connections -> {"none", "frame", "failed"}]
  PROVE  LinkOK'
<1>1. pc' = "look" /\ doing' = None /\ draining' = FALSE
  BY DEF Settles, LinkOK
<1>2. linked' = linked /\ conns' = conns /\ current' = linked
  BY DEF Settles, LinkOK, Stays
<1> QED
  BY <1>1, <1>2 DEF LinkOK, DrainsDetached, NoConnectionLeaks, EventsAreOfThisConnection

\* The channel holds one snapshot.
LEMMA SettlesPublishes ==
  ASSUME Len(updates) <= 1, NEW c, Settles(c)
  PROVE  Len(updates') <= 1
<1>1. updates' = <<previous'>> \/ updates' = updates
  BY DEF Settles, Publish
<1>2. CASE updates' = <<previous'>>
  BY <1>2
<1>3. CASE updates' = updates
  BY <1>3, Zenon
<1> QED BY <1>1, <1>2, <1>3

\* The mailbox of a launch that begins.
LEMMA EmptyMailbox ==
  <<>> \in Seq(Intent) /\ Len(<<>>) <= Capacity
BY SessionAssumption

(***************************************************************************)
(* An intent that was applied: on the way to the next iteration or, when   *)
(* the session drains, to the next intent.                                 *)
(***************************************************************************)
LEMMA AppliedKeeps ==
  ASSUME IInv, NEW next \in Layouts, NEW failed, Applied(next, failed),
         pc = "acting", kept' \in Nat,
         Stays \/ (Detach /\ ~draining)
  PROVE  IInv'
<1>1. QueueOK'
  BY QueueFrame DEF IInv, Applied
<1>2. LayoutOK'
  BY SavesKeeps DEF IInv, Applied
<1>3. closing' = closing /\ inbox' = inbox
  BY DEF Applied, queueVars
<1>4. CASE draining
  <2>1. /\ pc' = "drain" /\ doing' = None /\ draining' = draining
        /\ current' = current /\ updates' = updates
        /\ linked' = linked /\ conns' = conns
    BY <1>4 DEF Applied, Stays, viewVars
  <2>2. LinkOK'
    BY <1>3, <1>4, <2>1 DEF IInv, LinkOK, DrainsDetached, NoConnectionLeaks,
       EventsAreOfThisConnection
  <2> QED BY <1>1, <1>2, <2>1, <2>2 DEF IInv
<1>5. CASE ~draining
  <2>1. Settles(current)
    BY <1>5 DEF Applied
  <2>2. inbox' \in [Connections -> {"none", "frame", "failed"}]
    BY <1>3 DEF IInv, LinkOK
  <2>3. LinkOK'
    <3>1. CASE Stays
      BY <1>3, <1>5, <2>1, <2>2, <3>1, SettlesLinked DEF IInv
    <3>2. CASE Detach
      BY <1>3, <1>5, <2>1, <2>2, <3>2, DetachCloses, SettlesDetached DEF IInv
    <3> QED BY <3>1, <3>2, <1>5
  <2>4. Len(updates') <= 1
    BY <2>1, SettlesPublishes DEF IInv
  <2> QED BY <1>1, <1>2, <2>3, <2>4 DEF IInv
<1> QED BY <1>4, <1>5

-----------------------------------------------------------------------------
(***************************************************************************)
(* One lemma per action.                                                   *)
(***************************************************************************)
LEMMA InitHolds == Init => IInv
<1> SUFFICES ASSUME Init PROVE IInv
  OBVIOUS
<1>1. QueueOK
  BY EmptyMailbox DEF Init, QueueOK
<1>2. layout \in Layouts
  BY RestoredIsLayout DEF Init
<1>3. LayoutOK
  BY <1>2 DEF Init, LayoutOK, StoredIsRunning, SavesTabs, Restored
<1>4. LinkOK
  BY DEF Init, LinkOK, DrainsDetached, NoConnectionLeaks, EventsAreOfThisConnection,
     Silent, Unopened
<1>5. Len(updates) <= 1
  BY DEF Init
<1> QED BY <1>1, <1>3, <1>4, <1>5 DEF IInv

LEMMA RelaunchKeeps == IInv /\ Relaunch => IInv'
<1> SUFFICES ASSUME IInv, Relaunch PROVE IInv'
  OBVIOUS
<1>1. QueueOK'
  BY EmptyMailbox DEF Relaunch, QueueOK
<1>2. layout' \in Layouts
  BY RestoredIsLayout DEF Relaunch, IInv, LayoutOK
<1>3. LayoutOK'
  <2>1. /\ stored' = stored /\ saving' = (stored # Unreadable) /\ missed' = FALSE
        /\ kept' = 0 /\ launches' = launches + 1
    BY DEF Relaunch, SavesTabs
  <2>2. stored # Unreadable => stored' = layout'
    BY DEF Relaunch, Restored
  <2>3. kept' \in Nat /\ launches' \in Nat
    BY <2>1 DEF IInv, LayoutOK
  <2>4. saving' \in BOOLEAN /\ missed' \in BOOLEAN
    BY ONLY <2>1
  <2> QED BY <1>2, <2>1, <2>2, <2>3, <2>4 DEF IInv, LayoutOK, StoredIsRunning
<1>4. LinkOK'
  BY DEF Relaunch, LinkOK, DrainsDetached, NoConnectionLeaks,
     EventsAreOfThisConnection, Silent, Unopened
<1>5. Len(updates') <= 1
  BY DEF Relaunch
<1> QED BY <1>1, <1>3, <1>4, <1>5 DEF IInv

LEMMA PostKeeps ==
  ASSUME NEW a \in Intent, IInv, Post(a) PROVE IInv'
<1>1. QueueOK'
  BY DEF Post, IInv, QueueOK
<1>2. LayoutOK' /\ LinkOK' /\ updates' = updates
  BY LayoutFrame, LinkFrame DEF Post, IInv, viewVars
<1> QED BY <1>1, <1>2 DEF IInv

LEMMA QueueKeeps == IInv /\ Queue => IInv'
<1> SUFFICES ASSUME IInv, Queue PROVE IInv'
  OBVIOUS
<1>1. posting \in Intent /\ mailbox \in Seq(Intent)
  BY DEF Queue, IInv, QueueOK
<1>2. Append(mailbox, posting) \in Seq(Intent)
      /\ Len(Append(mailbox, posting)) = Len(mailbox) + 1
  BY <1>1
<1>3. posting' = None /\ closing' \in BOOLEAN
  BY DEF Queue, IInv, QueueOK
<1>4. CASE HasRoom
  <2>1. mailbox' = Append(mailbox, posting) /\ Len(mailbox') <= Capacity
    BY <1>1, <1>2, <1>4, SessionAssumption DEF Queue, HasRoom
  <2>2. accepted' \in Nat /\ promised' \in Nat
    BY <1>4 DEF Queue, IInv, QueueOK
  <2> QED BY <1>2, <1>3, <2>1, <2>2 DEF QueueOK, IInv, Queue, viewVars,
          LayoutOK, layoutVars, StoredIsRunning, LinkOK, loopVars, connVars,
          DrainsDetached, NoConnectionLeaks, EventsAreOfThisConnection
<1>5. CASE ~HasRoom
  BY <1>3, <1>5 DEF QueueOK, IInv, Queue, viewVars,
          LayoutOK, layoutVars, StoredIsRunning, LinkOK, loopVars, connVars,
          DrainsDetached, NoConnectionLeaks, EventsAreOfThisConnection
<1> QED BY <1>4, <1>5

LEMMA CloseKeeps == IInv /\ Close => IInv'
<1> SUFFICES ASSUME IInv, Close PROVE IInv'
  OBVIOUS
<1>1. QueueOK'
  BY DEF Close, IInv, QueueOK
<1>2. LayoutOK' /\ updates' = updates
  BY LayoutFrame DEF Close, IInv, viewVars
<1>3. LinkOK'
  BY DEF Close, IInv, LinkOK, loopVars, connVars, DrainsDetached, NoConnectionLeaks,
     EventsAreOfThisConnection
<1> QED BY <1>1, <1>2, <1>3 DEF IInv

LEMMA RenderKeeps == IInv /\ Render => IInv'
<1> SUFFICES ASSUME IInv, Render PROVE IInv'
  OBVIOUS
<1>1. QueueOK' /\ LayoutOK'
  BY QueueFrame, LayoutFrame DEF Render, IInv
<1>2. LinkOK'
  BY LinkFrame DEF Render, IInv, queueVars
<1>3. Len(updates') <= 1
  BY DEF Render
<1> QED BY <1>1, <1>2, <1>3 DEF IInv

LEMMA ArrivesKeeps ==
  ASSUME NEW c \in Connections, IInv, Arrives(c) PROVE IInv'
<1>1. QueueOK' /\ LayoutOK' /\ updates' = updates
  BY QueueFrame, LayoutFrame DEF Arrives, IInv, viewVars
<1>2. LinkOK'
  BY DEF Arrives, IInv, LinkOK, loopVars, queueVars, DrainsDetached,
     NoConnectionLeaks, EventsAreOfThisConnection
<1> QED BY <1>1, <1>2 DEF IInv

LEMMA StartKeeps == IInv /\ Start => IInv'
<1> SUFFICES ASSUME IInv, Start PROVE IInv'
  OBVIOUS
<1>1. QueueOK' /\ LayoutOK'
  BY QueueFrame, LayoutFrame DEF Start, IInv
<1>2. LinkOK'
  BY DEF Start, IInv, LinkOK, queueVars, connVars, DrainsDetached,
     NoConnectionLeaks, EventsAreOfThisConnection
<1>3. Len(updates') <= 1
  BY DEF Start, Publish
<1> QED BY <1>1, <1>2, <1>3 DEF IInv

LEMMA LookKeeps == IInv /\ Look => IInv'
<1> SUFFICES ASSUME IInv, Look PROVE IInv'
  OBVIOUS
<1>1. QueueOK' /\ LayoutOK' /\ updates' = updates
  BY QueueFrame, LayoutFrame DEF Look, IInv, viewVars
<1>2. LinkOK'
  BY DEF Look, IInv, LinkOK, queueVars, connVars, DrainsDetached,
     NoConnectionLeaks, EventsAreOfThisConnection
<1> QED BY <1>1, <1>2 DEF IInv

LEMMA LeaveKeeps == IInv /\ Leave => IInv'
<1> SUFFICES ASSUME IInv, Leave PROVE IInv'
  OBVIOUS
<1>1. QueueOK' /\ LayoutOK' /\ updates' = updates
  BY QueueFrame, LayoutFrame DEF Leave, IInv, viewVars
<1>2. /\ linked' = None
      /\ conns' \in [Connections -> {"unused", "open", "closed"}]
      /\ \A c \in Connections : conns'[c] # "open"
  BY DetachCloses DEF Leave, IInv
<1>3. LinkOK'
  BY <1>2 DEF Leave, IInv, LinkOK, queueVars, DrainsDetached, NoConnectionLeaks,
     EventsAreOfThisConnection
<1> QED BY <1>1, <1>3 DEF IInv

LEMMA FinishKeeps == IInv /\ Finish => IInv'
<1> SUFFICES ASSUME IInv, Finish PROVE IInv'
  OBVIOUS
<1>1. QueueOK' /\ LayoutOK'
  BY QueueFrame, LayoutFrame DEF Finish, IInv
<1>2. LinkOK'
  BY DEF Finish, IInv, LinkOK, queueVars, connVars, DrainsDetached,
     NoConnectionLeaks, EventsAreOfThisConnection
<1>3. Len(updates') <= 1
  BY DEF Finish, Publish
<1> QED BY <1>1, <1>2, <1>3 DEF IInv

LEMMA TakeKeeps == IInv /\ Take => IInv'
<1> SUFFICES ASSUME IInv, Take PROVE IInv'
  OBVIOUS
<1> DEFINE a == Head(mailbox)
<1>1. /\ mailbox # <<>> /\ mailbox \in Seq(Intent) /\ Len(mailbox) <= Capacity
      /\ Capacity \in Nat /\ mailbox' = Tail(mailbox)
  BY SessionAssumption DEF Take, IInv, QueueOK
<1>2. a \in Intent /\ mailbox' \in Seq(Intent) /\ Len(mailbox') <= Capacity
  BY <1>1
<1>3. QueueOK'
  BY <1>2 DEF Take, IInv, QueueOK
<1>4. LayoutOK' /\ updates' = updates
  BY LayoutFrame DEF Take, IInv, viewVars
<1>5. /\ pc \in {"select", "drain"} /\ draining' = draining /\ closing' = closing
      /\ inbox' = inbox /\ current' = current
  BY DEF Take
<1> HIDE DEF a
<1>6. CASE Drops(a)
  <2>1. /\ linked' = linked /\ conns' = conns /\ doing' = doing
        /\ IF draining THEN pc' = "drain" ELSE pc' = "look"
    BY <1>6 DEF Take, Resumes, Stays, a
  <2>2. LinkOK'
    BY <1>5, <2>1 DEF IInv, LinkOK, DrainsDetached, NoConnectionLeaks,
       EventsAreOfThisConnection
  <2> QED BY <1>3, <1>4, <2>2 DEF IInv
<1>7. CASE ~Drops(a)
  <2>1. pc' = "acting" /\ doing' = a /\ (IF closing THEN Detach ELSE Stays)
    BY <1>7 DEF Take, a
  <2>2. closing => a \in Preference
    BY <1>2, <1>7 DEF Drops, Intent
  <2>3. CASE closing
    <3>1. /\ linked' = None
          /\ conns' \in [Connections -> {"unused", "open", "closed"}]
          /\ \A c \in Connections : conns'[c] # "open"
      BY <1>5, <2>1, <2>3, DetachCloses DEF IInv
    <3> QED BY <1>2, <1>3, <1>4, <1>5, <2>1, <2>2, <2>3, <3>1 DEF IInv, LinkOK,
            DrainsDetached, NoConnectionLeaks, EventsAreOfThisConnection
  <2>4. CASE ~closing
    <3>1. linked' = linked /\ conns' = conns
      BY <2>1, <2>4 DEF Stays
    <3> QED BY <1>2, <1>3, <1>4, <1>5, <2>1, <2>4, <3>1 DEF IInv, LinkOK,
            DrainsDetached, NoConnectionLeaks, EventsAreOfThisConnection
  <2> QED BY <2>3, <2>4
<1> QED BY <1>6, <1>7

LEMMA FlipKeeps == IInv /\ Flip => IInv'
<1> SUFFICES ASSUME IInv, Flip PROVE IInv'
  OBVIOUS
<1>1. kept' \in Nat /\ Stays /\ pc = "acting" /\ layout \in Layouts
  BY DEF Flip, IInv, LayoutOK
<1>2. CASE doing.cab \in DOMAIN layout
  <2> DEFINE f == [layout EXCEPT ![doing.cab] = ~@]
  <2>1. f \in Layouts
    BY <1>1, <1>2, FlippedIsLayout
  <2>2. Applied(f, FALSE)
    BY <1>2 DEF Flip
  <2> QED BY <1>1, <2>1, <2>2, AppliedKeeps
<1>3. CASE doing.cab \notin DOMAIN layout
  <2>1. Applied(layout, TRUE)
    BY <1>3 DEF Flip
  <2> QED BY <1>1, <2>1, AppliedKeeps
<1> QED BY <1>2, <1>3

LEMMA ArrangeKeeps == IInv /\ Arrange => IInv'
<1> SUFFICES ASSUME IInv, Arrange PROVE IInv'
  OBVIOUS
<1> DEFINE k == doing.cab
           opened == [j \in DOMAIN layout \cup {k} |->
                        IF j = k THEN FALSE ELSE layout[j]]
           closed == [j \in DOMAIN layout \ {k} |-> layout[j]]
<1>1. /\ kept' \in Nat /\ pc = "acting" /\ layout \in Layouts
      /\ doing \in Intent /\ doing.op = "arrange"
  BY DEF Arrange, IInv, LayoutOK, LinkOK
<1>2. k \in Cab /\ doing \notin Preference
  BY <1>1 DEF Intent, Preference, Operation
<1>3. ~draining
  BY <1>1, <1>2 DEF IInv, LinkOK
<1>4. opened \in Layouts
  BY <1>1, <1>2, OpenedIsLayout
<1> HIDE DEF opened
<1>5. CASE k \notin DOMAIN layout /\ Stays /\ Applied(opened, FALSE)
  BY <1>1, <1>4, <1>5, AppliedKeeps
<1>6. CASE Detach /\ Applied(opened, TRUE)
  BY <1>1, <1>3, <1>4, <1>6, AppliedKeeps
<1>7. CASE k \in DOMAIN layout /\ DOMAIN layout # {k} /\ Stays /\ Applied(closed, FALSE)
  <2>1. closed \in Layouts
    BY <1>1, <1>7, ClosedIsLayout
  <2> HIDE DEF closed
  <2> QED BY <1>1, <1>7, <2>1, AppliedKeeps
<1>8. CASE Stays /\ Applied(layout, TRUE)
  BY <1>1, <1>8, AppliedKeeps
<1> QED BY <1>5, <1>6, <1>7, <1>8 DEF Arrange, opened

LEMMA ToggleKeeps == IInv /\ Toggle => IInv'
<1> SUFFICES ASSUME IInv, Toggle PROVE IInv'
  OBVIOUS
<1>1. QueueOK' /\ LayoutOK' /\ closing' = closing
  BY QueueFrame, LayoutFrame DEF Toggle, IInv, queueVars
<1>2. pc = "acting" /\ doing \notin Preference
  BY DEF Toggle, Preference
<1>3. ~draining
  BY <1>2 DEF IInv, LinkOK
<1>4. CASE linked # None
  <2>1. Detach /\ Settles(None) /\ inbox' = inbox
    BY <1>4 DEF Toggle
  <2>2. LinkOK'
    BY <1>1, <1>2, <1>3, <2>1, DetachCloses, SettlesDetached DEF IInv, LinkOK
  <2>3. Len(updates') <= 1
    BY <2>1, SettlesPublishes DEF IInv
  <2> QED BY <1>1, <2>2, <2>3 DEF IInv
<1>5. CASE linked = None
  <2>1. pc' = "opening" /\ UNCHANGED <<doing, draining, connVars, viewVars>>
    BY <1>5 DEF Toggle
  <2>2. LinkOK'
    BY <1>1, <1>2, <1>3, <1>5, <2>1 DEF IInv, LinkOK, connVars, DrainsDetached,
       NoConnectionLeaks, EventsAreOfThisConnection
  <2> QED BY <1>1, <2>1, <2>2 DEF IInv, viewVars
<1> QED BY <1>4, <1>5

LEMMA OpenFailsKeeps == IInv /\ OpenFails => IInv'
<1> SUFFICES ASSUME IInv, OpenFails PROVE IInv'
  OBVIOUS
<1>1. QueueOK' /\ LayoutOK' /\ closing' = closing
  BY QueueFrame, LayoutFrame DEF OpenFails, IInv, queueVars
<1>2. LinkOK'
  BY <1>1, SettlesLinked DEF OpenFails, IInv, LinkOK
<1>3. Len(updates') <= 1
  BY SettlesPublishes DEF OpenFails, IInv
<1> QED BY <1>1, <1>2, <1>3 DEF IInv

LEMMA OpensKeeps ==
  ASSUME NEW c \in Connections, IInv, Opens(c) PROVE IInv'
<1>1. QueueOK' /\ LayoutOK' /\ closing' = closing /\ inbox' = inbox
  BY QueueFrame, LayoutFrame DEF Opens, IInv, queueVars
<1>2. /\ pc = "opening" /\ linked' = linked /\ linked = None /\ ~draining
      /\ \A d \in Connections : conns[d] # "open"
  <2>1. None \notin Connections
    BY SessionAssumption
  <2> QED BY <2>1 DEF Opens, IInv, LinkOK, NoConnectionLeaks
<1>3. CASE closing
  <2>1. conns' = [conns EXCEPT ![c] = "closed"] /\ Settles(current)
    BY <1>3 DEF Opens, TooLate
  <2>2. /\ conns' \in [Connections -> {"unused", "open", "closed"}]
        /\ \A d \in Connections : conns'[d] # "open"
    BY <1>2, <2>1 DEF IInv, LinkOK
  <2>3. LinkOK'
    BY <1>1, <1>2, <2>1, <2>2, SettlesDetached DEF IInv, LinkOK
  <2>4. Len(updates') <= 1
    BY <2>1, SettlesPublishes DEF IInv
  <2> QED BY <1>1, <2>3, <2>4 DEF IInv
<1>4. CASE ~closing
  <2>1. /\ conns' = [conns EXCEPT ![c] = "open"] /\ pc' = "attaching" /\ current' = c
        /\ doing' = doing /\ draining' = draining /\ updates' = updates
    BY <1>4 DEF Opens, viewVars
  <2>2. c # None
    BY SessionAssumption
  <2>3. LinkOK'
    BY <1>1, <1>2, <1>4, <2>1, <2>2 DEF IInv, LinkOK, DrainsDetached,
       NoConnectionLeaks, EventsAreOfThisConnection
  <2> QED BY <1>1, <2>1, <2>3 DEF IInv
<1> QED BY <1>3, <1>4

LEMMA AttachKeeps == IInv /\ Attach => IInv'
<1> SUFFICES ASSUME IInv, Attach PROVE IInv'
  OBVIOUS
<1>1. QueueOK' /\ LayoutOK' /\ closing' = closing /\ inbox' = inbox
  BY QueueFrame, LayoutFrame DEF Attach, IInv, queueVars
<1>2. /\ pc = "attaching" /\ linked = None /\ ~draining
      /\ current \in Connections /\ current # None
      /\ \A d \in Connections : conns[d] = "open" => d = current
  <2>1. None \notin Connections
    BY SessionAssumption
  <2> QED BY <2>1 DEF Attach, IInv, LinkOK, NoConnectionLeaks
<1>3. Len(updates') <= 1
  BY SettlesPublishes DEF Attach, IInv
<1>4. CASE linked' = current /\ conns' = conns
  <2>1. pc' = "look" /\ doing' = None /\ draining' = FALSE /\ current' = current
    BY <1>2, <1>4 DEF Attach, Settles
  <2>2. LinkOK'
    BY <1>1, <1>2, <1>4, <2>1 DEF IInv, LinkOK, DrainsDetached, NoConnectionLeaks,
       EventsAreOfThisConnection
  <2> QED BY <1>1, <1>3, <2>2 DEF IInv
<1>5. CASE linked' = None /\ conns' = [conns EXCEPT ![current] = "closed"]
  <2>1. /\ conns' \in [Connections -> {"unused", "open", "closed"}]
        /\ \A d \in Connections : conns'[d] # "open"
    BY <1>2, <1>5 DEF IInv, LinkOK
  <2>2. LinkOK'
    BY <1>1, <1>2, <1>5, <2>1, SettlesDetached DEF Attach, IInv, LinkOK
  <2> QED BY <1>1, <1>3, <2>2 DEF IInv
<1> QED BY <1>4, <1>5 DEF Attach

LEMMA BeatKeeps == IInv /\ Beat => IInv'
<1> SUFFICES ASSUME IInv, Beat PROVE IInv'
  OBVIOUS
<1>1. QueueOK' /\ LayoutOK' /\ closing' = closing /\ inbox' = inbox
  BY QueueFrame, LayoutFrame DEF Beat, IInv, queueVars
<1>2. pc = "select" /\ ~draining /\ Settles(current)
  BY DEF Beat, IInv, LinkOK
<1>3. CASE Stays
  BY <1>1, <1>2, <1>3, SettlesLinked, SettlesPublishes DEF IInv, LinkOK
<1>4. CASE Detach
  BY <1>1, <1>2, <1>4, DetachCloses, SettlesDetached, SettlesPublishes DEF IInv, LinkOK
<1> QED BY <1>3, <1>4 DEF Beat

LEMMA HearKeeps == IInv /\ Hear => IInv'
<1> SUFFICES ASSUME IInv, Hear PROVE IInv'
  OBVIOUS
<1>1. QueueOK' /\ LayoutOK' /\ closing' = closing
  BY QueueFrame, LayoutFrame DEF Hear, IInv, queueVars
<1>2. pc = "select" /\ ~draining
  BY DEF Hear, IInv, LinkOK
<1>3. inbox' \in [Connections -> {"none", "frame", "failed"}]
  BY DEF Hear, IInv, LinkOK
<1>4. CASE inbox[current] = "failed"
  <2>1. Detach /\ Settles(None)
    BY <1>4 DEF Hear
  <2> QED BY <1>1, <1>2, <1>3, <2>1, DetachCloses, SettlesDetached, SettlesPublishes
          DEF IInv
<1>5. CASE inbox[current] # "failed"
  <2>1. Stays /\ Settles(current)
    BY <1>5 DEF Hear
  <2> QED BY <1>1, <1>2, <1>3, <2>1, SettlesLinked, SettlesPublishes DEF IInv
<1> QED BY <1>4, <1>5

LEMMA StutterKeeps == IInv /\ UNCHANGED vars => IInv'
<1> SUFFICES ASSUME IInv, UNCHANGED vars PROVE IInv'
  OBVIOUS
<1>1. UNCHANGED <<loopVars, queueVars, layoutVars, connVars, viewVars>>
  BY DEF vars
<1>2. QueueOK' /\ LayoutOK' /\ updates' = updates
  BY <1>1, QueueFrame, LayoutFrame DEF IInv, viewVars
<1>3. LinkOK'
  BY <1>1, LinkFrame DEF IInv, queueVars
<1> QED BY <1>2, <1>3 DEF IInv

LEMMA NextKeeps == IInv /\ [Next]_vars => IInv'
<1> SUFFICES ASSUME IInv, [Next]_vars PROVE IInv'
  OBVIOUS
<1>1. CASE UNCHANGED vars
  BY <1>1, StutterKeeps
<1>2. CASE Queue \/ Close \/ Render \/ Relaunch
  BY <1>2, QueueKeeps, CloseKeeps, RenderKeeps, RelaunchKeeps
<1>3. CASE Start \/ Look \/ Leave \/ Take \/ Flip \/ Arrange \/ Toggle
  BY <1>3, StartKeeps, LookKeeps, LeaveKeeps, TakeKeeps, FlipKeeps, ArrangeKeeps,
     ToggleKeeps
<1>4. CASE OpenFails \/ Attach \/ Beat \/ Hear \/ Finish
  BY <1>4, OpenFailsKeeps, AttachKeeps, BeatKeeps, HearKeeps, FinishKeeps
<1>5. CASE \E c \in Connections : Opens(c)
  BY <1>5, OpensKeeps
<1>6. CASE \E a \in Intent : Post(a)
  BY <1>6, PostKeeps
<1>7. CASE \E c \in Connections : Arrives(c)
  BY <1>7, ArrivesKeeps
<1> QED BY <1>1, <1>2, <1>3, <1>4, <1>5, <1>6, <1>7 DEF Next, Run

LEMMA Inductive == Spec => []IInv
<1>1. Init => IInv
  BY InitHolds
<1>2. IInv /\ [Next]_vars => IInv'
  BY NextKeeps
<1> QED BY <1>1, <1>2, PTL DEF Spec

-----------------------------------------------------------------------------
(***************************************************************************)
(* Every variable keeps its type: the mailbox holds intents and never more *)
(* than its capacity, and the tabs are never none (session.go:98).         *)
(***************************************************************************)
THEOREM TypeCorrect == Spec => []TypeOK
<1>1. IInv => TypeOK
  <2> SUFFICES ASSUME IInv PROVE TypeOK
    OBVIOUS
  <2>1. {draining, closing, saving, missed} \subseteq BOOLEAN
    BY Zenon DEF IInv, QueueOK, LayoutOK, LinkOK
  <2>2. {accepted, promised, kept, launches} \subseteq Nat
    BY DEF IInv, QueueOK, LayoutOK
  <2>3. {linked, current} \subseteq Connections \cup {None}
    BY DEF IInv, LinkOK
  <2>4. layout \in Layouts /\ stored \in Layouts \cup {Unreadable}
    BY DEF IInv, LayoutOK
  <2>5. posting \in Intent \cup {None} /\ mailbox \in Seq(Intent) /\ Len(mailbox) <= Capacity
    BY DEF IInv, QueueOK
  <2>6. /\ pc \in {"start", "look", "select", "acting", "opening", "attaching",
                  "drain", "stopped"}
        /\ doing \in Intent \cup {None}
        /\ conns \in [Connections -> {"unused", "open", "closed"}]
        /\ inbox \in [Connections -> {"none", "frame", "failed"}]
    BY DEF IInv, LinkOK
  <2> QED BY <2>1, <2>2, <2>3, <2>4, <2>5, <2>6, Zenon DEF TypeOK, IInv
<1> QED BY <1>1, Inductive, PTL

(***************************************************************************)
(* What runs is what is stored, unless the record is unreadable or the     *)
(* last write is known to have failed (session.go:262).                    *)
(***************************************************************************)
THEOREM StoredIsWhatRuns == Spec => []StoredIsRunning
<1>1. IInv => StoredIsRunning
  BY DEF IInv, LayoutOK
<1> QED BY <1>1, Inductive, PTL

(***************************************************************************)
(* Draining the mailbox neither opens a connection nor finds one           *)
(* (session.go:82).                                                        *)
(***************************************************************************)
THEOREM DrainingIsDetached == Spec => []DrainsDetached
<1>1. IInv => DrainsDetached
  BY DEF IInv, LinkOK
<1> QED BY <1>1, Inductive, PTL

(***************************************************************************)
(* No transport that was opened is lost track of (session.go:134).         *)
(***************************************************************************)
THEOREM NothingLeaks == Spec => []NoConnectionLeaks
<1>1. IInv => NoConnectionLeaks
  BY DEF IInv, LinkOK
<1> QED BY <1>1, Inductive, PTL

(***************************************************************************)
(* Events are heard only from the client the controller sends with         *)
(* (session.go:199).                                                       *)
(***************************************************************************)
THEOREM EventsAreCurrent == Spec => []EventsAreOfThisConnection
<1>1. IInv => EventsAreOfThisConnection
  BY DEF IInv, LinkOK
<1> QED BY <1>1, Inductive, PTL

(***************************************************************************)
(* No step of a launch, and no other launch, writes over a record that     *)
(* could not be read (README.md:158).                                      *)
(***************************************************************************)
THEOREM UnreadableStays == Spec => UnreadableIsUntouched
<1>1. IInv /\ [Next]_vars /\ stored = Unreadable => stored' = Unreadable
  <2> SUFFICES ASSUME IInv, [Next]_vars, stored = Unreadable, stored' # Unreadable
               PROVE  FALSE
    OBVIOUS
  <2>1. ~saving
    BY DEF IInv, LayoutOK
  <2>2. CASE Flip \/ Arrange
    <3>1. PICK next, failed : Applied(next, failed)
      BY <2>2 DEF Flip, Arrange
    <3> QED BY <2>1, <3>1 DEF Applied, Saves
  <2>3. CASE Relaunch
    BY <2>3 DEF Relaunch
  <2>4. CASE UNCHANGED layoutVars
    BY <2>4 DEF layoutVars
  <2>5. CASE Next /\ ~Flip /\ ~Arrange /\ ~Relaunch
    <3>1. UNCHANGED layoutVars
      BY <2>5 DEF Next, Run, Start, Look, Leave, Take, Toggle, OpenFails, Opens, Attach,
         Beat, Hear, Finish, Queue, Close, Render, Post, Arrives
    <3> QED BY <2>4, <3>1
  <2> QED BY <2>2, <2>3, <2>4, <2>5 DEF vars
<1>2. IInv /\ [Next]_vars => [stored = Unreadable => stored' = Unreadable]_vars
  BY <1>1
<1> QED BY <1>2, Inductive, PTL DEF Spec, UnreadableIsUntouched

-----------------------------------------------------------------------------
(***************************************************************************)
(* Preferences.  Each one accepted is given to the controller already, or  *)
(* being applied, or waits in the mailbox; and the goroutine ends with the *)
(* mailbox empty, nothing being posted any more.                           *)
(***************************************************************************)
Waits(q) == {i \in DOMAIN q : q[i] \in Preference}

Waiting(q) == Cardinality(Waits(q))

Given(d) == IF d \in Preference THEN 1 ELSE 0

Promises ==
  /\ closing => posting = None
  /\ pc = "stopped" => closing /\ mailbox = <<>>
  /\ pc \notin {"acting", "opening", "attaching"} => doing = None
  /\ pc \in {"opening", "attaching"} => doing \notin Preference
  /\ promised = kept + Waiting(mailbox) + Given(doing)

LEMMA NoneWaits == Waiting(<<>>) = 0
<1>1. Waits(<<>>) = {}
  BY DEF Waits
<1> QED BY <1>1, FS_EmptySet DEF Waiting

LEMMA WaitsFinite ==
  ASSUME NEW q \in Seq(Intent)
  PROVE  IsFiniteSet(Waits(q)) /\ Waiting(q) \in Nat
<1>1. Waits(q) \in SUBSET (1..Len(q))
  BY DEF Waits
<1>2. IsFiniteSet(1..Len(q))
  BY FS_Interval
<1>3. IsFiniteSet(Waits(q))
  BY <1>1, <1>2, FS_Subset
<1> QED BY <1>3, FS_CardinalityType DEF Waiting

LEMMA WaitingAppend ==
  ASSUME NEW q \in Seq(Intent), NEW a \in Intent
  PROVE  Waiting(Append(q, a)) = Waiting(q) + Given(a)
<1> DEFINE n == Len(q) + 1
<1>1. IsFiniteSet(Waits(q)) /\ Waiting(q) \in Nat /\ n \notin Waits(q)
  <2>1. n \notin Waits(q)
    BY DEF Waits
  <2> QED BY <2>1, WaitsFinite
<1>2. CASE a \in Preference
  <2>1. Waits(Append(q, a)) = Waits(q) \cup {n}
    BY <1>2 DEF Waits
  <2>2. Cardinality(Waits(q) \cup {n}) = Cardinality(Waits(q)) + 1
    BY <1>1, FS_AddElement
  <2> QED BY <1>2, <2>1, <2>2 DEF Waiting, Given
<1>3. CASE a \notin Preference
  <2>1. Waits(Append(q, a)) = Waits(q)
    BY <1>3 DEF Waits
  <2> QED BY <1>1, <1>3, <2>1 DEF Waiting, Given
<1> QED BY <1>2, <1>3

LEMMA WaitingTail ==
  ASSUME NEW q \in Seq(Intent), q # <<>>
  PROVE  Waiting(q) = Given(Head(q)) + Waiting(Tail(q))
<1> DEFINE S == Waits(Tail(q))
           T == Waits(q) \ {1}
           f == [i \in S |-> i + 1]
<1>1. /\ Tail(q) \in Seq(Intent) /\ Len(Tail(q)) = Len(q) - 1 /\ Len(q) > 0
      /\ \A i \in 1..Len(Tail(q)) : Tail(q)[i] = q[i + 1]
  OBVIOUS
<1>2. \A i : i \in S <=> i \in 1..(Len(q) - 1) /\ q[i + 1] \in Preference
  BY <1>1 DEF Waits
<1>3. \A j : j \in T <=> j \in 2..Len(q) /\ q[j] \in Preference
  BY DEF Waits
<1>4. Cardinality(T) = Waiting(Tail(q)) /\ Waiting(Tail(q)) \in Nat
  <2>1. IsFiniteSet(S) /\ Waiting(Tail(q)) \in Nat
    BY <1>1, WaitsFinite
  <2> HIDE DEF S, T
  <2>2. f \in [S -> T]
    BY <1>1, <1>2, <1>3
  <2>3. \A i, j \in S : f[i] = f[j] => i = j
    BY <1>1, <1>2
  <2>4. \A j \in T : \E i \in S : f[i] = j
    <3> SUFFICES ASSUME NEW j \in T PROVE \E i \in S : f[i] = j
      OBVIOUS
    <3>1. j - 1 \in S /\ f[j - 1] = j
      BY <1>1, <1>2, <1>3
    <3> QED BY <3>1
  <2> HIDE DEF f
  <2>5. f \in Bijection(S, T)
    BY <2>2, <2>3, <2>4, Fun_IsBij
  <2>6. ExistsBijection(S, T)
    BY <2>5, Fun_ExistsBij
  <2> QED BY <2>1, <2>6, FS_Bijection DEF Waiting, S
<1>5. IsFiniteSet(Waits(q)) /\ Waiting(q) \in Nat
  BY WaitsFinite
<1>6. 1 \in Waits(q) <=> Head(q) \in Preference
  BY <1>1 DEF Waits
<1>7. Cardinality(T) = IF 1 \in Waits(q) THEN Waiting(q) - 1 ELSE Waiting(q)
  BY <1>5, FS_RemoveElement DEF Waiting
<1> HIDE DEF T
<1> QED BY <1>4, <1>5, <1>6, <1>7 DEF Given

LEMMA NonePreferred == Given(None) = 0
<1>1. None \notin Preference
  BY MarksAreNoValues DEF Intent
<1> QED BY <1>1 DEF Given

\* What touches neither the mailbox nor the tabs, and goes on or ends.
LEMMA PromisesFrame ==
  ASSUME IInv, Promises, UNCHANGED queueVars, kept' = kept,
         Given(doing') = Given(doing),
         pc' = "stopped" => closing /\ mailbox = <<>>,
         pc' \notin {"acting", "opening", "attaching"} => doing' = None,
         pc' \in {"opening", "attaching"} => doing' \notin Preference
  PROVE  Promises'
<1>1. closing' = closing /\ posting' = posting /\ mailbox' = mailbox /\ promised' = promised
  BY DEF queueVars
<1> QED BY <1>1 DEF Promises

LEMMA PromisesInit == Init => Promises
BY NoneWaits, NonePreferred DEF Init, Promises

LEMMA PromisesRelaunch == Relaunch => Promises'
BY NoneWaits, NonePreferred DEF Relaunch, Promises

LEMMA PromisesQueue == IInv /\ Promises /\ Queue => Promises'
<1> SUFFICES ASSUME IInv, Promises, Queue PROVE Promises'
  OBVIOUS
<1>1. posting \in Intent /\ mailbox \in Seq(Intent) /\ kept \in Nat /\ ~closing
  BY DEF Queue, IInv, QueueOK, LayoutOK, Promises
<1>2. /\ closing' = closing /\ posting' = None /\ pc' = pc /\ doing' = doing /\ kept' = kept
  BY DEF Queue, loopVars, layoutVars
<1>3. pc # "stopped"
  BY <1>1 DEF Promises
<1>4. CASE HasRoom
  <2>1. /\ mailbox' = Append(mailbox, posting)
        /\ promised' = promised + Given(posting)
    BY <1>4 DEF Queue, Given
  <2>2. Waiting(mailbox') = Waiting(mailbox) + Given(posting)
    BY <1>1, <2>1, WaitingAppend
  <2>3. Waiting(mailbox) \in Nat /\ Given(posting) \in Nat /\ Given(doing) \in Nat
    BY <1>1, WaitsFinite DEF Given
  <2>4. promised' = kept' + Waiting(mailbox') + Given(doing')
    BY <1>1, <1>2, <2>1, <2>2, <2>3 DEF Promises
  <2> QED BY <1>2, <1>3, <2>4 DEF Promises
<1>5. CASE ~HasRoom
  <2>1. mailbox' = mailbox /\ promised' = promised
    BY <1>5 DEF Queue
  <2> QED BY <1>2, <2>1 DEF Promises
<1> QED BY <1>4, <1>5

LEMMA PromisesTake == IInv /\ Promises /\ Take => Promises'
<1> SUFFICES ASSUME IInv, Promises, Take PROVE Promises'
  OBVIOUS
<1> DEFINE a == Head(mailbox)
<1>1. /\ mailbox \in Seq(Intent) /\ mailbox # <<>> /\ mailbox' = Tail(mailbox)
      /\ kept' = kept /\ kept \in Nat /\ promised' = promised
      /\ closing' = closing /\ posting' = posting /\ pc \in {"select", "drain"}
  BY DEF Take, IInv, QueueOK, LayoutOK, layoutVars
<1>2. doing = None /\ Given(doing) = 0
  BY <1>1, NonePreferred DEF Promises
<1>3. /\ Waiting(mailbox) = Given(a) + Waiting(mailbox')
      /\ Waiting(mailbox') \in Nat /\ Given(a) \in Nat
  <2>1. Tail(mailbox) \in Seq(Intent)
    BY <1>1
  <2> QED BY <1>1, <2>1, WaitingTail, WaitsFinite DEF Given
<1>4. CASE Drops(a)
  <2>1. doing' = None /\ pc' \in {"drain", "look"}
    BY <1>2, <1>4 DEF Take, Resumes
  <2>2. Given(a) = 0
    BY <1>4 DEF Drops, Given, Preference, Operation
  <2>3. promised' = kept' + Waiting(mailbox') + Given(doing')
    BY <1>1, <1>2, <1>3, <2>1, <2>2 DEF Promises
  <2> QED BY <1>1, <2>1, <2>3 DEF Promises
<1>5. CASE ~Drops(a)
  <2>1. doing' = a /\ pc' = "acting"
    BY <1>5 DEF Take
  <2> HIDE DEF a
  <2>2. promised' = kept' + Waiting(mailbox') + Given(doing')
    BY <1>1, <1>2, <1>3, <2>1 DEF Promises
  <2> QED BY <1>1, <2>1, <2>2 DEF Promises
<1> QED BY <1>4, <1>5

\* Where the end of an intent leaves the loop.
LEMMA AppliedReturns ==
  ASSUME NEW next, NEW failed, Applied(next, failed)
  PROVE  doing' = None /\ pc' \in {"drain", "look"} /\ UNCHANGED queueVars
BY DEF Applied, Settles

LEMMA PromisesFlip == IInv /\ Promises /\ Flip => Promises'
<1> SUFFICES ASSUME IInv, Promises, Flip PROVE Promises'
  OBVIOUS
<1>1. doing' = None /\ pc' \in {"drain", "look"} /\ UNCHANGED queueVars
  BY AppliedReturns DEF Flip
<1>2. kept' = kept + 1 /\ Given(doing) = 1 /\ kept \in Nat
  BY DEF Flip, Given, IInv, LayoutOK
<1>3. Waiting(mailbox) \in Nat /\ Given(doing') = 0
  BY <1>1, WaitsFinite, NonePreferred DEF IInv, QueueOK
<1>4. closing' = closing /\ posting' = posting /\ mailbox' = mailbox /\ promised' = promised
  BY <1>1 DEF queueVars
<1>5. promised' = kept' + Waiting(mailbox') + Given(doing')
  BY <1>2, <1>3, <1>4 DEF Promises
<1> QED BY <1>1, <1>4, <1>5 DEF Promises

LEMMA PromisesArrange == IInv /\ Promises /\ Arrange => Promises'
<1> SUFFICES ASSUME IInv, Promises, Arrange PROVE Promises'
  OBVIOUS
<1>1. doing' = None /\ pc' \in {"drain", "look"} /\ UNCHANGED queueVars /\ kept' = kept
  BY AppliedReturns DEF Arrange
<1>2. Given(doing) = 0
  BY DEF Arrange, Given, Preference
<1> QED BY <1>1, <1>2, NonePreferred, PromisesFrame

LEMMA PromisesToggle == IInv /\ Promises /\ Toggle => Promises'
<1> SUFFICES ASSUME IInv, Promises, Toggle PROVE Promises'
  OBVIOUS
<1>1. UNCHANGED queueVars /\ kept' = kept /\ doing \notin Preference
  BY DEF Toggle, layoutVars, Preference
<1>2. \/ doing' = None /\ pc' = "look"
      \/ doing' = doing /\ pc' = "opening"
  BY DEF Toggle, Settles
<1> QED BY <1>1, <1>2, NonePreferred, PromisesFrame DEF Given

LEMMA PromisesOpens ==
  ASSUME NEW c \in Connections, IInv, Promises, Opens(c) PROVE Promises'
<1>1. UNCHANGED queueVars /\ kept' = kept /\ doing \notin Preference
  BY DEF Opens, layoutVars, Promises
<1>2. \/ doing' = None /\ pc' = "look"
      \/ doing' = doing /\ pc' = "attaching"
  BY DEF Opens, Settles
<1> QED BY <1>1, <1>2, NonePreferred, PromisesFrame DEF Given

LEMMA PromisesSettles ==
  ASSUME IInv, Promises, OpenFails \/ Attach \/ Beat \/ Hear PROVE Promises'
<1>1. UNCHANGED queueVars /\ kept' = kept /\ doing' = None /\ pc' = "look"
  BY DEF OpenFails, Attach, Beat, Hear, layoutVars, Settles
<1>2. doing \notin Preference
  <2>1. None \notin Preference
    BY MarksAreNoValues DEF Intent
  <2> QED BY <2>1 DEF OpenFails, Attach, Beat, Hear, Promises
<1> QED BY <1>1, <1>2, NonePreferred, PromisesFrame DEF Given

LEMMA PromisesLoop ==
  ASSUME IInv, Promises, Start \/ Look \/ Leave \/ Finish PROVE Promises'
<1>1. UNCHANGED queueVars /\ kept' = kept /\ doing' = doing
  BY DEF Start, Look, Leave, Finish, layoutVars
<1>2. pc \in {"start", "look", "select", "drain"} /\ pc' \in {"look", "select", "drain", "stopped"}
  BY DEF Start, Look, Leave, Finish
<1>3. pc' = "stopped" => closing /\ mailbox = <<>>
  BY DEF Start, Look, Leave, Finish, IInv, LinkOK
<1>4. doing = None
  BY <1>2 DEF Promises
<1> QED BY <1>1, <1>2, <1>3, <1>4, PromisesFrame

LEMMA PromisesOthers ==
  ASSUME IInv, Promises, Close \/ Render \/ (\E c \in Connections : Arrives(c)) \/
         (\E a \in Intent : Post(a)) \/ UNCHANGED vars
  PROVE  Promises'
<1>1. /\ pc' = pc /\ doing' = doing /\ kept' = kept
      /\ mailbox' = mailbox /\ promised' = promised
  BY DEF Close, Render, Arrives, Post, vars, loopVars, layoutVars, queueVars
<1>2. \/ closing' = closing /\ posting' = posting
      \/ closing' = TRUE /\ posting' = None
      \/ closing' = FALSE
  BY DEF Close, Render, Arrives, Post, vars, queueVars, IInv, QueueOK
<1>3. pc = "stopped" => closing'
  BY DEF Close, Render, Arrives, Post, vars, queueVars, Promises
<1> QED BY <1>1, <1>2, <1>3 DEF Promises

LEMMA PromisesKept == IInv /\ Promises /\ [Next]_vars => Promises'
<1> SUFFICES ASSUME IInv, Promises, [Next]_vars PROVE Promises'
  OBVIOUS
<1>1. CASE Relaunch \/ Queue \/ Take \/ Flip \/ Arrange \/ Toggle
  BY <1>1, PromisesRelaunch, PromisesQueue, PromisesTake, PromisesFlip, PromisesArrange,
     PromisesToggle
<1>2. CASE OpenFails \/ Attach \/ Beat \/ Hear
  BY <1>2, PromisesSettles
<1>3. CASE Start \/ Look \/ Leave \/ Finish
  BY <1>3, PromisesLoop
<1>4. CASE \E c \in Connections : Opens(c)
  BY <1>4, PromisesOpens
<1>5. CASE Close \/ Render \/ (\E c \in Connections : Arrives(c)) \/
           (\E a \in Intent : Post(a)) \/ UNCHANGED vars
  BY <1>5, PromisesOthers
<1> QED BY <1>1, <1>2, <1>3, <1>4, <1>5 DEF Next, Run

(***************************************************************************)
(* A preference that was accepted has been given to the controller by the  *)
(* time the session is done, for every mailbox and however many intents    *)
(* are posted while it closes (session.go:81).                             *)
(***************************************************************************)
THEOREM AcceptedIsKept == Spec => []AcceptedPreferencesKept
<1>1. Init => Promises
  BY PromisesInit
<1>2. IInv /\ Promises /\ [Next]_vars => Promises'
  BY PromisesKept
<1>3. IInv /\ Promises => AcceptedPreferencesKept
  <2> SUFFICES ASSUME IInv, Promises, pc = "stopped" PROVE kept = promised
    BY DEF AcceptedPreferencesKept
  <2>1. mailbox = <<>> /\ doing = None
    BY DEF Promises
  <2>2. Waiting(mailbox) = 0 /\ Given(doing) = 0
    BY <2>1, NoneWaits, NonePreferred
  <2> QED BY <2>2 DEF Promises, IInv, LayoutOK
<1> QED BY <1>1, <1>2, <1>3, Inductive, PTL DEF Spec

-----------------------------------------------------------------------------
(***************************************************************************)
(* The view.  The channel holds the snapshot published last, or the view   *)
(* has it; and at the top of the loop nothing has changed since.           *)
(***************************************************************************)
Newest ==
  /\ updates = <<>> \/ updates = <<previous>>
  /\ pc = "start" => updates = <<>>
  /\ pc # "start" /\ updates = <<>> => shown = previous

Published ==
  pc \in {"start", "look", "select", "stopped"} => previous = Snapshot(linked, layout)

LEMMA NewestFrame ==
  ASSUME Newest, UNCHANGED viewVars, pc' = "start" <=> pc = "start"
  PROVE  Newest'
BY DEF Newest, viewVars

LEMMA PublishedFrame ==
  ASSUME Published, UNCHANGED viewVars, linked' = linked, layout' = layout,
         pc' \in {"start", "look", "select", "stopped"} =>
           pc \in {"start", "look", "select", "stopped"}
  PROVE  Published'
BY DEF Published, viewVars, Snapshot

LEMMA SettlesTells ==
  ASSUME Newest, NEW c, Settles(c), pc # "start"
  PROVE  Newest' /\ Published'
<1>1. previous' = Snapshot(linked', layout') /\ pc' = "look" /\ shown' = shown
  BY DEF Settles
<1>2. Published'
  BY <1>1 DEF Published, Snapshot
<1>3. CASE previous' # previous
  <2>1. updates' = <<previous'>>
    BY <1>3 DEF Settles, Publish
  <2>2. updates' # <<>>
    BY <2>1
  <2> QED BY <1>1, <1>2, <2>1, <2>2 DEF Newest
<1>4. CASE previous' = previous
  <2>1. updates' = updates
    BY <1>4 DEF Settles
  <2> QED BY <1>1, <1>2, <1>4, <2>1 DEF Newest
<1> QED BY <1>3, <1>4

LEMMA ToldInit == Init => Newest /\ Published
BY DEF Init, Newest, Published

LEMMA ToldRelaunch == Relaunch => Newest' /\ Published'
<1> SUFFICES ASSUME Relaunch PROVE Newest' /\ Published'
  OBVIOUS
<1>1. updates' = <<>> /\ pc' = "start"
  BY DEF Relaunch
<1>2. previous' = Snapshot(linked', layout')
  BY DEF Relaunch, Snapshot
<1> QED BY <1>1, <1>2 DEF Newest, Published, Snapshot

LEMMA ToldRender == Newest /\ Published /\ Render => Newest' /\ Published'
<1> SUFFICES ASSUME Newest, Published, Render PROVE Newest' /\ Published'
  OBVIOUS
<1>1. updates = <<previous>> /\ shown' = previous /\ updates' = <<>> /\ previous' = previous
  BY DEF Render, Newest
<1>2. pc' = pc /\ linked' = linked /\ layout' = layout
  BY DEF Render, loopVars, connVars, layoutVars
<1>3. pc # "start"
  BY DEF Newest, Render
<1> QED BY <1>1, <1>2, <1>3 DEF Newest, Published, Snapshot

LEMMA ToldStart == Newest /\ Published /\ Start => Newest' /\ Published'
<1> SUFFICES ASSUME Newest, Published, Start PROVE Newest' /\ Published'
  OBVIOUS
<1>1. updates' = <<previous>> /\ previous' = previous /\ pc = "start" /\ pc' = "look"
  BY DEF Start, Publish
<1>2. linked' = linked /\ layout' = layout
  BY DEF Start, connVars, layoutVars
<1>3. updates' # <<>>
  BY <1>1
<1> QED BY <1>1, <1>2, <1>3 DEF Newest, Published, Snapshot

LEMMA ToldFinish == Newest /\ Published /\ Finish => Newest' /\ Published'
<1> SUFFICES ASSUME Newest, Published, Finish PROVE Newest' /\ Published'
  OBVIOUS
<1>1. updates' = <<previous'>> /\ previous' = Snapshot(linked, layout) /\ pc' = "stopped"
  BY DEF Finish, Publish
<1>2. linked' = linked /\ layout' = layout
  BY DEF Finish, connVars, layoutVars
<1>3. updates' # <<>>
  BY <1>1
<1> QED BY <1>1, <1>2, <1>3 DEF Newest, Published, Snapshot

LEMMA ToldApplied ==
  ASSUME Newest, Published, pc = "acting", NEW next, NEW failed, Applied(next, failed)
  PROVE  Newest' /\ Published'
<1>1. CASE draining
  <2>1. pc' = "drain" /\ UNCHANGED viewVars
    BY <1>1 DEF Applied
  <2> QED BY <2>1, NewestFrame DEF Published
<1>2. CASE ~draining
  <2>1. Settles(current)
    BY <1>2 DEF Applied
  <2> QED BY <2>1, SettlesTells
<1> QED BY <1>1, <1>2

LEMMA ToldIntent ==
  ASSUME Newest, Published, Flip \/ Arrange PROVE Newest' /\ Published'
<1>1. PICK next, failed : Applied(next, failed)
  BY DEF Flip, Arrange
<1>2. pc = "acting"
  BY DEF Flip, Arrange
<1> QED BY <1>1, <1>2, ToldApplied

LEMMA ToldToggle == Newest /\ Published /\ Toggle => Newest' /\ Published'
<1> SUFFICES ASSUME Newest, Published, Toggle PROVE Newest' /\ Published'
  OBVIOUS
<1>1. CASE linked # None
  BY <1>1, SettlesTells DEF Toggle
<1>2. CASE linked = None
  <2>1. pc = "acting" /\ pc' = "opening" /\ UNCHANGED viewVars
    BY <1>2 DEF Toggle
  <2> QED BY <2>1, NewestFrame DEF Published
<1> QED BY <1>1, <1>2

LEMMA ToldOpens ==
  ASSUME NEW c \in Connections, Newest, Published, Opens(c) PROVE Newest' /\ Published'
<1>1. CASE closing
  BY <1>1, SettlesTells DEF Opens
<1>2. CASE ~closing
  <2>1. pc = "opening" /\ pc' = "attaching" /\ UNCHANGED viewVars
    BY <1>2 DEF Opens
  <2> QED BY <2>1, NewestFrame DEF Published
<1> QED BY <1>1, <1>2

LEMMA ToldSettles ==
  ASSUME Newest, Published, OpenFails \/ Attach \/ Beat \/ Hear
  PROVE  Newest' /\ Published'
<1>1. PICK c : Settles(c)
  BY DEF OpenFails, Attach, Beat, Hear
<1>2. pc # "start"
  BY DEF OpenFails, Attach, Beat, Hear
<1> QED BY <1>1, <1>2, SettlesTells

LEMMA ToldTake == IInv /\ Newest /\ Published /\ Take => Newest' /\ Published'
<1> SUFFICES ASSUME IInv, Newest, Published, Take PROVE Newest' /\ Published'
  OBVIOUS
<1>1. UNCHANGED viewVars /\ layout' = layout /\ pc \in {"select", "drain"}
  BY DEF Take, layoutVars
<1>2. CASE Drops(Head(mailbox))
  <2>1. linked' = linked /\ (IF draining THEN pc' = "drain" ELSE pc' = "look")
    BY <1>2 DEF Take, Stays, Resumes
  <2>2. pc' = "drain" \/ (pc = "select" /\ pc' = "look")
    BY <1>1, <2>1 DEF IInv, LinkOK
  <2> QED BY <1>1, <2>1, <2>2, NewestFrame, PublishedFrame
<1>3. CASE ~Drops(Head(mailbox))
  <2>1. pc' = "acting"
    BY <1>3 DEF Take
  <2> QED BY <1>1, <2>1, NewestFrame DEF Published
<1> QED BY <1>2, <1>3

LEMMA ToldOthers ==
  ASSUME IInv, Newest, Published,
         Look \/ Leave \/ Queue \/ Close \/ (\E c \in Connections : Arrives(c)) \/
         (\E a \in Intent : Post(a)) \/ UNCHANGED vars
  PROVE  Newest' /\ Published'
<1>1. UNCHANGED viewVars /\ layout' = layout
  BY DEF Look, Leave, Queue, Close, Arrives, Post, vars, layoutVars
<1>2. pc' = "start" <=> pc = "start"
  BY DEF Look, Leave, Queue, Close, Arrives, Post, vars, loopVars
<1>3. CASE Leave
  BY <1>1, <1>2, <1>3, NewestFrame DEF Leave, Published
<1>4. CASE ~Leave
  <2>1. linked' = linked
    BY <1>4 DEF Look, Queue, Close, Arrives, Post, vars, connVars
  <2>2. \/ pc' = pc
        \/ pc = "look" /\ pc' = "select"
    BY <1>4 DEF Look, Queue, Close, Arrives, Post, vars, loopVars
  <2> QED BY <1>1, <1>2, <2>1, <2>2, NewestFrame, PublishedFrame
<1> QED BY <1>3, <1>4

LEMMA ToldKept == IInv /\ Newest /\ Published /\ [Next]_vars => Newest' /\ Published'
<1> SUFFICES ASSUME IInv, Newest, Published, [Next]_vars PROVE Newest' /\ Published'
  OBVIOUS
<1>1. CASE Relaunch \/ Render \/ Start \/ Finish \/ Toggle \/ Take
  BY <1>1, ToldRelaunch, ToldRender, ToldStart, ToldFinish, ToldToggle, ToldTake
<1>2. CASE Flip \/ Arrange
  BY <1>2, ToldIntent
<1>3. CASE OpenFails \/ Attach \/ Beat \/ Hear
  BY <1>3, ToldSettles
<1>4. CASE \E c \in Connections : Opens(c)
  BY <1>4, ToldOpens
<1>5. CASE Look \/ Leave \/ Queue \/ Close \/ (\E c \in Connections : Arrives(c)) \/
           (\E a \in Intent : Post(a)) \/ UNCHANGED vars
  BY <1>5, ToldOthers
<1> QED BY <1>1, <1>2, <1>3, <1>4, <1>5 DEF Next, Run

(***************************************************************************)
(* A view that has caught up shows what runs, however many states it was   *)
(* too slow for, and so after the last one (session.go:158).               *)
(***************************************************************************)
THEOREM CaughtUpIsCurrent == Spec => []CaughtUpViewIsCurrent
<1>1. Init => Newest /\ Published
  BY ToldInit
<1>2. IInv /\ Newest /\ Published /\ [Next]_vars => Newest' /\ Published'
  BY ToldKept
<1>3. Newest /\ Published => CaughtUpViewIsCurrent
  BY DEF Newest, Published, CaughtUpViewIsCurrent
<1> QED BY <1>1, <1>2, <1>3, Inductive, PTL DEF Spec
=============================================================================
