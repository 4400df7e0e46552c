-------------------------------- MODULE View --------------------------------
(***************************************************************************)
(* The throttle tabs of src/ui/fyne against the session: gestures change   *)
(* the widgets at once and post intents, snapshots come back later and     *)
(* write over the widgets.  Both queues delay, so the operator acts on old *)
(* states and an old state undoes what the operator did.                   *)
(*                                                                         *)
(* A tab has one function button, whose mode can be changed, a direction   *)
(* switch and a title that can be edited.  The controller is Tabs' with    *)
(* what the view needs of it, and what its commands did to the functions   *)
(* at the station.  Fyne's main goroutine runs a callback to its end: a    *)
(* gesture or a rendering is one step, whatever callbacks nest in it.      *)
(***************************************************************************)
EXTENDS Integers, SequencesExt

CONSTANTS
  Cab,          \* locomotive addresses
  None,
  Capacity,     \* intents the session's mailbox holds
  Latching,     \* c.defaultToggle: the function of a new tab toggles
  MaxGestures,  \* bound: gestures
  MaxLinks,     \* bound: connections made or lost
  MaxPending    \* bound: snapshots the view has not rendered

ASSUME ViewAssumption ==
  /\ None \notin Cab
  /\ Latching \in BOOLEAN
  /\ Capacity \in Nat \ {0} /\ MaxPending \in Nat \ {0}
  /\ {MaxGestures, MaxLinks} \subseteq Nat

VARIABLES
  ui,        \* the widgets, and the mailbox they post to
  ctl,       \* the controller: tabs, sel, dir, online, toggle (the tabs whose
             \* function toggles), held (c.cabs[k].held), and the history of the
             \* station's functions: on, and loose, those that stay on
  pending,   \* snapshots on their way to Render
  gestures,
  links

vars == <<ui, ctl, pending, gestures, links>>

Dir == {"Rev", "Fwd"}
Post(op, k, v) == [op |-> op, cab |-> k, to |-> v]

\* What render reads of a state.
Snapshot(c) == [tabs |-> c.tabs, sel |-> c.sel, dir |-> c.dir, online |-> c.online]

Only(f, S) == [k \in S |-> f[k]]

-----------------------------------------------------------------------------
(***************************************************************************)
(* The callbacks, as functions on the widgets.                             *)
(***************************************************************************)
Full(u) == Len(u.queue) = Capacity

\* View.post: a full mailbox refuses, and a dialog says so.
Posted(u, p) ==
  IF Full(u) THEN [u EXCEPT !.refused = TRUE]
             ELSE [u EXCEPT !.queue = Append(@, p)]

\* The same for one intent after the other.
PostedAll(u, q) ==
  LET room == Capacity - Len(u.queue)
      fitting == IF Len(q) <= room THEN Len(q) ELSE room
  IN [u EXCEPT !.queue = @ \o SubSeq(q, 1, fitting), !.refused = @ \/ fitting < Len(q)]

\* FunctionButton.down and up.
Down(u, k) ==
  IF k \in u.held THEN u
  ELSE Posted([u EXCEPT !.held = @ \cup {k}], Post("press", k, None))

Up(u, k) ==
  IF k \notin u.held THEN u
  ELSE Posted([u EXCEPT !.held = @ \ {k}], Post("release", k, None))

\* Titles that go: every draft is dropped, which ends its edit.
Ended(u, K) ==
  [u EXCEPT !.editing = @ \ K, !.focus = IF @ \in K THEN None ELSE @,
            !.endings = [k \in Cab |-> IF k \in K THEN @[k] + 1 ELSE @[k]]]

\* What the editor holds; "dropped" stands for finish(false).
Typed == {"valid", "invalid"}

\* The rename of a draft is posted: one ending of the edit, unless it is refused.
Renamed(u, k) ==
  IF Full(u) THEN [u EXCEPT !.refused = TRUE]
             ELSE [Posted(u, Post("rename", k, None)) EXCEPT !.endings[k] = @ + 1]

\* FocusLost, which saves: finish(true) of an editor that has no focus to give away.
FocusLost(u, k, draft) ==
  IF k \notin u.editing \/ draft = "invalid" THEN u
  ELSE IF Full(u) THEN Renamed(u, k)
  ELSE [Renamed(u, k) EXCEPT !.editing = @ \ {k}]

\* Variant: the focus is given away while the title is still being edited.
ClosesLate(u, k, draft) ==
  LET left == IF u.focus = k THEN FocusLost([u EXCEPT !.focus = None], k, draft) ELSE u
  IN [left EXCEPT !.editing = @ \ {k}]

\* The editor closes, then gives the focus away, and FocusLost comes back to it.
Closes(u, k, draft) ==
  LET shut == [u EXCEPT !.editing = @ \ {k}, !.focus = IF @ = k THEN None ELSE @]
  IN IF u.focus = k THEN FocusLost(shut, k, draft) ELSE shut

\* locoTabHeader.finish: a draft that is invalid or refused stays in the editor.
Finish(u, k, draft) ==
  IF k \notin u.editing \/ draft = "invalid" THEN u
  ELSE IF draft = "dropped" THEN Closes([u EXCEPT !.endings[k] = @ + 1], k, draft)
  ELSE IF Full(u) THEN Renamed(u, k)
  ELSE Closes(Renamed(u, k), k, draft)

\* OnUnselected.  Variant: nothing is released.
KeepsHolding(u, k) == u

Unselected(u, k) == Up(u, k)

\* Select, by the operator or by a rendering, when OnSelected posts nothing.
Selects(u, k, draft, rendering) ==
  IF k = u.selected \/ k \notin u.items THEN u
  ELSE LET saved == Finish(u, u.selected, draft)
           moved == Unselected([saved EXCEPT !.selected = k], u.selected)
       IN IF rendering THEN moved ELSE Posted(moved, Post("focus", k, None))

\* DirectionSwitch.SetSelected: the thumb follows unless it is dragged.
SetSelected(u, k, d) ==
  [u EXCEPT !.dir[k] = d, !.thumb[k] = IF u.dragging = k THEN @ ELSE d]

Choose(u, k, d) ==
  IF u.dir[k] = d THEN SetSelected(u, k, d)
  ELSE Posted(SetSelected(u, k, d), Post("direction", k, d))

-----------------------------------------------------------------------------
(***************************************************************************)
(* Gestures.  What is on the tab in front can be pressed or dragged, every *)
(* title can be tapped, closed or edited.                                  *)
(***************************************************************************)
Gesture(u) ==
  /\ gestures < MaxGestures /\ gestures' = gestures + 1
  /\ ui' = u
  /\ UNCHANGED <<ctl, pending, links>>

Tap(k) == k \in ui.items /\ \E draft \in Typed : Gesture(Selects(ui, k, draft, FALSE))

Press == Gesture(Down(ui, ui.selected))

Release(k) == k \in ui.held /\ Gesture(Up(ui, k))

\* A right click on the button, whether it is held or not.
Flip == Gesture(Posted(ui, Post("flip", ui.selected, None)))

\* CloseIntercept.
CloseTab(k) == k \in ui.items /\ Gesture(Posted(Up(ui, k), Post("remove", k, None)))

Reassign(j) == Gesture(Posted(ui, Post("replace", ui.selected, j)))

AddTab(j) == Gesture(Posted(ui, Post("add", j, None)))

\* begin: the editor that loses the focus saves.
Edit(k) ==
  /\ k \in ui.items /\ ui.focus # k
  /\ LET begun == IF k \in ui.editing THEN ui
                  ELSE [ui EXCEPT !.editing = @ \cup {k}, !.endings[k] = 0]
         left(draft) == FocusLost([begun EXCEPT !.focus = None], ui.focus, draft)
     IN \E draft \in Typed : Gesture([left(draft) EXCEPT !.focus = k])

\* Return; a click elsewhere; and Escape.
Submit == ui.focus # None /\ \E draft \in Typed : Gesture(Finish(ui, ui.focus, draft))

Leave ==
  /\ ui.focus # None
  /\ \E draft \in Typed : Gesture(FocusLost([ui EXCEPT !.focus = None], ui.focus, draft))

Escape == ui.focus # None /\ Gesture(Finish(ui, ui.focus, "dropped"))

TapDirection(d) ==
  /\ ui.enabled /\ ui.dragging = None
  /\ Gesture(Choose(ui, ui.selected, d))

Drag(d) ==
  /\ ui.enabled /\ ui.dragging \in {None, ui.selected}
  /\ Gesture([ui EXCEPT !.dragging = ui.selected, !.thumb[ui.selected] = d])

\* DragEnd; a switch that was disabled meanwhile drags no more.
DragEnd ==
  /\ ui.dragging # None
  /\ LET k == ui.dragging
     IN Gesture(Choose([ui EXCEPT !.dragging = None], k, ui.thumb[k]))

-----------------------------------------------------------------------------
(***************************************************************************)
(* Render and syncThrottles: panels come and go, the rest is written over, *)
(* then the tab the state calls selected is selected.                      *)
(***************************************************************************)
Panels(u, s) ==
  LET undragged == IF s.online THEN u ELSE
        [u EXCEPT !.dragging = None, !.thumb = u.dir]
      dragged(k) == undragged.dragging = k
  IN [undragged EXCEPT
        !.enabled = s.online,
        !.dir = [k \in s.tabs \cup u.items |-> IF k \in s.tabs THEN s.dir[k] ELSE @[k]],
        !.thumb = [k \in s.tabs \cup u.items |->
                     IF k \notin s.tabs \/ dragged(k) THEN @[k] ELSE s.dir[k]]]

Releases(u, K) == {Post("release", k, None) : k \in u.held \cap K}

\* Panels that go release their buttons, in any order; a drag on one is not followed.
Gone(u, K, order) ==
  [PostedAll(u, order) EXCEPT !.held = @ \ K, !.dragging = IF @ \in K THEN None ELSE @]

\* SetItems: drafts of titles that go are dropped.
SetItems(u, items, front) ==
  [Ended(u, u.editing \ items) EXCEPT
     !.items = items, !.dir = Only(@, items), !.thumb = Only(@, items),
     !.selected = IF @ \in items THEN @ ELSE front]

Synced(u, s, front, order) ==
  SetItems(Gone(Panels(u, s), u.items \ s.tabs, order), s.tabs, front)

\* Variant: the selection is the view's own affair.
RenderedInPlace(u, s, front, order, draft) == Synced(u, s, front, order)

Rendered(u, s, front, order, draft) ==
  Selects(Synced(u, s, front, order), s.sel, draft, TRUE)

Render ==
  /\ pending # <<>> /\ pending' = Tail(pending)
  /\ LET s == Head(pending)
     IN \E front \in s.tabs, order \in SetToSeqs(Releases(ui, ui.items \ s.tabs)),
           draft \in Typed :
          ui' = Rendered(ui, s, front, order, draft)
  /\ UNCHANGED <<ctl, gestures, links>>

-----------------------------------------------------------------------------
(***************************************************************************)
(* The session applies an intent and publishes: what was published last    *)
(* may still be in the channel, and is then replaced.                      *)
(***************************************************************************)
Publish(c) ==
  /\ ctl' = c
  /\ \/ Len(pending) < MaxPending /\ pending' = Append(pending, Snapshot(c))
     \/ pending # <<>> /\ pending' = [pending EXCEPT ![Len(pending)] = Snapshot(c)]

With(c, k, latches) ==
  [c EXCEPT !.tabs = @ \cup {k}, !.sel = k,
            !.dir = [j \in c.tabs \cup {k} |-> IF j = k THEN "Fwd" ELSE @[j]],
            !.toggle = IF latches THEN @ \cup {k} ELSE @]

Without(c, k) ==
  [c EXCEPT !.tabs = @ \ {k}, !.held = @ \ {k}, !.toggle = @ \ {k},
            !.dir = Only(@, c.tabs \ {k})]

(***************************************************************************)
(* Controller.Function.  The function is on while it is held or, where it  *)
(* toggles, from one press to another: then it is loose, and no release is *)
(* to turn it off.                                                         *)
(***************************************************************************)
On(c, k)  == [c EXCEPT !.on = @ \cup {k}, !.loose = @ \ {k}]
Off(c, k) == [c EXCEPT !.on = @ \ {k}, !.loose = @ \ {k}]

Pressed(c, k) ==
  IF k \notin c.toggle THEN {[On(c, k) EXCEPT !.held = @ \cup {k}]}
  ELSE {[On(c, k) EXCEPT !.held = @ \ {k}, !.loose = @ \cup {k}],
        [Off(c, k) EXCEPT !.held = @ \ {k}]}

\* Variant: the mode decides, also over a button that was pressed before it changed.
ReleasedByMode(c, k) ==
  IF k \in c.toggle THEN c ELSE [Off(c, k) EXCEPT !.held = @ \ {k}]

Released(c, k) ==
  IF k \in c.toggle /\ k \notin c.held THEN c ELSE [Off(c, k) EXCEPT !.held = @ \ {k}]

\* Nobody releases at the station what is held in c when its record goes.
Loosed(c, K) == [c EXCEPT !.loose = @ \cup (c.held \cap K)]

\* What an intent makes of the controller; one that fails is logged.
Effects(c, p) ==
  LET k == p.cab
  IN IF k \notin c.tabs /\ p.op # "add" THEN {c}
     ELSE CASE p.op = "focus" -> {[c EXCEPT !.sel = k]}
            [] p.op = "press" -> IF c.online THEN Pressed(c, k) ELSE {c}
            [] p.op = "release" -> {IF c.online THEN Released(c, k) ELSE c}
            [] p.op = "flip" ->
                 {[c EXCEPT !.toggle = IF k \in @ THEN @ \ {k} ELSE @ \cup {k}]}
            [] p.op = "direction" -> {IF c.online THEN [c EXCEPT !.dir[k] = p.to] ELSE c}
            [] p.op = "rename" -> {c}
            [] p.op = "add" -> {IF k \in c.tabs THEN c ELSE With(c, k, Latching)}
            [] p.op = "remove" ->
                 {c} \cup {[Without(c, k) EXCEPT !.sel = IF @ = k THEN j ELSE @] :
                            j \in c.tabs \ {k}}
            [] p.op = "replace" ->
                 {c} \cup {Without(With(Loosed(c, {k}), j, k \in c.toggle), k) :
                            j \in {p.to} \ c.tabs}

\* An intent that finds what it asks for changes, sends and logs nothing.
IsIdle(c, p) ==
  \/ p.op = "focus" /\ p.cab = c.sel
  \/ p.op = "direction" /\ p.cab \in c.tabs /\ p.to = c.dir[p.cab]
  \/ p.op = "replace" /\ p.to = p.cab

Apply ==
  /\ ui.queue # <<>>
  /\ ui' = [ui EXCEPT !.queue = Tail(@)]
  /\ \E c \in Effects(ctl, Head(ui.queue)) :
       IF c = ctl /\ IsIdle(ctl, Head(ui.queue)) THEN UNCHANGED <<ctl, pending>> ELSE Publish(c)
  /\ UNCHANGED <<gestures, links>>

\* The station is connected or lost, or reports a direction.
Link ==
  /\ links < MaxLinks /\ links' = links + 1
  /\ \/ Publish([Loosed(ctl, Cab) EXCEPT !.online = ~@, !.held = {}])
     \/ ctl.online /\ \E k \in ctl.tabs, d \in Dir : Publish([ctl EXCEPT !.dir[k] = d])
  /\ UNCHANGED <<ui, gestures>>

-----------------------------------------------------------------------------
First(k) ==
  [items |-> {k}, selected |-> k, held |-> {}, enabled |-> FALSE,
   dir |-> [j \in {k} |-> "Fwd"], thumb |-> [j \in {k} |-> "Fwd"], dragging |-> None,
   editing |-> {}, focus |-> None, endings |-> [j \in Cab |-> 1],
   queue |-> <<>>, refused |-> FALSE]

Init ==
  /\ \E k \in Cab :
       /\ ui = First(k)
       /\ \E toggle \in SUBSET {k} :
            ctl = [tabs |-> {k}, sel |-> k, held |-> {}, dir |-> [j \in {k} |-> "Fwd"],
                   online |-> FALSE, toggle |-> toggle, on |-> {}, loose |-> {}]
  /\ pending = <<Snapshot(ctl)>>
  /\ gestures = 0 /\ links = 0

Next ==
  \/ Press \/ Flip \/ Submit \/ Leave \/ Escape \/ DragEnd \/ Render \/ Apply \/ Link
  \/ \E k \in Cab : Tap(k) \/ Release(k) \/ CloseTab(k) \/ Reassign(k) \/ AddTab(k) \/ Edit(k)
  \/ \E d \in Dir : TapDirection(d) \/ Drag(d)

Spec == Init /\ [][Next]_vars

-----------------------------------------------------------------------------
(***************************************************************************)
(* A button that cannot be seen is not held: the tab was left, closed or   *)
(* reassigned, by the operator or by a state that came late.               *)
(***************************************************************************)
HiddenHoldsNothing == ui.held \subseteq {ui.selected}

Quiet == ui.queue = <<>> /\ pending = <<>> /\ ~ui.refused

(***************************************************************************)
(* When nothing is on its way, and nothing was refused, the view shows the *)
(* tabs there are, in front the one that is selected, and of each the      *)
(* direction: whatever was tapped, dragged or undone on the way.           *)
(***************************************************************************)
QuietViewIsTrue ==
  Quiet =>
    /\ ui.items = ctl.tabs /\ ui.selected = ctl.sel /\ ui.dir = ctl.dir
    /\ \A k \in ui.items : ui.dragging # k => ui.thumb[k] = ui.dir[k]

(***************************************************************************)
(* When nothing is on its way, and nothing was refused, a function that is *)
(* on at the station is on because its button is held, or is loose: it was *)
(* switched on in toggle mode, or it was held when its tab was reassigned  *)
(* or the connection changed, and it was not pressed or released since.    *)
(* Changing the mode, closing the tab, leaving it, or a late state that    *)
(* does so, turns off what is held.                                        *)
(***************************************************************************)
NoStuckFunction == Quiet => ctl.on \ ctl.loose \subseteq ui.held

(***************************************************************************)
(* An edit of a title ends in one of two ways and once: one rename of it   *)
(* was accepted, or it was given up; closing its editor loses the focus,   *)
(* which saves, but not a second time.  An editor whose draft was refused, *)
(* or is invalid, is still open.                                           *)
(***************************************************************************)
EditsEndOnce == \A k \in Cab : ui.endings[k] = (IF k \in ui.editing THEN 0 ELSE 1)
=============================================================================
