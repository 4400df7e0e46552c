----------------------------- MODULE ViewProofs -----------------------------
(***************************************************************************)
(* Theorems about View.tla, for every number of tabs, every mailbox and    *)
(* every bound.  The callbacks are functions on the widgets that call each *)
(* other, so what is invariant is stated of the widgets u and a controller *)
(* c, and each callback is shown to keep it before the gestures are.       *)
(***************************************************************************)
EXTENDS View, FiniteSetTheorems, SequenceTheorems, TLAPS

Intent ==
  [op : {"press", "release", "focus", "rename", "add", "remove", "flip"},
   cab : Cab, to : {None}]
    \cup [op : {"direction"}, cab : Cab, to : Dir]
    \cup [op : {"replace"}, cab : Cab, to : Cab]

Fields ==
  {"items", "selected", "held", "enabled", "dir", "thumb", "dragging",
   "editing", "focus", "endings", "queue", "refused"}

\* The tabs: one is in front, and only its button is held.
TabsOK(u) ==
  /\ DOMAIN u = Fields
  /\ u.items \in SUBSET Cab /\ u.selected \in u.items
  /\ u.held \subseteq {u.selected}

\* The direction switches: a thumb that is not dragged is where the switch is.
SwitchesOK(u) ==
  /\ u.enabled \in BOOLEAN
  /\ u.dir \in [u.items -> Dir] /\ u.thumb \in [u.items -> Dir]
  /\ u.dragging \in u.items \cup {None}
  /\ \A k \in u.items : u.dragging # k => u.thumb[k] = u.dir[k]

\* The editors: the focus is in one that is open, and those that are not ended once.
EditorsOK(u) ==
  /\ u.editing \subseteq u.items /\ u.focus \in u.editing \cup {None}
  /\ u.endings \in [Cab -> Nat]
  /\ \A k \in Cab : u.endings[k] = (IF k \in u.editing THEN 0 ELSE 1)

MailboxOK(u) ==
  u.queue \in Seq(Intent) /\ Len(u.queue) <= Capacity /\ u.refused \in BOOLEAN

UiOK(u) == TabsOK(u) /\ SwitchesOK(u) /\ EditorsOK(u) /\ MailboxOK(u)

(***************************************************************************)
(* The view shows c, or owes it something: an intent was refused, or one   *)
(* that waits is not idle, and the first such one makes the session        *)
(* publish.                                                                *)
(***************************************************************************)
True(u, c) == u.items = c.tabs /\ u.selected = c.sel /\ u.dir = c.dir

Owes(u, c) == u.refused \/ \E i \in DOMAIN u.queue : ~IsIdle(c, u.queue[i])

Honest(u, c) == Owes(u, c) \/ True(u, c)

(***************************************************************************)
(* No button holds the function of k once n intents of the queue q have    *)
(* been applied where h are held: a release is among them, or k is not in  *)
(* h, and no press comes after that.                                       *)
(***************************************************************************)
FreedBy(q, n, k, h) ==
  \E i \in 0..n :
    /\ IF i = 0 THEN k \notin h ELSE q[i] = Post("release", k, None)
    /\ \A j \in (i + 1)..n : q[j] # Post("press", k, None)

Freed(q, k, h) == FreedBy(q, Len(q), k, h)

\* What is on at the station is held or loose.
Justified(c) == c.on \ c.loose \subseteq c.held

\* A tab is not closed before its button was let go.
Clean(q, h) ==
  \A n \in 1..Len(q) : q[n].op = "remove" => FreedBy(q, n - 1, q[n].cab, h)

Frees(u, k, c) == u.refused \/ Freed(u.queue, k, c.held)

\* Every function that is on is held or loose, and no close comes before a release.
Accounts(u, c) == u.refused \/ (Justified(c) /\ Clean(u.queue, c.held))

LetsGo(u, c) == Accounts(u, c) /\ \A k \in Cab : k \notin u.held => Frees(u, k, c)

\* What a callback keeps when it takes u to v.
Keeps(u, v, c) ==
  UiOK(v) /\ (Honest(u, c) => Honest(v, c)) /\ (LetsGo(u, c) => LetsGo(v, c))

-----------------------------------------------------------------------------
(***************************************************************************)
(* The mailbox.                                                            *)
(***************************************************************************)
LEMMA FreedAppend ==
  ASSUME NEW q \in Seq(Intent), NEW p \in Intent, NEW k, NEW h, Freed(q, k, h),
         p # Post("press", k, None)
  PROVE  Freed(Append(q, p), k, h)
<1>1. PICK i \in 0..Len(q) :
        /\ IF i = 0 THEN k \notin h ELSE q[i] = Post("release", k, None)
        /\ \A j \in (i + 1)..Len(q) : q[j] # Post("press", k, None)
  BY DEF Freed, FreedBy
<1>2. /\ Len(Append(q, p)) = Len(q) + 1 /\ Len(q) \in Nat
      /\ Append(q, p)[Len(q) + 1] = p
      /\ \A j \in 1..Len(q) : Append(q, p)[j] = q[j]
  OBVIOUS
<1>3. i \in 0..Len(Append(q, p))
  BY <1>2
<1>4. IF i = 0 THEN k \notin h ELSE Append(q, p)[i] = Post("release", k, None)
  BY <1>1, <1>2
<1>5. \A j \in (i + 1)..Len(Append(q, p)) : Append(q, p)[j] # Post("press", k, None)
  BY <1>1, <1>2
<1> QED BY <1>3, <1>4, <1>5 DEF Freed, FreedBy

LEMMA FreedRelease ==
  ASSUME NEW q \in Seq(Intent), NEW k, NEW h, Post("release", k, None) \in Intent
  PROVE  Freed(Append(q, Post("release", k, None)), k, h)
<1> DEFINE r == Append(q, Post("release", k, None))
<1>1. Len(r) = Len(q) + 1 /\ Len(q) \in Nat /\ r[Len(q) + 1] = Post("release", k, None)
  OBVIOUS
<1> HIDE DEF r
<1>2. Len(q) + 1 \in 0..Len(r) /\ Len(q) + 1 # 0
  BY <1>1
<1>3. \A j \in (Len(q) + 1 + 1)..Len(r) : r[j] # Post("press", k, None)
  BY <1>1
<1>4. Freed(r, k, h)
  BY <1>1, <1>2, <1>3 DEF Freed, FreedBy
<1> QED BY <1>4 DEF r

\* Applying the first intent, which leaves the functions g held.
LEMMA FreedByTail ==
  ASSUME NEW q \in Seq(Intent), q # <<>>, NEW n \in 1..Len(q), NEW k, NEW h, NEW g,
         FreedBy(q, n, k, h),
         Head(q) = Post("release", k, None) => k \notin g,
         Head(q) # Post("press", k, None) /\ k \notin h => k \notin g
  PROVE  FreedBy(Tail(q), n - 1, k, g)
<1>1. PICK i \in 0..n :
        /\ IF i = 0 THEN k \notin h ELSE q[i] = Post("release", k, None)
        /\ \A j \in (i + 1)..n : q[j] # Post("press", k, None)
  BY DEF FreedBy
<1>2. /\ Len(Tail(q)) = Len(q) - 1 /\ Len(q) \in Nat /\ Len(q) > 0
      /\ \A j \in 1..(Len(q) - 1) : Tail(q)[j] = q[j + 1]
      /\ Head(q) = q[1] /\ n \in Nat /\ 1 <= n /\ n <= Len(q)
  OBVIOUS
<1>3. CASE i > 1
  <2>1. i - 1 \in 0..(n - 1) /\ i - 1 # 0 /\ Tail(q)[i - 1] = Post("release", k, None)
    BY <1>1, <1>2, <1>3
  <2>2. \A j \in (i - 1 + 1)..(n - 1) : Tail(q)[j] # Post("press", k, None)
    BY <1>1, <1>2, <1>3
  <2> QED BY <2>1, <2>2 DEF FreedBy
<1>4. CASE i \in {0, 1}
  <2>1. k \notin g
    BY <1>1, <1>2, <1>4
  <2>2. 0 \in 0..(n - 1)
    BY <1>2
  <2>3. \A j \in (0 + 1)..(n - 1) : Tail(q)[j] # Post("press", k, None)
    BY <1>1, <1>2, <1>4
  <2> QED BY <2>1, <2>2, <2>3 DEF FreedBy
<1> QED BY <1>3, <1>4

LEMMA CleanAppend ==
  ASSUME NEW q \in Seq(Intent), NEW p \in Intent, NEW h, Clean(q, h),
         p.op = "remove" => Freed(q, p.cab, h)
  PROVE  Clean(Append(q, p), h)
<1> DEFINE r == Append(q, p)
<1>1. /\ Len(r) = Len(q) + 1 /\ Len(q) \in Nat /\ r[Len(q) + 1] = p
      /\ \A j \in 1..Len(q) : r[j] = q[j]
  OBVIOUS
<1> HIDE DEF r
<1>2. ASSUME NEW n \in 1..Len(r), r[n].op = "remove" PROVE FreedBy(r, n - 1, r[n].cab, h)
  <2>1. FreedBy(q, n - 1, r[n].cab, h)
    <3>1. CASE n \in 1..Len(q)
      BY <1>1, <1>2, <3>1 DEF Clean
    <3>2. CASE n = Len(q) + 1
      <4>1. r[n] = p /\ n - 1 = Len(q)
        BY <1>1, <3>2
      <4> QED BY <1>2, <4>1 DEF Freed
    <3> QED BY <1>1, <3>1, <3>2
  <2>2. \A j \in 1..(n - 1) : r[j] = q[j]
    BY <1>1
  <2>3. n - 1 \in Nat
    BY <1>1
  <2> QED BY <2>1, <2>2, <2>3 DEF FreedBy
<1>3. Clean(r, h)
  BY <1>2 DEF Clean
<1> QED BY <1>3 DEF r

LEMMA PostedIs ==
  ASSUME NEW u, DOMAIN u = Fields, NEW p
  PROVE  LET v == Posted(u, p)
         IN /\ DOMAIN v = Fields /\ v.items = u.items /\ v.selected = u.selected
            /\ v.held = u.held /\ v.enabled = u.enabled /\ v.dir = u.dir
            /\ v.thumb = u.thumb /\ v.dragging = u.dragging /\ v.editing = u.editing
            /\ v.focus = u.focus /\ v.endings = u.endings
            /\ Full(u) => v.queue = u.queue /\ v.refused = TRUE
            /\ ~Full(u) => v.queue = Append(u.queue, p) /\ v.refused = u.refused
<1>1. CASE Full(u)
  BY <1>1 DEF Posted, Fields
<1>2. CASE ~Full(u)
  BY <1>2 DEF Posted, Fields
<1> QED BY <1>1, <1>2

LEMMA PostedMailbox ==
  ASSUME NEW u, DOMAIN u = Fields, MailboxOK(u), NEW p \in Intent
  PROVE  MailboxOK(Posted(u, p))
<1> DEFINE v == Posted(u, p)
<1>1. CASE Full(u)
  <2>1. v.queue = u.queue /\ v.refused = TRUE
    BY <1>1, PostedIs
  <2> QED BY <2>1 DEF MailboxOK
<1>2. CASE ~Full(u)
  <2>1. v.queue = Append(u.queue, p) /\ v.refused = u.refused
    BY <1>2, PostedIs
  <2>2. /\ u.queue \in Seq(Intent) /\ Len(u.queue) < Capacity
    BY <1>2, ViewAssumption DEF MailboxOK, Full
  <2>3. Append(u.queue, p) \in Seq(Intent) /\ Len(Append(u.queue, p)) = Len(u.queue) + 1
    BY <2>2
  <2>4. Len(v.queue) <= Capacity
    BY <2>1, <2>2, <2>3, ViewAssumption
  <2> QED BY <2>1, <2>3, <2>4 DEF MailboxOK
<1> QED BY <1>1, <1>2

LEMMA PostedOwes ==
  ASSUME NEW u, DOMAIN u = Fields, MailboxOK(u), NEW p \in Intent, NEW c,
         Owes(u, c) \/ ~IsIdle(c, p)
  PROVE  Owes(Posted(u, p), c)
<1> DEFINE v == Posted(u, p)
<1>1. CASE Full(u)
  <2>1. v.refused = TRUE
    BY <1>1, PostedIs
  <2> QED BY <2>1 DEF Owes
<1>2. CASE ~Full(u)
  <2>1. v.queue = Append(u.queue, p) /\ v.refused = u.refused
    BY <1>2, PostedIs
  <2>2. u.queue \in Seq(Intent)
    BY DEF MailboxOK
  <2> DEFINE q == u.queue
  <2> HIDE DEF v, q
  <2>3. /\ q \in Seq(Intent) /\ v.queue = Append(q, p)
        /\ DOMAIN Append(q, p) = 1..(Len(q) + 1) /\ DOMAIN q = 1..Len(q) /\ Len(q) \in Nat
        /\ Append(q, p)[Len(q) + 1] = p
        /\ \A i \in 1..Len(q) : Append(q, p)[i] = q[i]
    BY <2>1, <2>2 DEF q
  <2>4. CASE u.refused
    BY <2>1, <2>4 DEF Owes, v
  <2>5. CASE ~IsIdle(c, p)
    <3>1. Len(q) + 1 \in DOMAIN v.queue /\ v.queue[Len(q) + 1] = p
      BY <2>3
    <3>2. ~IsIdle(c, v.queue[Len(q) + 1])
      BY <2>5, <3>1
    <3> QED BY <3>1, <3>2 DEF Owes, v
  <2>6. CASE \E i \in DOMAIN u.queue : ~IsIdle(c, u.queue[i])
    <3>1. PICK i \in DOMAIN q : ~IsIdle(c, q[i])
      BY <2>6 DEF q
    <3>2. i \in DOMAIN v.queue /\ v.queue[i] = q[i]
      BY <2>3, <3>1
    <3>3. ~IsIdle(c, v.queue[i])
      BY <3>1, <3>2
    <3> QED BY <3>2, <3>3 DEF Owes, v
  <2> QED BY <2>4, <2>5, <2>6 DEF Owes
<1> QED BY <1>1, <1>2

LEMMA PostedFrees ==
  ASSUME NEW u, DOMAIN u = Fields, MailboxOK(u), NEW p \in Intent, NEW c, NEW k,
         \/ Frees(u, k, c) /\ p # Post("press", k, None)
         \/ p = Post("release", k, None)
  PROVE  Frees(Posted(u, p), k, c)
<1>1. CASE Full(u)
  <2>1. Posted(u, p).refused = TRUE
    BY <1>1, PostedIs
  <2> QED BY <2>1 DEF Frees
<1>2. CASE ~Full(u)
  <2>1. Posted(u, p).queue = Append(u.queue, p) /\ Posted(u, p).refused = u.refused
    BY <1>2, PostedIs
  <2>2. u.queue \in Seq(Intent)
    BY DEF MailboxOK
  <2>3. CASE p = Post("release", k, None)
    BY <2>1, <2>2, <2>3, FreedRelease DEF Frees
  <2>4. CASE Frees(u, k, c) /\ p # Post("press", k, None)
    BY <2>1, <2>2, <2>4, FreedAppend DEF Frees
  <2> QED BY <2>3, <2>4
<1> QED BY <1>1, <1>2

LEMMA PostedAccounts ==
  ASSUME NEW u, DOMAIN u = Fields, MailboxOK(u), NEW p \in Intent, NEW c, Accounts(u, c),
         p.op = "remove" => Frees(u, p.cab, c)
  PROVE  Accounts(Posted(u, p), c)
<1>1. CASE Full(u)
  <2>1. Posted(u, p).refused = TRUE
    BY <1>1, PostedIs
  <2> QED BY <2>1 DEF Accounts
<1>2. CASE ~Full(u)
  <2>1. Posted(u, p).queue = Append(u.queue, p) /\ Posted(u, p).refused = u.refused
    BY <1>2, PostedIs
  <2>2. u.queue \in Seq(Intent)
    BY DEF MailboxOK
  <2>3. CASE u.refused
    BY <2>1, <2>3 DEF Accounts
  <2>4. CASE ~u.refused
    <3>1. Clean(Append(u.queue, p), c.held)
      BY <2>2, <2>4, CleanAppend DEF Accounts, Frees
    <3> QED BY <2>1, <3>1 DEF Accounts
  <2> QED BY <2>3, <2>4
<1> QED BY <1>1, <1>2

-----------------------------------------------------------------------------
(***************************************************************************)
(* Callbacks that touch a part of the widgets only.                        *)
(***************************************************************************)
SameTabs(u, v) == v.items = u.items /\ v.selected = u.selected /\ v.held = u.held

SameSwitches(u, v) ==
  v.enabled = u.enabled /\ v.dir = u.dir /\ v.thumb = u.thumb /\ v.dragging = u.dragging

SameEditors(u, v) == v.editing = u.editing /\ v.focus = u.focus /\ v.endings = u.endings

SameMailbox(u, v) == v.queue = u.queue /\ v.refused = u.refused

LEMMA SwitchesFrame ==
  ASSUME NEW u, NEW v, SwitchesOK(u), SameSwitches(u, v), v.items = u.items
  PROVE  SwitchesOK(v)
BY DEF SwitchesOK, SameSwitches

LEMMA EditorsFrame ==
  ASSUME NEW u, NEW v, EditorsOK(u), SameEditors(u, v), v.items = u.items
  PROVE  EditorsOK(v)
BY DEF EditorsOK, SameEditors

LEMMA MailboxFrame ==
  ASSUME NEW u, NEW v, SameMailbox(u, v), NEW c
  PROVE  /\ MailboxOK(u) => MailboxOK(v)
         /\ Owes(u, c) => Owes(v, c)
         /\ Accounts(u, c) => Accounts(v, c)
         /\ \A k : Frees(u, k, c) => Frees(v, k, c)
BY DEF MailboxOK, SameMailbox, Owes, Frees, Accounts

LEMMA TrueFrame ==
  ASSUME NEW u, NEW v, NEW c, True(u, c), v.items = u.items, v.selected = u.selected,
         v.dir = u.dir
  PROVE  True(v, c)
BY DEF True

LEMMA IntentIs ==
  ASSUME NEW k \in Cab
  PROVE  /\ \A op \in {"press", "release", "focus", "rename", "add", "remove", "flip"} :
              Post(op, k, None) \in Intent
         /\ \A d \in Dir : Post("direction", k, d) \in Intent
         /\ \A j \in Cab : Post("replace", k, j) \in Intent
BY DEF Post, Intent

LEMMA PostedParts ==
  ASSUME NEW u, DOMAIN u = Fields, NEW p
  PROVE  /\ DOMAIN Posted(u, p) = Fields /\ SameTabs(u, Posted(u, p))
         /\ SameSwitches(u, Posted(u, p)) /\ SameEditors(u, Posted(u, p))
<1>1. CASE Full(u)
  BY <1>1 DEF Posted, Fields, SameTabs, SameSwitches, SameEditors
<1>2. CASE ~Full(u)
  BY <1>2 DEF Posted, Fields, SameTabs, SameSwitches, SameEditors
<1> QED BY <1>1, <1>2

\* An intent other than a press, and a tab is closed when its button is up.
LEMMA PostedKeeps ==
  ASSUME NEW u, UiOK(u), NEW p \in Intent, p.op # "press",
         p.op = "remove" => p.cab \notin u.held, NEW c
  PROVE  Keeps(u, Posted(u, p), c)
<1> DEFINE v == Posted(u, p)
<1>1. /\ DOMAIN u = Fields /\ MailboxOK(u)
  BY DEF UiOK, TabsOK
<1>2. DOMAIN v = Fields /\ SameTabs(u, v) /\ SameSwitches(u, v) /\ SameEditors(u, v)
  BY <1>1, PostedParts
<1>3. MailboxOK(v)
  BY <1>1, PostedMailbox
<1>4. Owes(u, c) => Owes(v, c)
  BY <1>1, PostedOwes
<1>5. \A k : Frees(u, k, c) => Frees(v, k, c)
  <2> SUFFICES ASSUME NEW k, Frees(u, k, c) PROVE Frees(v, k, c)
    OBVIOUS
  <2>1. p # Post("press", k, None)
    BY DEF Post
  <2> QED BY <1>1, <2>1, PostedFrees
<1> HIDE DEF v
<1>6. UiOK(v)
  BY <1>2, <1>3, SwitchesFrame, EditorsFrame DEF UiOK, TabsOK, SameTabs
<1>7. Honest(u, c) => Honest(v, c)
  BY <1>2, <1>4, TrueFrame DEF Honest, SameTabs, SameSwitches
<1>8. LetsGo(u, c) => Accounts(v, c)
  <2>1. p.cab \in Cab
    BY DEF Intent
  <2>2. LetsGo(u, c) => Accounts(u, c) /\ (p.op = "remove" => Frees(u, p.cab, c))
    BY <2>1 DEF LetsGo
  <2> QED BY <1>1, <2>2, PostedAccounts DEF v
<1>9. LetsGo(u, c) => LetsGo(v, c)
  BY <1>2, <1>5, <1>8 DEF LetsGo, SameTabs
<1> QED BY <1>6, <1>7, <1>9 DEF Keeps, v

LEMMA NothingKeeps == ASSUME NEW u, UiOK(u), NEW c PROVE Keeps(u, u, c)
BY DEF Keeps

LEMMA KeepsTwice ==
  ASSUME NEW u, NEW v, NEW w, NEW c, Keeps(u, v, c), Keeps(v, w, c)
  PROVE  Keeps(u, w, c)
BY DEF Keeps

-----------------------------------------------------------------------------
(***************************************************************************)
(* The buttons.                                                            *)
(***************************************************************************)
LEMMA DownKeeps ==
  ASSUME NEW u, UiOK(u), NEW c PROVE Keeps(u, Down(u, u.selected), c)
<1> DEFINE k == u.selected
           h == [u EXCEPT !.held = @ \cup {k}]
           p == Post("press", k, None)
           v == Posted(h, p)
<1>1. CASE k \in u.held
  BY <1>1, NothingKeeps DEF Down
<1>2. CASE k \notin u.held
  <2>1. Down(u, k) = v
    BY <1>2 DEF Down
  <2>2. k \in Cab /\ p \in Intent
    BY IntentIs DEF UiOK, TabsOK
  <2>3. /\ DOMAIN h = Fields /\ h.items = u.items /\ h.selected = u.selected
        /\ h.held = u.held \cup {k} /\ SameSwitches(u, h) /\ SameEditors(u, h)
        /\ SameMailbox(u, h)
    BY DEF UiOK, TabsOK, Fields, SameSwitches, SameEditors, SameMailbox
  <2> HIDE DEF h
  <2>4. /\ MailboxOK(h) /\ (Owes(u, c) => Owes(h, c)) /\ (Accounts(u, c) => Accounts(h, c))
        /\ \A j : Frees(u, j, c) => Frees(h, j, c)
    BY <2>3, MailboxFrame DEF UiOK
  <2>5. /\ DOMAIN v = Fields /\ SameTabs(h, v) /\ SameSwitches(h, v) /\ SameEditors(h, v)
    BY <2>3, PostedParts
  <2>6. MailboxOK(v) /\ (Owes(u, c) => Owes(v, c)) /\ (Accounts(u, c) => Accounts(v, c))
    <3>1. p.op # "remove"
      BY DEF Post
    <3> QED BY <2>2, <2>3, <2>4, <3>1, PostedMailbox, PostedOwes, PostedAccounts
  <2>7. \A j : j # k /\ Frees(u, j, c) => Frees(v, j, c)
    <3> SUFFICES ASSUME NEW j, j # k, Frees(u, j, c) PROVE Frees(v, j, c)
      OBVIOUS
    <3>1. p # Post("press", j, None)
      BY DEF Post
    <3> QED BY <2>2, <2>3, <2>4, <3>1, PostedFrees
  <2> HIDE DEF v
  <2>8. TabsOK(v)
    BY <2>3, <2>5 DEF UiOK, TabsOK, SameTabs
  <2>9. SwitchesOK(v) /\ EditorsOK(v)
    BY <2>3, <2>5 DEF UiOK, SwitchesOK, EditorsOK, SameTabs, SameSwitches, SameEditors
  <2>10. Honest(u, c) => Honest(v, c)
    BY <2>3, <2>5, <2>6, TrueFrame DEF Honest, SameTabs, SameSwitches
  <2>11. LetsGo(u, c) => LetsGo(v, c)
    BY <2>3, <2>5, <2>6, <2>7 DEF LetsGo, SameTabs
  <2> QED BY <2>1, <2>6, <2>8, <2>9, <2>10, <2>11 DEF Keeps, UiOK
<1> QED BY <1>1, <1>2

\* A release, whatever tab is in front.
LEMMA UpIs ==
  ASSUME NEW u, DOMAIN u = Fields, MailboxOK(u), NEW k \in Cab, NEW c
  PROVE  LET v == Up(u, k)
         IN /\ DOMAIN v = Fields /\ v.items = u.items /\ v.selected = u.selected
            /\ v.held = u.held \ {k} /\ SameSwitches(u, v) /\ SameEditors(u, v)
            /\ MailboxOK(v) /\ (Owes(u, c) => Owes(v, c))
            /\ LetsGo(u, c) => LetsGo(v, c)
<1> DEFINE h == [u EXCEPT !.held = @ \ {k}]
           p == Post("release", k, None)
           v == Posted(h, p)
<1>1. CASE k \notin u.held
  <2>1. Up(u, k) = u /\ u.held = u.held \ {k}
    BY <1>1 DEF Up
  <2> QED BY <2>1 DEF SameSwitches, SameEditors
<1>2. CASE k \in u.held
  <2>1. Up(u, k) = v
    BY <1>2 DEF Up
  <2>2. p \in Intent
    BY IntentIs
  <2>3. /\ DOMAIN h = Fields /\ h.items = u.items /\ h.selected = u.selected
        /\ h.held = u.held \ {k} /\ SameSwitches(u, h) /\ SameEditors(u, h)
        /\ SameMailbox(u, h)
    BY DEF Fields, SameSwitches, SameEditors, SameMailbox
  <2> HIDE DEF h
  <2>4. /\ MailboxOK(h) /\ (Owes(u, c) => Owes(h, c)) /\ (Accounts(u, c) => Accounts(h, c))
        /\ \A j : Frees(u, j, c) => Frees(h, j, c)
    BY <2>3, MailboxFrame
  <2>5. /\ DOMAIN v = Fields /\ SameTabs(h, v) /\ SameSwitches(h, v) /\ SameEditors(h, v)
    BY <2>3, PostedParts
  <2>6. MailboxOK(v) /\ (Owes(u, c) => Owes(v, c)) /\ (Accounts(u, c) => Accounts(v, c))
    <3>1. p.op # "remove"
      BY DEF Post
    <3> QED BY <2>2, <2>3, <2>4, <3>1, PostedMailbox, PostedOwes, PostedAccounts
  <2>7. \A j : Frees(u, j, c) => Frees(v, j, c)
    <3> SUFFICES ASSUME NEW j, Frees(u, j, c) PROVE Frees(v, j, c)
      OBVIOUS
    <3>1. p # Post("press", j, None)
      BY DEF Post
    <3> QED BY <2>2, <2>3, <2>4, <3>1, PostedFrees
  <2>8. Frees(v, k, c)
    BY <2>2, <2>3, <2>4, PostedFrees
  <2> HIDE DEF v
  <2>9. LetsGo(u, c) => LetsGo(v, c)
    BY <2>3, <2>5, <2>6, <2>7, <2>8 DEF LetsGo, SameTabs
  <2>10. SameSwitches(u, v) /\ SameEditors(u, v)
    BY <2>3, <2>5 DEF SameSwitches, SameEditors
  <2> QED BY <2>1, <2>3, <2>5, <2>6, <2>9, <2>10 DEF SameTabs
<1> QED BY <1>1, <1>2

LEMMA UpKeeps ==
  ASSUME NEW u, UiOK(u), NEW k \in Cab, NEW c PROVE Keeps(u, Up(u, k), c)
<1> DEFINE v == Up(u, k)
<1>1. DOMAIN u = Fields /\ MailboxOK(u)
  BY DEF UiOK, TabsOK
<1>2. /\ DOMAIN v = Fields /\ v.items = u.items /\ v.selected = u.selected
      /\ v.held = u.held \ {k} /\ SameSwitches(u, v) /\ SameEditors(u, v)
      /\ MailboxOK(v) /\ (Owes(u, c) => Owes(v, c))
      /\ LetsGo(u, c) => LetsGo(v, c)
  BY <1>1, UpIs
<1> HIDE DEF v
<1>3. UiOK(v)
  BY <1>2, SwitchesFrame, EditorsFrame DEF UiOK, TabsOK
<1>4. Honest(u, c) => Honest(v, c)
  BY <1>2, TrueFrame DEF Honest, SameSwitches
<1> QED BY <1>2, <1>3, <1>4 DEF Keeps, v

-----------------------------------------------------------------------------
(***************************************************************************)
(* The editors.                                                            *)
(***************************************************************************)
LEMMA EndedIs ==
  ASSUME NEW u, DOMAIN u = Fields, EditorsOK(u), NEW K \in SUBSET u.editing
  PROVE  LET v == Ended(u, K)
         IN /\ DOMAIN v = Fields /\ SameTabs(u, v) /\ SameSwitches(u, v)
            /\ SameMailbox(u, v) /\ v.editing = u.editing \ K /\ EditorsOK(v)
<1> DEFINE v == Ended(u, K)
           e == [k \in Cab |-> IF k \in K THEN u.endings[k] + 1 ELSE u.endings[k]]
<1>1. /\ DOMAIN v = Fields /\ SameTabs(u, v) /\ SameSwitches(u, v) /\ SameMailbox(u, v)
      /\ v.editing = u.editing \ K /\ v.focus = (IF u.focus \in K THEN None ELSE u.focus)
      /\ v.endings = e
  BY DEF Ended, Fields, SameTabs, SameSwitches, SameMailbox
<1> HIDE DEF v
<1>2. e \in [Cab -> Nat]
  BY DEF EditorsOK
<1>3. \A k \in Cab : e[k] = (IF k \in v.editing THEN 0 ELSE 1)
  <2> SUFFICES ASSUME NEW k \in Cab PROVE e[k] = (IF k \in v.editing THEN 0 ELSE 1)
    OBVIOUS
  <2>1. u.endings[k] \in Nat /\ u.endings[k] = (IF k \in u.editing THEN 0 ELSE 1)
    BY DEF EditorsOK
  <2>2. CASE k \in K
    BY <1>1, <2>1, <2>2
  <2>3. CASE k \notin K
    BY <1>1, <2>1, <2>3
  <2> QED BY <2>2, <2>3
<1> HIDE DEF e
<1>4. v.editing \subseteq v.items /\ v.focus \in v.editing \cup {None}
  BY <1>1 DEF EditorsOK, SameTabs
<1>5. EditorsOK(v)
  BY <1>1, <1>2, <1>3, <1>4 DEF EditorsOK
<1> QED BY <1>1, <1>5 DEF v

(***************************************************************************)
(* What changes only the editors keeps the rest.                           *)
(***************************************************************************)
LEMMA EditorsKeep ==
  ASSUME NEW u, UiOK(u), NEW v, DOMAIN v = Fields, SameTabs(u, v), SameSwitches(u, v),
         SameMailbox(u, v), EditorsOK(v), NEW c
  PROVE  Keeps(u, v, c)
<1>1. /\ MailboxOK(v) /\ (Owes(u, c) => Owes(v, c)) /\ (Accounts(u, c) => Accounts(v, c))
      /\ \A k : Frees(u, k, c) => Frees(v, k, c)
  BY MailboxFrame DEF UiOK
<1>2. UiOK(v)
  BY <1>1, SwitchesFrame DEF UiOK, TabsOK, SameTabs
<1>3. Honest(u, c) => Honest(v, c)
  BY <1>1, TrueFrame DEF Honest, SameTabs, SameSwitches
<1>4. LetsGo(u, c) => LetsGo(v, c)
  BY <1>1 DEF LetsGo, SameTabs
<1> QED BY <1>2, <1>3, <1>4 DEF Keeps

\* An edit that ends, in whichever way.
LEMMA EndedOnce ==
  ASSUME NEW u, EditorsOK(u), NEW k \in Cab, k \in u.editing, NEW v, v.items = u.items,
         v.editing = u.editing \ {k}, v.focus = (IF u.focus = k THEN None ELSE u.focus),
         v.endings = [u.endings EXCEPT ![k] = @ + 1]
  PROVE  EditorsOK(v)
<1> DEFINE e == [u.endings EXCEPT ![k] = @ + 1]
<1>1. u.endings \in [Cab -> Nat] /\ \A j \in Cab : u.endings[j] = (IF j \in u.editing THEN 0 ELSE 1)
  BY DEF EditorsOK
<1>2. e \in [Cab -> Nat] /\ e[k] = u.endings[k] + 1 /\ \A j \in Cab : j # k => e[j] = u.endings[j]
  BY <1>1
<1> HIDE DEF e
<1>3. \A j \in Cab : e[j] = (IF j \in v.editing THEN 0 ELSE 1)
  <2> SUFFICES ASSUME NEW j \in Cab PROVE e[j] = (IF j \in v.editing THEN 0 ELSE 1)
    OBVIOUS
  <2>1. CASE j = k
    BY <1>1, <1>2, <2>1
  <2>2. CASE j # k
    BY <1>1, <1>2, <2>2
  <2> QED BY <2>1, <2>2
<1>4. v.editing \subseteq v.items /\ v.focus \in v.editing \cup {None}
  BY DEF EditorsOK
<1>5. v.endings = e
  BY DEF e
<1> QED BY <1>2, <1>3, <1>4, <1>5 DEF EditorsOK

\* The focus that an editor gives away finds it closed.
LEMMA ClosesIs ==
  ASSUME NEW u, DOMAIN u = Fields, NEW k, NEW draft
  PROVE  LET v == Closes(u, k, draft)
         IN /\ DOMAIN v = Fields /\ SameTabs(u, v) /\ SameSwitches(u, v)
            /\ SameMailbox(u, v) /\ v.endings = u.endings /\ v.editing = u.editing \ {k}
            /\ v.focus = (IF u.focus = k THEN None ELSE u.focus)
<1> DEFINE shut == [u EXCEPT !.editing = @ \ {k}, !.focus = IF @ = k THEN None ELSE @]
<1>1. /\ DOMAIN shut = Fields /\ SameTabs(u, shut) /\ SameSwitches(u, shut)
      /\ SameMailbox(u, shut) /\ shut.endings = u.endings
      /\ shut.editing = u.editing \ {k}
      /\ shut.focus = (IF u.focus = k THEN None ELSE u.focus)
  BY DEF Fields, SameTabs, SameSwitches, SameMailbox
<1>2. Closes(u, k, draft) = (IF u.focus = k THEN FocusLost(shut, k, draft) ELSE shut)
  BY DEF Closes
<1> HIDE DEF shut
<1>3. FocusLost(shut, k, draft) = shut
  BY <1>1 DEF FocusLost
<1> QED BY <1>1, <1>2, <1>3

\* A rename that is accepted, and the editor closed.
LEMMA SavedKeeps ==
  ASSUME NEW u, UiOK(u), NEW k, k \in u.editing, ~Full(u), NEW v, DOMAIN v = Fields,
         LET w == Renamed(u, k)
         IN /\ SameTabs(w, v) /\ SameSwitches(w, v) /\ SameMailbox(w, v)
            /\ v.endings = w.endings /\ v.editing = w.editing \ {k}
            /\ v.focus = (IF w.focus = k THEN None ELSE w.focus),
         NEW c
  PROVE  /\ Keeps(u, v, c) /\ SameTabs(u, v) /\ SameSwitches(u, v)
         /\ Owes(u, c) => Owes(v, c)
<1> DEFINE p == Post("rename", k, None)
           b == Posted(u, p)
           w == Renamed(u, k)
<1>1. k \in Cab /\ DOMAIN u = Fields /\ MailboxOK(u) /\ EditorsOK(u)
  BY DEF UiOK, TabsOK, EditorsOK
<1>2. p \in Intent /\ p.op = "rename"
  BY <1>1, IntentIs DEF Post
<1>3. /\ Keeps(u, b, c) /\ DOMAIN b = Fields /\ SameTabs(u, b) /\ SameSwitches(u, b)
      /\ SameEditors(u, b) /\ (Owes(u, c) => Owes(b, c))
  BY <1>1, <1>2, PostedKeeps, PostedParts, PostedOwes
<1>4. w = [b EXCEPT !.endings[k] = @ + 1]
  BY DEF Renamed
<1> HIDE DEF b, w
<1>5. /\ SameTabs(b, w) /\ SameSwitches(b, w) /\ SameMailbox(b, w)
      /\ w.editing = b.editing /\ w.focus = b.focus
      /\ w.endings = [b.endings EXCEPT ![k] = @ + 1]
  BY <1>3, <1>4 DEF Fields, SameTabs, SameSwitches, SameMailbox
<1>6. /\ SameTabs(w, v) /\ SameSwitches(w, v) /\ SameMailbox(w, v)
      /\ v.endings = w.endings /\ v.editing = w.editing \ {k}
      /\ v.focus = (IF w.focus = k THEN None ELSE w.focus)
  BY DEF w
<1>7. SameTabs(b, v) /\ SameSwitches(b, v) /\ SameMailbox(b, v)
  BY <1>5, <1>6 DEF SameTabs, SameSwitches, SameMailbox
<1>8. EditorsOK(v)
  <2>1. EditorsOK(b) /\ k \in b.editing /\ v.items = b.items
    BY <1>1, <1>3, <1>7, EditorsFrame DEF SameTabs, SameEditors
  <2>2. /\ v.editing = b.editing \ {k} /\ v.focus = (IF b.focus = k THEN None ELSE b.focus)
        /\ v.endings = [b.endings EXCEPT ![k] = @ + 1]
    BY <1>5, <1>6
  <2> QED BY <1>1, <2>1, <2>2, EndedOnce
<1>9. UiOK(b)
  BY <1>3 DEF Keeps
<1>10. Keeps(b, v, c)
  BY <1>7, <1>8, <1>9, EditorsKeep
<1>11. Keeps(u, v, c)
  BY <1>3, <1>10, KeepsTwice
<1>12. Owes(b, c) => Owes(v, c)
  BY <1>7, MailboxFrame
<1> QED BY <1>3, <1>7, <1>11, <1>12 DEF SameTabs, SameSwitches

\* A rename that is refused.
LEMMA RefusedKeeps ==
  ASSUME NEW u, UiOK(u), NEW k, k \in u.editing, Full(u), NEW c
  PROVE  LET v == Renamed(u, k)
         IN /\ Keeps(u, v, c) /\ SameTabs(u, v) /\ SameSwitches(u, v) /\ SameEditors(u, v)
            /\ Owes(u, c) => Owes(v, c)
<1> DEFINE p == Post("rename", k, None)
<1>1. k \in Cab /\ DOMAIN u = Fields /\ MailboxOK(u)
  BY DEF UiOK, TabsOK, EditorsOK
<1>2. p \in Intent /\ p.op = "rename"
  BY <1>1, IntentIs DEF Post
<1>3. Renamed(u, k) = Posted(u, p)
  BY DEF Renamed, Posted
<1> HIDE DEF p
<1> QED BY <1>1, <1>2, <1>3, PostedKeeps, PostedParts, PostedOwes

\* An editor that lost the focus.
LEMMA FocusLostKeeps ==
  ASSUME NEW u, UiOK(u), u.focus = None, NEW k, NEW draft \in Typed, NEW c
  PROVE  LET v == FocusLost(u, k, draft)
         IN Keeps(u, v, c) /\ u.editing \ {k} \subseteq v.editing
<1>1. CASE k \notin u.editing \/ draft = "invalid"
  BY <1>1, NothingKeeps DEF FocusLost
<1>2. CASE k \in u.editing /\ draft # "invalid" /\ Full(u)
  <2>1. FocusLost(u, k, draft) = Renamed(u, k)
    BY <1>2 DEF FocusLost
  <2> QED BY <1>2, <2>1, RefusedKeeps DEF SameEditors
<1>3. CASE k \in u.editing /\ draft # "invalid" /\ ~Full(u)
  <2> DEFINE w == Renamed(u, k)
             v == [w EXCEPT !.editing = @ \ {k}]
  <2>1. FocusLost(u, k, draft) = v
    BY <1>3 DEF FocusLost
  <2>2. DOMAIN w = Fields /\ w.focus = None /\ w.editing = u.editing
    <3> DEFINE b == Posted(u, Post("rename", k, None))
    <3>1. w = [b EXCEPT !.endings[k] = @ + 1]
      BY <1>3 DEF Renamed
    <3>2. DOMAIN b = Fields /\ SameEditors(u, b)
      BY PostedParts DEF UiOK, TabsOK
    <3> HIDE DEF b, w
    <3> QED BY <3>1, <3>2 DEF Fields, SameEditors
  <2> HIDE DEF w
  <2>4. /\ DOMAIN v = Fields /\ SameTabs(w, v) /\ SameSwitches(w, v) /\ SameMailbox(w, v)
        /\ v.endings = w.endings /\ v.editing = w.editing \ {k} /\ v.focus = w.focus
    BY <2>2 DEF Fields, SameTabs, SameSwitches, SameMailbox
  <2> HIDE DEF v
  <2>5. v.focus = (IF w.focus = k THEN None ELSE w.focus)
    BY <2>2, <2>4
  <2>6. Keeps(u, v, c)
    BY <1>3, <2>4, <2>5, SavedKeeps DEF w
  <2> QED BY <2>1, <2>2, <2>4, <2>6
<1> QED BY <1>1, <1>2, <1>3

LEMMA FinishKeeps ==
  ASSUME NEW u, UiOK(u), NEW k, NEW draft \in Typed \cup {"dropped"}, NEW c
  PROVE  LET v == Finish(u, k, draft)
         IN /\ Keeps(u, v, c) /\ SameTabs(u, v) /\ SameSwitches(u, v)
            /\ Owes(u, c) => Owes(v, c)
<1>1. CASE k \notin u.editing \/ draft = "invalid"
  BY <1>1, NothingKeeps DEF Finish, SameTabs, SameSwitches
<1>2. CASE k \in u.editing /\ draft = "dropped"
  <2> DEFINE w == [u EXCEPT !.endings[k] = @ + 1]
             v == Closes(w, k, draft)
  <2>1. Finish(u, k, draft) = v
    BY <1>2 DEF Finish
  <2>2. /\ DOMAIN w = Fields /\ SameTabs(u, w) /\ SameSwitches(u, w) /\ SameMailbox(u, w)
        /\ w.editing = u.editing /\ w.focus = u.focus
        /\ w.endings = [u.endings EXCEPT ![k] = @ + 1]
    BY DEF UiOK, TabsOK, Fields, SameTabs, SameSwitches, SameMailbox
  <2> HIDE DEF w
  <2>3. /\ DOMAIN v = Fields /\ SameTabs(w, v) /\ SameSwitches(w, v)
        /\ SameMailbox(w, v) /\ v.endings = w.endings /\ v.editing = w.editing \ {k}
        /\ v.focus = (IF w.focus = k THEN None ELSE w.focus)
    BY <2>2, ClosesIs
  <2> HIDE DEF v
  <2>4. SameTabs(u, v) /\ SameSwitches(u, v) /\ SameMailbox(u, v)
    BY <2>2, <2>3 DEF SameTabs, SameSwitches, SameMailbox
  <2>5. EditorsOK(v)
    <3>1. k \in Cab /\ EditorsOK(u) /\ v.items = u.items
      BY <1>2, <2>4 DEF UiOK, TabsOK, EditorsOK, SameTabs
    <3> QED BY <1>2, <2>2, <2>3, <3>1, EndedOnce
  <2>6. Keeps(u, v, c) /\ (Owes(u, c) => Owes(v, c))
    BY <2>3, <2>4, <2>5, EditorsKeep, MailboxFrame
  <2> QED BY <2>1, <2>4, <2>6
<1>3. CASE k \in u.editing /\ draft \notin {"dropped", "invalid"} /\ Full(u)
  <2>1. Finish(u, k, draft) = Renamed(u, k)
    BY <1>3 DEF Finish
  <2> QED BY <1>3, <2>1, RefusedKeeps
<1>4. CASE k \in u.editing /\ draft \notin {"dropped", "invalid"} /\ ~Full(u)
  <2> DEFINE w == Renamed(u, k)
             v == Closes(w, k, draft)
  <2>1. Finish(u, k, draft) = v
    BY <1>4 DEF Finish
  <2>2. DOMAIN w = Fields
    <3>1. w = [Posted(u, Post("rename", k, None)) EXCEPT !.endings[k] = @ + 1]
      BY <1>4 DEF Renamed
    <3>2. DOMAIN Posted(u, Post("rename", k, None)) = Fields
      BY PostedParts DEF UiOK, TabsOK
    <3> HIDE DEF w
    <3> QED BY <3>1, <3>2
  <2> HIDE DEF w
  <2>3. /\ DOMAIN v = Fields /\ SameTabs(w, v) /\ SameSwitches(w, v)
        /\ SameMailbox(w, v) /\ v.endings = w.endings /\ v.editing = w.editing \ {k}
        /\ v.focus = (IF w.focus = k THEN None ELSE w.focus)
    BY <2>2, ClosesIs
  <2> HIDE DEF v
  <2>4. /\ Keeps(u, v, c) /\ SameTabs(u, v) /\ SameSwitches(u, v)
        /\ Owes(u, c) => Owes(v, c)
    BY <1>4, <2>3, SavedKeeps DEF w
  <2> QED BY <2>1, <2>4
<1> QED BY <1>1, <1>2, <1>3, <1>4

-----------------------------------------------------------------------------
(***************************************************************************)
(* The tabs: the one that is left saves its title and releases its button. *)
(***************************************************************************)
LEMMA MovedIs ==
  ASSUME NEW u, UiOK(u), NEW k \in u.items, k # u.selected, NEW draft \in Typed, NEW c
  PROVE  LET saved == Finish(u, u.selected, draft)
             v == Unselected([saved EXCEPT !.selected = k], u.selected)
         IN /\ UiOK(v) /\ v.items = u.items /\ v.selected = k /\ SameSwitches(u, v)
            /\ Owes(u, c) => Owes(v, c)
            /\ LetsGo(u, c) => LetsGo(v, c)
<1> DEFINE s == Finish(u, u.selected, draft)
           w == [s EXCEPT !.selected = k]
           v == Up(w, u.selected)
<1>1. /\ Keeps(u, s, c) /\ SameTabs(u, s) /\ SameSwitches(u, s) /\ (Owes(u, c) => Owes(s, c))
  BY FinishKeeps
<1> HIDE DEF s
<1>2. UiOK(s) /\ DOMAIN s = Fields
  BY <1>1 DEF Keeps, UiOK, TabsOK
<1>3. /\ DOMAIN w = Fields /\ w.items = s.items /\ w.selected = k /\ w.held = s.held
      /\ SameSwitches(s, w) /\ SameEditors(s, w) /\ SameMailbox(s, w)
  BY <1>2 DEF Fields, SameSwitches, SameEditors, SameMailbox
<1> HIDE DEF w
<1>4. /\ MailboxOK(w) /\ (Owes(s, c) => Owes(w, c)) /\ (Accounts(s, c) => Accounts(w, c))
      /\ \A j : Frees(s, j, c) => Frees(w, j, c)
  BY <1>2, <1>3, MailboxFrame DEF UiOK
<1>5. LetsGo(s, c) => LetsGo(w, c)
  BY <1>3, <1>4 DEF LetsGo
<1>6. u.selected \in Cab
  BY DEF UiOK, TabsOK
<1>7. /\ DOMAIN v = Fields /\ v.items = w.items /\ v.selected = w.selected
      /\ v.held = w.held \ {u.selected} /\ SameSwitches(w, v) /\ SameEditors(w, v)
      /\ MailboxOK(v) /\ (Owes(w, c) => Owes(v, c))
      /\ LetsGo(w, c) => LetsGo(v, c)
  BY <1>3, <1>4, <1>6, UpIs
<1> HIDE DEF v
<1>8. TabsOK(v)
  <2>1. v.items = u.items /\ v.selected = k
    BY <1>1, <1>3, <1>7 DEF SameTabs
  <2>2. v.held \subseteq {k}
    BY <1>1, <1>3, <1>7 DEF SameTabs, UiOK, TabsOK
  <2> QED BY <1>7, <2>1, <2>2 DEF UiOK, TabsOK
<1>9. SwitchesOK(v) /\ EditorsOK(v)
  <2>1. SwitchesOK(w) /\ EditorsOK(w)
    BY <1>2, <1>3, SwitchesFrame, EditorsFrame DEF UiOK
  <2> QED BY <1>7, <2>1, SwitchesFrame, EditorsFrame
<1>10. v.items = u.items /\ v.selected = k /\ SameSwitches(u, v)
  BY <1>1, <1>3, <1>7 DEF SameTabs, SameSwitches
<1>11. (Owes(u, c) => Owes(v, c)) /\ (LetsGo(u, c) => LetsGo(v, c))
  BY <1>1, <1>4, <1>5, <1>7 DEF Keeps
<1>12. UiOK(v)
  BY <1>7, <1>8, <1>9 DEF UiOK
<1> QED BY <1>10, <1>11, <1>12 DEF v, w, s, Unselected

\* By a rendering.
LEMMA SelectsRendering ==
  ASSUME NEW u, UiOK(u), NEW k \in u.items, NEW draft \in Typed, NEW c
  PROVE  LET v == Selects(u, k, draft, TRUE)
         IN /\ UiOK(v) /\ v.items = u.items /\ v.selected = k /\ v.dir = u.dir
            /\ Owes(u, c) => Owes(v, c)
            /\ LetsGo(u, c) => LetsGo(v, c)
<1>1. CASE k = u.selected
  BY <1>1 DEF Selects
<1>2. CASE k # u.selected
  <2> DEFINE s == Finish(u, u.selected, draft)
             v == Unselected([s EXCEPT !.selected = k], u.selected)
  <2>1. Selects(u, k, draft, TRUE) = v
    BY <1>2 DEF Selects
  <2>2. /\ UiOK(v) /\ v.items = u.items /\ v.selected = k /\ SameSwitches(u, v)
        /\ Owes(u, c) => Owes(v, c)
        /\ LetsGo(u, c) => LetsGo(v, c)
    BY <1>2, MovedIs
  <2> HIDE DEF v
  <2> QED BY <2>1, <2>2 DEF SameSwitches
<1> QED BY <1>1, <1>2

\* By the operator: the session is told.
LEMMA SelectsKeeps ==
  ASSUME NEW u, UiOK(u), NEW k, NEW draft \in Typed, NEW c
  PROVE  Keeps(u, Selects(u, k, draft, FALSE), c)
<1>1. CASE k = u.selected \/ k \notin u.items
  BY <1>1, NothingKeeps DEF Selects
<1>2. CASE k # u.selected /\ k \in u.items
  <2> DEFINE s == Finish(u, u.selected, draft)
             v == Unselected([s EXCEPT !.selected = k], u.selected)
             p == Post("focus", k, None)
             w == Posted(v, p)
  <2>1. Selects(u, k, draft, FALSE) = w
    BY <1>2 DEF Selects
  <2>2. /\ UiOK(v) /\ v.items = u.items /\ v.selected = k
        /\ Owes(u, c) => Owes(v, c)
        /\ LetsGo(u, c) => LetsGo(v, c)
    BY <1>2, MovedIs
  <2> HIDE DEF v
  <2>3. p \in Intent /\ p.op = "focus" /\ p.cab = k
    <3>1. k \in Cab
      BY <1>2 DEF UiOK, TabsOK
    <3> QED BY <3>1, IntentIs DEF Post
  <2>4. Keeps(v, w, c)
    BY <2>2, <2>3, PostedKeeps
  <2>5. Honest(u, c) => Owes(w, c)
    <3>1. True(u, c) => ~IsIdle(c, p)
      BY <1>2, <2>3 DEF True, IsIdle
    <3>2. Owes(v, c) \/ ~IsIdle(c, p) => Owes(w, c)
      BY <2>2, <2>3, PostedOwes DEF UiOK, TabsOK
    <3> QED BY <2>2, <3>1, <3>2 DEF Honest
  <2> HIDE DEF w
  <2> QED BY <2>1, <2>2, <2>4, <2>5 DEF Keeps, Honest
<1> QED BY <1>1, <1>2

-----------------------------------------------------------------------------
(***************************************************************************)
(* The direction switch: a drag that ends leaves the thumb somewhere, and  *)
(* the choice puts it right.                                               *)
(***************************************************************************)
SwitchesBut(u, k) ==
  /\ u.enabled \in BOOLEAN
  /\ u.dir \in [u.items -> Dir] /\ u.thumb \in [u.items -> Dir]
  /\ u.dragging \in u.items \cup {None} /\ u.dragging # k
  /\ \A j \in u.items : j # k /\ u.dragging # j => u.thumb[j] = u.dir[j]

LEMMA SetSelectedIs ==
  ASSUME NEW u, DOMAIN u = Fields, NEW k \in u.items, NEW d \in Dir, SwitchesBut(u, k)
  PROVE  LET v == SetSelected(u, k, d)
         IN /\ DOMAIN v = Fields /\ SameTabs(u, v) /\ SameEditors(u, v)
            /\ SameMailbox(u, v) /\ SwitchesOK(v)
            /\ v.dir = [u.dir EXCEPT ![k] = d]
<1> DEFINE v == SetSelected(u, k, d)
<1>1. /\ DOMAIN v = Fields /\ SameTabs(u, v) /\ SameEditors(u, v) /\ SameMailbox(u, v)
      /\ v.enabled = u.enabled /\ v.dragging = u.dragging
      /\ v.dir = [u.dir EXCEPT ![k] = d] /\ v.thumb = [u.thumb EXCEPT ![k] = d]
  BY DEF SetSelected, Fields, SameTabs, SameEditors, SameMailbox, SwitchesBut
<1> HIDE DEF v
<1>2. v.items = u.items
  BY <1>1 DEF SameTabs
<1>3. v.dir \in [v.items -> Dir] /\ v.thumb \in [v.items -> Dir]
  BY <1>1, <1>2 DEF SwitchesBut
<1>4. \A j \in v.items : v.dragging # j => v.thumb[j] = v.dir[j]
  BY <1>1, <1>2 DEF SwitchesBut
<1>5. SwitchesOK(v)
  BY <1>1, <1>2, <1>3, <1>4 DEF SwitchesOK, SwitchesBut
<1> QED BY <1>1, <1>5 DEF v

LEMMA ChooseKeeps ==
  ASSUME NEW u, TabsOK(u), EditorsOK(u), MailboxOK(u), NEW k \in u.items, NEW d \in Dir,
         SwitchesBut(u, k), NEW c
  PROVE  Keeps(u, Choose(u, k, d), c)
<1> DEFINE s == SetSelected(u, k, d)
           p == Post("direction", k, d)
           v == Posted(s, p)
<1>1. /\ DOMAIN s = Fields /\ SameTabs(u, s) /\ SameEditors(u, s) /\ SameMailbox(u, s)
      /\ SwitchesOK(s) /\ s.dir = [u.dir EXCEPT ![k] = d]
  BY SetSelectedIs DEF TabsOK
<1> HIDE DEF s
<1>2. UiOK(s)
  BY <1>1, EditorsFrame, MailboxFrame DEF UiOK, TabsOK, SameTabs
<1>3. /\ (Owes(u, c) => Owes(s, c)) /\ (Accounts(u, c) => Accounts(s, c))
      /\ \A j : Frees(u, j, c) => Frees(s, j, c)
  BY <1>1, MailboxFrame
<1>4. LetsGo(u, c) => LetsGo(s, c)
  BY <1>1, <1>3 DEF LetsGo, SameTabs
<1>5. CASE u.dir[k] = d
  <2>1. Choose(u, k, d) = s
    BY <1>5 DEF Choose, s
  <2>2. s.dir = u.dir
    BY <1>1, <1>5 DEF SwitchesBut
  <2>3. Honest(u, c) => Honest(s, c)
    BY <1>1, <1>3, <2>2, TrueFrame DEF Honest, SameTabs
  <2> QED BY <1>2, <1>4, <2>1, <2>3 DEF Keeps
<1>6. CASE u.dir[k] # d
  <2>1. Choose(u, k, d) = v
    BY <1>6 DEF Choose, s
  <2>2. p \in Intent /\ p.op = "direction" /\ p.cab = k /\ p.to = d
    <3>1. k \in Cab
      BY DEF TabsOK
    <3> QED BY <3>1, IntentIs DEF Post
  <2>3. Keeps(s, v, c)
    BY <1>2, <2>2, PostedKeeps
  <2>4. Honest(u, c) => Owes(v, c)
    <3>1. True(u, c) => ~IsIdle(c, p)
      BY <1>6, <2>2 DEF True, IsIdle
    <3>2. Owes(s, c) \/ ~IsIdle(c, p) => Owes(v, c)
      BY <1>2, <2>2, PostedOwes DEF UiOK, TabsOK
    <3> QED BY <1>3, <3>1, <3>2 DEF Honest
  <2> HIDE DEF v
  <2> QED BY <1>4, <2>1, <2>3, <2>4 DEF Keeps, Honest
<1> QED BY <1>5, <1>6

-----------------------------------------------------------------------------
(***************************************************************************)
(* Rendering.                                                              *)
(***************************************************************************)
StateOK(s) ==
  /\ s.tabs \in SUBSET Cab /\ s.sel \in s.tabs
  /\ s.dir \in [s.tabs -> Dir] /\ s.online \in BOOLEAN

LEMMA OrderIs ==
  ASSUME NEW S, NEW n \in Nat, Cardinality(S) = n, NEW order \in SetToSeqs(S)
  PROVE  order \in Seq(S) /\ Len(order) = n
<1>1. order \in [1..n -> S]
  BY DEF SetToSeqs
<1> QED BY <1>1

LEMMA OrderOfNone ==
  ASSUME NEW order \in SetToSeqs({}) PROVE order = <<>>
<1>1. Cardinality({}) = 0
  BY FS_EmptySet
<1>2. order \in Seq({}) /\ Len(order) = 0
  BY <1>1, OrderIs
<1> QED BY <1>2, EmptySeq

LEMMA OrderOfOne ==
  ASSUME NEW x, NEW order \in SetToSeqs({x}) PROVE order = <<x>>
<1>1. Cardinality({x}) = 1
  BY FS_Singleton
<1>2. order \in Seq({x}) /\ Len(order) = 1
  BY <1>1, OrderIs
<1> QED BY <1>2

LEMMA PostedNone ==
  ASSUME NEW u, DOMAIN u = Fields, MailboxOK(u)
  PROVE  LET v == PostedAll(u, <<>>)
         IN /\ DOMAIN v = Fields /\ SameTabs(u, v) /\ SameSwitches(u, v)
            /\ SameEditors(u, v) /\ SameMailbox(u, v)
<1> DEFINE v == PostedAll(u, <<>>)
<1>1. u.queue \in Seq(Intent) /\ Len(u.queue) <= Capacity /\ Capacity \in Nat
  BY ViewAssumption DEF MailboxOK
<1>2. Len(<<>>) = 0 /\ Len(<<>>) <= Capacity - Len(u.queue)
  BY <1>1
<1>3. SubSeq(<<>>, 1, 0) = <<>>
  OBVIOUS
<1>4. u.queue \o <<>> = u.queue
  BY <1>1
<1>5. v = [u EXCEPT !.queue = @ \o SubSeq(<<>>, 1, 0), !.refused = @ \/ 0 < 0]
  BY <1>2 DEF PostedAll
<1>6. v.queue = u.queue \o <<>>
  BY <1>3, <1>5 DEF Fields
<1>7. v.refused = (u.refused \/ 0 < 0)
  BY <1>5 DEF Fields
<1>8. v.refused = u.refused
  BY <1>7 DEF MailboxOK
<1>9. /\ DOMAIN v = Fields /\ SameTabs(u, v) /\ SameSwitches(u, v) /\ SameEditors(u, v)
  BY <1>5 DEF Fields, SameTabs, SameSwitches, SameEditors
<1> QED BY <1>4, <1>6, <1>8, <1>9 DEF SameMailbox

LEMMA PostedOne ==
  ASSUME NEW u, DOMAIN u = Fields, MailboxOK(u), NEW p \in Intent
  PROVE  LET v == PostedAll(u, <<p>>)
         IN /\ DOMAIN v = Fields /\ SameTabs(u, v) /\ SameSwitches(u, v)
            /\ SameEditors(u, v) /\ SameMailbox(Posted(u, p), v)
<1> DEFINE v == PostedAll(u, <<p>>)
<1>1. u.queue \in Seq(Intent) /\ Len(u.queue) <= Capacity /\ Capacity \in Nat /\ Len(u.queue) \in Nat
  BY ViewAssumption DEF MailboxOK
<1>2. Len(<<p>>) = 1 /\ SubSeq(<<p>>, 1, 1) = <<p>> /\ SubSeq(<<p>>, 1, 0) = <<>>
  <2>1. <<p>> \in Seq(Intent) /\ Len(<<p>>) = 1
    OBVIOUS
  <2>2. SubSeq(<<p>>, 1, 1) = <<p>>
    BY <2>1, SubSeqFull
  <2>3. SubSeq(<<p>>, 1, 0) = <<>>
    BY <2>1, SubSeqEmpty
  <2> QED BY <2>1, <2>2, <2>3
<1>3. u.queue \o <<>> = u.queue /\ u.queue \o <<p>> = Append(u.queue, p)
  BY <1>1
<1>4. /\ DOMAIN v = Fields /\ SameTabs(u, v) /\ SameSwitches(u, v) /\ SameEditors(u, v)
  BY DEF PostedAll, Fields, SameTabs, SameSwitches, SameEditors
<1>5. CASE Full(u)
  <2>1. Capacity - Len(u.queue) = 0
    BY <1>1, <1>5 DEF Full
  <2>2. (IF Len(<<p>>) <= 0 THEN Len(<<p>>) ELSE 0) = 0 /\ (0 < Len(<<p>>)) = TRUE
    BY <1>2
  <2>3. v = [u EXCEPT !.queue = @ \o SubSeq(<<p>>, 1, 0), !.refused = @ \/ 0 < Len(<<p>>)]
    BY <2>1, <2>2 DEF PostedAll
  <2>4. v.queue = u.queue \o <<>>
    BY <1>2, <2>3 DEF Fields
  <2>5. v.refused = (u.refused \/ 0 < Len(<<p>>))
    BY <2>3 DEF Fields
  <2>6. v.queue = u.queue /\ v.refused = TRUE
    BY <1>3, <2>2, <2>4, <2>5
  <2> QED BY <1>4, <1>5, <2>6, PostedIs DEF SameMailbox
<1>6. CASE ~Full(u)
  <2>1. 1 <= Capacity - Len(u.queue)
    BY <1>1, <1>6 DEF Full
  <2>2. v = [u EXCEPT !.queue = @ \o SubSeq(<<p>>, 1, 1), !.refused = @ \/ 1 < 1]
    BY <1>2, <2>1 DEF PostedAll
  <2>3. v.queue = u.queue \o <<p>>
    BY <1>2, <2>2 DEF Fields
  <2>4. v.refused = (u.refused \/ 1 < 1)
    BY <2>2 DEF Fields
  <2>5. v.refused = u.refused
    BY <2>4 DEF MailboxOK
  <2> QED BY <1>3, <1>4, <1>6, <2>3, <2>5, PostedIs DEF SameMailbox
<1> QED BY <1>5, <1>6

LEMMA GoneIs ==
  ASSUME NEW u, DOMAIN u = Fields, MailboxOK(u), NEW x \in Cab, u.held \subseteq {x},
         NEW K, NEW order \in SetToSeqs(Releases(u, K)), NEW c
  PROVE  LET v == Gone(u, K, order)
         IN /\ DOMAIN v = Fields /\ v.items = u.items /\ v.selected = u.selected
            /\ v.held = u.held \ K /\ v.enabled = u.enabled /\ v.dir = u.dir
            /\ v.thumb = u.thumb /\ v.dragging = (IF u.dragging \in K THEN None ELSE u.dragging)
            /\ SameEditors(u, v) /\ MailboxOK(v)
            /\ Owes(u, c) => Owes(v, c)
            /\ LetsGo(u, c) => LetsGo(v, c)
<1> DEFINE a == PostedAll(u, order)
           v == Gone(u, K, order)
           p == Post("release", x, None)
<1>1. CASE x \notin u.held \cap K
  <2>1. Releases(u, K) = {} /\ u.held \ K = u.held
    BY <1>1 DEF Releases
  <2>2. order = <<>>
    BY <2>1, OrderOfNone
  <2>3. /\ DOMAIN a = Fields /\ SameTabs(u, a) /\ SameSwitches(u, a)
        /\ SameEditors(u, a) /\ SameMailbox(u, a)
    BY <2>2, PostedNone
  <2> HIDE DEF a
  <2>4. v = [a EXCEPT !.held = @ \ K, !.dragging = IF @ \in K THEN None ELSE @]
    BY DEF Gone, a
  <2> HIDE DEF v
  <2>5. /\ DOMAIN v = Fields /\ v.items = u.items /\ v.selected = u.selected
        /\ v.held = u.held \ K /\ v.enabled = u.enabled /\ v.dir = u.dir
        /\ v.thumb = u.thumb /\ v.dragging = (IF u.dragging \in K THEN None ELSE u.dragging)
        /\ SameEditors(u, v) /\ SameMailbox(u, v)
    BY <2>3, <2>4 DEF Fields, SameTabs, SameSwitches, SameEditors, SameMailbox
  <2>6. /\ MailboxOK(v) /\ (Owes(u, c) => Owes(v, c)) /\ (Accounts(u, c) => Accounts(v, c))
        /\ \A k : Frees(u, k, c) => Frees(v, k, c)
    BY <2>5, MailboxFrame
  <2>7. LetsGo(u, c) => LetsGo(v, c)
    BY <2>1, <2>5, <2>6 DEF LetsGo
  <2> QED BY <2>5, <2>6, <2>7 DEF v
<1>2. CASE x \in u.held \cap K
  <2>1. Releases(u, K) = {p} /\ u.held = {x}
    BY <1>2 DEF Releases
  <2>2. order = <<p>> /\ p \in Intent
    BY <2>1, OrderOfOne, IntentIs
  <2> DEFINE b == Posted(u, p)
  <2>3. /\ DOMAIN a = Fields /\ SameTabs(u, a) /\ SameSwitches(u, a)
        /\ SameEditors(u, a) /\ SameMailbox(b, a)
    BY <2>2, PostedOne
  <2>4. MailboxOK(b) /\ (Owes(u, c) => Owes(b, c)) /\ (Accounts(u, c) => Accounts(b, c))
    <3>1. p.op # "remove"
      BY DEF Post
    <3> QED BY <2>2, <3>1, PostedMailbox, PostedOwes, PostedAccounts
  <2>5. /\ Frees(b, x, c)
        /\ \A k : Frees(u, k, c) => Frees(b, k, c)
    <3>1. Frees(b, x, c)
      BY <2>2, PostedFrees
    <3>2. ASSUME NEW k, Frees(u, k, c) PROVE Frees(b, k, c)
      <4>1. p # Post("press", k, None)
        BY DEF Post
      <4> QED BY <2>2, <3>2, <4>1, PostedFrees
    <3> QED BY <3>1, <3>2
  <2> HIDE DEF a, b
  <2>6. v = [a EXCEPT !.held = @ \ K, !.dragging = IF @ \in K THEN None ELSE @]
    BY DEF Gone, a
  <2> HIDE DEF v
  <2>7. /\ DOMAIN v = Fields /\ v.items = u.items /\ v.selected = u.selected
        /\ v.held = u.held \ K /\ v.enabled = u.enabled /\ v.dir = u.dir
        /\ v.thumb = u.thumb /\ v.dragging = (IF u.dragging \in K THEN None ELSE u.dragging)
        /\ SameEditors(u, v) /\ SameMailbox(b, v)
    BY <2>3, <2>6 DEF Fields, SameTabs, SameSwitches, SameEditors, SameMailbox
  <2>8. /\ MailboxOK(v) /\ (Owes(u, c) => Owes(v, c)) /\ Frees(v, x, c)
        /\ (Accounts(u, c) => Accounts(v, c))
        /\ \A k : Frees(u, k, c) => Frees(v, k, c)
    BY <2>4, <2>5, <2>7, MailboxFrame
  <2>9. LetsGo(u, c) => LetsGo(v, c)
    BY <2>1, <2>7, <2>8 DEF LetsGo
  <2> QED BY <2>7, <2>8, <2>9 DEF v
<1> QED BY <1>1, <1>2

LEMMA PanelsIs ==
  ASSUME NEW u, UiOK(u), NEW s, StateOK(s)
  PROVE  LET v == Panels(u, s)
         IN /\ DOMAIN v = Fields /\ SameTabs(u, v) /\ SameEditors(u, v) /\ SameMailbox(u, v)
            /\ v.enabled = s.online /\ v.dragging \in u.items \cup {None}
            /\ v.dir \in [s.tabs \cup u.items -> Dir] /\ v.thumb \in [s.tabs \cup u.items -> Dir]
            /\ \A k \in s.tabs : v.dir[k] = s.dir[k]
            /\ \A k \in s.tabs : v.dragging # k => v.thumb[k] = s.dir[k]
<1> DEFINE w == IF s.online THEN u ELSE [u EXCEPT !.dragging = None, !.thumb = u.dir]
           d == [k \in s.tabs \cup u.items |-> IF k \in s.tabs THEN s.dir[k] ELSE w.dir[k]]
           t == [k \in s.tabs \cup u.items |->
                   IF k \notin s.tabs \/ w.dragging = k THEN w.thumb[k] ELSE s.dir[k]]
           v == [w EXCEPT !.enabled = s.online, !.dir = d, !.thumb = t]
<1>1. /\ DOMAIN w = Fields /\ SameTabs(u, w) /\ SameEditors(u, w) /\ SameMailbox(u, w)
      /\ w.dragging \in u.items \cup {None}
      /\ w.dir \in [u.items -> Dir] /\ w.thumb \in [u.items -> Dir]
  <2>1. CASE s.online
    BY <2>1 DEF UiOK, TabsOK, SwitchesOK, SameTabs, SameEditors, SameMailbox
  <2>2. CASE ~s.online
    BY <2>2 DEF UiOK, TabsOK, SwitchesOK, Fields, SameTabs, SameEditors, SameMailbox
  <2> QED BY <2>1, <2>2
<1>2. Panels(u, s) = v
  BY DEF Panels
<1> HIDE DEF w
<1>3. d \in [s.tabs \cup u.items -> Dir] /\ \A k \in s.tabs : d[k] = s.dir[k]
  BY <1>1 DEF StateOK
<1>4. /\ t \in [s.tabs \cup u.items -> Dir]
      /\ \A k \in s.tabs : w.dragging # k => t[k] = s.dir[k]
  <2>1. \A k \in s.tabs : w.dragging = k => k \in u.items
    BY ViewAssumption, <1>1 DEF StateOK
  <2> QED BY <1>1, <2>1 DEF StateOK
<1> HIDE DEF d, t
<1>5. /\ DOMAIN v = Fields /\ SameTabs(w, v) /\ SameEditors(w, v) /\ SameMailbox(w, v)
      /\ v.enabled = s.online /\ v.dragging = w.dragging /\ v.dir = d /\ v.thumb = t
  BY <1>1 DEF Fields, SameTabs, SameEditors, SameMailbox
<1> HIDE DEF v
<1>6. SameTabs(u, v) /\ SameEditors(u, v) /\ SameMailbox(u, v)
  BY <1>1, <1>5 DEF SameTabs, SameEditors, SameMailbox
<1> QED BY <1>1, <1>2, <1>3, <1>4, <1>5, <1>6

LEMMA SyncedIs ==
  ASSUME NEW u, UiOK(u), NEW s, StateOK(s), NEW front \in s.tabs,
         NEW order \in SetToSeqs(Releases(u, u.items \ s.tabs)), NEW c
  PROVE  LET v == Synced(u, s, front, order)
         IN /\ UiOK(v) /\ v.items = s.tabs /\ v.dir = s.dir
            /\ LetsGo(u, c) => LetsGo(v, c)
<1> DEFINE K == u.items \ s.tabs
           n == Panels(u, s)
           g == Gone(n, K, order)
           e == Ended(g, g.editing \ s.tabs)
           v == SetItems(g, s.tabs, front)
<1>1. /\ DOMAIN n = Fields /\ SameTabs(u, n) /\ SameEditors(u, n) /\ SameMailbox(u, n)
      /\ n.enabled = s.online /\ n.dragging \in u.items \cup {None}
      /\ n.dir \in [s.tabs \cup u.items -> Dir] /\ n.thumb \in [s.tabs \cup u.items -> Dir]
      /\ \A k \in s.tabs : n.dir[k] = s.dir[k]
      /\ \A k \in s.tabs : n.dragging # k => n.thumb[k] = s.dir[k]
  BY PanelsIs
<1> HIDE DEF n
<1>2. MailboxOK(n) /\ (LetsGo(u, c) => LetsGo(n, c))
  <2>1. /\ MailboxOK(n) /\ (Accounts(u, c) => Accounts(n, c))
        /\ \A k : Frees(u, k, c) => Frees(n, k, c)
    BY <1>1, MailboxFrame DEF UiOK
  <2> QED BY <1>1, <2>1 DEF LetsGo, SameTabs
<1>3. u.selected \in Cab /\ n.held \subseteq {u.selected} /\ order \in SetToSeqs(Releases(n, K))
  BY <1>1 DEF UiOK, TabsOK, SameTabs, Releases
<1> HIDE DEF K
<1>4. /\ DOMAIN g = Fields /\ g.items = n.items /\ g.selected = n.selected
      /\ g.held = n.held \ K /\ g.enabled = n.enabled /\ g.dir = n.dir
      /\ g.thumb = n.thumb /\ g.dragging = (IF n.dragging \in K THEN None ELSE n.dragging)
      /\ SameEditors(n, g) /\ MailboxOK(g)
      /\ LetsGo(n, c) => LetsGo(g, c)
  BY <1>1, <1>2, <1>3, GoneIs
<1> HIDE DEF g
<1>5. g.items = u.items /\ SameEditors(u, g)
  BY <1>1, <1>4 DEF SameTabs, SameEditors
<1>6. EditorsOK(g) /\ g.editing \ s.tabs \in SUBSET g.editing
  BY <1>5, EditorsFrame DEF UiOK
<1>7. /\ DOMAIN e = Fields /\ SameTabs(g, e) /\ SameSwitches(g, e) /\ SameMailbox(g, e)
      /\ e.editing = g.editing \ (g.editing \ s.tabs) /\ EditorsOK(e)
  BY <1>4, <1>6, EndedIs
<1>8. v = [e EXCEPT !.items = s.tabs, !.dir = Only(@, s.tabs), !.thumb = Only(@, s.tabs),
                    !.selected = IF @ \in s.tabs THEN @ ELSE front]
  BY DEF SetItems
<1> HIDE DEF e
<1> HIDE DEF v
<1>9. /\ DOMAIN v = Fields /\ v.items = s.tabs
      /\ v.selected = (IF e.selected \in s.tabs THEN e.selected ELSE front)
      /\ v.held = e.held /\ v.enabled = e.enabled /\ v.dragging = e.dragging
      /\ v.dir = Only(e.dir, s.tabs) /\ v.thumb = Only(e.thumb, s.tabs)
      /\ SameEditors(e, v) /\ SameMailbox(e, v)
  BY <1>7, <1>8 DEF Fields, SameEditors, SameMailbox
<1>10. TabsOK(v)
  <2>1. v.items \in SUBSET Cab /\ v.selected \in v.items
    BY <1>9 DEF StateOK
  <2>2. e.selected = u.selected /\ e.held = n.held \ K
    BY <1>1, <1>4, <1>7 DEF SameTabs
  <2>3. v.held \subseteq {v.selected}
    <3>1. CASE u.selected \in s.tabs
      BY <1>3, <1>9, <2>2, <3>1
    <3>2. CASE u.selected \notin s.tabs
      <4>1. u.selected \in K
        BY <3>2 DEF UiOK, TabsOK, K
      <4> QED BY <1>3, <1>9, <2>2, <4>1
    <3> QED BY <3>1, <3>2
  <2> QED BY <1>9, <2>1, <2>3 DEF TabsOK
<1>11. v.dir = s.dir
  <2>1. v.dir = [k \in s.tabs |-> n.dir[k]]
    BY <1>4, <1>7, <1>9 DEF SameSwitches, Only
  <2> QED BY <1>1, <2>1 DEF StateOK
<1>12. SwitchesOK(v)
  <2>1. v.thumb = [k \in s.tabs |-> n.thumb[k]]
    BY <1>4, <1>7, <1>9 DEF SameSwitches, Only
  <2>2. v.thumb \in [s.tabs -> Dir]
    BY <1>1, <2>1
  <2>3. v.dragging = (IF n.dragging \in K THEN None ELSE n.dragging)
    BY <1>4, <1>7, <1>9 DEF SameSwitches
  <2>4. v.dragging \in s.tabs \cup {None}
    BY <1>1, <2>3 DEF K
  <2>5. \A k \in s.tabs : v.dragging # k => v.thumb[k] = v.dir[k]
    BY <1>1, <1>11, <2>1, <2>3 DEF K
  <2>6. v.enabled \in BOOLEAN
    BY <1>1, <1>4, <1>7, <1>9 DEF SameSwitches, StateOK
  <2> QED BY <1>9, <1>11, <2>2, <2>4, <2>5, <2>6 DEF SwitchesOK, StateOK
<1>13. EditorsOK(v)
  <2>1. e.editing \subseteq s.tabs
    BY <1>7
  <2> QED BY <1>7, <1>9, <2>1 DEF EditorsOK, SameEditors
<1>14. MailboxOK(v) /\ (LetsGo(g, c) => LetsGo(v, c))
  <2>1. SameMailbox(g, v)
    BY <1>7, <1>9 DEF SameMailbox
  <2>2. /\ MailboxOK(v) /\ (Accounts(g, c) => Accounts(v, c))
        /\ \A k : Frees(g, k, c) => Frees(v, k, c)
    BY <1>4, <2>1, MailboxFrame
  <2>3. v.held = g.held
    BY <1>7, <1>9 DEF SameTabs
  <2> QED BY <2>2, <2>3 DEF LetsGo
<1>15. UiOK(v)
  BY <1>10, <1>12, <1>13, <1>14 DEF UiOK
<1> QED BY <1>2, <1>4, <1>9, <1>11, <1>14, <1>15 DEF Synced, v, g, n, K

(***************************************************************************)
(* A rendered state is what is shown.                                      *)
(***************************************************************************)
LEMMA RenderedIs ==
  ASSUME NEW u, UiOK(u), NEW s, StateOK(s), NEW front \in s.tabs,
         NEW order \in SetToSeqs(Releases(u, u.items \ s.tabs)), NEW draft \in Typed, NEW c
  PROVE  LET v == Rendered(u, s, front, order, draft)
         IN /\ UiOK(v) /\ v.items = s.tabs /\ v.selected = s.sel /\ v.dir = s.dir
            /\ LetsGo(u, c) => LetsGo(v, c)
<1> DEFINE w == Synced(u, s, front, order)
<1>1. /\ UiOK(w) /\ w.items = s.tabs /\ w.dir = s.dir
      /\ LetsGo(u, c) => LetsGo(w, c)
  BY SyncedIs
<1> HIDE DEF w
<1>2. s.sel \in w.items
  BY <1>1 DEF StateOK
<1> DEFINE v == Selects(w, s.sel, draft, TRUE)
<1>3. /\ UiOK(v) /\ v.items = w.items /\ v.selected = s.sel /\ v.dir = w.dir
      /\ LetsGo(w, c) => LetsGo(v, c)
  BY <1>1, <1>2, SelectsRendering
<1> HIDE DEF v
<1> QED BY <1>1, <1>3 DEF Rendered, v, w

-----------------------------------------------------------------------------
(***************************************************************************)
(* The session.  When the station is away nothing is held, and only in     *)
(* tabs that are open is anything held.                                    *)
(***************************************************************************)
Ctl(c, t, s, h, f, g, n, l) ==
  [tabs |-> t, sel |-> s, held |-> h, dir |-> f, online |-> c.online,
   toggle |-> g, on |-> n, loose |-> l]

\* The records that are it.
Ctls(c, t, s, h, f, g, n, l) ==
  [tabs : {t}, sel : {s}, held : {h}, dir : {f}, online : {c.online},
   toggle : {g}, on : {n}, loose : {l}]

IsCtl(c) == c = Ctl(c, c.tabs, c.sel, c.held, c.dir, c.toggle, c.on, c.loose)

CtlOK(c) ==
  /\ IsCtl(c)
  /\ StateOK(c)
  /\ c.held \subseteq c.tabs
  /\ ~c.online => c.held = {}

(***************************************************************************)
(* The record, and the record after an update, written out.                *)
(***************************************************************************)
LEMMA OneCtl ==
  ASSUME NEW c, NEW t, NEW s, NEW h, NEW f, NEW g, NEW n, NEW l,
         NEW e \in Ctls(c, t, s, h, f, g, n, l)
  PROVE  e = Ctl(c, t, s, h, f, g, n, l)
BY DEF Ctl, Ctls

LEMMA CtlFields ==
  ASSUME NEW c, NEW t, NEW s, NEW h, NEW f, NEW g, NEW n, NEW l, NEW e,
         e = Ctl(c, t, s, h, f, g, n, l)
  PROVE  /\ e.tabs = t /\ e.sel = s /\ e.held = h /\ e.dir = f /\ e.online = c.online
         /\ e.toggle = g /\ e.on = n /\ e.loose = l
         /\ IsCtl(e)
BY DEF Ctl, IsCtl

LEMMA CtlIs ==
  ASSUME NEW c, c.online \in BOOLEAN, NEW t \in SUBSET Cab, NEW s \in t, NEW h \in SUBSET t,
         NEW f \in [t -> Dir], ~c.online => h = {}, NEW g, NEW n, NEW l, NEW e,
         e = Ctl(c, t, s, h, f, g, n, l)
  PROVE  CtlOK(e)
<1>1. /\ e.tabs = t /\ e.sel = s /\ e.held = h /\ e.dir = f /\ e.online = c.online
      /\ e.toggle = g /\ e.on = n /\ e.loose = l /\ IsCtl(e)
  BY CtlFields
<1>2. e.online \in BOOLEAN
  BY <1>1
<1>3. StateOK(e)
  BY <1>1, <1>2 DEF StateOK
<1> QED BY <1>1, <1>3 DEF CtlOK

\* What there is of a controller, to write another.
LEMMA CtlParts ==
  ASSUME NEW c, CtlOK(c)
  PROVE  /\ IsCtl(c) /\ c.tabs \in SUBSET Cab /\ c.sel \in c.tabs
         /\ c.held \in SUBSET c.tabs /\ c.dir \in [c.tabs -> Dir]
         /\ c.online \in BOOLEAN /\ (~c.online => c.held = {})
BY DEF CtlOK, StateOK

LEMMA FrontCtl ==
  ASSUME NEW c, IsCtl(c), NEW x
  PROVE  [c EXCEPT !.sel = x]
           = Ctl(c, c.tabs, x, c.held, c.dir, c.toggle, c.on, c.loose)
<1>1. c \in Ctls(c, c.tabs, c.sel, c.held, c.dir, c.toggle, c.on, c.loose)
  BY DEF IsCtl, Ctl, Ctls
<1>2. [c EXCEPT !.sel = x]
        \in Ctls(c, c.tabs, x, c.held, c.dir, c.toggle, c.on, c.loose)
  BY <1>1 DEF Ctls
<1> QED BY <1>2, OneCtl

LEMMA DirCtl ==
  ASSUME NEW c, IsCtl(c), NEW x
  PROVE  [c EXCEPT !.dir = x]
           = Ctl(c, c.tabs, c.sel, c.held, x, c.toggle, c.on, c.loose)
<1>1. c \in Ctls(c, c.tabs, c.sel, c.held, c.dir, c.toggle, c.on, c.loose)
  BY DEF IsCtl, Ctl, Ctls
<1>2. [c EXCEPT !.dir = x]
        \in Ctls(c, c.tabs, c.sel, c.held, x, c.toggle, c.on, c.loose)
  BY <1>1 DEF Ctls
<1> QED BY <1>2, OneCtl

LEMMA ModeCtl ==
  ASSUME NEW c, IsCtl(c), NEW x
  PROVE  [c EXCEPT !.toggle = x]
           = Ctl(c, c.tabs, c.sel, c.held, c.dir, x, c.on, c.loose)
<1>1. c \in Ctls(c, c.tabs, c.sel, c.held, c.dir, c.toggle, c.on, c.loose)
  BY DEF IsCtl, Ctl, Ctls
<1>2. [c EXCEPT !.toggle = x]
        \in Ctls(c, c.tabs, c.sel, c.held, c.dir, x, c.on, c.loose)
  BY <1>1 DEF Ctls
<1> QED BY <1>2, OneCtl

LEMMA WithCtl ==
  ASSUME NEW c, IsCtl(c), NEW k, NEW b
  PROVE  With(c, k, b)
           = Ctl(c, c.tabs \cup {k}, k, c.held,
                 [j \in c.tabs \cup {k} |-> IF j = k THEN "Fwd" ELSE c.dir[j]],
                 IF b THEN c.toggle \cup {k} ELSE c.toggle, c.on, c.loose)
<1>1. c \in Ctls(c, c.tabs, c.sel, c.held, c.dir, c.toggle, c.on, c.loose)
  BY DEF IsCtl, Ctl, Ctls
<1>2. With(c, k, b)
        \in Ctls(c, c.tabs \cup {k}, k, c.held,
                 [j \in c.tabs \cup {k} |-> IF j = k THEN "Fwd" ELSE c.dir[j]],
                 IF b THEN c.toggle \cup {k} ELSE c.toggle, c.on, c.loose)
  BY <1>1 DEF Ctls, With
<1> QED BY <1>2, OneCtl

LEMMA WithoutCtl ==
  ASSUME NEW c, IsCtl(c), NEW k
  PROVE  Without(c, k)
           = Ctl(c, c.tabs \ {k}, c.sel, c.held \ {k}, Only(c.dir, c.tabs \ {k}),
                 c.toggle \ {k}, c.on, c.loose)
<1>1. c \in Ctls(c, c.tabs, c.sel, c.held, c.dir, c.toggle, c.on, c.loose)
  BY DEF IsCtl, Ctl, Ctls
<1>2. Without(c, k)
        \in Ctls(c, c.tabs \ {k}, c.sel, c.held \ {k}, Only(c.dir, c.tabs \ {k}),
                 c.toggle \ {k}, c.on, c.loose)
  BY <1>1 DEF Ctls, Without
<1> QED BY <1>2, OneCtl

LEMMA LoosedCtl ==
  ASSUME NEW c, IsCtl(c), NEW K
  PROVE  Loosed(c, K)
           = Ctl(c, c.tabs, c.sel, c.held, c.dir, c.toggle, c.on,
                 c.loose \cup (c.held \cap K))
<1>1. c \in Ctls(c, c.tabs, c.sel, c.held, c.dir, c.toggle, c.on, c.loose)
  BY DEF IsCtl, Ctl, Ctls
<1>2. Loosed(c, K)
        \in Ctls(c, c.tabs, c.sel, c.held, c.dir, c.toggle, c.on,
                 c.loose \cup (c.held \cap K))
  BY <1>1 DEF Ctls, Loosed
<1> QED BY <1>2, OneCtl

LEMMA OnCtl ==
  ASSUME NEW c, IsCtl(c), NEW k
  PROVE  [On(c, k) EXCEPT !.held = @ \cup {k}]
           = Ctl(c, c.tabs, c.sel, c.held \cup {k}, c.dir, c.toggle,
                 c.on \cup {k}, c.loose \ {k})
<1>1. c \in Ctls(c, c.tabs, c.sel, c.held, c.dir, c.toggle, c.on, c.loose)
  BY DEF IsCtl, Ctl, Ctls
<1>2. [On(c, k) EXCEPT !.held = @ \cup {k}]
        \in Ctls(c, c.tabs, c.sel, c.held \cup {k}, c.dir, c.toggle,
                 c.on \cup {k}, c.loose \ {k})
  BY <1>1 DEF Ctls, On
<1> QED BY <1>2, OneCtl

LEMMA OffCtl ==
  ASSUME NEW c, IsCtl(c), NEW k
  PROVE  [Off(c, k) EXCEPT !.held = @ \ {k}]
           = Ctl(c, c.tabs, c.sel, c.held \ {k}, c.dir, c.toggle,
                 c.on \ {k}, c.loose \ {k})
<1>1. c \in Ctls(c, c.tabs, c.sel, c.held, c.dir, c.toggle, c.on, c.loose)
  BY DEF IsCtl, Ctl, Ctls
<1>2. [Off(c, k) EXCEPT !.held = @ \ {k}]
        \in Ctls(c, c.tabs, c.sel, c.held \ {k}, c.dir, c.toggle,
                 c.on \ {k}, c.loose \ {k})
  BY <1>1 DEF Ctls, Off
<1> QED BY <1>2, OneCtl

LEMMA LatchCtl ==
  ASSUME NEW c, IsCtl(c), NEW k
  PROVE  [On(c, k) EXCEPT !.held = @ \ {k}, !.loose = @ \cup {k}]
           = Ctl(c, c.tabs, c.sel, c.held \ {k}, c.dir, c.toggle,
                 c.on \cup {k}, (c.loose \ {k}) \cup {k})
<1>1. c \in Ctls(c, c.tabs, c.sel, c.held, c.dir, c.toggle, c.on, c.loose)
  BY DEF IsCtl, Ctl, Ctls
<1>2. [On(c, k) EXCEPT !.held = @ \ {k}, !.loose = @ \cup {k}]
        \in Ctls(c, c.tabs, c.sel, c.held \ {k}, c.dir, c.toggle,
                 c.on \cup {k}, (c.loose \ {k}) \cup {k})
  BY <1>1 DEF Ctls, On
<1> QED BY <1>2, OneCtl

\* What an intent may make of the controller.
Obeys(c, p, e) ==
  /\ CtlOK(e)
  /\ IsIdle(c, p) => e = c
  /\ \A k : p = Post("release", k, None) => k \notin e.held
  /\ \A k : p # Post("press", k, None) /\ k \notin c.held => k \notin e.held
  /\ Justified(c) /\ (p.op = "remove" => p.cab \notin c.held) => Justified(e)

LEMMA ObeysNothing ==
  ASSUME NEW c, CtlOK(c), NEW p, p.op = "release" => p.cab \notin c.held
  PROVE  Obeys(c, p, c)
<1>1. \A k : p = Post("release", k, None) => k \notin c.held
  BY DEF Post
<1> QED BY <1>1 DEF Obeys

(***************************************************************************)
(* The intents, one by one.                                                *)
(***************************************************************************)
LEMMA FocusObeys ==
  ASSUME NEW c, CtlOK(c), NEW p, p.op = "focus", p.cab \in c.tabs
  PROVE  Obeys(c, p, [c EXCEPT !.sel = p.cab])
<1> DEFINE e == [c EXCEPT !.sel = p.cab]
<1>1. e = Ctl(c, c.tabs, p.cab, c.held, c.dir, c.toggle, c.on, c.loose)
  BY CtlParts, FrontCtl
<1> HIDE DEF e
<1>2. e.held = c.held /\ e.on = c.on /\ e.loose = c.loose
  BY <1>1, CtlFields
<1>3. CtlOK(e)
  <2>1. /\ c.tabs \in SUBSET Cab /\ c.sel \in c.tabs /\ c.held \in SUBSET c.tabs
        /\ c.dir \in [c.tabs -> Dir] /\ c.online \in BOOLEAN /\ (~c.online => c.held = {})
    BY CtlParts
  <2> QED BY <1>1, <2>1, CtlIs
<1>4. p.cab = c.sel => e = c
  BY <1>1 DEF CtlOK, IsCtl
<1> QED BY <1>2, <1>3, <1>4 DEF Obeys, IsIdle, Post, Justified, e

LEMMA FlipObeys ==
  ASSUME NEW c, CtlOK(c), NEW p, p.op = "flip", NEW G
  PROVE  Obeys(c, p, [c EXCEPT !.toggle = G])
<1> DEFINE e == [c EXCEPT !.toggle = G]
<1>1. e = Ctl(c, c.tabs, c.sel, c.held, c.dir, G, c.on, c.loose)
  BY CtlParts, ModeCtl
<1> HIDE DEF e
<1>2. e.held = c.held /\ e.on = c.on /\ e.loose = c.loose
  BY <1>1, CtlFields
<1>3. CtlOK(e)
  <2>1. /\ c.tabs \in SUBSET Cab /\ c.sel \in c.tabs /\ c.held \in SUBSET c.tabs
        /\ c.dir \in [c.tabs -> Dir] /\ c.online \in BOOLEAN /\ (~c.online => c.held = {})
    BY CtlParts
  <2> QED BY <1>1, <2>1, CtlIs
<1> QED BY <1>2, <1>3 DEF Obeys, IsIdle, Post, Justified, e

LEMMA DirectedIs ==
  ASSUME NEW c, CtlOK(c), NEW k \in c.tabs, NEW d \in Dir
  PROVE  LET e == [c EXCEPT !.dir[k] = d]
         IN /\ CtlOK(e) /\ e.held = c.held /\ e.on = c.on /\ e.loose = c.loose
            /\ d = c.dir[k] => e = c
<1> DEFINE f == [c.dir EXCEPT ![k] = d]
           e == [c EXCEPT !.dir[k] = d]
<1>1. e = Ctl(c, c.tabs, c.sel, c.held, f, c.toggle, c.on, c.loose)
  <2>1. e = [c EXCEPT !.dir = f]
    OBVIOUS
  <2> HIDE DEF e, f
  <2> QED BY <2>1, CtlParts, DirCtl
<1>2. f \in [c.tabs -> Dir] /\ (d = c.dir[k] => f = c.dir)
  BY DEF CtlOK, StateOK
<1> HIDE DEF e, f
<1>3. e.held = c.held /\ e.on = c.on /\ e.loose = c.loose
  BY <1>1, CtlFields
<1>4. CtlOK(e)
  <2>1. /\ c.tabs \in SUBSET Cab /\ c.sel \in c.tabs /\ c.held \in SUBSET c.tabs
        /\ c.dir \in [c.tabs -> Dir] /\ c.online \in BOOLEAN /\ (~c.online => c.held = {})
    BY CtlParts
  <2> QED BY <1>1, <1>2, <2>1, CtlIs
<1>5. d = c.dir[k] => e = c
  BY <1>1, <1>2 DEF CtlOK, IsCtl
<1> QED BY <1>3, <1>4, <1>5 DEF e

LEMMA DirectionObeys ==
  ASSUME NEW c, CtlOK(c), NEW p, p.op = "direction", p.cab \in c.tabs, p.to \in Dir
  PROVE  Obeys(c, p, [c EXCEPT !.dir[p.cab] = p.to])
<1> DEFINE e == [c EXCEPT !.dir[p.cab] = p.to]
<1>1. /\ CtlOK(e) /\ e.held = c.held /\ e.on = c.on /\ e.loose = c.loose
      /\ p.to = c.dir[p.cab] => e = c
  BY DirectedIs
<1> HIDE DEF e
<1> QED BY <1>1 DEF Obeys, IsIdle, Post, Justified, e

\* The function in either mode.
LEMMA PressObeys ==
  ASSUME NEW c, CtlOK(c), c.online = TRUE, NEW p, NEW k \in c.tabs, p = Post("press", k, None),
         NEW e \in Pressed(c, k)
  PROVE  Obeys(c, p, e)
<1>1. PICK H \in SUBSET c.tabs, N \in {c.on \cup {k}, c.on \ {k}},
           L \in {c.loose \ {k}, (c.loose \ {k}) \cup {k}} :
        /\ e = Ctl(c, c.tabs, c.sel, H, c.dir, c.toggle, N, L)
        /\ \A j : j # k /\ j \notin c.held => j \notin H
        /\ Justified(c) => N \ L \subseteq H
  <2>1. IsCtl(c)
    BY DEF CtlOK
  <2>2. c.held \subseteq c.tabs
    BY DEF CtlOK
  <2>3. CASE k \notin c.toggle
    <3>1. e = Ctl(c, c.tabs, c.sel, c.held \cup {k}, c.dir, c.toggle,
                  c.on \cup {k}, c.loose \ {k})
      <4>1. e = [On(c, k) EXCEPT !.held = @ \cup {k}]
        BY <2>3 DEF Pressed
      <4> QED BY <2>1, <4>1, OnCtl
    <3>2. c.held \cup {k} \in SUBSET c.tabs
      BY <2>2
    <3>3. Justified(c) => (c.on \cup {k}) \ (c.loose \ {k}) \subseteq c.held \cup {k}
      BY DEF Justified
    <3> QED BY <3>1, <3>2, <3>3
  <2>4. CASE k \in c.toggle
    <3>1. \/ e = Ctl(c, c.tabs, c.sel, c.held \ {k}, c.dir, c.toggle,
                     c.on \cup {k}, (c.loose \ {k}) \cup {k})
          \/ e = Ctl(c, c.tabs, c.sel, c.held \ {k}, c.dir, c.toggle,
                     c.on \ {k}, c.loose \ {k})
      <4>1. \/ e = [On(c, k) EXCEPT !.held = @ \ {k}, !.loose = @ \cup {k}]
            \/ e = [Off(c, k) EXCEPT !.held = @ \ {k}]
        BY <2>4 DEF Pressed
      <4> QED BY <2>1, <4>1, LatchCtl, OffCtl
    <3>2. c.held \ {k} \in SUBSET c.tabs
      BY <2>2
    <3>3. Justified(c) =>
            /\ (c.on \cup {k}) \ ((c.loose \ {k}) \cup {k}) \subseteq c.held \ {k}
            /\ (c.on \ {k}) \ (c.loose \ {k}) \subseteq c.held \ {k}
      BY DEF Justified
    <3> QED BY <3>1, <3>2, <3>3
  <2> QED BY <2>3, <2>4
<1>2. e.held = H /\ e.on = N /\ e.loose = L
  BY <1>1, CtlFields
<1>3. CtlOK(e)
  <2>1. /\ c.tabs \in SUBSET Cab /\ c.sel \in c.tabs
        /\ c.dir \in [c.tabs -> Dir] /\ c.online \in BOOLEAN /\ (~c.online => H = {})
    BY CtlParts
  <2> QED BY <1>1, <2>1, CtlIs
<1>4. Justified(c) => Justified(e)
  BY <1>1, <1>2 DEF Justified
<1>5. ~IsIdle(c, p) /\ \A j : p = Post("press", j, None) <=> j = k
  BY DEF IsIdle, Post
<1>6. \A j : p # Post("release", j, None)
  BY DEF Post
<1> QED BY <1>1, <1>2, <1>3, <1>4, <1>5, <1>6 DEF Obeys

LEMMA ReleaseObeys ==
  ASSUME NEW c, CtlOK(c), c.online = TRUE, NEW p, NEW k \in c.tabs, p = Post("release", k, None)
  PROVE  Obeys(c, p, Released(c, k))
<1> DEFINE e == Released(c, k)
<1>1. p.op = "release" /\ p.cab = k
  BY DEF Post
<1>2. CASE k \in c.toggle /\ k \notin c.held
  <2>1. e = c
    BY <1>2 DEF Released
  <2> QED BY <1>1, <1>2, <2>1, ObeysNothing
<1>3. CASE ~(k \in c.toggle /\ k \notin c.held)
  <2>1. e = Ctl(c, c.tabs, c.sel, c.held \ {k}, c.dir, c.toggle,
                c.on \ {k}, c.loose \ {k})
    <3>1. e = [Off(c, k) EXCEPT !.held = @ \ {k}]
      BY <1>3 DEF Released
    <3> HIDE DEF e
    <3> QED BY <3>1, CtlParts, OffCtl
  <2> HIDE DEF e
  <2>2. e.held = c.held \ {k} /\ e.on = c.on \ {k} /\ e.loose = c.loose \ {k}
    BY <2>1, CtlFields
  <2>3. c.held \ {k} \in SUBSET c.tabs
    BY DEF CtlOK
  <2>4. CtlOK(e)
    <3>1. /\ c.tabs \in SUBSET Cab /\ c.sel \in c.tabs /\ c.dir \in [c.tabs -> Dir]
          /\ c.online \in BOOLEAN /\ (~c.online => c.held \ {k} = {})
      BY CtlParts
    <3> QED BY <2>1, <2>3, <3>1, CtlIs
  <2>5. Justified(c) => Justified(e)
    BY <2>2 DEF Justified
  <2>6. ~IsIdle(c, p)
    BY <1>1 DEF IsIdle
  <2>7. \A j : p = Post("release", j, None) => j = k
    BY DEF Post
  <2>8. Obeys(c, p, e)
    BY <2>2, <2>4, <2>5, <2>6, <2>7 DEF Obeys
  <2> QED BY <2>8 DEF e
<1> QED BY <1>2, <1>3

LEMMA AddObeys ==
  ASSUME NEW c, CtlOK(c), NEW p, p.op = "add", p.cab \in Cab \ c.tabs, NEW b
  PROVE  Obeys(c, p, With(c, p.cab, b))
<1> DEFINE k == p.cab
           e == With(c, k, b)
           f == [j \in c.tabs \cup {k} |-> IF j = k THEN "Fwd" ELSE c.dir[j]]
<1>1. e = Ctl(c, c.tabs \cup {k}, k, c.held, f,
              IF b THEN c.toggle \cup {k} ELSE c.toggle, c.on, c.loose)
  BY CtlParts, WithCtl
<1>2. f \in [c.tabs \cup {k} -> Dir]
  BY DEF CtlOK, StateOK, Dir
<1> HIDE DEF e, f
<1>3. e.held = c.held /\ e.on = c.on /\ e.loose = c.loose
  BY <1>1, CtlFields
<1>4. CtlOK(e)
  <2>1. /\ c.tabs \cup {k} \in SUBSET Cab /\ k \in c.tabs \cup {k}
        /\ c.held \in SUBSET (c.tabs \cup {k}) /\ c.online \in BOOLEAN
        /\ (~c.online => c.held = {})
    BY DEF CtlOK, StateOK
  <2> QED BY <1>1, <1>2, <2>1, CtlIs
<1>5. ~IsIdle(c, p)
  BY DEF IsIdle
<1> QED BY <1>3, <1>4, <1>5 DEF Obeys, Post, Justified, e

\* Only what is not held, as it is once the button was let go, stays justified.
LEMMA RemoveObeys ==
  ASSUME NEW c, CtlOK(c), NEW p, p.op = "remove", p.cab \in c.tabs,
         NEW j \in c.tabs \ {p.cab}
  PROVE  Obeys(c, p, [Without(c, p.cab) EXCEPT !.sel = IF @ = p.cab THEN j ELSE @])
<1> DEFINE k == p.cab
           w == Without(c, k)
           f == Only(c.dir, c.tabs \ {k})
           i == IF c.sel = k THEN j ELSE c.sel
           e == [w EXCEPT !.sel = IF @ = k THEN j ELSE @]
<1>1. w = Ctl(c, c.tabs \ {k}, c.sel, c.held \ {k}, f, c.toggle \ {k}, c.on, c.loose)
  BY CtlParts, WithoutCtl
<1>2. f \in [c.tabs \ {k} -> Dir] /\ i \in c.tabs \ {k}
  BY DEF Only, CtlOK, StateOK
<1>3. e = [w EXCEPT !.sel = i]
  <2>1. w.sel = c.sel
    BY <1>1, CtlFields
  <2> QED BY <2>1
<1> HIDE DEF e, f, i, w
<1>4. e = Ctl(w, c.tabs \ {k}, i, c.held \ {k}, f, c.toggle \ {k}, c.on, c.loose)
      /\ w.online = c.online
  <2>1. /\ w.tabs = c.tabs \ {k} /\ w.held = c.held \ {k} /\ w.dir = f
        /\ w.online = c.online /\ w.toggle = c.toggle \ {k} /\ w.on = c.on
        /\ w.loose = c.loose /\ IsCtl(w)
    BY <1>1, CtlFields
  <2> QED BY <1>3, <2>1, FrontCtl
<1>5. e.held = c.held \ {k} /\ e.on = c.on /\ e.loose = c.loose
  BY <1>4, CtlFields
<1>6. CtlOK(e)
  <2>1. /\ c.tabs \ {k} \in SUBSET Cab /\ c.held \ {k} \in SUBSET (c.tabs \ {k})
        /\ c.online \in BOOLEAN /\ (~c.online => c.held \ {k} = {})
    BY DEF CtlOK, StateOK
  <2> QED BY <1>2, <1>4, <2>1, CtlIs
<1>7. ~IsIdle(c, p)
  BY DEF IsIdle
<1> QED BY <1>5, <1>6, <1>7 DEF Obeys, Post, Justified, e, w

LEMMA ReplaceObeys ==
  ASSUME NEW c, CtlOK(c), NEW p, p.op = "replace", p.cab \in c.tabs, p.to \in Cab \ c.tabs,
         NEW b
  PROVE  Obeys(c, p, Without(With(Loosed(c, {p.cab}), p.to, b), p.cab))
<1> DEFINE k == p.cab
           j == p.to
           l == c.loose \cup (c.held \cap {k})
           f == [i \in c.tabs \cup {j} |-> IF i = j THEN "Fwd" ELSE c.dir[i]]
           g == IF b THEN c.toggle \cup {j} ELSE c.toggle
           T == (c.tabs \cup {j}) \ {k}
           e == Without(With(Loosed(c, {k}), j, b), k)
           w == Loosed(c, {k})
           v == With(w, j, b)
<1>1. w = Ctl(c, c.tabs, c.sel, c.held, c.dir, c.toggle, c.on, l)
  BY CtlParts, LoosedCtl
<1>2. f \in [c.tabs \cup {j} -> Dir]
  BY DEF CtlOK, StateOK, Dir
<1> HIDE DEF l, w
<1>3. v = Ctl(w, c.tabs \cup {j}, j, c.held, f, g, c.on, l) /\ w.online = c.online
  <2>1. /\ w.tabs = c.tabs /\ w.sel = c.sel /\ w.held = c.held /\ w.dir = c.dir
        /\ w.online = c.online /\ w.toggle = c.toggle /\ w.on = c.on /\ w.loose = l
        /\ IsCtl(w)
    BY <1>1, CtlFields
  <2> QED BY <2>1, WithCtl
<1> HIDE DEF f, g, v
<1>4. e = Ctl(v, T, j, c.held \ {k}, Only(f, T), g \ {k}, c.on, l) /\ v.online = c.online
  <2>1. /\ v.tabs = c.tabs \cup {j} /\ v.sel = j /\ v.held = c.held /\ v.dir = f
        /\ v.online = c.online /\ v.toggle = g /\ v.on = c.on /\ v.loose = l /\ IsCtl(v)
    BY <1>3, CtlFields
  <2>2. e = Without(v, k)
    BY DEF v, w
  <2> HIDE DEF e
  <2> QED BY <2>1, <2>2, WithoutCtl
<1>5. Only(f, T) \in [T -> Dir]
  BY <1>2 DEF Only
<1> HIDE DEF e
<1>6. e.held = c.held \ {k} /\ e.on = c.on /\ e.loose = l
  BY <1>4, CtlFields
<1>7. CtlOK(e)
  <2>1. /\ T \in SUBSET Cab /\ j \in T /\ c.held \ {k} \in SUBSET T
        /\ c.online \in BOOLEAN /\ (~c.online => c.held \ {k} = {})
    BY DEF CtlOK, StateOK
  <2> HIDE DEF T
  <2> QED BY <1>4, <1>5, <2>1, CtlIs
<1>8. Justified(c) => Justified(e)
  BY <1>6 DEF Justified, l
<1>9. ~IsIdle(c, p)
  BY DEF IsIdle
<1> QED BY <1>6, <1>7, <1>8, <1>9 DEF Obeys, Post, e, v, w

LEMMA EffectsObey ==
  ASSUME NEW c, CtlOK(c), NEW p \in Intent, NEW e \in Effects(c, p)
  PROVE  Obeys(c, p, e)
<1> DEFINE k == p.cab
<1>1. /\ p.op \in {"press", "release", "focus", "rename", "add", "remove", "flip",
                   "direction", "replace"}
      /\ k \in Cab
      /\ p.op = "direction" => p.to \in Dir
      /\ p.op = "replace" => p.to \in Cab
      /\ p.op \in {"press", "release"} => p = Post(p.op, k, None)
  BY DEF Intent, Post
<1>2. c.held \subseteq c.tabs /\ (~c.online => c.held = {})
  BY DEF CtlOK
<1>3. CASE k \notin c.tabs /\ p.op # "add"
  <2>1. e = c
    BY <1>3 DEF Effects
  <2> QED BY <1>2, <1>3, <2>1, ObeysNothing
<1>4. CASE k \in c.tabs /\ p.op = "focus"
  <2>1. e = [c EXCEPT !.sel = k]
    BY <1>4 DEF Effects
  <2> QED BY <1>4, <2>1, FocusObeys
<1>5. CASE k \in c.tabs /\ p.op = "press"
  <2>1. e \in (IF c.online THEN Pressed(c, k) ELSE {c})
    BY <1>5 DEF Effects
  <2>2. CASE ~c.online
    BY <1>5, <2>1, <2>2, ObeysNothing
  <2>3. CASE c.online
    <3>1. c.online = TRUE
      BY <2>3 DEF CtlOK, StateOK
    <3>2. e \in Pressed(c, k)
      BY <2>1, <2>3
    <3> QED BY <1>1, <1>5, <3>1, <3>2, PressObeys
  <2> QED BY <2>2, <2>3
<1>6. CASE k \in c.tabs /\ p.op = "release"
  <2>1. e = (IF c.online THEN Released(c, k) ELSE c)
    BY <1>6 DEF Effects
  <2>2. CASE ~c.online
    BY <1>2, <1>6, <2>1, <2>2, ObeysNothing
  <2>3. CASE c.online
    <3>1. c.online = TRUE
      BY <2>3 DEF CtlOK, StateOK
    <3>2. e = Released(c, k)
      BY <2>1, <2>3
    <3> QED BY <1>1, <1>6, <3>1, <3>2, ReleaseObeys
  <2> QED BY <2>2, <2>3
<1>7. CASE k \in c.tabs /\ p.op = "direction"
  <2>1. e = (IF c.online THEN [c EXCEPT !.dir[k] = p.to] ELSE c)
    BY <1>7 DEF Effects
  <2>2. CASE ~c.online
    BY <1>7, <2>1, <2>2, ObeysNothing
  <2>3. CASE c.online
    BY <1>1, <1>7, <2>1, <2>3, DirectionObeys
  <2> QED BY <2>2, <2>3
<1>8. CASE k \in c.tabs /\ p.op = "rename"
  <2>1. e = c
    BY <1>8 DEF Effects
  <2> QED BY <1>8, <2>1, ObeysNothing
<1>9. CASE k \in c.tabs /\ p.op = "flip"
  <2>1. e = [c EXCEPT !.toggle = IF k \in c.toggle THEN c.toggle \ {k} ELSE c.toggle \cup {k}]
    BY <1>9 DEF Effects
  <2> QED BY <1>9, <2>1, FlipObeys
<1>10. CASE p.op = "add"
  <2>1. e = (IF k \in c.tabs THEN c ELSE With(c, k, Latching))
    BY <1>10 DEF Effects
  <2>2. CASE k \in c.tabs
    BY <1>10, <2>1, <2>2, ObeysNothing
  <2>3. CASE k \notin c.tabs
    BY <1>1, <1>10, <2>1, <2>3, AddObeys
  <2> QED BY <2>2, <2>3
<1>11. CASE k \in c.tabs /\ p.op = "remove"
  <2>1. e \in {c} \cup {[Without(c, k) EXCEPT !.sel = IF @ = k THEN j ELSE @] : j \in c.tabs \ {k}}
    BY <1>11 DEF Effects
  <2>2. CASE e = c
    BY <1>11, <2>2, ObeysNothing
  <2>3. CASE e # c
    BY <1>11, <2>1, <2>3, RemoveObeys
  <2> QED BY <2>2, <2>3
<1>12. CASE k \in c.tabs /\ p.op = "replace"
  <2>1. e \in {c} \cup {Without(With(Loosed(c, {k}), j, k \in c.toggle), k) : j \in {p.to} \ c.tabs}
    BY <1>12 DEF Effects
  <2>2. CASE e = c
    BY <1>12, <2>2, ObeysNothing
  <2>3. CASE e # c
    <3>1. p.to \in Cab \ c.tabs /\ e = Without(With(Loosed(c, {k}), p.to, k \in c.toggle), k)
      BY <1>1, <1>12, <2>1, <2>3
    <3> QED BY <1>12, <3>1, ReplaceObeys
  <2> QED BY <2>2, <2>3
<1> QED BY <1>1, <1>3, <1>4, <1>5, <1>6, <1>7, <1>8, <1>9, <1>10, <1>11, <1>12

-----------------------------------------------------------------------------
(***************************************************************************)
(* The invariant: the widgets and the controller are in order, the last    *)
(* snapshot on its way is of the controller there is, a view that waits    *)
(* for none shows the controller or is owed one, what the operator does    *)
(* not hold is let go or will be, and what is on at the station is held or *)
(* loose.                                                                  *)
(***************************************************************************)
Maps == UNION {[S -> Dir] : S \in SUBSET Cab}

States ==
  {s \in [tabs : SUBSET Cab, sel : Cab, dir : Maps, online : BOOLEAN] : StateOK(s)}

PendingOK ==
  /\ pending \in Seq(States)
  /\ pending # <<>> => pending[Len(pending)] = Snapshot(ctl)

IInv ==
  /\ UiOK(ui) /\ CtlOK(ctl) /\ PendingOK
  /\ pending = <<>> => Honest(ui, ctl)
  /\ LetsGo(ui, ctl)

LEMMA SnapshotIs ==
  ASSUME NEW c, CtlOK(c) PROVE Snapshot(c) \in States
<1>1. c.dir \in Maps
  BY DEF CtlOK, StateOK, Maps
<1>2. StateOK(Snapshot(c))
  BY DEF Snapshot, CtlOK, StateOK
<1>3. /\ c.tabs \in SUBSET Cab /\ c.sel \in Cab /\ c.online \in BOOLEAN
  BY DEF CtlOK, StateOK
<1> QED BY <1>1, <1>2, <1>3 DEF States, Snapshot

\* Publishing leaves what is to be shown on its way.
LEMMA PublishIs ==
  ASSUME PendingOK, NEW c, CtlOK(c), Publish(c)
  PROVE  ctl' = c /\ PendingOK' /\ pending' # <<>>
<1> DEFINE s == Snapshot(c)
<1>1. ctl' = c /\ s \in States /\ pending \in Seq(States)
  BY SnapshotIs DEF Publish, PendingOK
<1>2. Snapshot(ctl') = s
  BY <1>1
<1> HIDE DEF s
<1>3. CASE pending' = Append(pending, s)
  <2>1. Append(pending, s) \in Seq(States) /\ Append(pending, s)[Len(Append(pending, s))] = s
        /\ Len(Append(pending, s)) > 0
    BY <1>1
  <2>2. Append(pending, s) # <<>>
    BY <2>1
  <2> QED BY <1>1, <1>2, <1>3, <2>1, <2>2 DEF PendingOK, Snapshot
<1>4. CASE pending # <<>> /\ pending' = [pending EXCEPT ![Len(pending)] = s]
  <2> DEFINE r == [pending EXCEPT ![Len(pending)] = s]
  <2>1. Len(pending) \in 1..Len(pending)
    BY <1>1, <1>4
  <2>2. r \in Seq(States) /\ Len(r) = Len(pending) /\ r[Len(pending)] = s
    BY <1>1, <2>1
  <2>3. r # <<>>
    BY <2>1, <2>2
  <2> HIDE DEF r
  <2>4. pending' = r
    BY <1>4 DEF r
  <2> QED BY <1>1, <1>2, <2>2, <2>3, <2>4 DEF PendingOK, Snapshot
<1> QED BY <1>3, <1>4 DEF Publish, s

LEMMA GestureKeeps ==
  ASSUME IInv, NEW v, Keeps(ui, v, ctl), Gesture(v) PROVE IInv'
<1>1. ui' = v /\ ctl' = ctl /\ pending' = pending
  BY DEF Gesture
<1>2. UiOK(ui') /\ (Honest(ui, ctl) => Honest(ui', ctl')) /\ (LetsGo(ui, ctl) => LetsGo(ui', ctl'))
  BY <1>1 DEF Keeps
<1>3. UiOK(ui)' /\ Honest(ui, ctl)' = Honest(ui', ctl') /\ LetsGo(ui, ctl)' = LetsGo(ui', ctl')
      /\ PendingOK' = PendingOK /\ CtlOK(ctl)' = CtlOK(ctl)
  BY <1>1, <1>2 DEF PendingOK
<1> QED BY <1>1, <1>2, <1>3 DEF IInv

-----------------------------------------------------------------------------
(***************************************************************************)
(* The gestures.                                                           *)
(***************************************************************************)
LEMMA TapKeeps ==
  ASSUME IInv, NEW k \in Cab, Tap(k) PROVE IInv'
<1>1. PICK draft \in Typed : Gesture(Selects(ui, k, draft, FALSE))
  BY DEF Tap
<1>2. Keeps(ui, Selects(ui, k, draft, FALSE), ctl)
  BY SelectsKeeps DEF IInv
<1> QED BY <1>1, <1>2, GestureKeeps

LEMMA PressKeeps ==
  ASSUME IInv, Press PROVE IInv'
<1>1. Keeps(ui, Down(ui, ui.selected), ctl)
  BY DownKeeps DEF IInv
<1> QED BY <1>1, GestureKeeps DEF Press

LEMMA ReleaseKeeps ==
  ASSUME IInv, NEW k \in Cab, Release(k) PROVE IInv'
<1>1. Keeps(ui, Up(ui, k), ctl)
  BY UpKeeps DEF IInv
<1> QED BY <1>1, GestureKeeps DEF Release

LEMMA FlipKeeps ==
  ASSUME IInv, Flip PROVE IInv'
<1> DEFINE p == Post("flip", ui.selected, None)
<1>1. ui.selected \in Cab
  BY DEF IInv, UiOK, TabsOK
<1>2. p \in Intent /\ p.op \notin {"press", "remove"}
  BY <1>1, IntentIs DEF Post
<1> HIDE DEF p
<1>3. Keeps(ui, Posted(ui, p), ctl)
  BY <1>2, PostedKeeps DEF IInv
<1> QED BY <1>3, GestureKeeps DEF Flip, p

LEMMA CloseTabKeeps ==
  ASSUME IInv, NEW k \in Cab, CloseTab(k) PROVE IInv'
<1> DEFINE v == Up(ui, k)
           p == Post("remove", k, None)
           w == Posted(v, p)
<1>1. Keeps(ui, v, ctl) /\ UiOK(v)
  BY UpKeeps DEF IInv, Keeps
<1>2. p \in Intent /\ p.op # "press" /\ p.cab = k
  BY IntentIs DEF Post
<1>3. k \notin v.held
  BY UpIs DEF IInv, UiOK, TabsOK
<1> HIDE DEF v, p
<1>4. Keeps(v, w, ctl)
  BY <1>1, <1>2, <1>3, PostedKeeps
<1>5. Keeps(ui, w, ctl)
  BY <1>1, <1>4, KeepsTwice
<1>6. Gesture(w)
  BY DEF CloseTab, w, v, p
<1> HIDE DEF w
<1> QED BY <1>5, <1>6, GestureKeeps

LEMMA ReassignKeeps ==
  ASSUME IInv, NEW j \in Cab, Reassign(j) PROVE IInv'
<1> DEFINE p == Post("replace", ui.selected, j)
<1>1. ui.selected \in Cab
  BY DEF IInv, UiOK, TabsOK
<1>2. p \in Intent /\ p.op \notin {"press", "remove"}
  BY <1>1, IntentIs DEF Post
<1> HIDE DEF p
<1>3. Keeps(ui, Posted(ui, p), ctl)
  BY <1>2, PostedKeeps DEF IInv
<1> QED BY <1>3, GestureKeeps DEF Reassign, p

LEMMA AddTabKeeps ==
  ASSUME IInv, NEW j \in Cab, AddTab(j) PROVE IInv'
<1> DEFINE p == Post("add", j, None)
<1>1. p \in Intent /\ p.op \notin {"press", "remove"}
  BY IntentIs DEF Post
<1> HIDE DEF p
<1>2. Keeps(ui, Posted(ui, p), ctl)
  BY <1>1, PostedKeeps DEF IInv
<1> QED BY <1>2, GestureKeeps DEF AddTab, p

LEMMA SubmitKeeps ==
  ASSUME IInv, Submit PROVE IInv'
<1>1. PICK draft \in Typed : Gesture(Finish(ui, ui.focus, draft))
  BY DEF Submit
<1>2. Keeps(ui, Finish(ui, ui.focus, draft), ctl)
  BY FinishKeeps DEF IInv
<1> QED BY <1>1, <1>2, GestureKeeps

LEMMA EscapeKeeps ==
  ASSUME IInv, Escape PROVE IInv'
<1>1. Keeps(ui, Finish(ui, ui.focus, "dropped"), ctl)
  BY FinishKeeps DEF IInv
<1> QED BY <1>1, GestureKeeps DEF Escape

LEMMA UnfocusedKeeps ==
  ASSUME NEW u, UiOK(u), NEW c
  PROVE  LET v == [u EXCEPT !.focus = None]
         IN Keeps(u, v, c) /\ v.focus = None /\ v.editing = u.editing
<1> DEFINE v == [u EXCEPT !.focus = None]
<1>1. /\ DOMAIN v = Fields /\ SameTabs(u, v) /\ SameSwitches(u, v) /\ SameMailbox(u, v)
      /\ v.editing = u.editing /\ v.focus = None /\ v.endings = u.endings
  BY DEF UiOK, TabsOK, Fields, SameTabs, SameSwitches, SameMailbox
<1> HIDE DEF v
<1>2. EditorsOK(v)
  BY <1>1 DEF UiOK, EditorsOK, SameTabs
<1>3. Keeps(u, v, c)
  BY <1>1, <1>2, EditorsKeep
<1> QED BY <1>1, <1>3 DEF v

LEMMA LeaveKeeps ==
  ASSUME IInv, Leave PROVE IInv'
<1> DEFINE v == [ui EXCEPT !.focus = None]
<1>1. PICK draft \in Typed : Gesture(FocusLost(v, ui.focus, draft))
  BY DEF Leave
<1>2. Keeps(ui, v, ctl) /\ v.focus = None
  BY UnfocusedKeeps DEF IInv
<1> HIDE DEF v
<1>3. Keeps(v, FocusLost(v, ui.focus, draft), ctl)
  BY <1>2, FocusLostKeeps DEF Keeps
<1>4. Keeps(ui, FocusLost(v, ui.focus, draft), ctl)
  BY <1>2, <1>3, KeepsTwice
<1> QED BY <1>1, <1>4, GestureKeeps

LEMMA BegunKeeps ==
  ASSUME NEW u, UiOK(u), NEW k \in u.items, k \notin u.editing, NEW c
  PROVE  LET v == [u EXCEPT !.editing = @ \cup {k}, !.endings[k] = 0]
         IN Keeps(u, v, c) /\ k \in v.editing /\ v.focus = u.focus /\ v.items = u.items
<1> DEFINE v == [u EXCEPT !.editing = @ \cup {k}, !.endings[k] = 0]
           e == [u.endings EXCEPT ![k] = 0]
<1>1. /\ DOMAIN v = Fields /\ SameTabs(u, v) /\ SameSwitches(u, v) /\ SameMailbox(u, v)
      /\ v.editing = u.editing \cup {k} /\ v.focus = u.focus /\ v.endings = e
  BY DEF UiOK, TabsOK, Fields, SameTabs, SameSwitches, SameMailbox
<1> HIDE DEF v
<1>2. k \in Cab /\ u.endings \in [Cab -> Nat]
  BY DEF UiOK, TabsOK, EditorsOK
<1>3. e \in [Cab -> Nat] /\ e[k] = 0 /\ \A j \in Cab : j # k => e[j] = u.endings[j]
  BY <1>2
<1> HIDE DEF e
<1>4. \A j \in Cab : v.endings[j] = (IF j \in v.editing THEN 0 ELSE 1)
  <2> SUFFICES ASSUME NEW j \in Cab PROVE e[j] = (IF j \in v.editing THEN 0 ELSE 1)
    BY <1>1
  <2>1. CASE j = k
    BY <1>1, <1>3, <2>1
  <2>2. CASE j # k
    BY <1>1, <1>3, <2>2 DEF UiOK, EditorsOK
  <2> QED BY <2>1, <2>2
<1>5. v.editing \subseteq v.items /\ v.focus \in v.editing \cup {None}
  BY <1>1 DEF UiOK, EditorsOK, SameTabs
<1>6. EditorsOK(v)
  BY <1>1, <1>3, <1>4, <1>5 DEF EditorsOK
<1>7. Keeps(u, v, c)
  BY <1>1, <1>6, EditorsKeep
<1> QED BY <1>1, <1>7 DEF v, SameTabs

LEMMA FocusKeeps ==
  ASSUME NEW u, UiOK(u), NEW k \in u.editing, NEW c
  PROVE  Keeps(u, [u EXCEPT !.focus = k], c)
<1> DEFINE v == [u EXCEPT !.focus = k]
<1>1. /\ DOMAIN v = Fields /\ SameTabs(u, v) /\ SameSwitches(u, v) /\ SameMailbox(u, v)
      /\ v.editing = u.editing /\ v.focus = k /\ v.endings = u.endings
  BY DEF UiOK, TabsOK, Fields, SameTabs, SameSwitches, SameMailbox
<1> HIDE DEF v
<1>2. EditorsOK(v)
  BY <1>1 DEF UiOK, EditorsOK, SameTabs
<1>3. Keeps(u, v, c)
  BY <1>1, <1>2, EditorsKeep
<1> QED BY <1>3 DEF v

LEMMA EditKeeps ==
  ASSUME IInv, NEW k \in Cab, Edit(k) PROVE IInv'
<1> DEFINE begun == IF k \in ui.editing THEN ui
                    ELSE [ui EXCEPT !.editing = @ \cup {k}, !.endings[k] = 0]
           blurred == [begun EXCEPT !.focus = None]
           left(draft) == FocusLost(blurred, ui.focus, draft)
<1>1. UiOK(ui) /\ k \in ui.items /\ ui.focus # k
  BY DEF IInv, Edit
<1>2. PICK draft \in Typed : Gesture([left(draft) EXCEPT !.focus = k])
  BY DEF Edit
<1>3. Keeps(ui, begun, ctl) /\ k \in begun.editing
  <2>1. CASE k \in ui.editing
    BY <1>1, <2>1, NothingKeeps
  <2>2. CASE k \notin ui.editing
    BY <1>1, <2>2, BegunKeeps
  <2> QED BY <2>1, <2>2
<1> DEFINE w == left(draft)
           v == [w EXCEPT !.focus = k]
<1>4. Gesture(v)
  BY <1>2
<1> HIDE DEF begun
<1>5. Keeps(begun, blurred, ctl) /\ blurred.focus = None /\ k \in blurred.editing
  BY <1>3, UnfocusedKeeps DEF Keeps
<1> HIDE DEF blurred
<1>6. Keeps(blurred, w, ctl) /\ k \in w.editing
  <2>1. UiOK(blurred)
    BY <1>5 DEF Keeps
  <2>2. Keeps(blurred, w, ctl) /\ blurred.editing \ {ui.focus} \subseteq w.editing
    BY <1>5, <2>1, FocusLostKeeps
  <2> QED BY <1>1, <1>5, <2>2
<1> HIDE DEF left
<1>7. Keeps(w, v, ctl)
  BY <1>6, FocusKeeps DEF Keeps
<1> HIDE DEF v, w
<1>8. Keeps(ui, v, ctl)
  <2>1. Keeps(ui, blurred, ctl)
    BY <1>3, <1>5, KeepsTwice
  <2>2. Keeps(ui, w, ctl)
    BY <1>6, <2>1, KeepsTwice
  <2> QED BY <1>7, <2>2, KeepsTwice
<1> QED BY <1>4, <1>8, GestureKeeps

LEMMA TapDirectionKeeps ==
  ASSUME IInv, NEW d \in Dir, TapDirection(d) PROVE IInv'
<1> DEFINE k == ui.selected
           v == Choose(ui, k, d)
<1>1. TabsOK(ui) /\ EditorsOK(ui) /\ MailboxOK(ui) /\ SwitchesOK(ui) /\ k \in ui.items
  BY DEF IInv, UiOK, TabsOK
<1>2. ui.dragging = None /\ k # None
  BY <1>1, ViewAssumption DEF TapDirection, TabsOK
<1>3. SwitchesBut(ui, k)
  BY <1>1, <1>2 DEF SwitchesBut, SwitchesOK
<1>4. Keeps(ui, v, ctl)
  BY <1>1, <1>3, ChooseKeeps
<1>5. Gesture(v)
  BY DEF TapDirection
<1> HIDE DEF v
<1> QED BY <1>4, <1>5, GestureKeeps

(***************************************************************************)
(* What changes only where a thumb is, and whether it is dragged.          *)
(***************************************************************************)
LEMMA ThumbKeeps ==
  ASSUME NEW u, TabsOK(u), EditorsOK(u), MailboxOK(u), NEW v, DOMAIN v = Fields,
         SameTabs(u, v), SameEditors(u, v), SameMailbox(u, v), v.dir = u.dir, NEW c
  PROVE  /\ TabsOK(v) /\ EditorsOK(v) /\ MailboxOK(v)
         /\ (Honest(u, c) => Honest(v, c)) /\ (LetsGo(u, c) => LetsGo(v, c))
<1>1. /\ MailboxOK(v) /\ (Owes(u, c) => Owes(v, c)) /\ (Accounts(u, c) => Accounts(v, c))
      /\ \A k : Frees(u, k, c) => Frees(v, k, c)
  BY MailboxFrame
<1>2. TabsOK(v) /\ EditorsOK(v)
  BY EditorsFrame DEF TabsOK, SameTabs
<1>3. Honest(u, c) => Honest(v, c)
  BY <1>1, TrueFrame DEF Honest, SameTabs
<1>4. LetsGo(u, c) => LetsGo(v, c)
  BY <1>1 DEF LetsGo, SameTabs
<1> QED BY <1>1, <1>2, <1>3, <1>4

LEMMA DragKeeps ==
  ASSUME IInv, NEW d \in Dir, Drag(d) PROVE IInv'
<1> DEFINE k == ui.selected
           v == [ui EXCEPT !.dragging = k, !.thumb[k] = d]
           t == [ui.thumb EXCEPT ![k] = d]
<1>1. TabsOK(ui) /\ EditorsOK(ui) /\ MailboxOK(ui) /\ SwitchesOK(ui) /\ k \in ui.items
  BY DEF IInv, UiOK, TabsOK
<1>2. Gesture(v) /\ ui.dragging \in {None, k}
  BY DEF Drag
<1>3. /\ DOMAIN v = Fields /\ SameTabs(ui, v) /\ SameEditors(ui, v) /\ SameMailbox(ui, v)
      /\ v.enabled = ui.enabled /\ v.dir = ui.dir /\ v.dragging = k /\ v.thumb = t
  BY <1>1 DEF TabsOK, Fields, SameTabs, SameEditors, SameMailbox
<1> HIDE DEF v
<1>4. t \in [ui.items -> Dir] /\ \A j \in ui.items : j # k => t[j] = ui.thumb[j]
  BY <1>1 DEF SwitchesOK
<1> HIDE DEF t
<1>5. \A j \in ui.items : j # k => ui.thumb[j] = ui.dir[j]
  BY <1>1, <1>2, ViewAssumption DEF SwitchesOK, TabsOK
<1>6. SwitchesOK(v)
  BY <1>1, <1>3, <1>4, <1>5 DEF SwitchesOK, SameTabs
<1>7. Keeps(ui, v, ctl)
  BY <1>1, <1>3, <1>6, ThumbKeeps DEF Keeps, UiOK
<1> QED BY <1>2, <1>7, GestureKeeps

LEMMA DragEndKeeps ==
  ASSUME IInv, DragEnd PROVE IInv'
<1> DEFINE k == ui.dragging
           w == [ui EXCEPT !.dragging = None]
           v == Choose(w, k, ui.thumb[k])
<1>1. /\ TabsOK(ui) /\ EditorsOK(ui) /\ MailboxOK(ui) /\ SwitchesOK(ui) /\ k # None
  BY DEF IInv, UiOK, DragEnd
<1>2. k \in ui.items /\ ui.thumb[k] \in Dir
  BY <1>1 DEF SwitchesOK
<1>3. Gesture(v)
  BY DEF DragEnd
<1>4. /\ DOMAIN w = Fields /\ SameTabs(ui, w) /\ SameEditors(ui, w) /\ SameMailbox(ui, w)
      /\ w.enabled = ui.enabled /\ w.dir = ui.dir /\ w.dragging = None /\ w.thumb = ui.thumb
  BY <1>1 DEF TabsOK, Fields, SameTabs, SameEditors, SameMailbox
<1> HIDE DEF w
<1>5. /\ TabsOK(w) /\ EditorsOK(w) /\ MailboxOK(w)
      /\ (Honest(ui, ctl) => Honest(w, ctl)) /\ (LetsGo(ui, ctl) => LetsGo(w, ctl))
  BY <1>1, <1>4, ThumbKeeps
<1>6. SwitchesBut(w, k) /\ k \in w.items
  BY <1>1, <1>2, <1>4 DEF SwitchesBut, SwitchesOK, SameTabs
<1>7. Keeps(w, v, ctl)
  BY <1>2, <1>5, <1>6, ChooseKeeps
<1> HIDE DEF v
<1>8. Keeps(ui, v, ctl)
  BY <1>5, <1>7 DEF Keeps
<1> QED BY <1>3, <1>8, GestureKeeps

-----------------------------------------------------------------------------
(***************************************************************************)
(* A rendering, which catches up when it is the last one, and the session. *)
(***************************************************************************)
LEMMA OnlyOne ==
  ASSUME NEW S, NEW q \in Seq(S), q # <<>>, Tail(q) = <<>> PROVE Head(q) = q[Len(q)]
<1>1. Len(q) \in Nat /\ Len(q) # 0 /\ Head(q) = q[1] /\ Len(Tail(q)) = Len(q) - 1
  OBVIOUS
<1> DEFINE r == Tail(q)
<1>2. r = <<>> /\ Len(r) = Len(q) - 1
  BY <1>1
<1> HIDE DEF r
<1>3. Len(r) = 0
  BY <1>2
<1>4. Len(q) = 1
  BY <1>1, <1>2, <1>3
<1> QED BY <1>1, <1>4

LEMMA RenderKeeps ==
  ASSUME IInv, Render PROVE IInv'
<1> DEFINE s == Head(pending)
<1>1. PICK front \in s.tabs, order \in SetToSeqs(Releases(ui, ui.items \ s.tabs)),
           draft \in Typed :
        ui' = Rendered(ui, s, front, order, draft)
  BY DEF Render
<1>2. /\ pending \in Seq(States) /\ pending # <<>> /\ pending' = Tail(pending) /\ ctl' = ctl
      /\ pending[Len(pending)] = Snapshot(ctl)
  BY DEF Render, IInv, PendingOK
<1>3. s \in States
  BY <1>2
<1>4. StateOK(s)
  BY <1>3 DEF States
<1> DEFINE v == Rendered(ui, s, front, order, draft)
<1>5. /\ UiOK(v) /\ v.items = s.tabs /\ v.selected = s.sel /\ v.dir = s.dir
      /\ LetsGo(ui, ctl) => LetsGo(v, ctl)
  BY <1>4, RenderedIs DEF IInv
<1>6. ui' = v
  BY <1>1
<1> HIDE DEF v
<1>7. UiOK(ui)' /\ LetsGo(ui, ctl)' /\ CtlOK(ctl)'
  <2>1. UiOK(v) /\ LetsGo(v, ctl) /\ CtlOK(ctl)
    BY <1>5 DEF IInv
  <2>2. UiOK(ui') /\ LetsGo(ui', ctl') /\ CtlOK(ctl')
    BY <1>2, <1>6, <2>1
  <2> QED BY <2>2
<1>8. PendingOK'
  <2>1. pending' \in Seq(States)
    BY <1>2
  <2>2. pending' # <<>> => pending'[Len(pending')] = Snapshot(ctl')
    BY <1>2
  <2>3. PendingOK' = (pending' \in Seq(States)
                      /\ (pending' # <<>> => pending'[Len(pending')] = Snapshot(ctl')))
    BY DEF PendingOK
  <2> QED BY <2>1, <2>2, <2>3
<1>9. ASSUME pending' = <<>> PROVE Honest(ui, ctl)'
  <2>1. s = Snapshot(ctl)
    <3>1. Tail(pending) = <<>>
      BY <1>2, <1>9
    <3> QED BY <1>2, <3>1, OnlyOne
  <2>2. True(v, ctl)
    BY <1>5, <2>1 DEF True, Snapshot
  <2>3. True(ui', ctl')
    BY <1>2, <1>6, <2>2
  <2> QED BY <2>3 DEF Honest
<1> QED BY <1>7, <1>8, <1>9 DEF IInv

\* What is not held is let go, or will be, once the first intent was applied.
LEMMA AppliedFrees ==
  ASSUME NEW u, NEW v, u.queue \in Seq(Intent), u.queue # <<>>, v.queue = Tail(u.queue),
         v.refused = u.refused, v.held = u.held, NEW c, NEW e, Obeys(c, Head(u.queue), e),
         LetsGo(u, c)
  PROVE  LetsGo(v, e)
<1> DEFINE q == u.queue
           h == c.held
           g == e.held
<1>1. \A k : /\ Head(q) = Post("release", k, None) => k \notin g
             /\ Head(q) # Post("press", k, None) /\ k \notin h => k \notin g
  BY DEF Obeys
<1>2. /\ Len(q) \in Nat /\ Len(q) > 0 /\ Head(q) = q[1]
      /\ Len(Tail(q)) = Len(q) - 1 /\ \A n \in 1..(Len(q) - 1) : Tail(q)[n] = q[n + 1]
  OBVIOUS
<1>3. ASSUME NEW n \in 1..Len(q), NEW k, FreedBy(q, n, k, h)
      PROVE  FreedBy(Tail(q), n - 1, k, g)
  <2>1. q \in Seq(Intent) /\ q # <<>>
    OBVIOUS
  <2>2. /\ Head(q) = Post("release", k, None) => k \notin g
        /\ Head(q) # Post("press", k, None) /\ k \notin h => k \notin g
    BY <1>1
  <2> HIDE DEF q, h, g
  <2>3. n \in 1..Len(q) /\ FreedBy(q, n, k, h)
    BY <1>3
  <2> QED BY <2>1, <2>2, <2>3, FreedByTail
<1>4. ASSUME NEW k \in Cab, k \notin v.held PROVE Frees(v, k, e)
  <2>1. Frees(u, k, c)
    BY <1>4 DEF LetsGo
  <2>2. CASE u.refused
    BY <2>2 DEF Frees
  <2>3. CASE FreedBy(q, Len(q), k, h)
    <3>1. FreedBy(Tail(q), Len(q) - 1, k, g)
      BY <1>2, <1>3, <2>3
    <3> QED BY <1>2, <3>1 DEF Frees, Freed
  <2> QED BY <2>1, <2>2, <2>3 DEF Frees, Freed
<1>5. Accounts(v, e)
  <2>1. CASE u.refused
    BY <2>1 DEF Accounts
  <2>2. CASE ~u.refused
    <3>1. Justified(c) /\ Clean(q, h)
      BY <2>2 DEF LetsGo, Accounts
    <3>2. Head(q).op = "remove" => Head(q).cab \notin h
      <4> SUFFICES ASSUME Head(q).op = "remove" PROVE Head(q).cab \notin h
        OBVIOUS
      <4>1. FreedBy(q, 1 - 1, q[1].cab, h)
        BY <1>2, <3>1 DEF Clean
      <4> QED BY <1>2, <4>1 DEF FreedBy
    <3>3. Justified(e)
      BY <3>1, <3>2 DEF Obeys
    <3>4. ASSUME NEW n \in 1..Len(Tail(q)), Tail(q)[n].op = "remove"
          PROVE  FreedBy(Tail(q), n - 1, Tail(q)[n].cab, g)
      <4>1. n + 1 \in 1..Len(q) /\ n \in 1..Len(q) /\ Tail(q)[n] = q[n + 1] /\ n + 1 - 1 = n
        BY <1>2
      <4>2. FreedBy(q, n, q[n + 1].cab, h)
        BY <3>1, <3>4, <4>1 DEF Clean
      <4> QED BY <1>3, <4>1, <4>2
    <3>5. Clean(Tail(q), g)
      BY <3>4 DEF Clean
    <3> QED BY <3>3, <3>5 DEF Accounts
  <2> QED BY <2>1, <2>2
<1> QED BY <1>4, <1>5 DEF LetsGo

\* A first intent that is idle is not what the view is owed.
LEMMA IdleOwes ==
  ASSUME NEW u, NEW v, u.queue \in Seq(Intent), u.queue # <<>>, v.queue = Tail(u.queue),
         v.refused = u.refused, NEW c, IsIdle(c, Head(u.queue)), Owes(u, c)
  PROVE  Owes(v, c)
<1>1. CASE u.refused
  BY <1>1 DEF Owes
<1>2. CASE ~u.refused
  <2>1. PICK i \in DOMAIN u.queue : ~IsIdle(c, u.queue[i])
    BY <1>2 DEF Owes
  <2>2. i # 1 /\ i \in 1..Len(u.queue) /\ Head(u.queue) = u.queue[1]
    BY <2>1
  <2>3. i - 1 \in DOMAIN Tail(u.queue) /\ Tail(u.queue)[i - 1] = u.queue[i]
    BY <2>2
  <2> QED BY <2>1, <2>3 DEF Owes
<1> QED BY <1>1, <1>2

LEMMA ApplyKeeps ==
  ASSUME IInv, Apply PROVE IInv'
<1> DEFINE p == Head(ui.queue)
           v == [ui EXCEPT !.queue = Tail(@)]
<1>1. PICK e \in Effects(ctl, p) :
        IF e = ctl /\ IsIdle(ctl, p) THEN UNCHANGED <<ctl, pending>> ELSE Publish(e)
  BY DEF Apply
<1>2. UiOK(ui) /\ CtlOK(ctl) /\ PendingOK /\ LetsGo(ui, ctl) /\ ui.queue # <<>> /\ ui' = v
  BY DEF IInv, Apply
<1>3. ui.queue \in Seq(Intent) /\ p \in Intent /\ Tail(ui.queue) \in Seq(Intent)
      /\ Len(Tail(ui.queue)) <= Len(ui.queue)
  BY <1>2 DEF UiOK, MailboxOK
<1>4. /\ DOMAIN v = Fields /\ SameTabs(ui, v) /\ SameSwitches(ui, v) /\ SameEditors(ui, v)
      /\ v.queue = Tail(ui.queue) /\ v.refused = ui.refused
  BY <1>2 DEF UiOK, TabsOK, Fields, SameTabs, SameSwitches, SameEditors
<1> HIDE DEF v
<1>5. Obeys(ctl, p, e)
  BY <1>2, <1>3, EffectsObey
<1>6. UiOK(v)
  <2>1. MailboxOK(v)
    BY <1>2, <1>3, <1>4, ViewAssumption DEF UiOK, MailboxOK
  <2> QED BY <1>2, <1>4, <2>1, SwitchesFrame, EditorsFrame DEF UiOK, TabsOK, SameTabs
<1>7. LetsGo(v, e)
  BY <1>2, <1>3, <1>4, <1>5, AppliedFrees DEF SameTabs
<1>8. /\ ctl' = e /\ PendingOK'
      /\ pending' = <<>> => pending = <<>> /\ e = ctl /\ IsIdle(ctl, p)
  <2>1. CASE e = ctl /\ IsIdle(ctl, p)
    <3>1. ctl' = ctl /\ pending' = pending
      BY <1>1, <2>1
    <3>2. PendingOK' = PendingOK
      BY <3>1 DEF PendingOK, Snapshot
    <3> QED BY <1>2, <2>1, <3>1, <3>2
  <2>2. CASE ~(e = ctl /\ IsIdle(ctl, p))
    <3>1. Publish(e) /\ CtlOK(e)
      BY <1>1, <1>5, <2>2 DEF Obeys
    <3> QED BY <1>2, <3>1, PublishIs
  <2> QED BY <2>1, <2>2
<1>9. ASSUME pending' = <<>> PROVE Honest(v, e)
  <2>1. Honest(ui, ctl) /\ e = ctl /\ IsIdle(ctl, p)
    BY <1>8, <1>9 DEF IInv
  <2>2. Owes(ui, ctl) => Owes(v, ctl)
    BY <1>2, <1>3, <1>4, <2>1, IdleOwes
  <2>3. True(ui, ctl) => True(v, ctl)
    BY <1>4, TrueFrame DEF SameTabs, SameSwitches
  <2> QED BY <2>1, <2>2, <2>3 DEF Honest
<1>10. CtlOK(e)
  BY <1>5 DEF Obeys
<1>11. UiOK(ui') /\ CtlOK(ctl') /\ LetsGo(ui', ctl') /\ (pending' = <<>> => Honest(ui', ctl'))
  BY <1>2, <1>6, <1>7, <1>8, <1>9, <1>10
<1> QED BY <1>8, <1>11 DEF IInv

\* Holding less frees.
LEMMA FewerFrees ==
  ASSUME NEW u, NEW c, NEW e, e.held \subseteq c.held, Justified(c) => Justified(e),
         LetsGo(u, c)
  PROVE  LetsGo(u, e)
<1>1. ASSUME NEW q, NEW n, NEW k, FreedBy(q, n, k, c.held) PROVE FreedBy(q, n, k, e.held)
  BY <1>1 DEF FreedBy
<1>2. \A k : Frees(u, k, c) => Frees(u, k, e)
  BY <1>1 DEF Frees, Freed
<1>3. Accounts(u, e)
  BY <1>1 DEF LetsGo, Accounts, Clean
<1> QED BY <1>2, <1>3 DEF LetsGo

LEMMA LinkKeeps ==
  ASSUME IInv, Link PROVE IInv'
<1>1. UiOK(ui) /\ CtlOK(ctl) /\ PendingOK /\ LetsGo(ui, ctl) /\ ui' = ui
  BY DEF IInv, Link
<1>2. ASSUME NEW e, CtlOK(e), e.held \subseteq ctl.held, Justified(ctl) => Justified(e),
             Publish(e)
      PROVE  IInv'
  <2>1. ctl' = e /\ PendingOK' /\ pending' # <<>>
    BY <1>1, <1>2, PublishIs
  <2>2. LetsGo(ui, e)
    BY <1>1, <1>2, FewerFrees
  <2>3. UiOK(ui') /\ CtlOK(ctl') /\ LetsGo(ui', ctl')
    BY <1>1, <1>2, <2>1, <2>2
  <2> QED BY <2>1, <2>3 DEF IInv
<1>3. CASE Publish([Loosed(ctl, Cab) EXCEPT !.online = ~@, !.held = {}])
  <2> DEFINE w == Loosed(ctl, Cab)
             l == ctl.loose \cup (ctl.held \cap Cab)
             e == [w EXCEPT !.online = ~@, !.held = {}]
  <2>1. w = Ctl(ctl, ctl.tabs, ctl.sel, ctl.held, ctl.dir, ctl.toggle, ctl.on, l)
    BY <1>1, CtlParts, LoosedCtl
  <2> HIDE DEF w
  <2>2. w \in Ctls(ctl, ctl.tabs, ctl.sel, ctl.held, ctl.dir, ctl.toggle, ctl.on, l)
    BY <2>1 DEF Ctl, Ctls
  <2>3. e \in [tabs : {ctl.tabs}, sel : {ctl.sel}, held : {{}}, dir : {ctl.dir},
               online : BOOLEAN, toggle : {ctl.toggle}, on : {ctl.on}, loose : {l}]
    BY <2>2 DEF Ctls
  <2> HIDE DEF e
  <2>4. e = Ctl(e, ctl.tabs, ctl.sel, {}, ctl.dir, ctl.toggle, ctl.on, l)
        /\ e.online \in BOOLEAN
    BY <2>3 DEF Ctl
  <2>5. e.held = {} /\ e.on = ctl.on /\ e.loose = l
    BY <2>4, CtlFields
  <2>6. CtlOK(e)
    <3>1. /\ ctl.tabs \in SUBSET Cab /\ ctl.sel \in ctl.tabs /\ {} \in SUBSET ctl.tabs
          /\ ctl.dir \in [ctl.tabs -> Dir]
      BY <1>1, CtlParts
    <3> QED BY <2>4, <3>1, CtlIs
  <2>7. Justified(ctl) => Justified(e)
    <3>1. ctl.held \subseteq Cab
      BY <1>1 DEF CtlOK, StateOK
    <3> QED BY <2>5, <3>1 DEF Justified
  <2>8. Publish(e)
    BY <1>3 DEF e, w
  <2> QED BY <1>2, <2>5, <2>6, <2>7, <2>8
<1>4. CASE \E k \in ctl.tabs, d \in Dir : Publish([ctl EXCEPT !.dir[k] = d])
  <2>1. PICK k \in ctl.tabs, d \in Dir : Publish([ctl EXCEPT !.dir[k] = d])
    BY <1>4
  <2> DEFINE e == [ctl EXCEPT !.dir[k] = d]
  <2>2. CtlOK(e) /\ e.held = ctl.held /\ e.on = ctl.on /\ e.loose = ctl.loose
    BY <1>1, DirectedIs
  <2>3. Publish(e)
    BY <2>1
  <2> HIDE DEF e
  <2> QED BY <1>2, <2>2, <2>3 DEF Justified
<1> QED BY <1>3, <1>4 DEF Link

-----------------------------------------------------------------------------
(***************************************************************************)
(* The invariant holds to start with and in every step.                    *)
(***************************************************************************)
LEMMA InitHolds == Init => IInv
<1> SUFFICES ASSUME Init PROVE IInv
  OBVIOUS
<1>1. PICK k \in Cab :
        /\ ui = First(k)
        /\ \E toggle \in SUBSET {k} :
             ctl = [tabs |-> {k}, sel |-> k, held |-> {}, dir |-> [j \in {k} |-> "Fwd"],
                    online |-> FALSE, toggle |-> toggle, on |-> {}, loose |-> {}]
  BY DEF Init
<1> DEFINE f == [j \in {k} |-> "Fwd"]
<1>2. f \in [{k} -> Dir]
  BY DEF Dir
<1>3. /\ DOMAIN ui = Fields /\ ui.items = {k} /\ ui.selected = k /\ ui.held = {}
      /\ ui.enabled = FALSE /\ ui.dir = f /\ ui.thumb = f /\ ui.dragging = None
      /\ ui.editing = {} /\ ui.focus = None /\ ui.endings = [j \in Cab |-> 1]
      /\ ui.queue = <<>> /\ ui.refused = FALSE
  BY <1>1 DEF First, Fields
<1>4. PICK toggle \in SUBSET {k} :
        /\ ctl = Ctl(ctl, {k}, k, {}, f, toggle, {}, {})
        /\ ctl.online \in BOOLEAN
  <2>1. PICK toggle \in SUBSET {k} :
          ctl = [tabs |-> {k}, sel |-> k, held |-> {}, dir |-> f, online |-> FALSE,
                 toggle |-> toggle, on |-> {}, loose |-> {}]
    BY <1>1
  <2> HIDE DEF f
  <2>2. ctl.online = FALSE
    BY <2>1
  <2>3. ctl = Ctl(ctl, {k}, k, {}, f, toggle, {}, {})
    BY <2>1, <2>2 DEF Ctl
  <2> QED BY <2>2, <2>3
<1> HIDE DEF f
<1>5. UiOK(ui)
  <2>1. TabsOK(ui)
    BY <1>3 DEF TabsOK
  <2>2. SwitchesOK(ui)
    BY <1>2, <1>3 DEF SwitchesOK
  <2>3. EditorsOK(ui)
    BY <1>3 DEF EditorsOK
  <2>4. <<>> \in Seq(Intent)
    OBVIOUS
  <2>5. ui.queue \in Seq(Intent) /\ Len(ui.queue) = 0 /\ ui.refused \in BOOLEAN
    BY <1>3, <2>4
  <2>6. Len(ui.queue) <= Capacity
    BY <2>5, ViewAssumption
  <2>7. MailboxOK(ui)
    BY <2>5, <2>6 DEF MailboxOK
  <2> QED BY <2>1, <2>2, <2>3, <2>7 DEF UiOK
<1>6. CtlOK(ctl) /\ ctl.held = {} /\ ctl.on = {}
  BY <1>2, <1>4, CtlFields, CtlIs
<1>7. PendingOK
  <2>1. Snapshot(ctl) \in States
    BY <1>6, SnapshotIs
  <2>2. pending = <<Snapshot(ctl)>>
    BY DEF Init
  <2>3. Len(pending) = 1 /\ pending[1] = Snapshot(ctl) /\ pending \in Seq(States)
    BY <2>1, <2>2
  <2> QED BY <2>3 DEF PendingOK
<1>8. pending # <<>>
  BY DEF Init
<1>9. LetsGo(ui, ctl)
  <2>1. Len(ui.queue) = 0
    BY <1>3
  <2>2. ASSUME NEW j \in Cab PROVE Frees(ui, j, ctl)
    <3>1. Freed(ui.queue, j, ctl.held)
      BY <1>6, <2>1 DEF Freed, FreedBy
    <3> QED BY <3>1 DEF Frees
  <2>3. Accounts(ui, ctl)
    BY <1>6, <2>1 DEF Accounts, Justified, Clean
  <2> QED BY <2>2, <2>3 DEF LetsGo
<1> QED BY <1>5, <1>6, <1>7, <1>8, <1>9 DEF IInv

LEMMA NextKeeps == IInv /\ [Next]_vars => IInv'
<1> SUFFICES ASSUME IInv, [Next]_vars PROVE IInv'
  OBVIOUS
<1>1. CASE Press \/ Flip
  BY <1>1, PressKeeps, FlipKeeps
<1>2. CASE Submit \/ Leave
  BY <1>2, SubmitKeeps, LeaveKeeps
<1>3. CASE Escape
  BY <1>3, EscapeKeeps
<1>4. CASE DragEnd
  BY <1>4, DragEndKeeps
<1>5. CASE Render
  BY <1>5, RenderKeeps
<1>6. CASE Apply
  BY <1>6, ApplyKeeps
<1>7. CASE Link
  BY <1>7, LinkKeeps
<1>8. ASSUME NEW k \in Cab,
             Tap(k) \/ Release(k) \/ CloseTab(k) \/ Reassign(k) \/ AddTab(k) \/ Edit(k)
      PROVE  IInv'
  BY <1>8, TapKeeps, ReleaseKeeps, CloseTabKeeps, ReassignKeeps, AddTabKeeps, EditKeeps
<1>9. ASSUME NEW d \in Dir, TapDirection(d) \/ Drag(d) PROVE IInv'
  BY <1>9, TapDirectionKeeps, DragKeeps
<1>10. CASE UNCHANGED vars
  <2>1. ui' = ui /\ ctl' = ctl /\ pending' = pending
    BY <1>10 DEF vars
  <2>2. UiOK(ui') /\ CtlOK(ctl') /\ LetsGo(ui', ctl') /\ (pending' = <<>> => Honest(ui', ctl'))
    BY <2>1 DEF IInv
  <2>3. PendingOK' = PendingOK
    BY <2>1 DEF PendingOK, Snapshot
  <2> QED BY <2>2, <2>3 DEF IInv
<1> QED BY <1>1, <1>2, <1>3, <1>4, <1>5, <1>6, <1>7, <1>8, <1>9, <1>10 DEF Next

LEMMA Inductive == Spec => []IInv
BY InitHolds, NextKeeps, PTL DEF Spec

-----------------------------------------------------------------------------
(***************************************************************************)
(* A function button that cannot be seen is not held, whichever of the     *)
(* operator, the session and a late state took its tab away: OnUnselected  *)
(* and the panel that goes release it (loco_tabs.go, throttle.go).         *)
(***************************************************************************)
THEOREM HiddenReleases == Spec => []HiddenHoldsNothing
<1>1. IInv => HiddenHoldsNothing
  BY DEF IInv, UiOK, TabsOK, HiddenHoldsNothing
<1> QED BY <1>1, Inductive, PTL

(***************************************************************************)
(* When no intent and no state is on its way, and none was refused, the    *)
(* tabs, the one in front and the direction switches are those of the      *)
(* session, though gestures change them before it knows and late states    *)
(* write over them (view.go's Render against View.post).                   *)
(***************************************************************************)
THEOREM QuietShowsTheSession == Spec => []QuietViewIsTrue
<1>1. IInv => QuietViewIsTrue
  <2> SUFFICES ASSUME IInv, Quiet
               PROVE  /\ ui.items = ctl.tabs /\ ui.selected = ctl.sel /\ ui.dir = ctl.dir
                      /\ \A k \in ui.items : ui.dragging # k => ui.thumb[k] = ui.dir[k]
    BY DEF QuietViewIsTrue
  <2>1. Honest(ui, ctl) /\ ~ui.refused /\ DOMAIN ui.queue = {}
    BY DEF IInv, Quiet
  <2>2. True(ui, ctl)
    BY <2>1 DEF Honest, Owes
  <2>3. SwitchesOK(ui)
    BY DEF IInv, UiOK
  <2> QED BY <2>2, <2>3 DEF True, SwitchesOK
<1> QED BY <1>1, Inductive, PTL

(***************************************************************************)
(* When nothing is on its way, and nothing was refused, a function that    *)
(* this program turned on is on at the station because its button is held  *)
(* or because it is loose.  Loose are a function that a press switched on  *)
(* in toggle mode, and one that was held when ReplaceCab dropped its tab's *)
(* record or Attach or Detach forgot what is held; they stay on, until     *)
(* pressed or released again.  Every other way a button goes up posts the  *)
(* release after the press (FunctionButton.up, OnUnselected,               *)
(* CloseIntercept, syncThrottles), RemoveCab never meets a held function,  *)
(* and a mode changed meanwhile does not swallow the release               *)
(* (Controller.Function).                                                  *)
(***************************************************************************)
THEOREM NothingSticks == Spec => []NoStuckFunction
<1>1. IInv => NoStuckFunction
  <2> SUFFICES ASSUME IInv, Quiet, NEW k \in ctl.on \ ctl.loose PROVE k \in ui.held
    BY DEF NoStuckFunction
  <2>1. ~ui.refused /\ Len(ui.queue) = 0 /\ LetsGo(ui, ctl)
    BY DEF Quiet, IInv
  <2>2. k \in ctl.held
    BY <2>1 DEF LetsGo, Accounts, Justified
  <2>3. k \in Cab
    BY <2>2 DEF IInv, CtlOK, StateOK
  <2>4. ~Freed(ui.queue, k, ctl.held)
    BY <2>1, <2>2 DEF Freed, FreedBy
  <2>5. ~Frees(ui, k, ctl)
    BY <2>1, <2>4 DEF Frees
  <2> QED BY <2>1, <2>3, <2>5 DEF LetsGo
<1> QED BY <1>1, Inductive, PTL

(***************************************************************************)
(* An edit of a title ends once, by one rename that was accepted or by     *)
(* being given up: locoTabHeader.finish closes the editor before it gives  *)
(* the focus away, so that the loss of the focus, which saves too, finds   *)
(* nothing to save, and leaves it open when the draft is invalid or the    *)
(* rename was refused (loco_tabs.go).                                      *)
(***************************************************************************)
THEOREM EditsEnd == Spec => []EditsEndOnce
<1>1. IInv => EditsEndOnce
  BY DEF IInv, UiOK, EditorsOK, EditsEndOnce
<1> QED BY <1>1, Inductive, PTL
=============================================================================
