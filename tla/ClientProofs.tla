---------------------------- MODULE ClientProofs ----------------------------
(***************************************************************************)
(* Theorems about Client.tla, for any number of callers and commands, any  *)
(* channel and any way of breaking a command into pieces.  That commands   *)
(* reach the station whole rests on c.writeMu and done together: a caller  *)
(* holds the mutex as long as its writing goroutine may still be writing,  *)
(* unless done is closed, and then nobody starts another.                  *)
(***************************************************************************)
EXTENDS Client, SequenceTheorems, TLAPS

Event == {"frame", "truncated", "failed"}
Cause == {"read", "write", "timeout"}
Place == {"reading", "napping", "emitting", "truncated", "recording", "telling",
          "leaving", "closing", "stopped"}
Answer == {"pending", "ok", "refused", "closed", "failed"}
Writer == [left : 0..Chunks, state : {"none", "writing", "ok", "failed"}]

\* The reader, the channel and the shutdown.
ReaderOK ==
  /\ reader \in Place /\ todo \in 0..MaxFrames
  /\ failing \in BOOLEAN /\ partial \in BOOLEAN /\ readCause \in BOOLEAN
  /\ events \in Seq(Event) /\ Len(events) <= Capacity
  /\ ended \in BOOLEAN /\ told \in BOOLEAN

OnceOK ==
  /\ once \in {"unused", "closing", "joining", "over"}
  /\ done \in BOOLEAN /\ (~done => once = "unused") /\ (once = "unused" => ~done)
  /\ open \in BOOLEAN
  /\ cause \in SUBSET Cause /\ life \in SUBSET Cause

\* The callers and what they send.
CallerOK ==
  /\ pc \in [Caller -> {"idle", "locking", "waiting", "ending", "shutting"}]
  /\ lock \in Caller \cup {None}
  /\ result \in Seq(Answer)
  /\ cmd \in [Caller -> Nat] /\ \A c \in Caller : cmd[c] <= Len(result)
  /\ writers \in Seq(Writer) /\ Len(writers) = Len(result)
  /\ wire \in Seq(Nat) /\ \A i \in 1..Len(wire) : wire[i] \in 1..Len(result)

Sends(c) == pc[c] \in {"locking", "waiting", "ending"}

\* Turns: a command belongs to one caller, the mutex to the one that waits for
\* an answer, and what is written, or broke off, is waited for until done.
Own == \A c \in Caller : Sends(c) => cmd[c] \in 1..Len(result)
Apart == \A c, d \in Caller : Sends(c) /\ Sends(d) /\ cmd[c] = cmd[d] => c = d
Fresh == \A c \in Caller : pc[c] = "locking" => writers[cmd[c]].state = "none"
Mutex == \A c \in Caller : lock = c <=> pc[c] \in {"waiting", "ending"}
Awaited ==
  \A n \in 1..Len(result) : writers[n].state \in {"writing", "failed"} =>
    done \/ \E c \in Caller : pc[c] = "waiting" /\ cmd[c] = n
OneWrites ==
  \A n, m \in 1..Len(result) :
    writers[n].state = "writing" /\ writers[m].state = "writing" => n = m
TurnsOK == Own /\ Apart /\ Fresh /\ Mutex /\ Awaited /\ OneWrites

\* The wire: the one who writes continues its own command or follows a whole one.
Ready == \A n \in 1..Len(result) : writers[n].state = "ok" <=> writers[n].left = 0
Begun == \A i \in 1..Len(wire) : writers[wire[i]].state # "none"
Continued ==
  \A n \in 1..Len(result) : writers[n].state = "writing" /\ Len(wire) > 0 =>
    wire[Len(wire)] = n \/ writers[wire[Len(wire)]].left = 0
InTurn ==
  \A i \in 1..Len(wire) - 1 : wire[i] # wire[i + 1] => writers[wire[i]].left = 0
Honest == \A n \in 1..Len(result) : result[n] = "ok" => writers[n].left = 0
WireOK == Ready /\ Begun /\ Continued /\ InTurn /\ Honest

IInv == ReaderOK /\ OnceOK /\ CallerOK /\ TurnsOK /\ WireOK

USE ClientAssumption

-----------------------------------------------------------------------------
(***************************************************************************)
(* What a step leaves alone.                                               *)
(***************************************************************************)
LEMMA ReaderFrame == ReaderOK /\ UNCHANGED <<readerVars, channelVars>> => ReaderOK'
BY DEF ReaderOK, readerVars, channelVars

LEMMA OnceFrame == OnceOK /\ UNCHANGED onceVars => OnceOK'
BY DEF OnceOK, onceVars

\* The callers do not depend on the reader, and done only helps them.
LEMMA CallerFrame ==
  ASSUME CallerOK, TurnsOK, WireOK, UNCHANGED <<callerVars, wireVars>>, done => done'
  PROVE  CallerOK' /\ TurnsOK' /\ WireOK'
<1>1. CallerOK'
  BY DEF CallerOK, callerVars, wireVars
<1>2. TurnsOK'
  BY DEF TurnsOK, Own, Apart, Fresh, Mutex, Awaited, OneWrites, Sends,
         callerVars, wireVars
<1>3. WireOK'
  BY DEF WireOK, Ready, Begun, Continued, InTurn, Honest, callerVars, wireVars
<1> QED BY <1>1, <1>2, <1>3

-----------------------------------------------------------------------------
(***************************************************************************)
(* The shutdown.                                                           *)
(***************************************************************************)
LEMMA ClosesKeeps ==
  ASSUME OnceOK, NEW why \in SUBSET Cause, Closes(why)
  PROVE  OnceOK' /\ done'
BY DEF OnceOK, Closes, onceVars

LEMMA CloseTransportKeeps == IInv /\ CloseTransport => IInv'
<1> SUFFICES ASSUME IInv, CloseTransport PROVE IInv'
  OBVIOUS
<1>1. OnceOK'
  BY DEF IInv, OnceOK, CloseTransport
<1> QED BY <1>1, ReaderFrame, CallerFrame DEF IInv, CloseTransport

LEMMA JoinCauseKeeps == IInv /\ JoinCause => IInv'
<1> SUFFICES ASSUME IInv, JoinCause PROVE IInv'
  OBVIOUS
<1>1. OnceOK'
  BY DEF IInv, OnceOK, JoinCause, Cause
<1> QED BY <1>1, ReaderFrame, CallerFrame DEF IInv, JoinCause

-----------------------------------------------------------------------------
(***************************************************************************)
(* The reader.                                                             *)
(***************************************************************************)
LEMMA EmitsKeeps ==
  ASSUME ReaderOK, NEW e \in Event, NEW next \in Place, Emits(e, next)
  PROVE  events' \in Seq(Event) /\ Len(events') <= Capacity /\ reader' \in Place
BY DEF ReaderOK, Emits, Place

LEMMA ReadKeeps == IInv /\ Read => IInv'
<1> SUFFICES ASSUME IInv, Read PROVE IInv'
  OBVIOUS
<1>1. ReaderOK'
  BY DEF IInv, ReaderOK, Read, At, Place, channelVars
<1> QED BY <1>1, OnceFrame, CallerFrame DEF IInv, Read, At, onceVars

LEMMA ReaderStepKeeps == IInv /\ ReaderStep => IInv'
<1> SUFFICES ASSUME IInv, ReaderStep PROVE IInv'
  OBVIOUS
<1>1. ReaderOK
  BY DEF IInv
<1>2. CASE Nap
  <2>1. ReaderOK'
    BY <1>1, <1>2 DEF ReaderOK, Nap, At, Place, channelVars
  <2> QED BY <1>2, <2>1, OnceFrame, CallerFrame DEF IInv, Nap, At, onceVars
<1>3. CASE EmitFrame
  <2>1. ReaderOK'
    BY <1>1, <1>3, EmitsKeeps DEF ReaderOK, EmitFrame, At, Place, Event
  <2> QED BY <1>3, <2>1, OnceFrame, CallerFrame DEF IInv, EmitFrame, At, onceVars
<1>4. CASE Assess
  <2>1. reader' \in Place
    BY <1>1, <1>4 DEF ReaderOK, Assess, Place
  <2>2. ReaderOK'
    BY <1>1, <1>4, <2>1 DEF ReaderOK, Assess, channelVars
  <2> QED BY <1>4, <2>2, OnceFrame, CallerFrame DEF IInv, Assess, At, onceVars
<1>5. CASE Truncated
  <2>1. ReaderOK'
    BY <1>1, <1>5, EmitsKeeps DEF ReaderOK, Truncated, At, Place, Event
  <2> QED BY <1>5, <2>1, OnceFrame, CallerFrame DEF IInv, Truncated, At, onceVars
<1>6. CASE RecordAndTell
  <2>1. CASE reader = "recording"
    <3>1. ReaderOK'
      BY <1>1, <1>6, <2>1 DEF ReaderOK, RecordAndTell, At, Place, channelVars
    <3> QED BY <1>6, <2>1, <3>1, OnceFrame, CallerFrame
            DEF IInv, RecordAndTell, At, onceVars
  <2>2. CASE reader = "telling"
    <3>1. ReaderOK'
      BY <1>1, <1>6, <2>2, EmitsKeeps DEF ReaderOK, RecordAndTell, At, Place, Event
    <3> QED BY <1>6, <2>2, <3>1, OnceFrame, CallerFrame
            DEF IInv, RecordAndTell, At, onceVars
  <2> QED BY <1>6, <2>1, <2>2 DEF RecordAndTell, At
<1>7. CASE Leave
  <2>1. ReaderOK'
    BY <1>1, <1>7 DEF ReaderOK, Leave, At, Place, channelVars
  <2>2. OnceOK' /\ (done => done')
    BY <1>7, ClosesKeeps, OnceFrame DEF IInv, Leave, onceVars
  <2> QED BY <1>7, <2>1, <2>2, CallerFrame DEF IInv, Leave, At
<1> QED BY <1>2, <1>3, <1>4, <1>5, <1>6, <1>7 DEF ReaderStep

LEMMA ReceiveKeeps ==
  ASSUME IInv, NEW c \in Caller, Receive(c)
  PROVE  IInv'
<1>1. ReaderOK'
  BY DEF IInv, ReaderOK, Receive, readerVars
<1> QED BY <1>1, OnceFrame, CallerFrame DEF IInv, Receive, onceVars

-----------------------------------------------------------------------------
(***************************************************************************)
(* The callers.                                                            *)
(***************************************************************************)
\* A command that is answered: it was written whole, or nobody starts another.
LEMMA ReturnsKeeps ==
  ASSUME CallerOK, TurnsOK, WireOK, NEW c \in Caller, Sends(c), NEW r \in Answer,
         Returns(c, r), UNCHANGED wireVars, UNCHANGED done,
         done \/ writers[cmd[c]].state = "ok",
         r = "ok" => writers[cmd[c]].state = "ok"
  PROVE  CallerOK' /\ TurnsOK' /\ WireOK'
<1>1. cmd[c] \in 1..Len(result)
  BY DEF TurnsOK, Own
<1>2. /\ result' \in Seq(Answer) /\ Len(result') = Len(result)
      /\ \A n \in 1..Len(result) : result'[n] = IF n = cmd[c] THEN r ELSE result[n]
  BY <1>1 DEF CallerOK, Returns
<1>3. /\ pc' = [pc EXCEPT ![c] = "idle"] /\ cmd' = [cmd EXCEPT ![c] = 0]
      /\ lock' = IF lock = c THEN None ELSE lock
      /\ writers' = writers /\ wire' = wire /\ done' = done
  BY DEF Returns, Moves, wireVars
<1>4. CallerOK'
  BY <1>2, <1>3 DEF CallerOK
<1>5. Own' /\ Apart' /\ Fresh' /\ Mutex'
  BY <1>2, <1>3 DEF CallerOK, TurnsOK, Own, Apart, Fresh, Mutex, Sends
<1>6. Awaited' /\ OneWrites'
  BY <1>2, <1>3 DEF CallerOK, TurnsOK, Awaited, OneWrites
<1>7. WireOK'
  BY <1>1, <1>2, <1>3 DEF CallerOK, WireOK, Ready, Begun, Continued, InTurn, Honest
<1> QED BY <1>4, <1>5, <1>6, <1>7 DEF TurnsOK

LEMMA SendKeeps ==
  ASSUME IInv, NEW c \in Caller, Send(c)
  PROVE  IInv'
<1> DEFINE N == Len(result) + 1
<1>1. /\ pc[c] = "idle" /\ lock' = lock /\ wire' = wire /\ done' = done
      /\ result \in Seq(Answer) /\ writers \in Seq(Writer) /\ Len(writers) = Len(result)
      /\ Len(result) \in Nat
  BY DEF IInv, Send, CallerOK, onceVars
<1>2. PICK r \in {"refused", "pending"} : result' = Append(result, r)
  BY DEF Send
<1>3. writers' = Append(writers, [left |-> Chunks, state |-> "none"])
  BY DEF Send
<1>4. /\ result' \in Seq(Answer) /\ Len(result') = N /\ result'[N] # "ok"
      /\ \A n \in 1..Len(result) : result'[n] = result[n]
  BY <1>1, <1>2 DEF Answer
<1>5. /\ writers' \in Seq(Writer) /\ Len(writers') = N
      /\ writers'[N].left = Chunks /\ writers'[N].state = "none"
      /\ \A n \in 1..Len(result) : writers'[n] = writers[n]
  BY <1>1, <1>3 DEF Writer
<1>6. \/ pc' = pc /\ cmd' = cmd
      \/ pc' = [pc EXCEPT ![c] = "locking"] /\ cmd' = [cmd EXCEPT ![c] = N]
  BY <1>4 DEF Send, Moves
<1> HIDE DEF N
<1>7. N \in 1..Len(result') /\ 1..Len(result) \subseteq 1..Len(result')
  BY <1>1, <1>4 DEF N
<1>8. \A n \in 1..Len(result') : n = N \/ n \in 1..Len(result)
  BY <1>1, <1>4 DEF N
<1>9. \A n \in 1..Len(result) : n # N
  BY <1>1 DEF N
<1>10. CallerOK'
  <2>1. pc' \in [Caller -> {"idle", "locking", "waiting", "ending", "shutting"}]
    BY <1>6 DEF IInv, CallerOK
  <2>2. cmd' \in [Caller -> Nat] /\ \A d \in Caller : cmd'[d] \in {cmd[d], N}
    <3>1. cmd \in [Caller -> Nat] /\ N \in Nat
      BY <1>1 DEF IInv, CallerOK, N
    <3> QED BY <1>6, <3>1
  <2>4. \A d \in Caller : cmd'[d] <= Len(result')
    <3>1. \A d \in Caller : cmd[d] \in Nat /\ cmd[d] <= Len(result)
      BY DEF IInv, CallerOK
    <3> QED BY <1>1, <1>4, <2>2, <3>1 DEF N
  <2>3. \A i \in 1..Len(wire) : wire[i] \in 1..Len(result')
    BY <1>7 DEF IInv, CallerOK
  <2> QED BY <1>1, <1>4, <1>5, <2>1, <2>2, <2>3, <2>4 DEF IInv, CallerOK
<1>11. Own'
  BY <1>1, <1>6, <1>7 DEF IInv, CallerOK, TurnsOK, Own, Sends
<1>12. Apart'
  BY <1>1, <1>6, <1>9 DEF IInv, CallerOK, TurnsOK, Own, Apart, Sends
<1>13. Fresh'
  BY <1>1, <1>5, <1>6 DEF IInv, CallerOK, TurnsOK, Own, Fresh, Sends
<1>14. Mutex'
  BY <1>1, <1>6 DEF IInv, CallerOK, TurnsOK, Mutex
<1>15. Awaited'
  <2>1. \A d \in Caller : pc[d] = "waiting" => pc'[d] = "waiting" /\ cmd'[d] = cmd[d]
    BY <1>1, <1>6 DEF IInv, CallerOK
  <2>2. \A n \in 1..Len(result) : writers[n].state \in {"writing", "failed"} =>
          done \/ \E d \in Caller : pc[d] = "waiting" /\ cmd[d] = n
    BY DEF IInv, TurnsOK, Awaited
  <2>3. SUFFICES ASSUME NEW n \in 1..Len(result'),
                        writers'[n].state \in {"writing", "failed"}
                 PROVE  done' \/ \E d \in Caller : pc'[d] = "waiting" /\ cmd'[d] = n
    BY DEF Awaited
  <2>4. n \in 1..Len(result) /\ writers[n].state \in {"writing", "failed"}
    BY <1>5, <1>8, <2>3
  <2> QED BY <1>1, <2>1, <2>2, <2>4
<1>16. OneWrites'
  BY <1>5, <1>8 DEF IInv, TurnsOK, OneWrites
<1>17. Ready' /\ Honest'
  BY <1>4, <1>5, <1>8 DEF IInv, WireOK, Ready, Honest
<1>18. Begun' /\ InTurn' /\ Continued'
  <2>1. /\ Len(wire) \in Nat
        /\ \A i \in 1..Len(wire) : writers'[wire[i]] = writers[wire[i]]
    BY <1>5 DEF IInv, CallerOK
  <2>2. Begun'
    BY <1>1, <2>1 DEF IInv, WireOK, Begun
  <2>3. InTurn'
    BY <1>1, <2>1 DEF IInv, WireOK, InTurn
  <2>4. Continued'
    BY <1>1, <1>5, <1>8, <2>1 DEF IInv, WireOK, Continued
  <2> QED BY <2>2, <2>3, <2>4
<1>19. ReaderOK' /\ OnceOK'
  BY ReaderFrame, OnceFrame DEF IInv, Send
<1> QED BY <1>10, <1>11, <1>12, <1>13, <1>14, <1>15, <1>16, <1>17, <1>18, <1>19
       DEF IInv, TurnsOK, WireOK

\* The mutex is free and done is open: whatever was written was written whole.
LEMMA StartsKeeps ==
  ASSUME CallerOK, TurnsOK, WireOK, NEW c \in Caller, pc[c] = "locking", lock = None,
         ~done, Starts(c), UNCHANGED <<wire, done>>
  PROVE  CallerOK' /\ TurnsOK' /\ WireOK'
<1>1. cmd[c] \in 1..Len(result) /\ writers[cmd[c]].state = "none"
  BY DEF TurnsOK, Own, Fresh, Sends
<1>2. /\ lock' = c /\ pc' = [pc EXCEPT ![c] = "waiting"] /\ cmd' = cmd
      /\ result' = result /\ wire' = wire /\ done' = done
      /\ writers' = [writers EXCEPT ![cmd[c]].state = "writing"]
  BY DEF Starts, Moves
<1>3. \A d \in Caller : pc[d] \notin {"waiting", "ending"}
  BY DEF TurnsOK, Mutex
<1>4. \A n \in 1..Len(result) : writers[n].state \notin {"writing", "failed"}
  BY <1>3 DEF TurnsOK, Awaited
<1>5. /\ writers \in Seq(Writer) /\ Len(writers) = Len(result)
      /\ \A n \in 1..Len(result) : writers[n] \in Writer
  BY DEF CallerOK
<1>6. /\ writers' \in Seq(Writer) /\ Len(writers') = Len(result)
      /\ \A n \in 1..Len(result) :
           /\ writers'[n].left = writers[n].left
           /\ writers'[n].state = IF n = cmd[c] THEN "writing" ELSE writers[n].state
  <2> DEFINE k == cmd[c]
             w == [writers[k] EXCEPT !.state = "writing"]
  <2>1. k \in 1..Len(result) /\ writers' = [writers EXCEPT ![k] = w]
    BY <1>1, <1>2
  <2>2. w \in Writer /\ w.left = writers[k].left /\ w.state = "writing"
    BY <1>1, <1>5 DEF Writer
  <2> HIDE DEF k, w
  <2>3. /\ writers' \in Seq(Writer) /\ Len(writers') = Len(result)
        /\ \A n \in 1..Len(result) : writers'[n] = IF n = k THEN w ELSE writers[n]
    BY <1>5, <2>1, <2>2
  <2> QED BY <2>2, <2>3 DEF k
<1>8. CallerOK'
  BY <1>2, <1>6 DEF CallerOK
<1>9. Own' /\ Apart'
  BY <1>2 DEF CallerOK, TurnsOK, Own, Apart, Sends
<1>10. Fresh'
  BY <1>1, <1>2, <1>6 DEF CallerOK, TurnsOK, Own, Apart, Fresh, Sends
<1>11. Mutex'
  BY <1>2, <1>3 DEF CallerOK, TurnsOK, Mutex
<1>12. Awaited'
  BY <1>2, <1>4, <1>6 DEF CallerOK, Awaited
<1>13. OneWrites'
  BY <1>2, <1>4, <1>6 DEF OneWrites
<1>14. \A i \in 1..Len(wire) : wire[i] \in 1..Len(result) /\ writers[wire[i]].left = 0
  <2> SUFFICES ASSUME NEW i \in 1..Len(wire)
               PROVE  wire[i] \in 1..Len(result) /\ writers[wire[i]].left = 0
    OBVIOUS
  <2>1. wire[i] \in 1..Len(result)
    BY DEF CallerOK
  <2>2. writers[wire[i]].state = "ok"
    BY <1>4, <1>5, <2>1 DEF WireOK, Begun, Writer
  <2> QED BY <2>1, <2>2 DEF WireOK, Ready
<1>15. Ready'
  <2>1. writers[cmd[c]].left # 0
    BY <1>1 DEF WireOK, Ready
  <2> QED BY <1>2, <1>6, <2>1 DEF WireOK, Ready
<1>16. Begun'
  BY <1>2, <1>6, <1>14 DEF WireOK, Begun
<1>17. Continued' /\ InTurn'
  <2>1. Len(wire) \in Nat /\ \A i \in 1..Len(wire) - 1 : i \in 1..Len(wire)
    BY DEF CallerOK
  <2>2. \A i \in 1..Len(wire) : writers'[wire[i]].left = 0
    BY <1>6, <1>14
  <2>3. Len(wire) > 0 => Len(wire) \in 1..Len(wire)
    BY <2>1
  <2>4. Continued'
    BY <1>2, <2>2, <2>3 DEF Continued
  <2>5. InTurn'
    BY <1>2, <2>1, <2>2 DEF InTurn
  <2> QED BY <2>4, <2>5
<1>18. Honest'
  BY <1>2, <1>6 DEF WireOK, Honest
<1> QED BY <1>8, <1>9, <1>10, <1>11, <1>12, <1>13, <1>15, <1>16, <1>17, <1>18
        DEF TurnsOK, WireOK

LEMMA EnterKeeps ==
  ASSUME IInv, NEW c \in Caller, Enter(c)
  PROVE  IInv'
<1>1. pc[c] = "locking" /\ lock = None /\ Starts(c) /\ wire' = wire /\ done' = done
  BY DEF Enter, onceVars
<1>2. CASE done
  BY <1>1, <1>2, ReturnsKeeps, ReaderFrame, OnceFrame
     DEF IInv, Enter, Starts, Sends, Answer, wireVars
<1>3. CASE ~done
  BY <1>1, <1>3, StartsKeeps, ReaderFrame, OnceFrame DEF IInv, Enter
<1> QED BY <1>2, <1>3

\* Somebody shuts down: from now on nobody starts another command.
LEMMA EndingKeeps ==
  ASSUME CallerOK, TurnsOK, WireOK, NEW c \in Caller, done', UNCHANGED wireVars,
         UNCHANGED <<cmd, lock, result>>,
         \/ pc[c] = "waiting" /\ Moves(c, "ending")
         \/ pc[c] = "idle" /\ Moves(c, "shutting")
         \/ pc[c] = "shutting" /\ Moves(c, "idle")
  PROVE  CallerOK' /\ TurnsOK' /\ WireOK'
<1>1. CallerOK'
  BY DEF CallerOK, Moves, wireVars
<1>2. Own' /\ Apart' /\ Fresh'
  <2>1. \A d \in Caller :
          (Sends(d)' => Sends(d)) /\ (pc'[d] = "locking" => pc[d] = "locking")
    BY DEF CallerOK, Sends, Moves
  <2> QED BY <2>1 DEF TurnsOK, Own, Apart, Fresh, wireVars
<1>3. Mutex'
  BY DEF CallerOK, TurnsOK, Mutex, Moves
<1>4. Awaited' /\ OneWrites'
  BY DEF TurnsOK, Awaited, OneWrites, wireVars
<1>5. WireOK'
  BY DEF WireOK, Ready, Begun, Continued, InTurn, Honest, wireVars
<1> QED BY <1>1, <1>2, <1>3, <1>4, <1>5 DEF TurnsOK

LEMMA AwaitKeeps ==
  ASSUME IInv, NEW c \in Caller, Await(c)
  PROVE  IInv'
<1>1. pc[c] = "waiting" /\ UNCHANGED <<wireVars, readerVars, channelVars>>
  BY DEF Await
<1>2. ReaderOK'
  BY <1>1, ReaderFrame DEF IInv
<1>3. CASE writers[cmd[c]].state = "ok" /\ Returns(c, "ok") /\ UNCHANGED onceVars
  BY <1>1, <1>2, <1>3, ReturnsKeeps, OnceFrame DEF IInv, Sends, Answer, onceVars
<1>4. CASE done /\ Returns(c, "closed") /\ UNCHANGED onceVars
  BY <1>1, <1>2, <1>4, ReturnsKeeps, OnceFrame DEF IInv, Sends, Answer, onceVars
<1>5. CASE /\ Closes({"write"}) \/ Closes({"timeout"})
           /\ Moves(c, "ending") /\ UNCHANGED <<cmd, lock, result>>
  <2>1. OnceOK' /\ done'
    BY <1>5, ClosesKeeps DEF IInv, Cause
  <2> QED BY <1>1, <1>2, <1>5, <2>1, EndingKeeps DEF IInv
<1> QED BY <1>3, <1>4, <1>5 DEF Await

LEMMA EndedKeeps ==
  ASSUME IInv, NEW c \in Caller, Ended(c)
  PROVE  IInv'
<1>1. done
  BY DEF IInv, OnceOK, Ended
<1> QED BY <1>1, ReturnsKeeps, ReaderFrame, OnceFrame
        DEF IInv, Ended, Sends, Answer, onceVars

LEMMA CloseKeeps ==
  ASSUME IInv, NEW c \in Caller, Close(c)
  PROVE  IInv'
<1>1. UNCHANGED <<cmd, lock, result, wireVars, readerVars, channelVars>>
  BY DEF Close
<1>2. CASE pc[c] = "idle" /\ Closes({}) /\ Moves(c, "shutting")
  <2>1. OnceOK' /\ done'
    BY <1>2, ClosesKeeps DEF IInv
  <2> QED BY <1>1, <1>2, <2>1, EndingKeeps, ReaderFrame DEF IInv
<1>3. CASE pc[c] = "shutting" /\ once = "over" /\ Moves(c, "idle") /\ UNCHANGED onceVars
  <2>1. OnceOK' /\ done'
    BY <1>3, OnceFrame DEF IInv, OnceOK, onceVars
  <2> QED BY <1>1, <1>3, <2>1, EndingKeeps, ReaderFrame DEF IInv
<1> QED BY <1>2, <1>3 DEF Close

-----------------------------------------------------------------------------
(***************************************************************************)
(* A writing goroutine: there is only one, and it continues what it began  *)
(* or begins after what is whole.                                          *)
(***************************************************************************)
LEMMA WriteKeeps ==
  ASSUME IInv, NEW n \in DOMAIN writers, Write(n)
  PROVE  IInv'
<1>1. /\ n \in 1..Len(result) /\ writers[n].state = "writing"
      /\ \A m \in 1..Len(result) : writers[m] \in Writer
      /\ writers \in Seq(Writer) /\ Len(writers) = Len(result)
      /\ UNCHANGED <<pc, cmd, lock, result, done>>
  BY DEF IInv, CallerOK, Write, callerVars, onceVars
<1>2. writers[n].left \in 1..Chunks
  BY <1>1 DEF IInv, WireOK, Ready, Writer
<1>3. \A m \in 1..Len(result) : writers[m].state = "writing" => m = n
  BY <1>1 DEF IInv, TurnsOK, OneWrites
<1>4. /\ wire \in Seq(Nat) /\ Len(wire) \in Nat
      /\ \A i \in 1..Len(wire) : wire[i] \in 1..Len(result)
  BY DEF IInv, CallerOK
<1>5. ReaderOK' /\ OnceOK'
  BY ReaderFrame, OnceFrame DEF IInv, Write
<1>6. CASE /\ wire' = Append(wire, n)
           /\ writers' = [writers EXCEPT
                ![n] = [left |-> writers[n].left - 1,
                        state |-> IF writers[n].left = 1 THEN "ok" ELSE "writing"]]
  <2> DEFINE L == Len(wire) + 1
  <2>1. writers' \in Seq(Writer) /\ Len(writers') = Len(result)
    BY <1>1, <1>2, <1>6 DEF Writer
  <2>2. /\ writers'[n].left = writers[n].left - 1
        /\ writers'[n].state = IF writers[n].left = 1 THEN "ok" ELSE "writing"
        /\ \A m \in 1..Len(result) : m # n => writers'[m] = writers[m]
    BY <1>1, <1>6
  <2>3. /\ wire' \in Seq(Nat) /\ Len(wire') = L /\ wire'[L] = n
        /\ \A i \in 1..Len(wire) : wire'[i] = wire[i]
    BY <1>1, <1>4, <1>6
  <2>4. \A i \in 1..L : i = L \/ i \in 1..Len(wire)
    BY <1>4
  <2> HIDE DEF L
  <2>5. CallerOK'
    BY <1>1, <1>4, <2>1, <2>3, <2>4 DEF IInv, CallerOK
  <2>6. Own' /\ Apart' /\ Mutex'
    BY <1>1 DEF IInv, TurnsOK, Own, Apart, Mutex, Sends
  <2>7. Fresh'
    BY <1>1, <2>2 DEF IInv, TurnsOK, Own, Fresh, Sends
  <2>8. Awaited' /\ OneWrites'
    <3>1. \A m \in 1..Len(result) : writers'[m].state \in {"writing", "failed"} =>
            writers[m].state \in {"writing", "failed"}
      BY <1>1, <2>2
    <3>2. Awaited'
      BY <1>1, <3>1 DEF IInv, TurnsOK, Awaited
    <3>3. OneWrites'
      BY <1>1, <1>3, <2>2 DEF OneWrites
    <3> QED BY <3>2, <3>3
  <2>9. Ready' /\ Honest'
    BY <1>1, <1>2, <2>2 DEF IInv, WireOK, Ready, Honest
  <2>10. Begun'
    <3>1. \A m \in 1..Len(result) :
            writers[m].state # "none" => writers'[m].state # "none"
      BY <2>2
    <3>2. writers'[n].state # "none"
      BY <2>2
    <3> QED BY <1>4, <2>3, <2>4, <3>1, <3>2 DEF IInv, WireOK, Begun
  <2>11. Continued'
    BY <1>1, <1>3, <2>2, <2>3 DEF Continued
  <2>12. InTurn'
    <3> SUFFICES ASSUME NEW i \in 1..Len(wire), wire'[i] # wire'[i + 1]
                 PROVE  writers'[wire'[i]].left = 0
      BY <1>4, <2>3 DEF InTurn, L
    <3>1. wire'[i] = wire[i] /\ wire[i] \in 1..Len(result)
      BY <1>4, <2>3
    <3>2. writers[wire[i]].left = 0
      <4>1. CASE i = Len(wire)
        BY <1>1, <2>3, <3>1, <4>1 DEF IInv, WireOK, Continued, L
      <4>2. CASE i # Len(wire)
        <5>1. i \in 1..Len(wire) - 1 /\ i + 1 \in 1..Len(wire)
          BY <1>4, <4>2
        <5>2. wire[i] # wire[i + 1]
          BY <2>3, <5>1
        <5> QED BY <5>1, <5>2 DEF IInv, WireOK, InTurn
      <4> QED BY <4>1, <4>2
    <3> QED BY <1>2, <2>2, <3>1, <3>2
  <2> QED BY <1>5, <2>5, <2>6, <2>7, <2>8, <2>9, <2>10, <2>11, <2>12
          DEF IInv, TurnsOK, WireOK
<1>7. CASE wire' = wire /\ writers' = [writers EXCEPT ![n].state = "failed"]
  <2>1. writers' \in Seq(Writer) /\ Len(writers') = Len(result)
    BY <1>1, <1>7 DEF Writer
  <2>2. /\ writers'[n] = [writers[n] EXCEPT !.state = "failed"]
        /\ \A m \in 1..Len(result) : m # n => writers'[m] = writers[m]
    BY <1>1, <1>7
  <2>3. \A m \in 1..Len(result) :
          /\ writers'[m].left = writers[m].left
          /\ writers'[m].state = IF m = n THEN "failed" ELSE writers[m].state
    BY <1>1, <2>2 DEF Writer
  <2>4. CallerOK'
    BY <1>1, <1>7, <2>1 DEF IInv, CallerOK
  <2>5. Own' /\ Apart' /\ Mutex'
    BY <1>1 DEF IInv, TurnsOK, Own, Apart, Mutex, Sends
  <2>6. Fresh'
    BY <1>1, <2>3 DEF IInv, TurnsOK, Own, Fresh, Sends
  <2>7. Awaited' /\ OneWrites'
    BY <1>1, <2>3 DEF IInv, TurnsOK, Awaited, OneWrites
  <2>8. Ready'
    BY <1>1, <1>2, <2>3 DEF IInv, WireOK, Ready
  <2>9. Begun'
    BY <1>1, <1>4, <1>7, <2>3 DEF IInv, WireOK, Begun
  <2>10. Continued' /\ InTurn'
    <3>1. \A i \in 1..Len(wire) : writers'[wire[i]].left = writers[wire[i]].left
      BY <1>4, <2>3
    <3>2. \A i \in 1..Len(wire) - 1 : i \in 1..Len(wire)
      BY <1>4
    <3>4. InTurn'
      BY <1>7, <3>1, <3>2 DEF IInv, WireOK, InTurn
    <3>3. Continued'
      BY <1>1, <1>4, <1>7, <2>3, <3>1 DEF IInv, WireOK, Continued
    <3> QED BY <3>3, <3>4
  <2>11. Honest'
    BY <1>1, <2>3 DEF IInv, WireOK, Honest
  <2> QED BY <1>5, <2>4, <2>5, <2>6, <2>7, <2>8, <2>9, <2>10, <2>11
          DEF IInv, TurnsOK, WireOK
<1> QED BY <1>6, <1>7 DEF Write

-----------------------------------------------------------------------------
LEMMA InitHolds == Init => IInv
<1> SUFFICES ASSUME Init PROVE IInv
  OBVIOUS
<1>1. ReaderOK
  <2>1. {failing, partial, readCause, ended, told} \subseteq BOOLEAN
    BY Zenon DEF Init
  <2>2. events \in Seq(Event) /\ Len(events) <= Capacity /\ todo \in 0..MaxFrames
    BY DEF Init, ClientAssumption
  <2> QED BY <2>1, <2>2 DEF Init, ReaderOK, Place
<1>2. OnceOK
  BY DEF Init, OnceOK
<1>3. CallerOK
  BY DEF Init, CallerOK
<1>4. TurnsOK /\ WireOK
  BY DEF Init, TurnsOK, Own, Apart, Fresh, Mutex, Awaited, OneWrites,
         WireOK, Ready, Begun, Continued, InTurn, Honest, Sends, ClientAssumption
<1> QED BY <1>1, <1>2, <1>3, <1>4 DEF IInv

LEMMA NextKeeps == IInv /\ [Next]_vars => IInv'
<1> SUFFICES ASSUME IInv, [Next]_vars PROVE IInv'
  OBVIOUS
<1>1. CASE Read \/ ReaderStep \/ CloseTransport \/ JoinCause
  BY <1>1, ReadKeeps, ReaderStepKeeps, CloseTransportKeeps, JoinCauseKeeps
<1>2. ASSUME NEW c \in Caller, Send(c) \/ CallerStep(c) \/ Close(c) \/ Receive(c)
      PROVE  IInv'
  BY <1>2, SendKeeps, EnterKeeps, AwaitKeeps, EndedKeeps, CloseKeeps, ReceiveKeeps
     DEF CallerStep
<1>3. CASE \E n \in DOMAIN writers : Write(n)
  BY <1>3, WriteKeeps
<1>4. CASE UNCHANGED vars
  BY <1>4, ReaderFrame, OnceFrame, CallerFrame DEF IInv, vars, onceVars
<1> QED BY <1>1, <1>2, <1>3, <1>4 DEF Next

LEMMA Inductive == Spec => []IInv
BY InitHolds, NextKeeps, PTL DEF Spec

(***************************************************************************)
(* Every variable keeps its type, and the channel never holds more than    *)
(* its capacity (client.go:68).                                            *)
(***************************************************************************)
THEOREM TypeCorrect == Spec => []TypeOK
<1>1. IInv => TypeOK
  <2> SUFFICES ASSUME IInv PROVE TypeOK
    OBVIOUS
  <2>1. {done, open, ended, failing, partial, readCause, told} \subseteq BOOLEAN
    BY Zenon DEF IInv, ReaderOK, OnceOK
  <2>2. {cause, life} \subseteq SUBSET {"read", "write", "timeout"}
    BY DEF IInv, OnceOK, Cause
  <2>3. Sent = 1..Len(result)
    BY DEF IInv, CallerOK, Sent
  <2>4. cmd \in [Caller -> {0} \cup Sent]
    <3>1. cmd \in [Caller -> Nat] /\ Len(result) \in Nat
          /\ \A c \in Caller : cmd[c] <= Len(result)
      BY DEF IInv, CallerOK
    <3>2. ASSUME NEW c \in Caller
          PROVE  cmd[c] = 0 \/ cmd[c] \in 1..Len(result)
      <4>1. cmd[c] \in Nat /\ cmd[c] <= Len(result) /\ Len(result) \in Nat
        BY <3>1
      <4> QED BY <4>1
    <3> QED BY <2>3, <3>1, <3>2
  <2>5. wire \in Seq(Sent)
    <3>1. wire \in [1..Len(wire) -> Nat] /\ Len(wire) \in Nat
      BY LenProperties DEF IInv, CallerOK
    <3>2. \A i \in 1..Len(wire) : wire[i] \in Sent
      BY <2>3 DEF IInv, CallerOK
    <3>3. wire \in [1..Len(wire) -> Sent]
      BY <3>1, <3>2
    <3> QED BY <3>1, <3>3, SeqDef
  <2> QED BY <2>1, <2>2, <2>4, <2>5
          DEF IInv, ReaderOK, OnceOK, CallerOK, TypeOK, Event, Place, Answer, Writer
<1> QED BY <1>1, Inductive, PTL

(***************************************************************************)
(* However a write blocks, breaks off or is given up, commands reach the   *)
(* station whole and one after the other (client.go:161).                  *)
(***************************************************************************)
THEOREM Whole == Spec => []CommandsStayWhole
<1>1. IInv => CommandsStayWhole
  <2> SUFFICES ASSUME IInv PROVE CommandsStayWhole
    OBVIOUS
  <2>1. Sent = 1..Len(result)
    BY DEF IInv, CallerOK, Sent
  <2> QED BY <2>1 DEF IInv, WireOK, InTurn, Honest, CommandsStayWhole
<1> QED BY <1>1, Inductive, PTL

-----------------------------------------------------------------------------
(***************************************************************************)
(* The failure of a read is recorded before anybody can be told of it, and *)
(* what is recorded when the shutdown joins its causes is among them.      *)
(***************************************************************************)
Unsaid(q) == \A i \in 1..Len(q) : q[i] # "failed"
Recorded == readCause \/ (~told /\ reader # "telling" /\ Unsaid(events))
Kept == readCause /\ (once = "over" => "read" \in life)

LEMMA UnsaidEmits ==
  ASSUME ReaderOK, NEW e \in Event \ {"failed"}, NEW next, next # "telling",
         Emits(e, next), Unsaid(events)
  PROVE  reader' # "telling" /\ Unsaid(events')
<1>1. events \in Seq(Event)
  BY DEF ReaderOK
<1>2. CASE events' = Append(events, e) /\ reader' = next
  BY <1>1, <1>2 DEF Unsaid
<1>3. CASE reader' = "leaving" /\ events' = events
  BY <1>3
<1> QED BY <1>2, <1>3 DEF Emits

LEMMA RecordedReader == ASSUME ReaderOK, Recorded, ~readCause, Read \/ ReaderStep PROVE Recorded'
<1>1. ~told /\ reader # "telling" /\ Unsaid(events)
  BY DEF Recorded
<1>2. CASE Read \/ Nap \/ Assess \/ Leave
  <2>1. told' = told /\ events' = events /\ reader' # "telling"
    BY <1>2 DEF Read, Nap, Assess, Leave, channelVars, At
  <2> QED BY <1>1, <2>1 DEF Recorded, Unsaid
<1>3. CASE EmitFrame \/ Truncated
  <2>1. told' = told /\ reader' # "telling" /\ Unsaid(events')
    BY <1>1, <1>3, UnsaidEmits DEF EmitFrame, Truncated, Event
  <2> QED BY <1>1, <2>1 DEF Recorded, Unsaid
<1>4. CASE RecordAndTell
  BY <1>1, <1>4 DEF RecordAndTell, At, Recorded
<1> QED BY <1>2, <1>3, <1>4 DEF ReaderStep

LEMMA RecordedReceive ==
  ASSUME ReaderOK, Recorded, ~readCause, NEW c \in Caller, Receive(c) PROVE Recorded'
<1>1. /\ ~told /\ reader # "telling" /\ Unsaid(events)
      /\ events \in Seq(Event) /\ events # <<>>
  BY DEF Recorded, Receive, ReaderOK
<1>2. /\ Len(events) \in Nat \ {0} /\ Head(events) = events[1]
      /\ Len(Tail(events)) = Len(events) - 1
      /\ \A i \in 1..(Len(events) - 1) : Tail(events)[i] = events[i + 1]
  BY <1>1
<1>3. Head(events) # "failed" /\ Unsaid(Tail(events))
  BY <1>1, <1>2 DEF Unsaid
<1>4. ~told' /\ events' = Tail(events) /\ reader' = reader
  BY <1>1, <1>3 DEF Receive, readerVars
<1> QED BY <1>1, <1>3, <1>4 DEF Recorded, Unsaid

LEMMA CauseStays == ASSUME [Next]_vars, readCause PROVE readCause'
<1>1. CASE Read \/ ReaderStep
  BY <1>1 DEF Read, ReaderStep, Nap, EmitFrame, Assess, Truncated, RecordAndTell, Leave
<1>2. CASE ~(Read \/ ReaderStep)
  BY <1>2 DEF Next, CloseTransport, JoinCause, Send, CallerStep, Enter, Await, Ended,
              Close, Receive, Write, readerVars, vars
<1> QED BY <1>1, <1>2

LEMMA RecordedKeeps == IInv /\ Recorded /\ [Next]_vars => Recorded'
<1> SUFFICES ASSUME IInv, Recorded, [Next]_vars PROVE Recorded'
  OBVIOUS
<1>1. CASE readCause
  BY <1>1, CauseStays DEF Recorded
<1>2. CASE ~readCause
  <2>1. CASE Read \/ ReaderStep
    BY <1>2, <2>1, RecordedReader DEF IInv
  <2>2. CASE \E c \in Caller : Receive(c)
    BY <1>2, <2>2, RecordedReceive DEF IInv
  <2>3. CASE UNCHANGED <<reader, events, told, readCause>>
    BY <2>3 DEF Recorded, Unsaid
  <2>4. CASE \/ CloseTransport \/ JoinCause
             \/ \E c \in Caller : Send(c) \/ CallerStep(c) \/ Close(c)
             \/ \E n \in DOMAIN writers : Write(n)
             \/ UNCHANGED vars
    <3>1. UNCHANGED <<readerVars, channelVars>>
      BY <2>4 DEF CloseTransport, JoinCause, Send, CallerStep, Enter, Await, Ended,
                  Close, Write, vars
    <3> QED BY <2>3, <3>1 DEF readerVars, channelVars
  <2> QED BY <2>1, <2>2, <2>4 DEF Next
<1> QED BY <1>1, <1>2

LEMMA KeptKeeps == Kept /\ [Next]_vars => Kept'
<1> SUFFICES ASSUME Kept, [Next]_vars PROVE Kept'
  OBVIOUS
<1>1. readCause'
  BY CauseStays DEF Kept
<1>2. CASE JoinCause
  BY <1>1, <1>2 DEF Kept, JoinCause
<1>3. CASE ~JoinCause
  <2>1. once' = "over" => once = "over" /\ life' = life
    BY <1>3 DEF Next, Read, ReaderStep, Nap, EmitFrame, Assess, Truncated, RecordAndTell,
         Leave, CloseTransport, Send, CallerStep, Enter, Await, Ended, Close, Closes, Receive,
         Write, onceVars, vars
  <2> QED BY <1>1, <2>1 DEF Kept
<1> QED BY <1>2, <1>3

(***************************************************************************)
(* The safety of FailureIsReported: whoever hears of the failure before a  *)
(* shutdown begins, whatever then shuts the connection down reports it     *)
(* among the causes (client.go:120).                                       *)
(***************************************************************************)
THEOREM FailureIsNotLost ==
  Spec => [](once = "unused" /\ told => [](once = "over" => "read" \in life))
<1>1. Init => Recorded
  BY DEF Init, Recorded, Unsaid
<1>2. Recorded /\ once = "unused" /\ told => Kept
  BY DEF Recorded, Kept
<1>3. Kept => (once = "over" => "read" \in life)
  BY DEF Kept
<1> QED BY <1>1, <1>2, <1>3, Inductive, RecordedKeeps, KeptKeeps, PTL DEF Spec
=============================================================================
