------------------------------- MODULE Client -------------------------------
(***************************************************************************)
(* One station connection (src/dccex/client/client.go): a goroutine that   *)
(* reads, callers that send under a mutex, a goroutine per command that    *)
(* writes, and a shutdown that any of them may be the first to start.      *)
(*                                                                         *)
(* A command is written in Chunks; a write may block for ever, and its     *)
(* goroutine then outlives the call that gave up on it after 3 seconds.    *)
(* A step is what happens between two operations on shared state.          *)
(***************************************************************************)
EXTENDS Naturals, Sequences

CONSTANTS
  Caller,       \* goroutines that send, close and receive (the session is one)
  None,         \* nobody
  Capacity,     \* events that fit the channel (64 in the code)
  Chunks,       \* pieces a command may be written in
  MaxFrames,    \* bound: frames completed by one Read
  MaxCommands   \* bound: commands sent in all

ASSUME ClientAssumption ==
  /\ None \notin Caller
  /\ Capacity \in Nat \ {0} /\ Chunks \in Nat \ {0}
  /\ MaxFrames \in Nat /\ MaxCommands \in Nat

VARIABLES
  done,       \* is c.done closed
  open,       \* has conn not been closed
  events,     \* c.events: frames (or what cannot be parsed) and errors
  ended,      \* is c.events closed
  reader,     \* where the reading goroutine is
  todo,       \* frames of the last Read still to emit
  failing,    \* did the last Read return an error
  partial,    \* does the framer hold an unfinished frame
  readCause,  \* is c.readCause set
  once,       \* how far c.once has come
  cause,      \* what the shutdown knows as its cause
  life,       \* what the connection's lifetime was reported to have ended with
  pc,         \* where each caller is
  cmd,        \* the command each caller sends
  lock,       \* who holds c.writeMu
  writers,    \* one per command that got as far as a writing goroutine
  result,     \* what Send returned of each command
  wire,       \* chunks that reached the transport, by command
  told        \* has a caller received the failure of a read

readerVars == <<reader, todo, failing, partial, readCause>>
onceVars == <<done, open, once, cause, life>>
channelVars == <<events, ended, told>>
callerVars == <<pc, cmd, lock, result>>
wireVars == <<writers, wire>>
vars == <<readerVars, onceVars, channelVars, callerVars, wireVars>>

Sent == DOMAIN result

Init ==
  /\ done = FALSE /\ open = TRUE
  /\ events = <<>> /\ ended = FALSE /\ told = FALSE
  /\ reader = "reading" /\ todo = 0 /\ failing = FALSE /\ partial = FALSE
  /\ readCause = FALSE
  /\ once = "unused" /\ cause = {} /\ life = {}
  /\ pc = [c \in Caller |-> "idle"] /\ cmd = [c \in Caller |-> 0]
  /\ lock = None
  /\ writers = <<>> /\ result = <<>> /\ wire = <<>>

-----------------------------------------------------------------------------
(***************************************************************************)
(* closeWithCause: the first to come closes done, then the transport, and  *)
(* reports the lifetime; the others wait for it.  Whether the transport    *)
(* closes with an error is left out.                                       *)
(***************************************************************************)
Closes(why) ==
  IF once = "unused"
    THEN /\ once' = "closing" /\ done' = TRUE /\ cause' = why
         /\ UNCHANGED <<open, life>>
    ELSE UNCHANGED onceVars

CloseTransport ==
  /\ once = "closing"
  /\ open' = FALSE /\ once' = "joining"
  /\ UNCHANGED <<done, cause, life, readerVars, channelVars, callerVars, wireVars>>

JoinCause ==
  /\ once = "joining"
  /\ once' = "over"
  /\ life' = cause \cup (IF readCause THEN {"read"} ELSE {})
  /\ UNCHANGED <<done, open, cause, readerVars, channelVars, callerVars, wireVars>>

-----------------------------------------------------------------------------
(***************************************************************************)
(* read.                                                                   *)
(***************************************************************************)
At(here) == reader = here /\ UNCHANGED <<callerVars, wireVars>>

\* Variant: the event goes out whether or not there is room.
EmitsRegardless(e, next) ==
  /\ events' = Append(events, e)
  /\ reader' = next

\* Variant: a full channel is waited for, shut down or not.
EmitsWhenRoom(e, next) ==
  /\ Len(events) < Capacity
  /\ events' = Append(events, e)
  /\ reader' = next

\* emit's select, which chooses either when the channel has room and done is
\* closed: the event goes out and the goroutine goes on at "next", or it leaves.
Emits(e, next) ==
  \/ /\ Len(events) < Capacity
     /\ events' = Append(events, e)
     /\ reader' = next
  \/ /\ done
     /\ reader' = "leaving"
     /\ UNCHANGED events

\* Data, perhaps with an error; an error alone; or nothing within the timeout.
Read ==
  /\ At("reading")
  /\ \/ /\ open
        /\ todo' \in 0..MaxFrames /\ partial' \in BOOLEAN /\ failing' \in BOOLEAN
        /\ reader' = "emitting"
     \/ /\ failing' = TRUE
        /\ reader' = "emitting"
        /\ UNCHANGED <<todo, partial>>
     \/ /\ open
        /\ reader' = "napping"
        /\ UNCHANGED <<todo, partial, failing>>
  /\ UNCHANGED <<readCause, onceVars, channelVars>>

Nap ==
  /\ At("napping")
  /\ reader' = "reading" \/ (done /\ reader' = "leaving")
  /\ UNCHANGED <<todo, failing, partial, readCause, onceVars, channelVars>>

EmitFrame ==
  /\ At("emitting") /\ todo > 0
  /\ Emits("frame", "emitting")
  /\ todo' = todo - 1
  /\ UNCHANGED <<failing, partial, readCause, onceVars, ended, told>>

\* The frames are out: read on, or, unless done is closed, report the failure.
Assess ==
  /\ At("emitting") /\ todo = 0
  /\ reader' = CASE ~failing -> "reading"
                 [] failing /\ done -> "leaving"
                 [] failing /\ ~done /\ partial -> "truncated"
                 [] failing /\ ~done /\ ~partial -> "recording"
  /\ UNCHANGED <<todo, failing, partial, readCause, onceVars, channelVars>>

Truncated ==
  /\ At("truncated")
  /\ Emits("truncated", "recording")
  /\ partial' = FALSE
  /\ UNCHANGED <<todo, failing, readCause, onceVars, ended, told>>

\* Variant: the failure is told before it is recorded.
RecordLater ==
  \/ /\ At("recording")
     /\ Emits("failed", "telling")
     /\ UNCHANGED <<todo, failing, partial, readCause, onceVars, ended, told>>
  \/ /\ At("telling")
     /\ readCause' = TRUE /\ reader' = "leaving"
     /\ UNCHANGED <<todo, failing, partial, onceVars, channelVars>>

RecordAndTell ==
  \/ /\ At("recording")
     /\ readCause' = TRUE /\ reader' = "telling"
     /\ UNCHANGED <<todo, failing, partial, onceVars, channelVars>>
  \/ /\ At("telling")
     /\ Emits("failed", "leaving")
     /\ UNCHANGED <<todo, failing, partial, readCause, onceVars, ended, told>>

\* The deferred Close, and then the closing of the channel.
Leave ==
  \/ /\ At("leaving")
     /\ Closes({})
     /\ reader' = "closing"
     /\ UNCHANGED <<todo, failing, partial, readCause, channelVars>>
  \/ /\ At("closing") /\ once = "over"
     /\ ended' = TRUE
     /\ reader' = "stopped"
     /\ UNCHANGED <<todo, failing, partial, readCause, onceVars, events, told>>

ReaderStep ==
  Nap \/ EmitFrame \/ Assess \/ Truncated \/ RecordAndTell \/ Leave

-----------------------------------------------------------------------------
(***************************************************************************)
(* SendContext.                                                            *)
(***************************************************************************)
Moves(c, to) == pc' = [pc EXCEPT ![c] = to]

\* Send returns r to c, and the deferred unlock runs.
Returns(c, r) ==
  /\ result' = [result EXCEPT ![cmd[c]] = r]
  /\ Moves(c, "idle")
  /\ cmd' = [cmd EXCEPT ![c] = 0]
  /\ lock' = IF lock = c THEN None ELSE lock

\* A command that is not ASCII is refused before the mutex.
Send(c) ==
  /\ pc[c] = "idle" /\ Len(result) < MaxCommands
  /\ \/ result' = Append(result, "refused") /\ UNCHANGED <<pc, cmd>>
     \/ /\ result' = Append(result, "pending")
        /\ cmd' = [cmd EXCEPT ![c] = Len(result')]
        /\ Moves(c, "locking")
  /\ writers' = Append(writers, [left |-> Chunks, state |-> "none"])
  /\ UNCHANGED <<lock, wire, readerVars, onceVars, channelVars>>

\* The mutex, the look at done, and the start of the writing goroutine.
Starts(c) ==
  IF done
    THEN Returns(c, "closed") /\ UNCHANGED writers
    ELSE /\ lock' = c
         /\ writers' = [writers EXCEPT ![cmd[c]].state = "writing"]
         /\ Moves(c, "waiting")
         /\ UNCHANGED <<cmd, result>>

\* Variant: commands are written without taking turns.
EnterAtOnce(c) ==
  /\ pc[c] = "locking"
  /\ Starts(c)
  /\ UNCHANGED <<wire, readerVars, onceVars, channelVars>>

Enter(c) ==
  /\ pc[c] = "locking" /\ lock = None
  /\ Starts(c)
  /\ UNCHANGED <<wire, readerVars, onceVars, channelVars>>

Write(n) ==
  LET w == writers[n]
  IN /\ w.state = "writing"
     /\ \/ /\ open
           /\ wire' = Append(wire, n)
           /\ writers' = [writers EXCEPT
                ![n] = [left |-> w.left - 1,
                        state |-> IF w.left = 1 THEN "ok" ELSE "writing"]]
        \/ /\ writers' = [writers EXCEPT ![n].state = "failed"]
           /\ UNCHANGED wire
     /\ UNCHANGED <<readerVars, onceVars, channelVars, callerVars>>

\* Variant: there is no timer.
AwaitAnswer(c) ==
  LET w == writers[cmd[c]]
  IN /\ pc[c] = "waiting"
     /\ \/ w.state = "ok" /\ Returns(c, "ok") /\ UNCHANGED onceVars
        \/ done /\ Returns(c, "closed") /\ UNCHANGED onceVars
        \/ /\ w.state = "failed" /\ Closes({"write"})
           /\ Moves(c, "ending")
           /\ UNCHANGED <<cmd, lock, result>>
     /\ UNCHANGED <<wireVars, readerVars, channelVars>>

\* The select on the answer, the timer and done.
Await(c) ==
  LET w == writers[cmd[c]]
  IN /\ pc[c] = "waiting"
     /\ \/ w.state = "ok" /\ Returns(c, "ok") /\ UNCHANGED onceVars
        \/ done /\ Returns(c, "closed") /\ UNCHANGED onceVars
        \/ /\ \/ w.state = "failed" /\ Closes({"write"})
              \/ Closes({"timeout"})
           /\ Moves(c, "ending")
           /\ UNCHANGED <<cmd, lock, result>>
     /\ UNCHANGED <<wireVars, readerVars, channelVars>>

Ended(c) ==
  /\ pc[c] = "ending" /\ once = "over"
  /\ Returns(c, "failed")
  /\ UNCHANGED <<wireVars, readerVars, onceVars, channelVars>>

-----------------------------------------------------------------------------
Close(c) ==
  \/ /\ pc[c] = "idle"
     /\ Closes({})
     /\ Moves(c, "shutting")
     /\ UNCHANGED <<cmd, lock, result, wireVars, readerVars, channelVars>>
  \/ /\ pc[c] = "shutting" /\ once = "over"
     /\ Moves(c, "idle")
     /\ UNCHANGED <<cmd, lock, result, wireVars, readerVars, onceVars, channelVars>>

\* A caller that is not sending may take the next event.
Receive(c) ==
  /\ pc[c] = "idle" /\ events # <<>>
  /\ told' = (told \/ Head(events) = "failed")
  /\ events' = Tail(events)
  /\ UNCHANGED <<ended, callerVars, wireVars, readerVars, onceVars>>

CallerStep(c) == Enter(c) \/ Await(c) \/ Ended(c)

Next ==
  \/ Read \/ ReaderStep
  \/ CloseTransport \/ JoinCause
  \/ \E c \in Caller : Send(c) \/ CallerStep(c) \/ Close(c) \/ Receive(c)
  \/ \E n \in DOMAIN writers : Write(n)

Spec == Init /\ [][Next]_vars

(***************************************************************************)
(* Goroutines run on.  Nobody need receive, and a read or a write on an    *)
(* open transport may take for ever: only on a closed one do they return.  *)
(***************************************************************************)
FairSpec ==
  /\ Spec
  /\ WF_vars(ReaderStep) /\ WF_vars(~open /\ Read)
  /\ WF_vars(CloseTransport) /\ WF_vars(JoinCause)
  /\ \A c \in Caller : WF_vars(CallerStep(c))

-----------------------------------------------------------------------------
\* The state is well formed.
TypeOK ==
  /\ {done, open, ended, failing, partial, readCause, told} \subseteq BOOLEAN
  /\ events \in Seq({"frame", "truncated", "failed"}) /\ Len(events) <= Capacity
  /\ reader \in {"reading", "napping", "emitting", "truncated", "recording",
                 "telling", "leaving", "closing", "stopped"}
  /\ todo \in 0..MaxFrames
  /\ once \in {"unused", "closing", "joining", "over"}
  /\ {cause, life} \subseteq SUBSET {"read", "write", "timeout"}
  /\ pc \in [Caller -> {"idle", "locking", "waiting", "ending", "shutting"}]
  /\ cmd \in [Caller -> {0} \cup Sent]
  /\ lock \in Caller \cup {None}
  /\ result \in Seq({"pending", "ok", "refused", "closed", "failed"})
  /\ writers \in Seq([left : 0..Chunks, state : {"none", "writing", "ok", "failed"}])
  /\ Len(writers) = Len(result)
  /\ wire \in Seq(Sent)

(***************************************************************************)
(* Commands reach the station whole and one after the other: whatever gave *)
(* up on a write, no other command starts before the last one was written  *)
(* whole, and what succeeded was written whole (client_test.go:54).        *)
(***************************************************************************)
CommandsStayWhole ==
  /\ \A i \in 1..Len(wire) - 1 :
       wire[i] # wire[i + 1] => writers[wire[i]].left = 0
  /\ \A n \in Sent : result[n] = "ok" => writers[n].left = 0

(***************************************************************************)
(* A caller that hears of the connection's failure before anyone shut it   *)
(* down finds that failure among the causes its lifetime is reported to    *)
(* have ended with, even if it calls Close at once (client.go:120).        *)
(***************************************************************************)
FailureIsReported ==
  (once = "unused" /\ told) ~> ("read" \in life)

(***************************************************************************)
(* Send returns, though the write blocks, the channel is full and nobody   *)
(* receives.                                                               *)
(***************************************************************************)
SendReturns ==
  \A c \in Caller : (pc[c] \in {"locking", "waiting", "ending"}) ~> (pc[c] = "idle")

(***************************************************************************)
(* After a shutdown the reading goroutine ends and the channel is closed,  *)
(* full or not (client_test.go:118, TestCloseUnblocksFullEventQueue).      *)
(***************************************************************************)
ShutdownEndsReader == done ~> ended
=============================================================================
