------------------------------ MODULE Keepalive -----------------------------
(***************************************************************************)
(* One end of a session and its clock: readLoop and writeLoop of           *)
(* internal/peer/peer.go, the pong that onPeerMessage sends at the other   *)
(* end (internal/node/handlers.go), and a remote end that may die, fall    *)
(* silent or send frames that do not parse.                                *)
(*                                                                         *)
(* Times are ages, so that the model runs for ever.  What is due happens   *)
(* before time goes on; a frame takes up to Delay; a write to a remote     *)
(* that no longer reads blocks the write loop for up to WriteWait.         *)
(***************************************************************************)
EXTENDS Naturals

CONSTANTS
    Every,      \* pingEvery
    IdleAfter,  \* idleAfter
    Delay, WriteWait,
    PongGap,    \* the least time between two pongs
    Tolerated   \* malformed frames in a row that end a session

VARIABLES
    open,       \* the session is open
    why,        \* what ended it: "no", "idle", "malformed" or "write"
    age,        \* since the last good frame (lastRecv)
    armed,      \* since the read deadline was set
    tick,       \* until the ping timer
    ticked,     \* the timer has fired and its channel is not yet read
    blocked,    \* 0, or how long the write loop has been blocked, from 1
    malformed,  \* malformed frames in a row
    ping,       \* 0, or a ping under way, from 1: one more than its time
    pong,       \* the same for a pong
    ponged,     \* since the remote's last pong
    remote      \* "well", "silent" (it answers no more) or "garbled"

vars == <<open, why, age, armed, tick, ticked, blocked, malformed, ping, pong,
          ponged, remote>>

Ages == 0..IdleAfter + Every + 1

TypeOK ==
    /\ open \in BOOLEAN /\ ticked \in BOOLEAN
    /\ why \in {"no", "idle", "malformed", "write"}
    /\ age \in Ages /\ armed \in Ages
    /\ tick \in 0..Every /\ blocked \in 0..WriteWait + 1
    /\ malformed \in 0..Tolerated
    /\ ping \in 0..Delay + 1 /\ pong \in 0..Delay + 1
    /\ ponged \in 0..PongGap
    /\ remote \in {"well", "silent", "garbled"}

\* start: touch, and the two loops.
Init ==
    /\ open = TRUE /\ why = "no" /\ age = 0 /\ armed = 0
    /\ tick = Every /\ ticked = FALSE /\ blocked = 0 /\ malformed = 0
    /\ ping = 0 /\ pong = 0 /\ ponged = PongGap /\ remote = "well"

Ended(cause) == open' = FALSE /\ why' = cause

----------------------------------------------------------------------------
(* The read loop.                                                          *)

\* A good frame: touch, and the next read with a new deadline.
Frame ==
    /\ age' = 0 /\ armed' = 0 /\ malformed' = 0

\* A frame that does not parse moves the read deadline, not lastRecv.
Malformed ==
    /\ open /\ remote = "garbled"
    /\ malformed' = malformed + 1
    /\ armed' = 0
    /\ IF malformed' >= Tolerated THEN Ended("malformed")
       ELSE UNCHANGED <<open, why>>
    /\ UNCHANGED <<age, tick, ticked, blocked, ping, pong, ponged, remote>>

\* Anything else the remote sends of its own accord.
Chat ==
    /\ open /\ remote # "silent"
    /\ Frame
    /\ UNCHANGED <<open, why, tick, ticked, blocked, ping, pong, ponged, remote>>

Pong ==
    /\ open /\ pong > 0
    /\ pong' = 0
    /\ Frame
    /\ UNCHANGED <<open, why, tick, ticked, blocked, ping, ponged, remote>>

\* The read deadline passes.
ReadTimeout ==
    /\ open /\ armed >= IdleAfter
    /\ Ended("idle")
    /\ UNCHANGED <<age, armed, tick, ticked, blocked, malformed, ping, pong,
                   ponged, remote>>

----------------------------------------------------------------------------
(* The write loop.                                                         *)

\* Mutant: a session that has been pinged is not pinged again.
TickLazy ==
    /\ open /\ ticked /\ blocked = 0
    /\ ticked' = FALSE
    /\ IF age > IdleAfter THEN Ended("idle") /\ UNCHANGED <<ping, blocked>>
       ELSE /\ ping' = IF age >= 2 * Every /\ remote # "silent" THEN 1 ELSE ping
            /\ UNCHANGED <<open, why, blocked>>
    /\ UNCHANGED <<age, armed, tick, malformed, pong, ponged, remote>>

\* Mutant: idleness is left to the read deadline.
TickPingOnly ==
    /\ open /\ ticked /\ blocked = 0
    /\ ticked' = FALSE
    /\ ping' = IF age >= Every /\ remote # "silent" THEN 1 ELSE ping
    /\ UNCHANGED <<open, why, age, armed, tick, blocked, malformed, pong, ponged,
                   remote>>

\* The timer: close an idle session, leave a busy one alone, ping the others.
\* The ping may block like any write, and its error is ignored.
Tick ==
    /\ open /\ ticked /\ blocked = 0
    /\ ticked' = FALSE
    /\ IF age > IdleAfter THEN Ended("idle") /\ UNCHANGED <<ping, blocked>>
       ELSE /\ UNCHANGED <<open, why>>
            /\ \/ age < Every /\ UNCHANGED <<ping, blocked>>
               \/ age >= Every /\ remote # "silent" /\ ping' = 1 /\ UNCHANGED blocked
               \/ age >= Every /\ remote = "silent" /\ blocked' \in {0, 1}
                  /\ UNCHANGED ping
    /\ UNCHANGED <<age, armed, tick, malformed, pong, ponged, remote>>

\* A message of the send queue, to a remote that does not read.
Block ==
    /\ open /\ remote = "silent" /\ blocked = 0
    /\ blocked' = 1
    /\ UNCHANGED <<open, why, age, armed, tick, ticked, malformed, ping, pong,
                   ponged, remote>>

\* The write deadline: a queued message ends the session, a ping does not.
WriteTimeout ==
    /\ open /\ blocked > WriteWait
    /\ blocked' = 0
    /\ Ended("write") \/ UNCHANGED <<open, why>>
    /\ UNCHANGED <<age, armed, tick, ticked, malformed, ping, pong, ponged, remote>>

----------------------------------------------------------------------------
(* The remote end and time.                                                *)

\* onPeerMessage at the remote: AllowPong.  A garbled pong is one of the
\* malformed frames.
Answer ==
    /\ ping > 0
    /\ ping' = 0
    /\ \/ ponged >= PongGap /\ remote # "silent" /\ pong' = 1 /\ ponged' = 0
       \/ (ponged < PongGap \/ remote # "well") /\ UNCHANGED <<pong, ponged>>
    /\ UNCHANGED <<open, why, age, armed, tick, ticked, blocked, malformed, remote>>

\* It crashes, its machine sleeps, or its frames no longer parse.
Fault ==
    /\ remote = "well"
    /\ remote' \in {"silent", "garbled"}
    /\ UNCHANGED <<open, why, age, armed, tick, ticked, blocked, malformed, ping,
                   pong, ponged>>

Grown(x) == IF x = 0 THEN 0 ELSE x + 1

Elapse ==
    /\ open
    /\ ~(ticked /\ blocked = 0) /\ armed < IdleAfter /\ blocked <= WriteWait
    /\ ping <= Delay /\ pong <= Delay
    /\ age' = age + 1 /\ armed' = armed + 1
    /\ tick' = IF tick = 1 THEN Every ELSE tick - 1
    /\ ticked' = (ticked \/ tick = 1)
    /\ blocked' = Grown(blocked) /\ ping' = Grown(ping) /\ pong' = Grown(pong)
    /\ ponged' = IF ponged < PongGap THEN ponged + 1 ELSE ponged
    /\ UNCHANGED <<open, why, malformed, remote>>

Next ==
    \/ Malformed \/ Chat \/ Pong \/ ReadTimeout
    \/ Tick \/ Block \/ WriteTimeout
    \/ Answer \/ Fault \/ Elapse

----------------------------------------------------------------------------

\* A session whose remote end has died or only sends garbage is closed within
\* the idle time and one ping period, also while the write loop is blocked:
\* until then a restarted peer is refused as a duplicate.
DeadClosed == open => age <= IdleAfter + Every

\* A quiet session with a remote end that is well is never closed: some ping is
\* answered before the idle time, whatever the phase of the timer, the delays
\* and the pongs that AllowPong holds back.
LiveKept == ~open => remote # "well"
=============================================================================
