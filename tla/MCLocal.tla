------------------------------- MODULE MCLocal ------------------------------
(* The small components of a node that share no state: the lifecycle, the   *)
(* limiter, a session's timers and LAN discovery.  A behaviour runs one of  *)
(* them while the others stay as they began.                                *)
EXTENDS Naturals, FiniteSets

CONSTANTS Sub, Emitter, Buffer,
          Key, Reader, Limit, Span, MaxKeys, Lag,
          Every, IdleAfter, Delay, WriteWait, PongGap, Tolerated,
          Neighbour, Self, Life, MaxSeen

ASSUME BufferAssumption == Buffer \in Nat

\* limiter.New(30, time.Second): the wait for the lock is shorter than the span.
ASSUME LimiterAssumption ==
    /\ IsFiniteSet(Key)
    /\ Limit \in Nat \ {0} /\ Span \in Nat /\ MaxKeys \in Nat
    /\ Lag \in 0..Span

\* NewManager pings every 20 s, closes after 60 s, and AllowPong has a gap of
\* 1 s: two pings before the idle time, with a delay below half a period.
ASSUME TimerAssumption ==
    /\ Every \in Nat /\ IdleAfter \in Nat /\ Delay \in Nat /\ WriteWait \in Nat
    /\ PongGap \in Nat /\ Tolerated \in Nat \ {0}
    /\ 2 * Delay < Every /\ PongGap <= Every
    /\ 2 * Every + 2 * Delay <= IdleAfter

ASSUME LanAssumption ==
    /\ IsFiniteSet(Neighbour)
    /\ Life \in Nat /\ MaxSeen \in Nat

VARIABLES main, crashed, closed, cancelled, events, chan, buf, todo, doomed,
          nat, unmap, held, mapped, leaked, unsaved,
          call, hits, passed,
          open, why, age, armed, tick, ticked, blocked, malformed, ping, pong,
          ponged, remote,
          disc, packet, seen, stamp, heard,
          which   \* the component that runs

Node    == INSTANCE Lifecycle
Flood   == INSTANCE Limiter
Session == INSTANCE Keepalive
Lan     == INSTANCE Discovery

nodeVars    == <<main, crashed, closed, cancelled, events, chan, buf, todo,
                 doomed, nat, unmap, held, mapped, leaked, unsaved>>
floodVars   == <<call, hits, passed>>
sessionVars == <<open, why, age, armed, tick, ticked, blocked, malformed, ping,
                 pong, ponged, remote>>
lanVars     == <<disc, packet, seen, stamp, heard>>
vars == <<nodeVars, floodVars, sessionVars, lanVars, which>>

Init ==
    /\ Node!Init /\ Flood!Init /\ Session!Init /\ Lan!Init
    /\ which \in {"node", "flood", "session", "lan"}

Next ==
    /\ \/ /\ which = "node" /\ Node!Next
          /\ UNCHANGED <<floodVars, sessionVars, lanVars>>
       \/ /\ which = "flood" /\ Flood!Next
          /\ UNCHANGED <<nodeVars, sessionVars, lanVars>>
       \/ /\ which = "session" /\ Session!Next
          /\ UNCHANGED <<nodeVars, floodVars, lanVars>>
       \/ /\ which = "lan" /\ Lan!Next
          /\ UNCHANGED <<nodeVars, floodVars, sessionVars>>
    /\ UNCHANGED which

Spec == Init /\ [][Next]_vars

\* The type invariants of the four.
TypeOK == Node!TypeOK /\ Flood!TypeOK /\ Session!TypeOK /\ Lan!TypeOK

\* Somebody will delete the port mapping, however Close meets the prober
\* (Lifecycle).
MappingOwned == Node!MappingOwned

\* No sender passes the limiter more often than the limit allows (Limiter).
WindowBound == Flood!WindowBound

\* A dead session is closed in time (Keepalive).
DeadClosed == Session!DeadClosed

\* A live session is not closed (Keepalive).
LiveKept == Session!LiveKept

\* A peer that goes on announcing itself stays in the table (Discovery).
StaysListed == Lan!StaysListed
=============================================================================
