------------------------------- MODULE Router -------------------------------
(***************************************************************************)
(* The router of one node and its store of seen message IDs                *)
(* (internal/router/router.go, internal/router/seen.go), with the calls    *)
(* that reach them: onPeerMessage, Inject, SendDirect, resyncJoins and     *)
(* seenLoop of internal/node.                                              *)
(*                                                                         *)
(* Each worker is a goroutine in the node: the read loop of a peer, the    *)
(* terminal, an adopter running its hook.  They share nothing but the      *)
(* store, whose methods run under its mutex: one step each.                *)
(*                                                                         *)
(* Abstractions: a message is its ID with the timestamp its signature      *)
(* covers; messages with a bad signature, a malformed body or over the     *)
(* rate limit change nothing and are left out; the wire keeps every        *)
(* message for ever, so that peers may repeat any of them at any time.     *)
(* The clock never goes back.                                              *)
(***************************************************************************)
EXTENDS Integers, Sequences, FiniteSets

CONSTANTS
    Msg,            \* the messages, by ID
    Ts,             \* Ts[m]: the timestamp of m
    Local,          \* the messages this node creates
    Direct,         \* the messages with a To field
    Worker,         \* the goroutines that call the router
    MaxPastSkew,    \* protocol.MaxPastSkew
    MaxFutureSkew,  \* protocol.MaxFutureSkew
    TTL,            \* config.SeenTTL
    SeenMax,        \* config.SeenMax
    MaxDelay,       \* longest time from Fresh to Add within one Handle
    Horizon,        \* bound on the clock
    NoMsg           \* the job of an idle worker

ASSUME MsgAssumption ==
    /\ IsFiniteSet(Msg)
    /\ Ts \in [Msg -> Nat]
    /\ Local \subseteq Msg
    /\ Direct \subseteq Msg
    /\ NoMsg \notin Msg
ASSUME TimeAssumption ==
    /\ MaxPastSkew \in Nat /\ MaxFutureSkew \in Nat
    /\ TTL \in Nat /\ MaxDelay \in Nat /\ Horizon \in Nat
    /\ TTL >= MaxPastSkew + MaxFutureSkew + MaxDelay
ASSUME SizeAssumption == SeenMax \in Nat \ {0}

VARIABLES
    now,      \* the clock
    stamp,    \* stamp[m]: SeenStore.m, NoTime where there is no entry
    queue,    \* SeenStore.q
    pc,       \* pc[w]: where worker w stands
    job,      \* job[w]: the message it works on
    checked,  \* checked[w]: when it was found fresh, or was created
    wire,     \* the messages that other nodes have
    handled,  \* history: the handler ran for m 0, 1 or 2 (= more) times
    flooded,  \* history: Broadcast ran for m 0, 1 or 2 (= more) times
    evicted   \* history: the IDs dropped because the store was full

vars == <<now, stamp, queue, pc, job, checked, wire, handled, flooded,
          evicted>>

NoTime == -1

\* The keys of the map, and the IDs in the queue.
Seen   == {m \in Msg : stamp[m] # NoTime}
Queued == {queue[i] : i \in DOMAIN queue}

TypeOK ==
    /\ now \in 0..Horizon
    /\ stamp \in [Msg -> 0..Horizon \cup {NoTime}]
    /\ Cardinality(Seen) <= SeenMax
    /\ queue \in Seq(Msg)
    /\ pc \in [Worker -> {"idle", "add", "handle", "flood", "mark"}]
    /\ job \in [Worker -> Msg \cup {NoMsg}]
    /\ checked \in [Worker -> 0..Horizon]
    /\ wire \subseteq Msg
    /\ handled \in [Msg -> 0..2]
    /\ flooded \in [Msg -> 0..2]
    /\ evicted \subseteq Msg

Init ==
    /\ now = 0
    /\ stamp = [m \in Msg |-> NoTime]
    /\ queue = <<>>
    /\ pc = [w \in Worker |-> "idle"]
    /\ job = [w \in Worker |-> NoMsg]
    /\ checked = [w \in Worker |-> 0]
    /\ wire = Msg \ Local
    /\ handled = [m \in Msg |-> 0]
    /\ flooded = [m \in Msg |-> 0]
    /\ evicted = {}

----------------------------------------------------------------------------
(* SeenStore.                                                              *)

\* The test of sweepLocked.
Expired(m) == stamp[m] = NoTime \/ stamp[m] < now - TTL

\* What sweepLocked makes of the map.
SweptStamp == [m \in Msg |-> IF m \in Queued /\ Expired(m) THEN NoTime
                                                          ELSE stamp[m]]

\* The new queue of sweepLocked after the first i turns of its loop.
kept[i \in 0..Len(queue)] ==
    IF i = 0 THEN <<>>
    ELSE IF Expired(queue[i]) THEN kept[i - 1]
    ELSE Append(kept[i - 1], queue[i])

SweptQueue == kept[Len(queue)]

\* The first k IDs of the swept queue, and what is left without them.
Front(k) == {SweptQueue[i] : i \in 1..k}
Left(k)  == {m \in Msg : SweptStamp[m] # NoTime} \ Front(k)

\* Mutant: eviction stops one entry early.
SurplusLess ==
    CHOOSE k \in 0..Len(SweptQueue) :
        /\ k = Len(SweptQueue) \/ Cardinality(Left(k)) <= SeenMax
        /\ \A j \in 0..(k - 1) : Cardinality(Left(j)) > SeenMax

\* How many IDs the loop in Add drops: as few as make room for one more.
Surplus ==
    CHOOSE k \in 0..Len(SweptQueue) :
        /\ k = Len(SweptQueue) \/ Cardinality(Left(k)) < SeenMax
        /\ \A j \in 0..(k - 1) : Cardinality(Left(j)) >= SeenMax

\* Add for an ID that is not in the map.
Insert(m) ==
    IF Cardinality(Seen) < SeenMax
    THEN /\ stamp' = [stamp EXCEPT ![m] = now]
         /\ queue' = Append(queue, m)
         /\ UNCHANGED evicted
    ELSE /\ stamp' = [i \in Msg |-> IF i = m THEN now
                                    ELSE IF i \in Front(Surplus) THEN NoTime
                                    ELSE SweptStamp[i]]
         /\ queue' =
              Append(SubSeq(SweptQueue, Surplus + 1, Len(SweptQueue)), m)
         /\ evicted' = evicted \cup Front(Surplus)

\* SeenStore.Sweep, called by seenLoop every five minutes.
Sweep ==
    /\ stamp' = SweptStamp
    /\ queue' = SweptQueue
    /\ UNCHANGED <<now, pc, job, checked, wire, handled, flooded, evicted>>

----------------------------------------------------------------------------
(* Router.Handle.                                                          *)

\* Mutant: no limit on the age of a message.
FreshAnyAge(m) == Ts[m] <= now + MaxFutureSkew

\* Message.Fresh.
Fresh(m) == Ts[m] <= now + MaxFutureSkew /\ now - Ts[m] <= MaxPastSkew

\* Worker w goes on to a step with message m, found fresh or created at t.
Goto(w, step, m, t) ==
    /\ pc' = [pc EXCEPT ![w] = step]
    /\ job' = [job EXCEPT ![w] = m]
    /\ checked' = [checked EXCEPT ![w] = t]

Return(w) == Goto(w, "idle", NoMsg, 0)

\* A read loop gets m from a peer and Handle finds it fresh.
Receive(w, m) ==
    /\ m \in wire
    /\ Fresh(m)
    /\ pc[w] = "idle"
    /\ Goto(w, "add", m, now)
    /\ UNCHANGED <<now, stamp, queue, wire, handled, flooded, evicted>>

\* Created(m): a new message, with a new ID and the time of its creation.
Created(m) ==
    /\ m \in Local \ wire
    /\ Ts[m] = now
    /\ stamp[m] = NoTime
    /\ \A w \in Worker : job[w] # m

\* Inject: Join, Leave, SendChat and SetNick hand a new message to Handle.
Inject(w, m) ==
    /\ m \notin Direct
    /\ Created(m)
    /\ pc[w] = "idle"
    /\ Goto(w, "add", m, now)
    /\ UNCHANGED <<now, stamp, queue, wire, handled, flooded, evicted>>

\* Mutant: a repeated message renews its entry.
AddRenew(w) ==
    /\ pc[w] = "add"
    /\ IF stamp[job[w]] # NoTime
       THEN /\ Return(w)
            /\ stamp' = [stamp EXCEPT ![job[w]] = now]
            /\ UNCHANGED <<queue, evicted>>
       ELSE /\ Insert(job[w])
            /\ Goto(w, "handle", job[w], 0)
    /\ UNCHANGED <<now, wire, handled, flooded>>

\* The call of seen.Add in Handle.
Add(w) ==
    /\ pc[w] = "add"
    /\ IF stamp[job[w]] # NoTime
       THEN /\ Return(w)
            /\ UNCHANGED <<stamp, queue, evicted>>
       ELSE /\ Insert(job[w])
            /\ Goto(w, "handle", job[w], 0)
    /\ UNCHANGED <<now, wire, handled, flooded>>

\* Counting up to more than once.
More(k) == IF k = 0 THEN 1 ELSE 2

\* The call of r.handler; a direct message ends here.
Handler(w) ==
    /\ pc[w] = "handle"
    /\ handled' = [handled EXCEPT ![job[w]] = More(@)]
    /\ IF job[w] \in Direct THEN Return(w) ELSE Goto(w, "flood", job[w], 0)
    /\ UNCHANGED <<now, stamp, queue, wire, flooded, evicted>>

\* The call of Broadcast.
Broadcast(w) ==
    /\ pc[w] = "flood"
    /\ flooded' = [flooded EXCEPT ![job[w]] = More(@)]
    /\ wire' = wire \cup {job[w]}
    /\ Return(w)
    /\ UNCHANGED <<now, stamp, queue, handled, evicted>>

\* Mutant: a direct message is sent without marking its ID.
SendDirectUnmarked(m) ==
    /\ m \in Direct
    /\ Created(m)
    /\ wire' = wire \cup {m}
    /\ UNCHANGED <<now, stamp, queue, pc, job, checked, handled, flooded,
                   evicted>>

\* SendDirect: the ID is marked as seen, then the message is sent.
SendDirect(m) ==
    /\ m \in Direct
    /\ Created(m)
    /\ Insert(m)
    /\ wire' = wire \cup {m}
    /\ UNCHANGED <<now, pc, job, checked, handled, flooded>>

\* resyncJoins: the join is sent to the new peer, then marked as seen.
Resync(w, m) ==
    /\ m \notin Direct
    /\ Created(m)
    /\ pc[w] = "idle"
    /\ Goto(w, "mark", m, now)
    /\ wire' = wire \cup {m}
    /\ UNCHANGED <<now, stamp, queue, handled, flooded, evicted>>

Mark(w) ==
    /\ pc[w] = "mark"
    /\ IF stamp[job[w]] # NoTime
       THEN UNCHANGED <<stamp, queue, evicted>>
       ELSE Insert(job[w])
    /\ Return(w)
    /\ UNCHANGED <<now, wire, handled, flooded>>

\* Time passes, but no call of Handle takes longer than MaxDelay from Fresh
\* to Add.
Tick ==
    /\ now < Horizon
    /\ \A w \in Worker :
         pc[w] \in {"add", "mark"} => now - checked[w] < MaxDelay
    /\ now' = now + 1
    /\ UNCHANGED <<stamp, queue, pc, job, checked, wire, handled, flooded,
                   evicted>>

WorkerStep(w) ==
    \/ \E m \in Msg : Receive(w, m) \/ Inject(w, m) \/ Resync(w, m)
    \/ Add(w) \/ Handler(w) \/ Broadcast(w) \/ Mark(w)

Next ==
    \/ \E w \in Worker : WorkerStep(w)
    \/ \E m \in Msg : SendDirect(m)
    \/ Sweep
    \/ Tick

Spec == Init /\ [][Next]_vars

----------------------------------------------------------------------------
(* What the router promises.                                               *)

\* Expiry is safe: however often peers repeat a message and however worker
\* goroutines interleave, the handler runs and the mesh is flooded at most
\* once per message, unless its ID was pushed out by a full store.  A replay
\* that waits until the sweep has forgotten the ID is too old to be fresh.
AtMostOnce ==
    \A m \in Msg \ evicted : handled[m] < 2 /\ flooded[m] < 2

\* A direct message this node sent is never handled by it when a peer sends
\* it back, because its ID was stored before it left.
OwnDirectIgnored ==
    \A m \in (Local \cap Direct) \ evicted : handled[m] = 0

\* The map and the queue hold the same IDs, each once and in the order of their
\* times, so that eviction frees exactly what it drops, which is older than all
\* it keeps, and the sweep forgets nothing it keeps in the map.
QueueMatchesMap ==
    /\ Queued = Seen /\ Len(queue) = Cardinality(Seen)
    /\ \A i, j \in DOMAIN queue : i < j => stamp[queue[i]] <= stamp[queue[j]]
============================================================================
