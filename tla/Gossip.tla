------------------------------- MODULE Gossip -------------------------------
(***************************************************************************)
(* Messages flooding a mesh of nodes: Router.Handle at every node, the     *)
(* read loops that call it, Manager.Broadcast and SendTo, the bounded send *)
(* queues, and connections that are closed (internal/router/router.go,     *)
(* internal/peer/peer.go, internal/node/handlers.go).                      *)
(*                                                                         *)
(* The goroutine <<n, p>> is the read loop of node n for its peer p;       *)
(* <<n, n>> stands for the local callers of the router at n: the terminal  *)
(* and the hooks of new connections.                                       *)
(*                                                                         *)
(* Abstractions: a message is its ID; expiry and eviction of seen IDs are  *)
(* in the module Router, how connections come to be in PeerManager; a send *)
(* queue and the socket behind it are one queue; the two ends of a         *)
(* connection close together, and lose any number of the last frames.      *)
(* Frames that fail a check in onPeerMessage change nothing and are left   *)
(* out, except those the rate limiter refuses, which the others pass.      *)
(***************************************************************************)
EXTENDS Naturals, Sequences, FiniteSets

CONSTANTS
    Node,
    Link,        \* the connections: pairs <<n, p>>, both directions
    Msg,
    Origin,      \* Origin[m]: the node that creates m
    Joins,       \* the messages created by resyncJoins
    Unreliable,  \* the links that may break
    Throttling,  \* the nodes whose rate limiter may find its window full
    QueueLen,    \* capacity of a send queue (64 in wrap)
    NoMsg        \* the job of an idle goroutine

ASSUME MeshAssumption ==
    /\ Link \subseteq Node \X Node
    /\ \A n, p \in Node : <<n, p>> \in Link => n # p /\ <<p, n>> \in Link
    /\ Unreliable \subseteq Link
    /\ Throttling \subseteq Node
ASSUME MsgAssumption ==
    /\ Origin \in [Msg -> Node]
    /\ Joins \subseteq Msg
    /\ NoMsg \notin Msg
ASSUME QueueAssumption == QueueLen \in Nat \ {0}

Pair == Node \X Node

VARIABLES
    up,         \* the links whose connection is open
    net,        \* net[<<n, p>>]: messages sent by n and not yet read by p
    seen,       \* seen[n]: the IDs in the store of n
    pc,         \* pc[<<n, t>>]: where a goroutine of n stands
    job,        \* job[<<n, t>>]: its message
    todo,       \* todo[<<n, t>>]: the peers its Broadcast has yet to serve
    published,  \* history: the messages created so far
    handled,    \* history: handled[n][m]: how often the handler of n ran for m
    crossed,    \* history: crossed[l][m]: how often m was queued on link l
    limited     \* history: limited[l]: those its reader's limiter refused

vars == <<up, net, seen, pc, job, todo, published, handled, crossed, limited>>

TypeOK ==
    /\ up \subseteq Link
    /\ net \in [Pair -> Seq(Msg)] /\ \A l \in Pair : Len(net[l]) <= QueueLen
    /\ seen \in [Node -> SUBSET Msg]
    /\ pc \in [Pair -> {"idle", "add", "handle", "flood", "mark"}]
    /\ job \in [Pair -> Msg \cup {NoMsg}]
    /\ todo \in [Pair -> SUBSET Node]
    /\ published \subseteq Msg
    /\ handled \in [Node -> [Msg -> Nat]]
    /\ crossed \in [Pair -> [Msg -> Nat]]
    /\ limited \in [Pair -> SUBSET Msg]

Init ==
    /\ up = Link
    /\ net = [l \in Pair |-> <<>>]
    /\ seen = [n \in Node |-> {}]
    /\ pc = [g \in Pair |-> "idle"]
    /\ job = [g \in Pair |-> NoMsg]
    /\ todo = [g \in Pair |-> {}]
    /\ published = {}
    /\ handled = [n \in Node |-> [m \in Msg |-> 0]]
    /\ crossed = [l \in Pair |-> [m \in Msg |-> 0]]
    /\ limited = [l \in Pair |-> {}]

----------------------------------------------------------------------------

InFlight(l) == {net[l][i] : i \in DOMAIN net[l]}

\* The goroutine g goes on to a step with message m and peers S to serve.
Goto(g, step, m, S) ==
    /\ pc' = [pc EXCEPT ![g] = step]
    /\ job' = [job EXCEPT ![g] = m]
    /\ todo' = [todo EXCEPT ![g] = S]

Return(g) == Goto(g, "idle", NoMsg, {})

Peers(n) == {p \in Node : <<n, p>> \in up}

\* Conn.Close on either end of l: frames at the end of the queues are lost.
Break(n, p) ==
    /\ up' = up \ {<<n, p>>, <<p, n>>}
    /\ \E i \in 0..Len(net[<<n, p>>]), j \in 0..Len(net[<<p, n>>]) :
         net' = [net EXCEPT ![<<n, p>>] = SubSeq(@, 1, i),
                            ![<<p, n>>] = SubSeq(@, 1, j)]

\* Mutant of Queue: the channel has no capacity.
QueueUnbounded(n, p, m) ==
    /\ <<n, p>> \in up
    /\ net' = [net EXCEPT ![<<n, p>>] = Append(@, m)]
    /\ crossed' = [crossed EXCEPT ![<<n, p>>][m] = @ + 1]
    /\ UNCHANGED up

\* Conn.Send: m is queued.  It is refused, and nothing happens, when the
\* connection is closed or its queue is full.
Queue(n, p, m) ==
    /\ <<n, p>> \in up
    /\ Len(net[<<n, p>>]) < QueueLen
    /\ net' = [net EXCEPT ![<<n, p>>] = Append(@, m)]
    /\ crossed' = [crossed EXCEPT ![<<n, p>>][m] = @ + 1]
    /\ UNCHANGED up

Closed(n, p)    == <<n, p>> \notin up
QueueFull(n, p) == <<n, p>> \in up /\ Len(net[<<n, p>>]) >= QueueLen

----------------------------------------------------------------------------
(* Router.Handle, in the goroutine g = <<n, t>>.                           *)

\* Inject: a local caller creates a message and calls Handle.
Inject(m) ==
    LET n == Origin[m]
    IN  /\ m \in Msg \ (published \cup Joins)
        /\ pc[<<n, n>>] = "idle"
        /\ published' = published \cup {m}
        /\ Goto(<<n, n>>, "add", m, {})
        /\ UNCHANGED <<up, net, seen, handled, crossed, limited>>

\* The read loop takes the next frame; onPeerMessage passes it to Handle ...
Receive(n, p) ==
    /\ pc[<<n, p>>] = "idle"
    /\ net[<<p, n>>] # <<>>
    /\ net' = [net EXCEPT ![<<p, n>>] = Tail(@)]
    /\ Goto(<<n, p>>, "add", Head(net[<<p, n>>]), {})
    /\ UNCHANGED <<up, seen, published, handled, crossed, limited>>

\* ... or drops it because limit.Allow finds its sender over the rate.
RateLimit(n, p) ==
    /\ n \in Throttling
    /\ pc[<<n, p>>] = "idle"
    /\ net[<<p, n>>] # <<>>
    /\ net' = [net EXCEPT ![<<p, n>>] = Tail(@)]
    /\ limited' = [limited EXCEPT ![<<p, n>>] = @ \cup {Head(net[<<p, n>>])}]
    /\ UNCHANGED <<up, seen, pc, job, todo, published, handled, crossed>>

\* Mutant of Add: Inject does not mark the message as seen.
AddRemote(n, t) ==
    /\ pc[<<n, t>>] = "add"
    /\ IF job[<<n, t>>] \in seen[n]
       THEN /\ Return(<<n, t>>)
            /\ UNCHANGED seen
       ELSE /\ Goto(<<n, t>>, "handle", job[<<n, t>>], {})
            /\ seen' = IF n = t THEN seen
                       ELSE [seen EXCEPT ![n] = @ \cup {job[<<n, t>>]}]
    /\ UNCHANGED <<up, net, published, handled, crossed, limited>>

\* seen.Add: a known ID ends the call.
Add(n, t) ==
    /\ pc[<<n, t>>] = "add"
    /\ IF job[<<n, t>>] \in seen[n]
       THEN /\ Return(<<n, t>>)
            /\ UNCHANGED seen
       ELSE /\ Goto(<<n, t>>, "handle", job[<<n, t>>], {})
            /\ seen' = [seen EXCEPT ![n] = @ \cup {job[<<n, t>>]}]
    /\ UNCHANGED <<up, net, published, handled, crossed, limited>>

\* Mutant of Handler: only messages of this node are passed on.
HandlerOneHop(n, t) ==
    /\ pc[<<n, t>>] = "handle"
    /\ handled' = [handled EXCEPT ![n][job[<<n, t>>]] = @ + 1]
    /\ Goto(<<n, t>>, "flood", job[<<n, t>>], IF n = t THEN Peers(n) ELSE {})
    /\ UNCHANGED <<up, net, seen, published, crossed, limited>>

\* r.handler runs; then Broadcast copies the table, leaving out the peer the
\* message came from.
Handler(n, t) ==
    /\ pc[<<n, t>>] = "handle"
    /\ handled' = [handled EXCEPT ![n][job[<<n, t>>]] = @ + 1]
    /\ Goto(<<n, t>>, "flood", job[<<n, t>>], Peers(n) \ {t})
    /\ UNCHANGED <<up, net, seen, published, crossed, limited>>

\* Mutant of Flood: a full queue drops the message and keeps the connection.
FloodLossy(n, t) ==
    /\ pc[<<n, t>>] = "flood"
    /\ \/ \E p \in todo[<<n, t>>] :
            /\ \/ Queue(n, p, job[<<n, t>>])
               \/ QueueFull(n, p) /\ UNCHANGED <<up, net, crossed>>
               \/ Closed(n, p) /\ UNCHANGED <<up, net, crossed>>
            /\ Goto(<<n, t>>, "flood", job[<<n, t>>], todo[<<n, t>>] \ {p})
       \/ /\ todo[<<n, t>>] = {}
          /\ Return(<<n, t>>)
          /\ UNCHANGED <<up, net, crossed>>
    /\ UNCHANGED <<seen, published, handled, limited>>

\* Mutant of Flood: the first refused send ends the loop.
FloodAbort(n, t) ==
    /\ pc[<<n, t>>] = "flood"
    /\ \/ \E p \in todo[<<n, t>>] :
            \/ /\ Queue(n, p, job[<<n, t>>])
               /\ Goto(<<n, t>>, "flood", job[<<n, t>>], todo[<<n, t>>] \ {p})
            \/ /\ QueueFull(n, p) /\ Break(n, p) /\ UNCHANGED crossed
               /\ Return(<<n, t>>)
            \/ /\ Closed(n, p) /\ UNCHANGED <<up, net, crossed>>
               /\ Return(<<n, t>>)
       \/ /\ todo[<<n, t>>] = {}
          /\ Return(<<n, t>>)
          /\ UNCHANGED <<up, net, crossed>>
    /\ UNCHANGED <<seen, published, handled, limited>>

\* One turn of the loop in Broadcast, in any order of the copied table: a
\* connection whose queue is full is closed.
Flood(n, t) ==
    /\ pc[<<n, t>>] = "flood"
    /\ \/ \E p \in todo[<<n, t>>] :
            /\ \/ Queue(n, p, job[<<n, t>>])
               \/ QueueFull(n, p) /\ Break(n, p) /\ UNCHANGED crossed
               \/ Closed(n, p) /\ UNCHANGED <<up, net, crossed>>
            /\ Goto(<<n, t>>, "flood", job[<<n, t>>], todo[<<n, t>>] \ {p})
       \/ /\ todo[<<n, t>>] = {}
          /\ Return(<<n, t>>)
          /\ UNCHANGED <<up, net, crossed>>
    /\ UNCHANGED <<seen, published, handled, limited>>

\* resyncJoins: a new join goes to the peer p only, and then into the store.
\* A refused send is ignored, and closes nothing.
Resync(p, m) ==
    LET n == Origin[m]
    IN  /\ m \in Joins \ published
        /\ <<n, p>> \in Link
        /\ pc[<<n, n>>] = "idle"
        /\ published' = published \cup {m}
        /\ \/ Queue(n, p, m)
           \/ QueueFull(n, p) /\ UNCHANGED <<up, net, crossed>>
           \/ Closed(n, p) /\ UNCHANGED <<up, net, crossed>>
        /\ Goto(<<n, n>>, "mark", m, {})
        /\ UNCHANGED <<seen, handled, limited>>

Mark(n) ==
    /\ pc[<<n, n>>] = "mark"
    /\ seen' = [seen EXCEPT ![n] = @ \cup {job[<<n, n>>]}]
    /\ Return(<<n, n>>)
    /\ UNCHANGED <<up, net, published, handled, crossed, limited>>

\* A connection breaks or is closed.
Disconnect(n, p) ==
    /\ <<n, p>> \in up \cap Unreliable
    /\ Break(n, p)
    /\ UNCHANGED <<seen, pc, job, todo, published, handled, crossed, limited>>

----------------------------------------------------------------------------

Step(n, t) == Receive(n, t) \/ Add(n, t) \/ Handler(n, t) \/ Flood(n, t)

Next ==
    \/ \E m \in Msg : Inject(m) \/ \E p \in Node : Resync(p, m)
    \/ \E n, t \in Node : Step(n, t) \/ RateLimit(n, t) \/ Disconnect(n, t)
    \/ \E n \in Node : Mark(n)

Spec == Init /\ [][Next]_vars

\* Goroutines run; nobody is obliged to write a message or to disconnect.
Fairness ==
    /\ \A n, t \in Node : WF_vars(Step(n, t))
    /\ \A n \in Node : WF_vars(Mark(n))

FairSpec == Spec /\ Fairness

----------------------------------------------------------------------------
(* What flooding promises.                                                 *)

\* The node that resends one of its joins floods it to nobody; every other
\* message, and every other node, is flooded to all peers.
Floods(n, m) == m \notin Joins \/ n # Origin[m]

\* The goroutine t of n has m and has yet to send it to p.
Owes(n, t, p, m) ==
    /\ job[<<n, t>>] = m
    /\ \/ pc[<<n, t>>] = "handle" /\ t # p
       \/ pc[<<n, t>>] = "flood" /\ p \in todo[<<n, t>>]

\* m has reached the other end p of a link of n, is on its way there, or is
\* going to be sent there.
OnItsWay(n, p, m) ==
    \/ m \in seen[p] \cup InFlight(<<n, p>>) \cup limited[<<n, p>>]
    \/ \E t \in Node : job[<<p, t>>] = m
    \/ \E t \in Node : Owes(n, t, p, m)

\* What a node has in its store it has passed on, or is about to, over every
\* open link: no message is stranded half-way, whatever links break meanwhile.
Covered ==
    \A n, p \in Node : <<n, p>> \in up =>
        \A m \in seen[n] : Floods(n, m) => OnItsWay(n, p, m)

\* How often n may queue m on one of its links: twice if n resends the join m.
Allowed(n, m) == IF Floods(n, m) THEN 1 ELSE 2

\* A cycle in the mesh does not amplify a message: whichever copies arrive
\* first and however read loops interleave, a node queues it at most once on
\* each of its links.  The exception is a node that resends a join: until Mark
\* (handlers.go:132) the copy that comes back over a cycle is new to it, and
\* it may flood the join to the peer it has just sent it to; but never again.
CrossOnce ==
    \A n, p \in Node, m \in Msg : crossed[<<n, p>>][m] <= Allowed(n, m)

\* The mesh implements Broadcast: the handler of a node runs at most once for
\* a message, and only for what was published.
Abstract == INSTANCE Broadcast WITH got <- handled
Refines  == Abstract!Spec

Quiet ==
    /\ \A g \in Pair : pc[g] = "idle"
    /\ \A l \in Pair : net[l] = <<>>

\* When the mesh is quiet, what one end of an open link knows the other end
\* knows too, unless its rate limiter refused it.
Converged ==
    Quiet => \A n, p \in Node : <<n, p>> \in up =>
        \A m \in seen[n] : Floods(n, m) => m \in seen[p] \cup limited[<<n, p>>]

\* No path of open links leads from a to b.
Cut(a, b) ==
    \E S \in SUBSET Node :
        a \in S /\ b \notin S /\ up \cap (S \X (Node \ S)) = {}

\* A published message reaches every node that its writer is still connected
\* to, over whatever links are left, unless a rate limiter refused a copy.
EverybodyHears ==
    \A m \in Msg \ Joins :
        m \in published ~> \A n \in Node :
                               \/ handled[n][m] = 1
                               \/ Cut(Origin[m], n)
                               \/ \E l \in Pair : m \in limited[l]
=============================================================================
