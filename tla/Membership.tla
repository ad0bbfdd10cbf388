----------------------------- MODULE Membership -----------------------------
(***************************************************************************)
(* Who is in which channel: the channel manager of every node              *)
(* (internal/channel/channel.go) under the join and leave messages that    *)
(* onRouted applies, the joins that resyncJoins sends to a new or replaced *)
(* connection, and onPeerDown (internal/node/handlers.go), while the user  *)
(* joins and leaves (Join, Leave, SetNick of internal/node/node.go).       *)
(*                                                                         *)
(* Goroutines of node n: the terminal, which runs one command at a time;   *)
(* for every connection a hook, which resends joins, and a reader, which   *)
(* handles frames and, when the connection is gone, runs onDown after it   *)
(* has removed the table entry.  A new connection to the same peer may     *)
(* come up between the two.                                                *)
(*                                                                         *)
(* Abstractions: nicknames and chat are left out; the two ends of a        *)
(* connection are registered together (PeerManager has the details) and    *)
(* its loss drops the frames under way; a queue is never full (Gossip),    *)
(* except that SendTo may refuse a resent join on the links in Busy.       *)
(***************************************************************************)
EXTENDS Naturals, Sequences, Functions

CONSTANTS
    Node,
    Link,         \* who may be connected: pairs <<n, p>>, both directions
    Dial,         \* the links on which a connection may be made or replaced
    Start,        \* where a behaviour may begin: the open connections, who
                  \* has heard of whom, the channels each user joins and
                  \* leaves, and how much of the two bounds is used up
    Channel,
    General,      \* the channel every node joins at its start
    Busy,         \* the links that may refuse a resent join
    MaxMsg,       \* bound on the messages ever sent
    MaxSession,   \* bound on the connections made or replaced
    NoChannel     \* no current channel

ASSUME MembershipAssumption ==
    /\ Link \subseteq Node \X Node
    /\ \A l \in Link : l[1] # l[2] /\ <<l[2], l[1]>> \in Link
    /\ Busy \subseteq Link /\ Dial \subseteq Link
    /\ \A s \in Start : /\ s.ids \in 0..MaxMsg /\ s.sessions \in 0..MaxSession
                         /\ s.open \subseteq s.heard /\ s.open \subseteq Link
                         /\ s.heard \subseteq Node \X Node
                         /\ s.rooms \in [Node -> SUBSET Channel]
                         /\ \A l \in s.open : <<l[2], l[1]>> \in s.open
    /\ General \in Channel /\ NoChannel \notin Channel
    /\ MaxMsg \in Nat /\ MaxSession \in Nat

Message == [id : 1..MaxMsg, type : {"join", "leave"}, sender : Node,
            channel : Channel]

VARIABLES
    joined,    \* joined[n]: the channels node n is in
    members,   \* members[n][c]: Channel.Members, {} when n is not in c
    current,   \* current[n]: where n's lines go
    seen,      \* seen[n]: the messages whose IDs are in n's seen store
    alive,     \* the links whose socket is open
    peers,     \* peers[n]: the keys of n's connection table
    net,       \* net[l]: the frames on their way over link l
    terminal,  \* terminal[n]: <<type, channel>> pairs yet to be sent
    hook,      \* hook[l]: "idle", "snapshot", or the channels to resend and
               \* the join sent and not yet stored, if any
    reader,    \* reader[l]: the message being handled, or none
    downs,     \* downs[n]: the peers whose onDown is about to run
    rooms,     \* rooms[n]: the channels that n's user, if any, is interested in
    ids,       \* IDs used so far
    sessions,  \* connections made or replaced so far
    excused    \* history: <<n, p, c>> such that a race has spoilt what n
               \* knows about p in c, and nothing has put it right since

userVars == <<joined, current, terminal, rooms>>
connVars == <<alive, peers, downs, sessions>>
vars == <<userVars, members, excused, connVars, hook, net, seen, ids, reader>>

TypeOK ==
    /\ joined \in [Node -> SUBSET Channel]
    /\ members \in [Node -> [Channel -> SUBSET Node]]
    /\ current \in [Node -> Channel \cup {NoChannel}]
    /\ seen \in [Node -> SUBSET Message]
    /\ alive \subseteq Link
    /\ peers \in [Node -> SUBSET Node]
    /\ net \in [Link -> Seq(Message)]
    /\ terminal \in [Node -> SUBSET ({"join", "leave"} \X Channel)]
    /\ hook \in [Link -> [step : {"idle", "snapshot", "send"},
                          todo : SUBSET Channel, sent : SUBSET Message]]
    /\ reader \in [Link -> SUBSET Message]
    /\ downs \in [Node -> SUBSET Node]
    /\ rooms \in [Node -> SUBSET Channel]
    /\ ids \in 0..MaxMsg /\ sessions \in 0..MaxSession
    /\ excused \subseteq Node \X Node \X Channel
    /\ \A n \in Node : current[n] \in joined[n] \cup {NoChannel}

Idle     == [step |-> "idle", todo |-> {}, sent |-> {}]
Snapshot == [step |-> "snapshot", todo |-> {}, sent |-> {}]

\* Start: chans.Join("#general").  A behaviour begins with nodes that have just
\* started, or later, when the joins of its first connections have arrived.
Init ==
    /\ \E s \in Start :
         /\ alive = s.open /\ rooms = s.rooms
         /\ ids = s.ids /\ sessions = s.sessions
         /\ members = [n \in Node |-> [c \in Channel |->
              IF c = General THEN {n} \cup {p \in Node : <<n, p>> \in s.heard}
              ELSE {}]]
    /\ peers = [n \in Node |-> {p \in Node : <<n, p>> \in alive}]
    /\ joined = [n \in Node |-> {General}]
    /\ current = [n \in Node |-> General]
    /\ seen = [n \in Node |-> {}]
    /\ net = [l \in Link |-> <<>>]
    /\ terminal = [n \in Node |-> {}]
    /\ hook = [l \in Link |-> Idle]
    /\ reader = [l \in Link |-> {}]
    /\ downs = [n \in Node |-> {}]
    /\ excused = {}

----------------------------------------------------------------------------
(* The user's commands: the channel manager first, then the router.        *)

\* Node.Join of a channel n is not in.  What others said about it was dropped,
\* and those who are in it do not say so again.
Join(n, c) ==
    /\ terminal[n] = {}
    /\ c \notin joined[n]
    /\ ids < MaxMsg
    /\ joined' = [joined EXCEPT ![n] = @ \cup {c}]
    /\ members' = [members EXCEPT ![n][c] = {n}]
    /\ current' = [current EXCEPT ![n] = c]
    /\ terminal' = [terminal EXCEPT ![n] = {<<"join", c>>}]
    /\ excused' = {e \in excused : e[1] # n \/ e[3] # c}
                  \cup {<<n, p, c>> : p \in {q \in Node \ {n} : c \in joined[q]}}
    /\ UNCHANGED <<rooms, seen, connVars, net, hook, reader, ids>>

\* Node.Join of a channel n is in only makes it the current one.
JoinAgain(n, c) ==
    /\ terminal[n] = {}
    /\ c \in joined[n]
    /\ current' = [current EXCEPT ![n] = c]
    /\ UNCHANGED <<joined, members, terminal, rooms, seen, connVars, net, hook,
                   reader, ids, excused>>

\* What Manager.Leave may make the current channel: if it was c, another
\* joined one, whichever the map yields first.
NextCurrent(n, c) ==
    IF current[n] # c THEN {current[n]}
    ELSE IF joined[n] = {c} THEN {NoChannel}
    ELSE joined[n] \ {c}

\* Mutant: the current channel is left behind.
LeaveCurrent(n, c) ==
    /\ terminal[n] = {}
    /\ c \in joined[n]
    /\ ids < MaxMsg
    /\ joined' = [joined EXCEPT ![n] = @ \ {c}]
    /\ members' = [members EXCEPT ![n][c] = {}]
    /\ terminal' = [terminal EXCEPT ![n] = {<<"leave", c>>}]
    /\ UNCHANGED <<current, rooms, seen, connVars, net, hook, reader, ids,
                   excused>>

\* Node.Leave.
Leave(n, c) ==
    /\ terminal[n] = {}
    /\ c \in joined[n]
    /\ ids < MaxMsg
    /\ joined' = [joined EXCEPT ![n] = @ \ {c}]
    /\ members' = [members EXCEPT ![n][c] = {}]
    /\ \E d \in NextCurrent(n, c) : current' = [current EXCEPT ![n] = d]
    /\ terminal' = [terminal EXCEPT ![n] = {<<"leave", c>>}]
    /\ UNCHANGED <<rooms, seen, connVars, net, hook, reader, ids, excused>>

\* SetNick announces the new name with a join per channel.
SetNick(n) ==
    /\ terminal[n] = {}
    /\ joined[n] # {}
    /\ ids < MaxMsg
    /\ terminal' = [terminal EXCEPT ![n] = {<<"join", c>> : c \in joined[n]}]
    /\ UNCHANGED <<joined, members, current, rooms, seen, connVars, net, hook,
                   reader, ids, excused>>

\* Broadcast: m goes to the open connections of n other than the one to p.
Flooded(n, p, m) ==
    [l \in Link |-> IF l[1] = n /\ l[2] # p /\ l[2] \in peers[n] /\ l \in alive
                    THEN Append(net[l], m) ELSE net[l]]

\* The member tables of n, which only has them for the channels it is in.
MemberJoin(n, c, p) ==
    IF c \in joined[n] THEN [members EXCEPT ![n][c] = @ \cup {p}] ELSE members

MemberLeave(n, c, p) ==
    IF c \in joined[n] THEN [members EXCEPT ![n][c] = @ \ {p}] ELSE members

MemberLeaveAll(n, p) ==
    [members EXCEPT ![n] = [c \in Channel |-> @[c] \ {p}]]

\* onRouted.
Routed(n, m) ==
    members' = IF m.type = "join" THEN MemberJoin(n, m.channel, m.sender)
                                  ELSE MemberLeave(n, m.channel, m.sender)

NewMessage(t, n, c) ==
    [id |-> ids + 1, type |-> t, sender |-> n, channel |-> c]

\* Those who list n in c from hearsay: no connection's end will correct them.
Hearsay(n, c) ==
    {q \in Node \ {n} : n \in members[q][c] /\ n \notin peers[q] \cup downs[q]}

\* Inject, for one of the messages the command has to send.  A leave need not
\* reach those who are not connected to n.
Inject(n) ==
    \E a \in terminal[n] :
        LET m == NewMessage(a[1], n, a[2])
        IN  /\ ids < MaxMsg
            /\ ids' = ids + 1
            /\ seen' = [seen EXCEPT ![n] = @ \cup {m}]
            /\ Routed(n, m)
            /\ net' = Flooded(n, n, m)
            /\ terminal' = [terminal EXCEPT ![n] = @ \ {a}]
            /\ excused' = IF a[1] = "join" THEN excused
                          ELSE excused \cup
                                 {<<q, n, a[2]>> : q \in Hearsay(n, a[2])}
            /\ UNCHANGED <<joined, current, rooms, connVars, hook, reader>>

----------------------------------------------------------------------------
(* The reader of n for its peer p.                                         *)

\* Mutant: frames are handled again when they come back.
ReceiveUnfiltered(n, p) ==
    /\ reader[<<n, p>>] = {}
    /\ net[<<p, n>>] # <<>>
    /\ reader' = [reader EXCEPT ![<<n, p>>] = {Head(net[<<p, n>>])}]
    /\ net' = [net EXCEPT ![<<p, n>>] = Tail(@)]
    /\ UNCHANGED <<userVars, members, seen, connVars, hook, ids, excused>>

\* A frame passes seen.Add.
Receive(n, p) ==
    /\ reader[<<n, p>>] = {}
    /\ net[<<p, n>>] # <<>>
    /\ LET m == Head(net[<<p, n>>])
       IN  /\ reader' = [reader EXCEPT ![<<n, p>>] =
                           IF m \in seen[n] THEN {} ELSE {m}]
           /\ seen' = [seen EXCEPT ![n] = @ \cup {m}]
    /\ net' = [net EXCEPT ![<<p, n>>] = Tail(@)]
    /\ UNCHANGED <<userVars, members, connVars, hook, ids, excused>>

\* m is no longer true: its sender has changed its mind since (or, for a
\* resent join, before).
Outdated(m) == (m.type = "join") # (m.channel \in joined[m.sender])

\* The handler and the flood.
Handle(n, p) ==
    \E m \in reader[<<n, p>>] :
        /\ Routed(n, m)
        /\ net' = Flooded(n, p, m)
        /\ reader' = [reader EXCEPT ![<<n, p>>] = {}]
        /\ LET e == <<n, m.sender, m.channel>>
           IN  excused' = IF Outdated(m) THEN excused \cup {e}
                                         ELSE excused \ {e}
        /\ UNCHANGED <<userVars, seen, connVars, hook, ids>>

\* The read loop ends: unregister ...
Unregister(n, p) ==
    /\ p \in peers[n]
    /\ <<n, p>> \notin alive
    /\ reader[<<n, p>>] = {}
    /\ peers' = [peers EXCEPT ![n] = @ \ {p}]
    /\ downs' = [downs EXCEPT ![n] = @ \cup {p}]
    /\ UNCHANGED <<userVars, members, seen, alive, net, hook, reader, ids,
                   sessions, excused>>

\* Mutant: onPeerDown leaves the member tables alone.
OnDownKeeping(n, p) ==
    /\ p \in downs[n]
    /\ downs' = [downs EXCEPT ![n] = @ \ {p}]
    /\ UNCHANGED <<userVars, members, seen, alive, peers, net, hook, reader,
                   ids, sessions, excused>>

\* ... and, a moment later, onPeerDown: MemberLeaveAll.
OnDown(n, p) ==
    /\ p \in downs[n]
    /\ downs' = [downs EXCEPT ![n] = @ \ {p}]
    /\ members' = MemberLeaveAll(n, p)
    /\ excused' = {e \in excused : e[1] # n \/ e[2] # p}
                  \cup {<<n, p, c>> : c \in {d \in joined[p] : p \in peers[n]}}
    /\ UNCHANGED <<userVars, seen, alive, peers, net, hook, reader, ids,
                   sessions>>

----------------------------------------------------------------------------
(* Connections and the joins they are greeted with.                        *)

\* Leaves of n on their way to p: once lost they are not sent again, as joins
\* are.
Lost(n, p) ==
    {<<p, n, m.channel>> :
       m \in {k \in Range(net[<<n, p>>]) : k.sender = n /\ k.type = "leave"}}

\* A new connection: onPeerUp at both ends.
Connect(n, p) ==
    /\ <<n, p>> \in Dial \ alive
    /\ p \notin peers[n] /\ n \notin peers[p]
    /\ hook[<<n, p>>] = Idle /\ hook[<<p, n>>] = Idle
    /\ sessions < MaxSession
    /\ sessions' = sessions + 1
    /\ alive' = alive \cup {<<n, p>>, <<p, n>>}
    /\ peers' = [peers EXCEPT ![n] = @ \cup {p}, ![p] = @ \cup {n}]
    /\ hook' = [hook EXCEPT ![<<n, p>>] = Snapshot, ![<<p, n>>] = Snapshot]
    /\ UNCHANGED <<userVars, members, seen, net, reader, downs, ids, excused>>

\* A duplicate connection replaces this one: what the old one carried is lost.
Replace(n, p) ==
    /\ <<n, p>> \in alive \cap Dial
    /\ p \in peers[n] /\ n \in peers[p]
    /\ hook[<<n, p>>] = Idle /\ hook[<<p, n>>] = Idle
    /\ sessions < MaxSession
    /\ sessions' = sessions + 1
    /\ net' = [net EXCEPT ![<<n, p>>] = <<>>, ![<<p, n>>] = <<>>]
    /\ hook' = [hook EXCEPT ![<<n, p>>] = Snapshot, ![<<p, n>>] = Snapshot]
    /\ excused' = excused \cup Lost(n, p) \cup Lost(p, n)
    /\ UNCHANGED <<userVars, members, seen, alive, peers, reader, downs, ids>>

Break(n, p) ==
    /\ <<n, p>> \in alive
    /\ alive' = alive \ {<<n, p>>, <<p, n>>}
    /\ net' = [net EXCEPT ![<<n, p>>] = <<>>, ![<<p, n>>] = <<>>]
    /\ UNCHANGED <<userVars, members, seen, peers, hook, reader, downs, ids,
                   sessions, excused>>

\* resyncJoins asks for the joined channels ...
JoinedNames(n, p) ==
    /\ hook[<<n, p>>] = Snapshot
    /\ hook' = [hook EXCEPT ![<<n, p>>] =
                  IF joined[n] = {} THEN Idle
                  ELSE [step |-> "send", todo |-> joined[n], sent |-> {}]]
    /\ UNCHANGED <<userVars, members, seen, connVars, net, reader, ids,
                   excused>>

\* ... and sends a join for each, whatever the user has left since.  SendTo
\* fails silently when the connection is gone or its queue is full.
Resync(n, p) ==
    /\ hook[<<n, p>>].sent = {}
    /\ \E c \in hook[<<n, p>>].todo :
        LET m == NewMessage("join", n, c)
        IN  /\ ids < MaxMsg
            /\ ids' = ids + 1
            /\ hook' = [hook EXCEPT ![<<n, p>>] =
                          [step |-> "send", todo |-> @.todo \ {c}, sent |-> {m}]]
            /\ \/ /\ p \in peers[n] /\ <<n, p>> \in alive
                  /\ net' = [net EXCEPT ![<<n, p>>] = Append(@, m)]
                  /\ UNCHANGED excused
               \/ /\ <<n, p>> \notin alive
                  /\ UNCHANGED <<net, excused>>
               \/ /\ <<n, p>> \in Busy
                  /\ UNCHANGED net
                  /\ excused' = excused \cup {<<p, n, c>>}
            /\ UNCHANGED <<userVars, members, seen, connVars, reader>>

\* The ID is stored after the join has left; by then it may have come back over
\* a cycle, been handled here and flooded.
Mark(n, p) ==
    /\ hook[<<n, p>>].sent # {}
    /\ seen' = [seen EXCEPT ![n] = @ \cup hook[<<n, p>>].sent]
    /\ hook' = [hook EXCEPT ![<<n, p>>] =
                  IF @.todo = {} THEN Idle ELSE [@ EXCEPT !.sent = {}]]
    /\ UNCHANGED <<userVars, members, connVars, net, reader, ids, excused>>

----------------------------------------------------------------------------

Next ==
    \/ \E n \in Node :
         \/ \E c \in rooms[n] : Join(n, c) \/ JoinAgain(n, c) \/ Leave(n, c)
         \/ rooms[n] # {} /\ (SetNick(n) \/ Inject(n))
    \/ \E l \in Link :
         LET n == l[1]
             p == l[2]
         IN  \/ Receive(n, p) \/ Handle(n, p)
             \/ Unregister(n, p) \/ OnDown(n, p)
             \/ Connect(n, p) \/ Replace(n, p) \/ Break(n, p)
             \/ JoinedNames(n, p) \/ Resync(n, p) \/ Mark(n, p)

Spec == Init /\ [][Next]_vars

----------------------------------------------------------------------------
(* What the member tables promise.                                         *)

\* Nothing is under way between nodes.
Quiet ==
    /\ \A n \in Node : terminal[n] = {} /\ downs[n] = {}
    /\ \A l \in Link : /\ net[l] = <<>> /\ reader[l] = {} /\ hook[l] = Idle
                       /\ l[2] \in peers[l[1]] <=> l \in alive

\* A node is in its own list of every channel it is in: nothing that comes
\* back from the mesh, and no loss of a peer, takes it out.  A node does handle
\* a join of its own, when that comes back over a cycle before its ID is stored
\* (handlers.go:132), but never one of its leaves.
SelfListed == \A n \in Node : \A c \in joined[n] : n \in members[n][c]

\* When nothing is under way two connected nodes see each other in exactly the
\* channels both are in, after any number of lost and replaced connections,
\* except for what the code leaves open: a node that joined after the other
\* (Join), a resent join refused by a full queue (Resync), an onDown that ran
\* after the peer had come back (OnDown), a leave lost with a replaced
\* connection (Replace) or sent when only hearsay connected the two (Inject),
\* and a message that was not true any more when it was handled, if nothing
\* from its sender about the channel was handled after it (Handle).
Consistent ==
    Quiet => \A l \in alive : \A c \in joined[l[1]] :
        \/ <<l[1], l[2], c>> \in excused
        \/ l[2] \in members[l[1]][c] <=> c \in joined[l[2]]

\* docs/architecture.md, "Membership is gossiped with `join` / `leave` and is
\* eventually consistent": when nothing is under way two connected nodes see
\* each other in the channels both are in.
MembersConverge ==
    Quiet => \A l \in alive : \A c \in joined[l[1]] \cap joined[l[2]] :
        l[2] \in members[l[1]][c]
=============================================================================
