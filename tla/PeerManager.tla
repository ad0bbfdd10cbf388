---------------------------- MODULE PeerManager ----------------------------
(***************************************************************************)
(* The table of live peer connections kept by every node                   *)
(* (internal/peer/peer.go, with the accept path and Close of               *)
(* internal/node/node.go), for all nodes of a mesh at once.                *)
(*                                                                         *)
(* A TCP session has two ends, one per node; the code has one Conn object  *)
(* per end.  Two goroutines work on a Conn: the one that runs              *)
(* HandshakeAndAdopt (task) and, from start() on, its read loop (reader).  *)
(* One step of the model is one critical section of Manager.mu, or the     *)
(* code a goroutine runs between two points where another goroutine can    *)
(* see or change what it has done.                                         *)
(*                                                                         *)
(* Abstractions: TLS, hello and welcome are one exchange that either       *)
(* completes or fails; a Peer ID is a natural number, ordered as the code  *)
(* orders the hex strings; the frames a live session carries are left to   *)
(* the modules Router and Gossip.                                          *)
(***************************************************************************)
EXTENDS Integers, FiniteSets

CONSTANTS
    Node,           \* the peers, by Peer ID
    Session,        \* the TCP connections that are ever dialed
    From, To,       \* From[s] dials session s, To[s] accepts it
    Unreliable,     \* the sessions that may break or be closed by a user
    Stoppable,      \* the nodes that may be shut down
    MaxPeers,       \* config.MaxPeers, 0 = unlimited
    MaxHandshakes,  \* config.MaxHandshakes, 0 = no semaphore
    NoConn          \* the absence of a Conn (nil)

Conn == Session \X {"out", "in"}

ASSUME NodeAssumption == Node \subseteq Nat /\ IsFiniteSet(Node)
ASSUME SessionAssumption ==
    /\ IsFiniteSet(Session)
    /\ From \in [Session -> Node]
    /\ To \in [Session -> Node]
    /\ Unreliable \subseteq Session
    /\ Stoppable \subseteq Node
ASSUME BoundAssumption == MaxPeers \in Nat /\ MaxHandshakes \in Nat
ASSUME NoConnAssumption == NoConn \notin Conn

Out(s) == <<s, "out">>
In(s)  == <<s, "in">>

Inbound(c) == c[2] = "in"
Mate(c)    == IF Inbound(c) THEN Out(c[1]) ELSE In(c[1])
Owner(c)   == IF Inbound(c) THEN To[c[1]] ELSE From[c[1]]
Remote(c)  == IF Inbound(c) THEN From[c[1]] ELSE To[c[1]]

VARIABLES
    task,      \* task[c]: where HandshakeAndAdopt stands for c
    reader,    \* reader[c]: where the read loop of c stands
    closed,    \* closed[c]: c.Close() has been called
    loser,     \* loser[c]: the Conn that adopt replaced by c
    conns,     \* conns[n][p]: Manager.conns of node n
    welcomed,  \* the sessions whose welcome has been written
    slots,     \* slots[n]: len(handshakeSem) of node n
    life,      \* life[n]: how far Node.Close has got
    doomed,    \* doomed[n]: CloseAll's snapshot, the part still to close
    balance    \* history: onUp calls minus onDown calls of n for p

vars == <<task, reader, closed, loser, conns, welcomed, slots, life, doomed,
          balance>>

Tasks   == {"idle", "handshake", "adopt", "reject", "swap", "start", "hook",
            "done"}
Readers == {"none", "reading", "shutdown", "down", "ended"}
Lives   == {"running", "cancelled", "closing", "closed"}

TypeOK ==
    /\ task \in [Conn -> Tasks]
    /\ reader \in [Conn -> Readers]
    /\ closed \in [Conn -> BOOLEAN]
    /\ loser \in [Conn -> Conn \cup {NoConn}]
    /\ conns \in [Node -> [Node -> Conn \cup {NoConn}]]
    /\ welcomed \subseteq Session
    /\ slots \in [Node -> Nat]
    /\ life \in [Node -> Lives]
    /\ doomed \in [Node -> SUBSET Conn]
    /\ balance \in [Node -> [Node -> Int]]

Init ==
    /\ task = [c \in Conn |-> "idle"]
    /\ reader = [c \in Conn |-> "none"]
    /\ closed = [c \in Conn |-> FALSE]
    /\ loser = [c \in Conn |-> NoConn]
    /\ conns = [n \in Node |-> [p \in Node |-> NoConn]]
    /\ welcomed = {}
    /\ slots = [n \in Node |-> 0]
    /\ life = [n \in Node |-> "running"]
    /\ doomed = [n \in Node |-> {}]
    /\ balance = [n \in Node |-> [p \in Node |-> 0]]

----------------------------------------------------------------------------
(* Helpers.                                                                *)

\* The peers node n has an entry for: the keys of Manager.conns.
Peers(n) == {p \in Node : conns[n][p] # NoConn}

Registered(c) == conns[Owner(c)][Remote(c)] = c

\* Mutant: dialOne gives a handshake slot back as well.
ReleaseAlways(c) ==
    slots' = IF MaxHandshakes > 0
             THEN [slots EXCEPT ![Owner(c)] = @ - 1]
             ELSE slots

\* The end of adoptInbound: the deferred receive from handshakeSem.
Release(c) ==
    slots' = IF Inbound(c) /\ MaxHandshakes > 0
             THEN [slots EXCEPT ![Owner(c)] = @ - 1]
             ELSE slots

\* Mutant: the error returns skip the deferred release.
GiveUpLeaking(c) ==
    /\ task' = [task EXCEPT ![c] = "done"]
    /\ closed' = [closed EXCEPT ![c] = TRUE]
    /\ UNCHANGED slots

\* HandshakeAndAdopt returns an error after closing c.
GiveUp(c) ==
    /\ task' = [task EXCEPT ![c] = "done"]
    /\ closed' = [closed EXCEPT ![c] = TRUE]
    /\ Release(c)

\* The listening socket of n is open.
Listening(n) == life[n] \in {"running", "cancelled"}

----------------------------------------------------------------------------
(* Dialing, accepting and the handshake.                                   *)

\* dialOne reached the listener; the dialer writes its hello.
Dial(s) ==
    /\ task[Out(s)] = "idle"
    /\ life[From[s]] = "running"
    /\ Listening(To[s])
    /\ task' = [task EXCEPT ![Out(s)] = "handshake"]
    /\ UNCHANGED <<reader, closed, loser, conns, welcomed, slots, life,
                   doomed, balance>>

\* acceptLoop hands the socket to adoptInbound, which takes a handshake slot
\* without waiting, or closes the socket when there is none.
Accept(s) ==
    /\ task[Out(s)] # "idle"
    /\ task[In(s)] = "idle"
    /\ Listening(To[s])
    /\ IF MaxHandshakes > 0 /\ slots[To[s]] >= MaxHandshakes
       THEN /\ task' = [task EXCEPT ![In(s)] = "done"]
            /\ closed' = [closed EXCEPT ![In(s)] = TRUE]
            /\ UNCHANGED slots
       ELSE /\ task' = [task EXCEPT ![In(s)] = "handshake"]
            /\ slots' = IF MaxHandshakes > 0
                        THEN [slots EXCEPT ![To[s]] = @ + 1]
                        ELSE slots
            /\ UNCHANGED closed
    /\ UNCHANGED <<reader, loser, conns, welcomed, life, doomed, balance>>

\* handshake() returned the remote identity: refuse our own Peer ID.
Identified(c) ==
    IF Remote(c) = Owner(c)
    THEN GiveUp(c)
    ELSE /\ task' = [task EXCEPT ![c] = "adopt"]
         /\ UNCHANGED <<closed, slots>>

\* The listener reads the hello (already on the wire, even if the dialer has
\* given up since) and writes its welcome.
ReadHello(s) ==
    /\ task[In(s)] = "handshake"
    /\ welcomed' = welcomed \cup {s}
    /\ Identified(In(s))
    /\ UNCHANGED <<reader, loser, conns, life, doomed, balance>>

\* The dialer reads the welcome.
ReadWelcome(s) ==
    /\ task[Out(s)] = "handshake"
    /\ s \in welcomed
    /\ Identified(Out(s))
    /\ UNCHANGED <<reader, loser, conns, welcomed, life, doomed, balance>>

\* The other end will never answer: it has closed, or its listener has.
Abandoned(c) ==
    \/ closed[Mate(c)]
    \/ ~Inbound(c) /\ task[Mate(c)] = "idle" /\ ~Listening(Remote(c))

\* Mutant: no deadline on the handshake.
HandshakeFailNoDeadline(c) ==
    /\ task[c] = "handshake"
    /\ c[1] \in Unreliable
    /\ GiveUp(c)
    /\ UNCHANGED <<reader, loser, conns, welcomed, life, doomed, balance>>

\* Read or write error, deadline, bad signature, or a peer that went away.
HandshakeFail(c) ==
    /\ task[c] = "handshake"
    /\ Abandoned(c) \/ c[1] \in Unreliable
    /\ GiveUp(c)
    /\ UNCHANGED <<reader, loser, conns, welcomed, life, doomed, balance>>

----------------------------------------------------------------------------
(* Manager.adopt: one critical section, then steps outside the lock.       *)

\* Mutant: both ends prefer their inbound connection.
PreferInbound(c) == Inbound(c)

\* The direction the duplicate rule wants at c's node: outbound at the
\* smaller Peer ID, inbound at the larger.
Preferred(c) == ~Inbound(c) <=> Owner(c) < Remote(c)

\* m.conns[c.info.ID]
Existing(c) == conns[Owner(c)][Remote(c)]

\* Mutant: room for one peer too many.
FullLate(n) == MaxPeers > 0 /\ Cardinality(Peers(n)) > MaxPeers

Full(n) == MaxPeers > 0 /\ Cardinality(Peers(n)) >= MaxPeers

\* A new peer and no room: ErrTooMany.
AdoptTooMany(c) ==
    /\ Existing(c) = NoConn
    /\ Full(Owner(c))
    /\ GiveUp(c)
    /\ UNCHANGED <<conns, loser>>

\* A new peer.
AdoptNew(c) ==
    /\ Existing(c) = NoConn
    /\ ~Full(Owner(c))
    /\ conns' = [conns EXCEPT ![Owner(c)][Remote(c)] = c]
    /\ task' = [task EXCEPT ![c] = "start"]
    /\ UNCHANGED <<closed, loser, slots>>

\* Mutant: the replaced connection is forgotten instead of closed.
AdoptReplaceForgetful(c) ==
    /\ Existing(c) # NoConn
    /\ Inbound(c) # Inbound(Existing(c)) /\ Preferred(c)
    /\ conns' = [conns EXCEPT ![Owner(c)][Remote(c)] = c]
    /\ task' = [task EXCEPT ![c] = "start"]
    /\ UNCHANGED <<closed, loser, slots>>

\* A known peer, the other direction, and c has the preferred one.
AdoptReplace(c) ==
    /\ Existing(c) # NoConn
    /\ Inbound(c) # Inbound(Existing(c)) /\ Preferred(c)
    /\ conns' = [conns EXCEPT ![Owner(c)][Remote(c)] = c]
    /\ loser' = [loser EXCEPT ![c] = Existing(c)]
    /\ task' = [task EXCEPT ![c] = "swap"]
    /\ UNCHANGED <<closed, slots>>

\* A known peer, and c has the same direction or not the preferred one.
AdoptDuplicate(c) ==
    /\ Existing(c) # NoConn
    /\ Inbound(c) = Inbound(Existing(c)) \/ ~Preferred(c)
    /\ task' = [task EXCEPT ![c] = "reject"]
    /\ UNCHANGED <<conns, loser, closed, slots>>

adopt(c) ==
    /\ task[c] = "adopt"
    /\ AdoptTooMany(c) \/ AdoptNew(c) \/ AdoptReplace(c) \/ AdoptDuplicate(c)
    /\ UNCHANGED <<reader, welcomed, life, doomed, balance>>

\* Mutant: ErrDuplicate is returned without closing the socket.
RejectOpen(c) ==
    /\ task[c] = "reject"
    /\ task' = [task EXCEPT ![c] = "done"]
    /\ Release(c)
    /\ UNCHANGED <<reader, closed, loser, conns, welcomed, life, doomed,
                   balance>>

\* drop.Close() on c itself; ErrDuplicate.
Reject(c) ==
    /\ task[c] = "reject"
    /\ GiveUp(c)
    /\ UNCHANGED <<reader, loser, conns, welcomed, life, doomed, balance>>

\* drop.Close() on the connection that c replaced.
CloseLoser(c) ==
    /\ task[c] = "swap"
    /\ closed' = [closed EXCEPT ![loser[c]] = TRUE]
    /\ task' = [task EXCEPT ![c] = "start"]
    /\ UNCHANGED <<reader, loser, conns, welcomed, slots, life, doomed,
                   balance>>

\* c.start() spawns the read loop (and the write loop).
Start(c) ==
    /\ task[c] = "start"
    /\ reader' = [reader EXCEPT ![c] = "reading"]
    /\ task' = [task EXCEPT ![c] = "hook"]
    /\ UNCHANGED <<closed, loser, conns, welcomed, slots, life, doomed,
                   balance>>

\* Mutant: onUp runs for a replacement too.
HookUp(c) ==
    /\ task[c] = "hook"
    /\ balance' = [balance EXCEPT ![Owner(c)][Remote(c)] = @ + 1]
    /\ task' = [task EXCEPT ![c] = "done"]
    /\ Release(c)
    /\ UNCHANGED <<reader, closed, loser, conns, welcomed, life, doomed>>

\* onReplace(c.info) when c replaced another connection, else onUp(c.info).
Hook(c) ==
    /\ task[c] = "hook"
    /\ balance' = IF loser[c] = NoConn
                  THEN [balance EXCEPT ![Owner(c)][Remote(c)] = @ + 1]
                  ELSE balance
    /\ task' = [task EXCEPT ![c] = "done"]
    /\ Release(c)
    /\ UNCHANGED <<reader, closed, loser, conns, welcomed, life, doomed>>

----------------------------------------------------------------------------
(* The end of a connection.                                                *)

\* Close from outside the read loop: /disconnect, a write error, the idle
\* check of the write loop, a full send queue.  Whoever closes c found it in
\* the table earlier, so c was adopted but need not be registered any more.
Close(c) ==
    /\ c[1] \in Unreliable
    /\ task[c] \in {"swap", "start", "hook", "done"}
    /\ ~closed[c]
    /\ closed' = [closed EXCEPT ![c] = TRUE]
    /\ UNCHANGED <<task, reader, loser, conns, welcomed, slots, life, doomed,
                   balance>>

\* Mutant: a read loop that finds its connection closed skips unregister.
ReadErrSilent(c) ==
    /\ reader[c] = "reading"
    /\ closed[c] \/ closed[Mate(c)] \/ c[1] \in Unreliable
    /\ reader' = [reader EXCEPT ![c] = IF closed[c] THEN "ended"
                                       ELSE "shutdown"]
    /\ closed' = [closed EXCEPT ![c] = TRUE]
    /\ UNCHANGED <<task, loser, conns, welcomed, slots, life, doomed,
                   balance>>

\* Mutant: the end of the stream goes unnoticed and there is no read deadline.
ReadErrOwn(c) ==
    /\ reader[c] = "reading"
    /\ closed[c] \/ c[1] \in Unreliable
    /\ reader' = [reader EXCEPT ![c] = "shutdown"]
    /\ closed' = [closed EXCEPT ![c] = TRUE]
    /\ UNCHANGED <<task, loser, conns, welcomed, slots, life, doomed,
                   balance>>

\* readLoop returns (own Close, end of stream, deadline, oversized or
\* repeatedly malformed frame) and its deferred shutdown closes c.
ReadErr(c) ==
    /\ reader[c] = "reading"
    /\ closed[c] \/ closed[Mate(c)] \/ c[1] \in Unreliable
    /\ reader' = [reader EXCEPT ![c] = "shutdown"]
    /\ closed' = [closed EXCEPT ![c] = TRUE]
    /\ UNCHANGED <<task, loser, conns, welcomed, slots, life, doomed,
                   balance>>

\* Mutant: unregister does not compare the connection, only the Peer ID.
unregisterByID(c) ==
    /\ reader[c] = "shutdown"
    /\ conns' = [conns EXCEPT ![Owner(c)][Remote(c)] = NoConn]
    /\ reader' = [reader EXCEPT ![c] = "down"]
    /\ UNCHANGED <<task, closed, loser, welcomed, slots, life, doomed,
                   balance>>

\* The critical section of unregister: c removes itself, and only itself.
unregister(c) ==
    /\ reader[c] = "shutdown"
    /\ IF Registered(c)
       THEN /\ conns' = [conns EXCEPT ![Owner(c)][Remote(c)] = NoConn]
            /\ reader' = [reader EXCEPT ![c] = "down"]
       ELSE /\ reader' = [reader EXCEPT ![c] = "ended"]
            /\ UNCHANGED conns
    /\ UNCHANGED <<task, closed, loser, welcomed, slots, life, doomed,
                   balance>>

\* onDown(c.info), after the lock has been released.
OnDown(c) ==
    /\ reader[c] = "down"
    /\ balance' = [balance EXCEPT ![Owner(c)][Remote(c)] = @ - 1]
    /\ reader' = [reader EXCEPT ![c] = "ended"]
    /\ UNCHANGED <<task, closed, loser, conns, welcomed, slots, life, doomed>>

----------------------------------------------------------------------------
(* Node.Close.                                                             *)

\* n.cancel()
Cancel(n) ==
    /\ n \in Stoppable
    /\ life[n] = "running"
    /\ life' = [life EXCEPT ![n] = "cancelled"]
    /\ UNCHANGED <<task, reader, closed, loser, conns, welcomed, slots,
                   doomed, balance>>

\* ln.Close(), then CloseAll copies the table under the read lock.
CloseAll(n) ==
    /\ life[n] = "cancelled"
    /\ life' = [life EXCEPT ![n] = "closing"]
    /\ doomed' = [doomed EXCEPT ![n] = {conns[n][p] : p \in Peers(n)}]
    /\ UNCHANGED <<task, reader, closed, loser, conns, welcomed, slots,
                   balance>>

\* The loop of CloseAll; when the snapshot is used up Close goes on to save
\* the directory and the identity and returns.
CloseNext(n) ==
    /\ life[n] = "closing"
    /\ \/ \E c \in doomed[n] :
            /\ closed' = [closed EXCEPT ![c] = TRUE]
            /\ doomed' = [doomed EXCEPT ![n] = @ \ {c}]
            /\ UNCHANGED life
       \/ /\ doomed[n] = {}
          /\ life' = [life EXCEPT ![n] = "closed"]
          /\ UNCHANGED <<closed, doomed>>
    /\ UNCHANGED <<task, reader, loser, conns, welcomed, slots, balance>>

----------------------------------------------------------------------------

\* The steps the goroutine running HandshakeAndAdopt for c cannot put off: an
\* answer that is there is read, and a handshake nobody will answer runs into
\* its deadline.
TaskStep(c) ==
    \/ Inbound(c) /\ (Accept(c[1]) \/ ReadHello(c[1]))
    \/ ~Inbound(c) /\ ReadWelcome(c[1])
    \/ Abandoned(c) /\ HandshakeFail(c)
    \/ adopt(c) \/ Reject(c) \/ CloseLoser(c) \/ Start(c) \/ Hook(c)

\* The same for its read loop: it notices that either end was closed.
ReaderStep(c) ==
    \/ (closed[c] \/ closed[Mate(c)]) /\ ReadErr(c)
    \/ unregister(c) \/ OnDown(c)

Next ==
    \/ \E s \in Session : Dial(s)
    \/ \E c \in Conn : TaskStep(c) \/ ReaderStep(c)
    \/ \E c \in Conn : HandshakeFail(c) \/ ReadErr(c) \/ Close(c)
    \/ \E n \in Node : Cancel(n) \/ CloseAll(n) \/ CloseNext(n)

Spec == Init /\ [][Next]_vars

\* Goroutines that can run do run; nobody is obliged to dial, to break a
\* session or to shut a node down.
Fairness ==
    /\ \A c \in Conn : WF_vars(TaskStep(c)) /\ WF_vars(ReaderStep(c))
    /\ \A n \in Node : WF_vars(CloseAll(n) \/ CloseNext(n))

FairSpec == Spec /\ Fairness

----------------------------------------------------------------------------
(* What makes the tables correct.                                          *)

\* c has been put into the table and the goroutine that will take it out
\* again still exists: its adopter before start(), its read loop after.
Guarded(c) ==
    \/ task[c] \in {"swap", "start"}
    \/ reader[c] \in {"reading", "shutdown"}

\* Every entry of every table is a connection of that node to that peer, never
\* to the node itself, and some goroutine is still bound to remove it: no
\* error path of adopt, and no order of read-loop exit and replacement, leaves
\* a dead entry behind that would block the peer from reconnecting for ever.
TableSound ==
    \A n, p \in Node :
        LET c == conns[n][p]
        IN  c # NoConn => /\ Owner(c) = n /\ Remote(c) = p /\ n # p
                          /\ Guarded(c)

\* A connection whose read loop is running and that nobody has closed is the
\* one in the table, or the goroutine that replaced it is about to close it:
\* no session delivers frames behind the manager's back.
NoOrphan ==
    \A c \in Conn :
        reader[c] = "reading" /\ ~closed[c]
        => \/ Registered(c)
           \/ \E d \in Conn : task[d] = "swap" /\ loser[d] = c

\* Nothing is under way: no handshake, no hook, no read loop about to fail.
Settled ==
    /\ \A s \in Session :
         task[Out(s)] \in {"idle", "done"} /\ task[In(s)] \in {"idle", "done"}
    /\ \A c \in Conn :
         /\ reader[c] \in {"none", "reading", "ended"}
         /\ reader[c] = "reading" => ~closed[c] /\ ~closed[Mate(c)]

\* When nothing is under way two nodes agree on the session between them: if
\* one has an entry, the other has the other end of the same socket.
Agreement ==
    Settled => \A n, p \in Node :
        conns[n][p] # NoConn => conns[p][n] = Mate(conns[n][p])

\* An entry gives way only to the preferred direction, and is deleted only
\* after its own connection was closed: the end of a replaced session never
\* deletes its winner (the pointer comparison in unregister).
WinnerKept ==
    [][\A n, p \in Node :
         conns[n][p] # NoConn /\ conns'[n][p] # conns[n][p]
         => IF conns'[n][p] = NoConn
            THEN closed[conns[n][p]]
            ELSE Preferred(conns'[n][p]) /\ ~Preferred(conns[n][p])]_vars

\* The table never holds more than config.MaxPeers entries, whatever the order
\* in which simultaneous handshakes reach adopt.
PeersBounded ==
    MaxPeers > 0 => \A n \in Node : Cardinality(Peers(n)) <= MaxPeers

\* The inbound sockets of n between accept and the return of adoptInbound.
Busy(n) == {c \in Conn : /\ Inbound(c) /\ Owner(c) = n
                         /\ task[c] \notin {"idle", "done"}}

\* A handshake slot is held by exactly the inbound sockets still being
\* adopted: none of the error returns leaks one, none gives one back twice.
SlotsExact ==
    MaxHandshakes > 0 =>
        \A n \in Node :
            slots[n] = Cardinality(Busy(n)) /\ slots[n] <= MaxHandshakes

\* The node's hooks keep count of its peers: once things have settled onUp has
\* run once more than onDown for every peer in the table and equally often for
\* every other, however replacements and losses were interleaved.
HookBalance ==
    Settled => \A n, p \in Node :
        balance[n][p] = IF conns[n][p] = NoConn THEN 0 ELSE 1

\* The rule for duplicate connections: when both sessions of a pair that
\* dialed each other were completed, neither can break and neither node is
\* being shut down, both end up with the one dialed by the smaller Peer ID.
DuplicateRule ==
    Settled => \A s, r \in Session :
        /\ From[s] = To[r] /\ To[s] = From[r] /\ From[s] < To[s]
        /\ s \in welcomed /\ r \in welcomed
        /\ life[From[s]] = "running" /\ life[To[s]] = "running"
        => /\ conns[From[s]][To[s]] = Out(s)
           /\ conns[To[s]][From[s]] = In(s)

\* An entry whose socket the other end has closed does not stay.
HalfOpenRemoved ==
    \A c \in Conn : Registered(c) /\ closed[Mate(c)] ~> ~Registered(c)

\* Every HandshakeAndAdopt returns.
HandshakesEnd ==
    \A c \in Conn : task[c] # "idle" ~> task[c] = "done"

\* docs/architecture.md, "first successful handshake wins": dialing one peer on
\* several addresses at once ends with a connection when sessions do not break.
FirstWins ==
    Settled => \A s \in Session :
        s \in welcomed /\ From[s] # To[s] => conns[From[s]][To[s]] # NoConn
============================================================================
