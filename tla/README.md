# RainIRC: a TLA+ verification of the peer-to-peer chat node

RainIRC (`p2pirc`) is a serverless IRC: every process listens on TCP, dials
other peers, authenticates them by Ed25519 key, and floods signed chat, join
and leave messages over the mesh of live connections. This directory models the
parts whose correctness depends on interleavings, failure and time, checks them
with TLC on small instances, and proves their safety properties with TLAPS for
every instance.

## 1. Inventory

| Part (source under `src/internal`) | State | Operations | Interacts with |
|---|---|---|---|
| peer manager (`peer/peer.go`) | `conns` (peer ID to `Conn`); per `Conn`: socket, `sendCh` (64), context, `lastRecv` | `HandshakeAndAdopt`, `adopt`, `unregister`, `Broadcast`, `SendTo`, `Find`, `Disconnect`, `CloseAll`, read and write loop | calls the node's hooks `onMsg`, `onUp`, `onDown`, `onReplace` |
| node lifecycle (`node/node.go`) | `closed`, event subscribers, listener, `handshakeSem` | `Start`, `Close`, `acceptLoop`, `adoptInbound`, `emit`, `Join`, `Leave`, `SendChat`, `SendDirect`, `SetNick` | everything |
| handlers (`node/handlers.go`) | none of its own | `onPeerMessage`, `onRouted`, `onPeerUp`, `onPeerReplace`, `onPeerDown`, `resyncJoins`, `dirSaveLoop`, `seenLoop` | limiter, router, channels, directory |
| dialing (`node/connect.go`) | `dialing` (addresses in flight), `dialSem` (4), `reconnectMu` | `Connect`, `dialFirst`, `dialOne`, `tryAutoConnect`, `reconnectOnce` | directory, backoff, peer manager |
| backoff (`backoff`) | delay and next time per peer | `Allow`, `Fail`, `Reset` | dialing, `onPeerUp`, `onPeerDown` |
| router, seen store (`router`) | `m` (ID to time), `q` (insertion order) | `Handle`, `Inject`, `Add`, `Sweep` | handlers, peer manager's `Broadcast` |
| rate limiter (`limiter`) | times of recent frames per sender | `Allow` | `onPeerMessage` |
| channels (`channel`) | joined set, members, history, current channel | `Join`, `Leave`, `MemberJoin`, `MemberLeave`, `MemberLeaveAll`, `AddHistory` | `onRouted`, `onPeerDown` |
| directory (`directory`) | records, aliases, dirty flag, file | `Observe`, `SetAlias`, `Lookup`, `Save` | dialing, handlers |
| discovery (`discovery`) | announcements with expiry | UDP receive, `Nearby` | dialing |
| protocol (`protocol`) | none | `Read`, `Write`, `Validate`, `Fresh`, `Sign`, `VerifySignature` | all of the above |
| identity, TLS, config, NAT, UI | key pair; certificates; flags; port mapping | load, save, handshake, parse, map and renew | node |

**What is hard here.** All goroutines of a node share the tables above. Two
nodes that dial each other create two sessions, and each decides on its own
which one survives, while both sessions' read loops are already running or
already failing. The hooks run after the lock has been released. A node is shut
down while handshakes are under way and while other goroutines report events.
Flooding relies on a seen store that expires and evicts entries, in a mesh with
cycles, over bounded queues, on links that break. Join and leave messages race
the loss and the return of connections. Several callers dial the same addresses
with shared slots and a shared back-off, and act on answers that may be stale.
The directory is saved by two goroutines, and the process may crash in between.
`PROJECT.json` ("hazards") lists each of these at its line.

**What makes each part correct.** Peer manager: at most one live session per
peer, the same one at both ends; no dead entries; bounds kept; one `onDown` per
`onUp`. Router: each message handled and forwarded at most once for as long as
it can be repeated; store bounded. Mesh: no message stranded on an open link.
Dialing: one dial per address, slots returned, every call returns, a reachable
peer is connected again. Directory: the dirty flag can be trusted, a saved file
is complete and never older than the one before, an alias names one peer.
Channels: the member tables of a quiet mesh say who is where. Limiter: no window
of time lets more than the limit through. Session timers: a dead session is
closed in bounded time, a live one never. Discovery: a neighbour that goes on
announcing itself stays listed. Lifecycle: `Close` comes to its end, and a port
mapping always has somebody who will delete it.

## 2. Plan

| | Module | State of the work |
|---|---|---|
| 1 | `PeerManager` | modelled and proved |
| 2 | `Router` | modelled and proved |
| 3 | `Gossip`, refining `Broadcast` | modelled and proved |
| 4 | `Membership`: channels under messages, resent joins and lost connections | modelled and proved |
| 5 | `Dialer` with back-off | modelled and proved |
| 6 | `Directory` with its file, crash and restart | modelled and proved |
| 7 | `Lifecycle`, `Limiter`, `Keepalive`, `Discovery` | modelled and proved |
| 8 | an abstract member table that `Membership` implements; `DuplicateRule` with sessions that break | left |
| 9 | pure helpers (validation, address lists) as operators | left, of little weight |

`Gossip` composes what `Router` and the peer manager's queues do at every node;
`Membership` is the layer above it, with the connections of `PeerManager`
reduced to up, down and replaced. `Dialer` ends where `PeerManager` begins: its
`Handshake` step is a whole `HandshakeAndAdopt`.

## 3. Modules

**`PeerManager`** models all nodes at once. A TCP session has two ends; a `Conn`
is `<<session, "out">>` at the dialer and `<<session, "in">>` at the listener.

| Variable | Code |
|---|---|
| `task[c]` | where the goroutine running `HandshakeAndAdopt` stands: handshake, adopt, closing the loser (`swap`) or itself (`reject`), `start`, hook, done |
| `reader[c]` | the read loop: reading, `shutdown`, between `unregister` and `onDown` (`down`), ended |
| `closed[c]` | `c.Close()` was called |
| `conns[n][p]` | `Manager.conns` of node `n` |
| `loser[c]` | the local variable `drop` of `adopt` when `c` replaces it |
| `welcomed` | the sessions whose welcome is on the wire |
| `slots[n]` | `len(handshakeSem)` |
| `life[n]`, `doomed[n]` | how far `Node.Close` has got, and the copy made by `CloseAll` |
| `balance[n][p]` | history: `onUp` minus `onDown` calls |

Each critical section of `Manager.mu` is one action (`adopt` with its four
cases, `unregister`, the copy in `CloseAll`); each `Close`, `start` and hook
outside the lock is an action of its own. TLS, hello and welcome are one
exchange that succeeds or fails. Frames are not in this module.

**`Router`** models one node with a clock: `stamp` and `queue` are the map and
the slice of `SeenStore`, `pc`, `job` and `checked` the goroutines in
`Router.Handle`, between `Fresh`, `Add`, the handler and `Broadcast`. `wire`
holds every message other nodes have, and never forgets one, so a peer may
repeat anything at any time. `handled` and `flooded` count up to two;
`evicted` remembers what a full store pushed out. `SendDirect` and `Resync` are
the two callers that touch the store outside `Handle`.

**`Gossip`** models `Handle` at every node of a mesh: `net` is a send queue with
the socket behind it, `<<n, p>>` the read loop of `n` for `p` and `<<n, n>>` its
local callers, `todo` the part of the table copied by `Broadcast` that is still
to be served. A full queue refuses a message: `Broadcast` then closes the
connection, `resyncJoins` ignores it. Links break at any step and lose the last
frames; a throttling node may refuse any frame. Links do not come back: a new
connection brings no old messages, only joins (`Membership`). Message expiry is
in `Router`. `crossed` counts how often a message was queued on a link, in each
direction. `CrossOnce` bounds it by one, and by two for the joins a node
resends: `resyncJoins` stores the ID after the send (`handlers.go:131-132`), so
the copy that comes back over the cycle may be new to its own writer, which then
handles it and floods it on, also to the peer it went to first. With a bound of
one TLC finds this in the triangle; the bound of two says that it happens once.

**`Broadcast`** is the abstract specification of the mesh: publish, and deliver
at most once per node. `Gossip` implements it under the refinement mapping
`got <- handled` (property `Refines`).

**`Membership`** models the channel manager of every node.

| Variable | Code |
|---|---|
| `joined`, `members`, `current` | `channel.Manager`: the channels a node is in, their member tables, the current one |
| `seen`, `net` | the IDs in the seen store; frames queued or on the wire |
| `alive`, `peers` | open sockets; the keys of the connection table, which lag behind |
| `terminal` | what a command (`Join`, `Leave`, `SetNick`) has yet to inject: it changes the manager first |
| `hook` | the goroutine in `onPeerUp` or `onPeerReplace`: before `JoinedNames`, or with the channels it has yet to send a join for (`todo`) and the join it has sent and not yet stored (`sent`) |
| `reader`, `downs` | the frame between `Add` and the handler; the peers between `unregister` and `onDown` |

`Resync` and `Mark` are the two statements of the loop in `resyncJoins`, `SendTo`
and `Seen().Add`: a join may come back between them, and its writer handles it.

`rooms` says which channels a node's user joins and leaves, if it has a user.
`excused` is a history variable. The code leaves six races in which a member
table stays wrong until the next message about that member, and the action in
which one happens records the table entry it spoils:

- a node joins a channel after the others did (`Join`);
- a resent join is refused by a full queue (`Resync`);
- `onPeerDown` runs after the peer has come back (`OnDown`);
- a leave is lost with a replaced connection (`Replace`; joins are sent again,
  leaves are not);
- a leave is sent while another node lists the sender from hearsay only, with
  no connection whose end would correct it (`Inject`);
- a message that is no longer true is handled, because a later one overtook it
  or a join was resent for a channel just left (`Handle`).

An excuse ends when the entry is put right: by a message that is true, by
`OnDown`, or by joining anew. `Consistent` says that there is no seventh race.
The fifth was found by the proof: without it the invariant is not inductive, and
TLC confirmed the counterexample with two nodes that a third had introduced.

**`Dialer`** models the outgoing side of one node. `step`, `target` and `att`
are the callers of `Connect` (the reconnect loop, an `autoDial`, the terminal)
and their goroutines, one per address; `dialing` and `slots` are the table of
addresses in flight and `dialSem`; `delay` and `waiting` the back-off. Whether
an address answers (`answers`) and who is connected (`up`) change at any step. A
back-off period is a flag that some later step takes down, which allows any
timing. `HandshakeAndAdopt` takes no context, so a dial may still succeed while
the node closes or after another address of the call has won.

**`Directory`** models the table of known peers and `peers.json`. `Save` is
taken apart into lock and copy, truncate, fill and rename, for its two callers
(`dirSaveLoop` and the main goroutine); `faults` bounds failed writes, crashes
and damage to the file. A crash between two of these steps leaves the temporary
file torn or unused. `FileKeepsPeers` demands of every step but `Damage` that a
readable `peers.json` stays readable and keeps its peers and addresses. A loss
of power, after which a renamed file may be empty because it was not flushed, is
not told apart from `Damage`. What a user types is a Peer ID or a word, with its
lower-case form and the peers whose ID it begins: that is all `Lookup` asks.

**`Lifecycle`** models `Close` step by step against `emit`, `Subscribe`, and the
UPnP prober. `todo[g]` is the copy of the subscriber list `emit` works on after
it has released the lock. `mapped` is the gateway's table; `leaked` records what
no program could know (a lost answer) and a renewal that passed `Close`.

**`Limiter`** models `Allow`, whose clock reading happens before the lock is
taken; times are ages. **`Keepalive`** models the read deadline, the ping timer,
write deadlines, pongs held back by `AllowPong`, and a remote end that dies or
sends garbage. **`Discovery`** models the table of announcements.

`MCPeerManager`, `MCRouter`, `MCGossip`, `MCMembership`, `MCDialer` and
`MCDirectory` hold the instances. `MCLocal` joins the four last components,
which share no state: its variable `which` chooses at the start the one that
runs. The definitions marked "Mutant" in the component modules are plausible
faults of the definition that follows them and are used by no specification.

## 4. Runs

| Run | Instance | Shows |
|---|---|---|
| `peers_churn` | two nodes, two sessions in the preferred direction and one in the other, which may break or be closed at any step | `TableSound`, `NoOrphan`, `HookBalance`, `Agreement`, `WinnerKept` |
| `peers_limits` | three nodes around one with `MaxPeers` 1 and `MaxHandshakes` 1, which also dials itself | `TypeOK`, `PeersBounded`, `SlotsExact` |
| `peers_shutdown` | two nodes dial each other, one is shut down at any step, fairness | `DuplicateRule`, `HalfOpenRemoved`, `HandshakesEnd` |
| `peers_parallel` | one node dials two addresses of the other | violates `FirstWins` |
| `router` | four messages with timestamps 0, 1, 3, 1 (two local, one of them direct), two goroutines, a store of three, clock to 7, TTL 3, skews 1 | `TypeOK`, `AtMostOnce`, `OwnDirectIgnored`, `QueueMatchesMap` |
| `gossip` | triangle, a chat message and a resent join, queues of one, one link may break, one node may throttle, fairness | `TypeOK`, `Covered`, `CrossOnce`, `Converged`, `Refines`, `EverybodyHears` |
| `membership` | a pair with three messages and one new or replaced connection; a pair with two channels and three messages; two nodes without a connection that list each other; a triangle with two messages and one user; a triangle without a user and one new or replaced connection | `TypeOK`, `SelfListed`, `Consistent` |
| `members_stale` | the same | violates `MembersConverge` |
| `dialer` | one peer with two addresses, the reconnect loop and one more caller, one slot, two parallel dials, delays 2 and 3, fairness | `TypeOK`, `DialsCounted`, `SuccessCounts`, `ConnectReturns`, `Reconnects` |
| `directory` | two peers, an alias in two spellings that is also a prefix of a Peer ID, a name that is not valid, two faults, fairness | `TypeOK`, `CleanMeansSaved`, `AliasNamesOne`, `FileKeepsPeers`, `EventuallySaved` |
| `local` | two subscribers and two emitters; three senders, two readers, limit 2; ping 3, idle 9; four neighbours in a table of two | `TypeOK`, `MappingOwned`, `WindowBound`, `DeadClosed`, `LiveKept`, `StaysListed` |
| `lifecycle_panic` | two subscribers, two emitters, fairness | violates `ShutdownSaves` |

**Why the bounds suffice.** The duplicate rule relates two sessions of one pair;
a third one lets a session of either direction meet an entry, a replacement or
the remains of both. Limits bite with one more peer than fits. For expiry the
clock must pass TTL plus both skews after the last timestamp; with three entries
and four messages expiry and eviction happen in the same `Add`. The bounds on
time are `Horizon` (clock) and `MaxDelay` (time from `Fresh` to `Add`);
`Horizon` only cuts behaviours off. A triangle is the smallest mesh with a cycle,
and queues of length one are full whenever two messages meet.

Each world of `membership` is the smallest with its race: a pair in which the
connection breaks and comes back, or is replaced, around a join or leave; a pair
with a second channel, between which `SetNick`, `Leave` and the current channel
choose; a pair whose connection comes up only after each has heard of the other;
a triangle, in which a message can overtake another; and a triangle in which
a resent join can come back to a sender that has not stored its ID (TLC reaches
this state, and `SelfListed` holds in it). Without any one of the
six excuses `Consistent` fails in one of them. In all of them
connections may break and `onDown` may be late. `MaxMsg` and `MaxSession` bound
messages and connections; a world begins with part of them used up. `SYMMETRY
Mirror` exchanges the two ends of the pair, between which no constant of the
instance distinguishes.

One slot (`dialSem`) for two callers with two addresses makes dials wait for
each other; the semaphore of a single call (`connect.go:97`), with as many
places as there are addresses, never blocks here; delays 2 and 3 are the first
and the capped one. Two faults let a save fail and the process crash afterwards,
or a file be damaged and the process restart. A `Limit` of 2 with two readers
lets a frame pass while another waits with an old stamp, and a third key evicts
the oldest. Ping 3, idle 9 keep the ratio of the code's 20 s and 60 s with
little room to spare: `TimerAssumption` asks for 8, and at 7 a live session is
closed. `DeadClosed` is the exact bound, the idle time and one more tick of the
ping timer.

**Deadlock** is not checked: sessions, messages and time of an instance run out,
a process exits, and a program nobody dials or writes to may stop.

**Fairness.** `PeerManager!FairSpec` assumes that runnable goroutines run:
adopters, read loops and the loop of `CloseAll`. A read loop notices that either
end has closed (end of stream or its read deadline), and a handshake whose other
end is gone fails (its deadline, `peer.go:344`). Nobody has to dial, disconnect
or quit. `Gossip!FairSpec` assumes the same of read loops and local callers.
`Directory!FairSpec` assumes that the ticker of `dirSaveLoop` ticks and that a
save that was begun goes on; nobody has to start, observe or close.
`Dialer!FairSpec` assumes that timers fire, that goroutines run, and that a dial
and a handshake end (`dialTimeout`, the handshake deadline). Fairness is strong
for a goroutine that waits for a slot, because Go serves the senders blocked on
a channel in their order. `Lifecycle!FairSpec` assumes that `Close` and emitters
are scheduled; a subscriber need not read its events.

## 5. Where code and documentation disagree

- *First successful handshake wins* (`docs/architecture.md:252`). Two parallel
  dials to one peer are two sessions in the same direction, and `adopt` drops
  whichever comes second (`peer.go:407`). The two ends may see them in opposite
  orders; then each drops the session the other kept and no connection remains
  (`peers_parallel`). `Agreement` shows that the tables do become consistent:
  both empty.
- *Close every peer socket, save identity, exit* (`docs/architecture.md:107`).
  `emit` sends on channels it copied before `Close` closed them (`node.go:248`).
  A send on a closed channel panics, in a `select` with a `default` too, and the
  process ends before the peers are closed and the files saved
  (`lifecycle_panic`).
- *Membership is eventually consistent* (`docs/architecture.md:170`).
  `MemberJoin` drops a join for a channel the node is not in
  (`channel.go:153`), and joins are resent to new connections only: who joins
  later, or leaves and joins again, does not learn who is there, however long
  the mesh is quiet (`members_stale`).

Known gaps that are in the models, or were seen while modelling, and have no run
of their own:

- `CloseAll` closes a copy of the table; a handshake that ends after the copy
  leaves a connection open until its read deadline or the end of the process
  (`peer.go:525`; `docs/architecture.md:111`).
- A resent join is an ordinary join with a new ID, which the receiver floods on
  (`docs/architecture.md:174` says that it goes to one peer only, "without
  re-flooding the mesh"). `Gossip` and `Membership` both have this. In a mesh
  with a cycle it may come back before the resender has stored its ID
  (`handlers.go:131-132`); the resender then handles it and queues it a second
  time on a link it has crossed, against "a triangle A—B—C—A cannot amplify a
  message" (`docs/architecture.md:161`). The amplification is one copy per link,
  which `CrossOnce` bounds, and the handler only adds the node to its own list
  again (`SelfListed`).
- `AliasNamesOne` is about `Directory.Lookup`. `/msg` asks the connection table
  first (`SendDirect`, `node.go:405`), where a word of four letters or more also
  matches the beginning of a Peer ID (`peer.go:487`): a connected peer whose ID
  begins with an alias of another takes the alias over there, and two such peers
  send the lookup back to the directory. `peers.Find` is not modelled.
- A UPnP renewal under way while `Close` deletes the mapping may reach the
  gateway after it (`nat.go:183`) and leave the port mapped until the lease ends.
  `Lifecycle` has this and `MappingOwned` excuses it through `leaked`.
- A `Fail` of one call may follow the `Reset` of a session that another call, or
  the peer, made in the meantime (`connect.go:286`), so that the next loss of the
  session starts with a delay. `Dialer` has this; `SuccessCounts` is about one
  call only, and `Reconnects` says that it does not last.
- `Consistent` excuses the six races of `Membership` where they happen. It says
  that there is no other; that the six are there is what the excuses say.
- The back-off is kept per peer and not per address: one announced address that
  always fails can keep the reconnect loop from the good ones, and a saved
  address at which another peer answers counts as a success
  (`connect.go:289`, `connect.go:113`). `Reconnects` therefore assumes that all
  addresses of the peer answer, for their owner.
- The limiter counts a frame before the seen store looks at it, so copies of
  one message over several links use up the sender's window
  (`handlers.go:42`); the table of known peers grows with every sender
  (`handlers.go:56`); a `peers.json` that cannot be read is replaced by an empty
  one with the next save (`node.go:131`; `CleanMeansSaved` names this exception).

## 6. Proofs

**`PeerManagerProofs`** proves, for any finite set of nodes and sessions and any
bounds, `TypeCorrect`, `TablesSound`, `NoOrphans`, `EndsAgree`, `WinnersKept`,
`PeersStayBounded`, `SlotsAreExact`, `HooksBalanced` and, under the assumption
named below, `SmallerDialerWins`. None of these is inductive alone. The
inductive invariant `IInv` adds to them `Phases` (which values of `task`,
`reader`, `closed` and `loser` go together), `Ends` (a session is adopted at the
dialer only after its welcome was written, and an end that has gone past the
handshake was reached by both) and `Kept` (an adopted, unclosed connection is
registered or is the loser of a running replacement). `Agreement` follows from
`IInv` because in a settled state an entry is a reading, open connection, whose
other end must then be adopted, open and so registered. `WinnerKept` is proved
action by action from `IInv`. `PeersBounded` is an invariant over
cardinalities; `SlotsExact` has a separate invariant (`SlotsInv`) that counts the
inbound sockets between accept and return. `HookBalance` follows from an
equation that every step keeps (`Counted`): what the hooks have counted for a
peer plus the `onUp` calls still due is the table entry plus the `onDown` calls
still due; a replacement moves both sides by nothing. `SmallerDialerWins` assumes
`Undisturbed`: sessions dialed by the smaller Peer ID do not break, there is one
per pair, and no table is full; the other direction may fail at any step. Each
part is needed (`peers_parallel` shows what a second session does) and
`peers_shutdown` is an instance that satisfies it. Its invariant says that
nobody rejects or replaces the preferred direction, so that it is never closed
while both ends run.

**`RouterProofs`** proves `HandledAtMostOnce` and `OwnDirectNeverHandled` for any
messages, goroutines, store size and times with
`TTL >= MaxPastSkew + MaxFutureSkew + MaxDelay` (`TimeAssumption`; the defaults
are 24 hours against 12 minutes). The inductive invariant says, for each message
that has been taken by `Add` and was not evicted: its ID is still in the store
with a stamp no earlier than its timestamp minus `MaxFutureSkew`, or it is too
late for any check to succeed (`TooLate`), also for a goroutine that passed
`Fresh` and has not yet reached `Add`. A second invariant (`Store`) proves
`QueueIsTheMap` and `TypeCorrect`: map and queue hold the same IDs, none twice,
in the order of their stamps, and at most `SeenMax`. `sweepLocked` is the
recursive function `kept`, one value per turn of the loop; because stamps are in
order the expired IDs are the first ones (`ExpiredFirst`), and `SweptTail` shows,
by a least turn at which it would fail, that the loop leaves exactly the rest.

**`GossipProofs`** proves, for any mesh, any messages and any queue length,
whichever links break and whatever limiters refuse, `TypeCorrect`,
`CoveredAlways`, `CrossesOnce`, `ConvergedAlways` and the refinement
`Implements`. The inductive invariant `IInv` joins `Covered` to four facts.
`Jobs`: from `Add` to the end of its flood a goroutine's message is in the
store, no other goroutine of the node has it there, and before the handler it
was not handled. `Known`: only published messages travel, and what was handled
is stored. `Sources`: whoever a message was read from has it in the store, or is
the resender about to store it; this is why leaving the sender out of the flood
strands nobody. `Crossings`: a node that has queued a message on a link as often
as it may (`Allowed`) has the message in its store and no goroutine about to
queue it there again (`Spent`), so that `Flood`, whose goroutine still owes the
message to the peer it serves, meets a count below the bound. `Covered` survives
`Handler` because the copy of the peer table holds every link still open, and
`Flood` because a served peer has the message in its queue or its link is
closed. `Converged` is what `Covered` comes to in a quiet state, put for a
reader of the mesh rather than of its goroutines; the refinement maps `Inject`
and `Resync` to `Publish`, `Handler` to `Deliver`, and every other step to a
stutter. The assumptions are the three of `Gossip`: links are symmetric and join
different nodes (`MeshAssumption`), `NoMsg` is no message (`MsgAssumption`), and
a queue holds at least one frame (`QueueAssumption`).

**`MembershipProofs`** proves, for any mesh, channels, users and bounds, and for
any start that `MembershipAssumption` allows, `TypeCorrect`, `AlwaysSelfListed`
and `MembersAgree` (`Consistent`). `Consistent` speaks of quiet states only; the
inductive invariant `Listing` says what is under way in all others. If `n` lists
`p` in a channel `p` has left, then (`Corrected`) the entry is excused, or `n`
is handling a message of `p` about it, or `p`'s command is about to send the
leave, or a leave that `n` has not seen is on the link between them, or the
connection is closed and its end, or an `onDown`, is still to come. If `n` does
not list `p` in a channel `p` is in, then (`Told`) a join is in one of these
places, or among what a hook is about to resend, or there is no connection.
`Commands` (a command announces what it has done), `Connections` (both ends of
an open socket are in the tables) and `News` carry the steps. `News` says that
IDs are fresh and that a leave is in its sender's store before it travels, so
that whatever a node handles of its own is a join, which puts the node into its
own list where it is already. It is why `SelfListed` holds, `Connections` why a
broken link corrects both sides.

**`DialerProofs`** proves, for finitely many callers and addresses and any slots
and delays, `TypeCorrect`, `DialsAreCounted` and `SuccessNeverPunished`. The
invariant: an address is in `dialing` exactly while one caller has a goroutine
that has registered it (`OneDialer`), `slots` is the number of goroutines between
taking and giving back a slot (`SlotsInv`), and a caller that is not in
`dialFirst` has no goroutine (`Resting`).

**`DirectoryProofs`** proves, for any peers, names and faults, `TypeCorrect`,
`DirtyIsTrue`, `OneNamePerPeer` and `NothingForgotten`. The invariant: one saver
at a time past the lock, which renames what it has copied, never a file that is
half written (`OneSaver`); when the flag is down the copy being written, or else
the file, is the table (`Fresh`); the table covers the copy and the copy the
file (`Growing`), also across a crash; and no table, in memory or on disk, has
two aliases that differ in case only.

**`LocalProofs`** proves the properties of `Lifecycle`, `Limiter`, `Keepalive`
and `Discovery`, through `MCLocal`, for any subscribers, senders, neighbours and
for the times its assumptions allow. `MappingHasOwner`: a prober that renews
works for a node that can still undo the mapping, or has closed (`NodeOwner`).
`FloodBounded`: a sender's window accounts for the frames let through, its last
stamps are theirs, read at most `Lag` before (`Accounts`); this needs
`Lag <= Span`. `DeadSessionCloses`: the age plus the time to the next tick stays
within the bound (`SessionBounds`). `LiveSessionStays` (`Attended`): a ping or a
pong is under way and will be there in time, or the timer is due in time, and a
ping that `AllowPong` ignores follows a pong; this needs
`2 * Every + 2 * Delay <= IdleAfter` (`TimerAssumption`: 20 s, 60 s, hence
answers within 10 s). `AnnouncerListed`: an entry's time is that of the last
packet, and what a full table drops is the oldest.

**Only model-checked.** Liveness (`HalfOpenRemoved`, `HandshakesEnd`,
`EverybodyHears`, `EventuallySaved`, `ConnectReturns`, `Reconnects`) is out of
the prover's reach. The three properties that the code violates have no theorem.
Every other property of a run is proved.

## 7. Not modelled

- Cryptography: a signature or certificate check is part of a handshake or a
  frame that fails. JSON encoding, framing and field validation: a frame is good
  or malformed.
- The terminal, its command syntax and wording, logging, the version, flag
  parsing and configuration files: input and output only. Every command that
  changes state is an action of the component it calls.
- STUN, which fills in a display string, and the SSDP, SOAP and XML of UPnP; the
  life of the mapping itself is in `Lifecycle`.
- Chat history, known names and nicknames: nothing else depends on them. For the
  same reason the unsynchronised read of a nickname (`peer.go:541`) has no
  property.
- The sending side of discovery and the format of announcements; the pure
  handling of address strings; the identity's key file and the instance lock.
- Restart of a node is modelled for what it keeps on disk (`Directory`) and for
  what its peers see of it (`Keepalive`, `PeerManager`), not as one composition.
