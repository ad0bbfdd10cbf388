--------------------------- MODULE MCPeerManager ---------------------------
(* Instances of PeerManager.  A session is written <<dialer, listener, k>>. *)
EXTENDS PeerManager

\* The dialer and the listener of each session.
MCFrom == [s \in Session |-> s[1]]
MCTo   == [s \in Session |-> s[2]]

\* Two nodes dial each other.
Cross == {<<1, 2, 1>>, <<2, 1, 1>>}

\* Two nodes dial each other and node 1 has a second address of node 2.
CrossTwice == {<<1, 2, 1>>, <<1, 2, 2>>, <<2, 1, 1>>}

\* Node 1 dials two addresses of node 2 at once.
Parallel == {<<1, 2, 1>>, <<1, 2, 2>>}

\* Node 2 hears from two peers and from itself, and dials one of them.
Star == {<<1, 2, 1>>, <<3, 2, 1>>, <<2, 3, 1>>, <<2, 2, 1>>}

\* The sessions that may break.
Back  == {<<2, 1, 1>>}
Third == {<<3, 2, 1>>}
============================================================================
