---------------------------- MODULE MCMembership ----------------------------
(* Instances of Membership: two nodes that lose, make again and replace     *)
(* their connection, two with a second channel, two that only know of each  *)
(* other through a node both have lost, and three that are all connected:   *)
(* with a user, and with a connection to be replaced, so that a resent join *)
(* may come back over the triangle before its sender has stored it.         *)
EXTENDS Membership, TLC

CONSTANTS n1, n2, c1, c2

Triangle == {l \in Node \X Node : l[1] # l[2]}
Pair     == {<<n1, n2>>, <<n2, n1>>}

\* The users of the nodes in U join and leave the channels in C.
Rooms(U, C) == [n \in Node |-> IF n \in U THEN C ELSE {}]

Worlds ==
    {[open |-> Pair, heard |-> Pair, rooms |-> Rooms({n1, n2}, {c1}),
      ids |-> 1, sessions |-> 1],
     [open |-> Pair, heard |-> Pair, rooms |-> Rooms({n1, n2}, {c1, c2}),
      ids |-> 1, sessions |-> 2],
     [open |-> {}, heard |-> Pair, rooms |-> Rooms({n1, n2}, {c1}),
      ids |-> 1, sessions |-> 1]}
    \cup
    {[open |-> Triangle, heard |-> Triangle, rooms |-> Rooms({n}, {c1}),
      ids |-> 2, sessions |-> 2] : n \in {n1, n2}}
    \cup
    {[open |-> Triangle, heard |-> Triangle, rooms |-> Rooms({}, {}),
      ids |-> 3, sessions |-> 1]}

Mirror == Permutations({n1, n2})
=============================================================================
