------------------------------ MODULE MCGossip ------------------------------
(* Instances of Gossip.                                                     *)
EXTENDS Gossip

Both(S) == S \cup {<<l[2], l[1]>> : l \in S}

Triangle == Both({<<1, 2>>, <<2, 3>>, <<1, 3>>})
Edge12   == {<<1, 2>>}

\* Who writes the messages.
MCOrigin == [m \in Msg |-> IF m = 1 THEN 1 ELSE 2]
============================================================================
