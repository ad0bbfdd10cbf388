----------------------------- MODULE Broadcast -----------------------------
(***************************************************************************)
(* What the mesh promises its users, without goroutines, queues or links:  *)
(* a published message reaches a node at most once, and nothing is ever    *)
(* received that was not published.                                        *)
(***************************************************************************)
EXTENDS Naturals

CONSTANTS Node, Msg

VARIABLES
    published,  \* the messages that have been published
    got         \* got[n][m]: how often n has received m

vars == <<published, got>>

Init == published = {} /\ got = [n \in Node |-> [m \in Msg |-> 0]]

Publish(m) ==
    /\ m \notin published
    /\ published' = published \cup {m}
    /\ UNCHANGED got

Deliver(n, m) ==
    /\ m \in published
    /\ got[n][m] = 0
    /\ got' = [got EXCEPT ![n][m] = 1]
    /\ UNCHANGED published

Next == \E m \in Msg : Publish(m) \/ \E n \in Node : Deliver(n, m)

Spec == Init /\ [][Next]_vars
============================================================================
