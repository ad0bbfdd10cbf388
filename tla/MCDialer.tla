------------------------------ MODULE MCDialer ------------------------------
(* Instances of Dialer: one peer known by several addresses.                *)
EXTENDS Dialer

Alone    == [a \in Addr |-> CHOOSE p \in Peer : TRUE]
Everyone == [p \in Peer |-> Addr]
=============================================================================
