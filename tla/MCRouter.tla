------------------------------ MODULE MCRouter ------------------------------
(* Instances of Router.  Message k has timestamp Stamps[k].                *)
EXTENDS Router

Stamps == <<0, 1, 3, 1>>

MCTs == [m \in Msg |-> Stamps[m]]
============================================================================
