------------------------------ MODULE Discovery -----------------------------
(***************************************************************************)
(* LAN discovery (internal/discovery/discovery.go): the table of nearby    *)
(* peers, kept by the read loop and by Nearby, which the terminal and the  *)
(* 10 s ticker of --auto-connect call.  The read loop handles a packet     *)
(* after the read has returned, and a Close may come between.              *)
(*                                                                         *)
(* Abstractions: a packet that parses is the peer ID it claims (whether    *)
(* Verify accepts it decides only who is dialled: tryAutoConnect in        *)
(* Dialer); a packet seen Life ago or longer is Life old, so that the      *)
(* model runs for ever.                                                    *)
(***************************************************************************)
EXTENDS Naturals, FiniteSets

CONSTANTS
    Neighbour,   \* peer IDs in packets
    Self,        \* the node's own
    Life,        \* the age at which an entry goes, just over 45 s
    MaxSeen

VARIABLES
    disc,      \* "up" or "closed"
    packet,    \* the packets read and not yet handled, at most one
    seen,      \* the peers in the table
    stamp,     \* stamp[p]: since the time in p's entry, Life without one
    heard      \* history: heard[p], since p's last packet was handled

vars == <<disc, packet, seen, stamp, heard>>

TypeOK ==
    /\ disc \in {"up", "closed"}
    /\ packet \subseteq Neighbour \cup {Self} /\ Cardinality(packet) <= 1
    /\ stamp \in [Neighbour -> 0..Life] /\ heard \in [Neighbour -> 0..Life]
    /\ seen \subseteq Neighbour /\ Cardinality(seen) <= MaxSeen

Init ==
    /\ disc = "up" /\ packet = {} /\ seen = {}
    /\ stamp = [p \in Neighbour |-> Life]
    /\ heard = [p \in Neighbour |-> Life]

----------------------------------------------------------------------------

\* ReadFromUDP returns.
Read(p) ==
    /\ disc = "up" /\ packet = {}
    /\ packet' = {p}
    /\ UNCHANGED <<disc, seen, stamp, heard>>

\* Mutant: only entries past their life go.
keptAll(in, a) == {{p \in in : a[p] < Life}}

\* pruneSeenLocked: entries past their life go, and then, when there is one
\* too many, an oldest one.
kept(in, a) ==
    LET young == {p \in in : a[p] < Life}
    IN  IF Cardinality(young) <= MaxSeen THEN {young}
        ELSE {young \ {p} : p \in {x \in young : \A y \in young : a[x] >= a[y]}}

\* Mutant: an entry that is there keeps its time.
stampedOnce(p) == IF p \in seen THEN stamp ELSE [stamp EXCEPT ![p] = 0]

\* The new packet replaces the entry.
stamped(p) == [stamp EXCEPT ![p] = 0]

\* The rest of the read loop's body.
Handle ==
    \E p \in packet :
        /\ packet' = {}
        /\ IF p = Self THEN UNCHANGED <<seen, stamp, heard>>
           ELSE /\ stamp' = stamped(p)
                /\ seen' \in kept(seen \cup {p}, stamp')
                /\ heard' = [heard EXCEPT ![p] = 0]
        /\ UNCHANGED disc

\* Nearby drops what has expired and returns the rest.
Nearby ==
    /\ seen' = {p \in seen : stamp[p] < Life}
    /\ UNCHANGED <<disc, packet, stamp, heard>>

Elapse ==
    /\ stamp' = [p \in Neighbour |-> IF stamp[p] < Life THEN stamp[p] + 1
                                     ELSE Life]
    /\ heard' = [p \in Neighbour |-> IF heard[p] < Life THEN heard[p] + 1 ELSE Life]
    /\ UNCHANGED <<disc, packet, seen>>

Close ==
    /\ disc = "up"
    /\ disc' = "closed"
    /\ UNCHANGED <<packet, seen, stamp, heard>>

Next ==
    \/ \E p \in Neighbour \cup {Self} : Read(p)
    \/ Handle \/ Nearby \/ Elapse \/ Close

----------------------------------------------------------------------------

\* A peer heard less than Life ago is listed, unless MaxSeen others have been
\* heard since: neither expiry nor a full table takes a peer that goes on
\* announcing itself.
StaysListed ==
    \A p \in Neighbour :
        heard[p] < Life =>
            \/ p \in seen
            \/ Cardinality({q \in Neighbour \ {p} : heard[q] <= heard[p]}) >= MaxSeen
=============================================================================
