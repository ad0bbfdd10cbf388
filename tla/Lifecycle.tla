----------------------------- MODULE Lifecycle ------------------------------
(***************************************************************************)
(* A node from its start to its end: the event channels (Subscribe, emit), *)
(* the UPnP mapping (internal/node/nat.go, internal/upnp/upnp.go) and      *)
(* Close (internal/node/node.go), which other goroutines race.             *)
(*                                                                         *)
(* Goroutines: main, which runs the terminal's commands and then Close;    *)
(* emitters, the connection goroutines and others that report events; and  *)
(* the prober, which adds the port mapping and renews it.  When main       *)
(* returns, or a goroutine panics, the process ends with whatever the      *)
(* others were doing.                                                      *)
(*                                                                         *)
(* Abstractions: an event is its place in a buffer; the closing of the     *)
(* listener, the peers and discovery is one step (PeerManager and Discovery *)
(* have them); a gateway request may take effect although its answer is    *)
(* lost or its sender has given up.                                        *)
(***************************************************************************)
EXTENDS Naturals

CONSTANTS
    Sub,       \* event channels
    Emitter,   \* goroutines that emit
    Buffer     \* the capacity of an event channel

VARIABLES
    main,      \* where main is: "run", then the steps of Close, then "exit"
    crashed,   \* a goroutine has panicked
    closed,    \* n.closed
    cancelled, \* the node's context is done
    events,    \* n.events
    chan,      \* chan[s]: "none", "open" or "closed"
    buf,       \* buf[s]: events in the channel
    todo,      \* todo[g]: the channels g has yet to send its event to
    doomed,    \* the channels Close has yet to close
    nat,       \* where the prober is
    unmap,     \* n.upnpUnmap is set
    held,      \* Close has taken upnpUnmap
    mapped,    \* the gateway forwards the port
    leaked,    \* history: the gateway did otherwise than the node could know
    unsaved    \* the identity in memory differs from the file

nodeVars  == <<main, closed, cancelled, unsaved>>
eventVars == <<crashed, events, chan, buf, todo, doomed>>
natVars   == <<nat, unmap, held, mapped, leaked>>
vars == <<nodeVars, eventVars, natVars>>

TypeOK ==
    /\ main \in {"run", "cancel", "chans", "unmap", "peers", "save", "exit"}
    /\ events \subseteq Sub /\ doomed \subseteq Sub
    /\ chan \in [Sub -> {"none", "open", "closed"}]
    /\ buf \in [Sub -> 0..Buffer]
    /\ todo \in [Emitter -> SUBSET Sub]
    /\ nat \in {"idle", "adding", "added", "undo", "loop", "renewing", "done"}
    /\ \A b \in {crashed, closed, cancelled, unmap, held, mapped, leaked,
                 unsaved} : b \in BOOLEAN

Init ==
    /\ main = "run" /\ crashed = FALSE /\ closed = FALSE /\ cancelled = FALSE
    /\ events = {} /\ doomed = {}
    /\ chan = [s \in Sub |-> "none"] /\ buf = [s \in Sub |-> 0]
    /\ todo = [g \in Emitter |-> {}]
    /\ nat = "idle" /\ unmap = FALSE /\ held = FALSE
    /\ mapped = FALSE /\ leaked = FALSE /\ unsaved = FALSE

Running == main # "exit" /\ ~crashed

----------------------------------------------------------------------------
(* Events.                                                                 *)

\* After Close a subscriber gets a closed channel.
Subscribe(s) ==
    /\ Running /\ chan[s] = "none"
    /\ chan' = [chan EXCEPT ![s] = IF closed THEN "closed" ELSE "open"]
    /\ events' = IF closed THEN events ELSE events \cup {s}
    /\ UNCHANGED <<nodeVars, crashed, buf, todo, doomed, natVars>>

\* The subscriber takes an event, when it likes.
Consume(s) ==
    /\ Running /\ buf[s] > 0
    /\ buf' = [buf EXCEPT ![s] = @ - 1]
    /\ UNCHANGED <<nodeVars, crashed, events, chan, todo, doomed, natVars>>

\* emit copies the list under the lock ...
Emit(g) ==
    /\ Running /\ todo[g] = {} /\ ~closed
    /\ todo' = [todo EXCEPT ![g] = events]
    /\ UNCHANGED <<nodeVars, crashed, events, chan, buf, doomed, natVars>>

\* ... and sends without it, dropping what does not fit.  A send on a closed
\* channel panics.
Send(g, s) ==
    /\ Running /\ s \in todo[g]
    /\ crashed' = (chan[s] = "closed")
    /\ buf' = [buf EXCEPT ![s] = IF ~crashed' /\ @ < Buffer THEN @ + 1 ELSE @]
    /\ todo' = [todo EXCEPT ![g] = @ \ {s}]
    /\ UNCHANGED <<nodeVars, events, chan, doomed, natVars>>

----------------------------------------------------------------------------
(* The port mapping.                                                       *)

\* tryUPnP: MapTCP asks the gateway, which adds the mapping, or not; the answer
\* may be lost, or the context done while it was on its way.
MapTCP ==
    /\ Running /\ nat = "idle"
    /\ nat' = IF cancelled THEN "done" ELSE "adding"
    /\ UNCHANGED <<nodeVars, eventVars, unmap, held, mapped, leaked>>

Mapped ==
    /\ Running /\ nat = "adding"
    /\ \/ nat' = "added" /\ mapped' = TRUE /\ UNCHANGED leaked
       \/ nat' = "done" /\ mapped' = TRUE /\ leaked' = TRUE
       \/ nat' = "done" /\ UNCHANGED <<mapped, leaked>>
    /\ UNCHANGED <<nodeVars, eventVars, unmap, held>>

\* Mutant: the mapping is handed over to a node that has closed.
HandoverUnchecked ==
    /\ Running /\ nat = "added"
    /\ nat' = "loop" /\ unmap' = TRUE
    /\ UNCHANGED <<nodeVars, eventVars, held, mapped, leaked>>

\* tryUPnP gives the node the means to undo the mapping, or undoes it.
Handover ==
    /\ Running /\ nat = "added"
    /\ nat' = IF closed THEN "undo" ELSE "loop"
    /\ unmap' = (unmap \/ ~closed)
    /\ UNCHANGED <<nodeVars, eventVars, held, mapped, leaked>>

\* The cleanup of MapTCP, whose failure is ignored.
Cleanup == \/ mapped' = FALSE /\ UNCHANGED leaked
           \/ leaked' = TRUE /\ UNCHANGED mapped

Undo ==
    /\ Running /\ nat = "undo"
    /\ nat' = "done"
    /\ Cleanup
    /\ UNCHANGED <<nodeVars, eventVars, unmap, held>>

\* upnpRenewLoop, on its timer: nothing to renew once Close has the mapping.
RenewLoop ==
    /\ Running /\ nat = "loop"
    /\ nat' = IF cancelled \/ closed THEN "done" ELSE "renewing"
    /\ UNCHANGED <<nodeVars, eventVars, unmap, held, mapped, leaked>>

\* Renew adds the mapping again, maybe after Close has deleted it.
Renew ==
    /\ Running /\ nat = "renewing"
    /\ nat' = "loop"
    /\ \/ mapped' = TRUE /\ leaked' = (leaked \/ (closed /\ ~held))
       \/ UNCHANGED <<mapped, leaked>>
    /\ UNCHANGED <<nodeVars, eventVars, unmap, held>>

\* The lease ends.
Expire ==
    /\ mapped /\ mapped' = FALSE
    /\ UNCHANGED <<nodeVars, eventVars, nat, unmap, held, leaked>>

----------------------------------------------------------------------------
(* Main: a command, then Close step by step.                               *)

\* SetNick saves the identity at once and ignores a failure.
SetNick ==
    /\ Running /\ main = "run"
    /\ unsaved' \in BOOLEAN
    /\ UNCHANGED <<main, eventVars, closed, cancelled, natVars>>

\* What Close does under the lock.
Close ==
    /\ Running /\ main = "run"
    /\ main' = "cancel"
    /\ closed' = TRUE
    /\ doomed' = events /\ events' = {}
    /\ held' = unmap /\ unmap' = FALSE
    /\ UNCHANGED <<crashed, cancelled, chan, buf, todo, nat, mapped, leaked,
                   unsaved>>

Cancel ==
    /\ Running /\ main = "cancel"
    /\ main' = "chans" /\ cancelled' = TRUE
    /\ UNCHANGED <<eventVars, closed, natVars, unsaved>>

CloseChannel ==
    /\ Running /\ main = "chans"
    /\ IF doomed = {} THEN main' = "unmap" /\ UNCHANGED <<chan, doomed>>
       ELSE \E s \in doomed : /\ chan' = [chan EXCEPT ![s] = "closed"]
                              /\ doomed' = doomed \ {s}
                              /\ UNCHANGED main
    /\ UNCHANGED <<crashed, closed, cancelled, events, buf, todo, natVars,
                   unsaved>>

Unmap ==
    /\ Running /\ main = "unmap"
    /\ main' = "peers" /\ held' = FALSE
    /\ IF held THEN Cleanup ELSE UNCHANGED <<mapped, leaked>>
    /\ UNCHANGED <<eventVars, closed, cancelled, nat, unmap, unsaved>>

\* The listener, the peers, discovery, the directory.
CloseRest ==
    /\ Running /\ main = "peers"
    /\ main' = "save"
    /\ UNCHANGED <<eventVars, closed, cancelled, natVars, unsaved>>

\* ident.Save, which may fail; then main returns.
SaveIdentity ==
    /\ Running /\ main = "save"
    /\ main' = "exit"
    /\ unsaved' \in {FALSE, unsaved}
    /\ UNCHANGED <<eventVars, closed, cancelled, natVars>>

----------------------------------------------------------------------------

Closing == Cancel \/ CloseChannel \/ Unmap \/ CloseRest \/ SaveIdentity

Next ==
    \/ \E s \in Sub : Subscribe(s) \/ Consume(s)
    \/ \E g \in Emitter : Emit(g) \/ \E s \in Sub : Send(g, s)
    \/ MapTCP \/ Mapped \/ Handover \/ Undo \/ RenewLoop \/ Renew \/ Expire
    \/ SetNick \/ Close \/ Closing

\* Goroutines are scheduled; a subscriber need not read its events.
Fairness ==
    /\ WF_vars(Closing)
    /\ \A g \in Emitter : WF_vars(\E s \in Sub : Send(g, s))

Spec == Init /\ [][Next]_vars
FairSpec == Spec /\ Fairness

----------------------------------------------------------------------------

\* CHANGELOG.md, "unmap if Close races the mapper": a mapping always has
\* somebody who will delete it, the prober or Close, whenever the two meet,
\* unless the gateway acted on a request whose answer never came, refused to
\* delete, or was reached by a renewal after the deletion.
MappingOwned ==
    mapped => \/ leaked
              \/ nat \in {"added", "undo"}
              \/ unmap /\ ~closed
              \/ held /\ main \in {"cancel", "chans", "unmap"}

\* docs/architecture.md, on /quit: "close every peer socket", "save identity",
\* "exit": a Close that has begun comes to its end.
ShutdownSaves == closed ~> main = "exit"
=============================================================================
