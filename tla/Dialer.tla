------------------------------- MODULE Dialer -------------------------------
(***************************************************************************)
(* Outgoing connections of one node (internal/node/connect.go) and the     *)
(* back-off between attempts (internal/backoff/backoff.go).                *)
(*                                                                         *)
(* Callers of Connect, all concurrent: the reconnect loop, which goes      *)
(* through the known peers one by one; autoDial goroutines, one per        *)
(* verified announcement; and the terminal.  A call with several addresses *)
(* runs a goroutine per address (dialFirst), at most Parallel of which     *)
(* dial; every dial registers its address and takes one of the node's      *)
(* Slots (dialOne).                                                        *)
(*                                                                         *)
(* Abstractions: a back-off period is a flag that some later step takes    *)
(* down, so that time is unbounded; whether an address answers is a set    *)
(* that changes at any time; an adopted session is a member of up, the     *)
(* session rules being those of PeerManager.                               *)
(***************************************************************************)
EXTENDS Naturals, FiniteSets, FiniteSetsExt

CONSTANTS
    Peer, Addr,
    Owner,        \* Owner[a]: the peer that answers at a
    AddrsFor,     \* AddrsFor[p]: the addresses the directory has for p
    Pass,         \* the reconnect loop
    AutoDialer, User,  \* callers that can be an autoDial, and the terminal
    Slots,        \* dialSem
    Parallel,     \* the sem of dialFirst
    Initial, Cap  \* the bounds of a back-off delay

Caller == {Pass} \cup AutoDialer \cup User

ASSUME DialerAssumption ==
    /\ IsFiniteSet(Caller) /\ IsFiniteSet(Addr)
    /\ Owner \in [Addr -> Peer] /\ AddrsFor \in [Peer -> SUBSET Addr]
    /\ Slots \in Nat \ {0} /\ Parallel \in Nat \ {0}
    /\ Initial \in Nat \ {0} /\ Cap \in Nat /\ Initial <= Cap

VARIABLES
    step,      \* step[c]: "idle", "checked" or "dialing"
    target,    \* target[c]: whose back-off the call sets, nobody's for a user
    att,       \* att[c][a]: how far the dial of a has come, or its result
    todo,      \* the peers the reconnect pass has yet to look at
    dialing,   \* the addresses being dialled
    slots,     \* the slots taken
    up,        \* the connected peers
    delay,     \* delay[p]: the last back-off delay of p, 0 for none
    waiting,   \* the peers for whom Allow says no
    answers,   \* the addresses that answer
    closing    \* the node's context is done

callVars == <<step, target, todo>>
world    == <<up, answers, closing>>
backoff  == <<delay, waiting>>
vars == <<callVars, att, dialing, slots, world, backoff>>

Result  == {"ok", "failed", "already", "cancelled"}
Running == {"sem", "slot", "tcp", "shake"}

TypeOK ==
    /\ step \in [Caller -> {"idle", "checked", "dialing"}]
    /\ target \in [Caller -> SUBSET Peer]
    /\ att \in [Caller -> [Addr -> {"none"} \cup Running \cup Result]]
    /\ todo \subseteq Peer /\ up \subseteq Peer /\ waiting \subseteq Peer
    /\ dialing \subseteq Addr /\ answers \subseteq Addr
    /\ slots \in 0..Slots
    /\ delay \in [Peer -> {0} \cup Initial..Cap]
    /\ closing \in BOOLEAN

None == [a \in Addr |-> "none"]

Init ==
    /\ step = [c \in Caller |-> "idle"]
    /\ target = [c \in Caller |-> {}]
    /\ att = [c \in Caller |-> None]
    /\ todo = {} /\ dialing = {} /\ slots = 0
    /\ up = {} /\ waiting = {}
    /\ delay = [p \in Peer |-> 0]
    /\ answers \in SUBSET Addr
    /\ closing = FALSE

----------------------------------------------------------------------------
(* Backoff.                                                                *)

Allow(p) == p \notin waiting

\* Mutant: the cap is forgotten.
FailUncapped(ps) ==
    /\ delay' = [p \in Peer |-> IF p \notin ps THEN delay[p]
                               ELSE IF delay[p] = 0 THEN Initial ELSE 2 * delay[p]]
    /\ waiting' = waiting \cup ps

Fail(ps) ==
    /\ delay' = [p \in Peer |-> IF p \notin ps THEN delay[p]
                               ELSE IF delay[p] = 0 THEN Initial
                               ELSE Min({2 * delay[p], Cap})]
    /\ waiting' = waiting \cup ps

Reset(ps) ==
    /\ delay' = [p \in Peer |-> IF p \in ps THEN 0 ELSE delay[p]]
    /\ waiting' = waiting \ ps

----------------------------------------------------------------------------
(* Deciding to dial.  The answers of Connected and Allow may be stale by   *)
(* the time the dial begins, and when it ends.                             *)

\* reconnectLoop's timer, when no pass is running.
Tick ==
    /\ step[Pass] = "idle" /\ todo = {} /\ ~closing
    /\ todo' = {p \in Peer : AddrsFor[p] # {}}
    /\ UNCHANGED <<step, target, att, dialing, slots, world, backoff>>

\* reconnectOnce, one target.
Reconnect(p) ==
    /\ p \in todo /\ step[Pass] = "idle"
    /\ todo' = todo \ {p}
    /\ IF p \notin up /\ Allow(p)
       THEN /\ step' = [step EXCEPT ![Pass] = "checked"]
            /\ target' = [target EXCEPT ![Pass] = {p}]
       ELSE UNCHANGED <<step, target>>
    /\ UNCHANGED <<att, dialing, slots, world, backoff>>

\* tryAutoConnect, for a verified announcement of p.
tryAutoConnect(c, p) ==
    /\ step[c] = "idle"
    /\ p \notin up /\ Allow(p)
    /\ step' = [step EXCEPT ![c] = "checked"]
    /\ target' = [target EXCEPT ![c] = {p}]
    /\ UNCHANGED <<att, todo, dialing, slots, world, backoff>>

\* Connect: a goroutine for each of the addresses.
Connect(c, as) ==
    /\ step' = [step EXCEPT ![c] = "dialing"]
    /\ att' = [att EXCEPT ![c] = [a \in Addr |-> IF a \in as THEN "sem" ELSE "none"]]
    /\ UNCHANGED <<todo, dialing, slots, world, backoff>>

\* reconnectOnce goes on with all the addresses the directory has for p.
ReconnectDial ==
    /\ step[Pass] = "checked"
    /\ \E p \in target[Pass] : Connect(Pass, AddrsFor[p])
    /\ UNCHANGED target

\* autoDial asks again whether p is connected, then dials the announced one.
autoDial(c) ==
    /\ step[c] = "checked"
    /\ \E p \in target[c] :
         \/ /\ p \in up
            /\ step' = [step EXCEPT ![c] = "idle"]
            /\ target' = [target EXCEPT ![c] = {}]
            /\ UNCHANGED <<att, todo, dialing, slots, world, backoff>>
         \/ /\ p \notin up
            /\ \E a \in AddrsFor[p] : Connect(c, {a})
            /\ UNCHANGED target

\* The terminal keeps no back-off: /connect takes a name or an address and asks
\* nothing first, /discover connect takes the announced address.
Command(c, p) ==
    /\ step[c] = "idle" /\ ~closing
    /\ \/ Connect(c, AddrsFor[p])
       \/ \E a \in AddrsFor[p] : Connect(c, {a})
    /\ UNCHANGED target

----------------------------------------------------------------------------
(* The goroutine of caller c for address a.                                *)

At(c, s) == {a \in Addr : att[c][a] \in s}

\* ctx.Done: the node's context, or cancel after a success of the same call.
Done(c) == closing \/ At(c, {"ok"}) # {}

Goto(c, a, s) == att' = [att EXCEPT ![c][a] = s]

\* Mutant: the refused dial ends the registration of the other one.
BeginDialDeferred(c, a) ==
    /\ att[c][a] = "sem"
    /\ IF a \in dialing THEN /\ Goto(c, a, "already")
                             /\ dialing' = dialing \ {a}
       ELSE /\ Goto(c, a, "slot")
            /\ dialing' = dialing \cup {a}
    /\ UNCHANGED <<callVars, slots, world, backoff>>

\* The sem of dialFirst, then beginDial.
BeginDial(c, a) ==
    /\ att[c][a] = "sem"
    /\ \/ /\ Cardinality(At(c, Running \ {"sem"})) < Parallel
          /\ IF a \in dialing THEN Goto(c, a, "already") /\ UNCHANGED dialing
             ELSE Goto(c, a, "slot") /\ dialing' = dialing \cup {a}
       \/ Done(c) /\ Goto(c, a, "cancelled") /\ UNCHANGED dialing
    /\ UNCHANGED <<callVars, slots, world, backoff>>

AcquireSlot(c, a) ==
    /\ att[c][a] = "slot"
    /\ \/ /\ slots < Slots
          /\ slots' = slots + 1
          /\ Goto(c, a, "tcp")
          /\ UNCHANGED dialing
       \/ /\ Done(c)
          /\ Goto(c, a, "cancelled")
          /\ dialing' = dialing \ {a}
          /\ UNCHANGED slots
    /\ UNCHANGED <<callVars, world, backoff>>

\* Mutant: the slot is kept.
EndKeepingSlot(c, a, r) ==
    /\ Goto(c, a, r)
    /\ dialing' = dialing \ {a}
    /\ UNCHANGED slots

\* Mutant: the address stays registered.
EndKeepingAddress(c, a, r) ==
    /\ Goto(c, a, r)
    /\ slots' = slots - 1
    /\ UNCHANGED dialing

\* The deferred calls of dialOne: the slot, then the registration.
End(c, a, r) ==
    /\ Goto(c, a, r)
    /\ slots' = slots - 1
    /\ dialing' = dialing \ {a}

\* DialContext and the test of ctx after it.
Dial(c, a) ==
    /\ att[c][a] = "tcp"
    /\ \/ /\ a \in answers /\ ~Done(c)
          /\ Goto(c, a, "shake")
          /\ UNCHANGED <<slots, dialing>>
       \/ a \notin answers /\ End(c, a, "failed")
       \/ Done(c) /\ End(c, a, "cancelled")
    /\ UNCHANGED <<callVars, world, backoff>>

\* HandshakeAndAdopt, which no context stops.  A duplicate counts as a success;
\* a new session runs onPeerUp.
Handshake(c, a) ==
    /\ att[c][a] = "shake"
    /\ \/ /\ a \in answers
          /\ End(c, a, "ok")
          /\ up' = up \cup {Owner[a]}
          /\ Reset({Owner[a]} \ up)
       \/ /\ a \notin answers \/ closing
          /\ End(c, a, "failed")
          /\ UNCHANGED <<up, backoff>>
    /\ UNCHANGED <<callVars, answers, closing>>

\* Mutant: any error makes the call fail.
ReturnedAny(c) ==
    IF At(c, {"failed"}) # {} THEN "failed"
    ELSE IF At(c, {"ok"}) # {} THEN "ok"
    ELSE IF At(c, {"already"}) # {} THEN "already" ELSE "failed"

\* What Connect returns: an error that says why before "already connecting".
Returned(c) ==
    IF At(c, {"ok"}) # {} THEN "ok"
    ELSE IF At(c, {"already"}) # {} /\ At(c, {"failed"}) = {} THEN "already"
    ELSE "failed"

\* Connect returns once every goroutine has; reconnectOnce and autoDial then
\* set or clear the back-off.
Return(c) ==
    /\ step[c] = "dialing"
    /\ At(c, Running) = {}
    /\ CASE Returned(c) = "ok"      -> Reset(target[c])
         [] Returned(c) = "failed"  -> Fail(target[c])
         [] Returned(c) = "already" -> UNCHANGED backoff
    /\ step' = [step EXCEPT ![c] = "idle"]
    /\ target' = [target EXCEPT ![c] = {}]
    /\ att' = [att EXCEPT ![c] = None]
    /\ UNCHANGED <<todo, dialing, slots, world>>

----------------------------------------------------------------------------
(* The rest of the world.                                                  *)

Expire(p) ==
    /\ p \in waiting
    /\ waiting' = waiting \ {p}
    /\ UNCHANGED <<callVars, att, dialing, slots, world, delay>>

\* A session that was not dialled here begins (onPeerUp), or one ends
\* (onPeerDown): both reset the back-off.
Session(p) ==
    /\ ~closing
    /\ up' = IF p \in up THEN up \ {p} ELSE up \cup {p}
    /\ Reset({p})
    /\ UNCHANGED <<callVars, att, dialing, slots, answers, closing>>

Flip(a) ==
    /\ ~closing
    /\ answers' = IF a \in answers THEN answers \ {a} ELSE answers \cup {a}
    /\ UNCHANGED <<callVars, att, dialing, slots, up, backoff, closing>>

Close ==
    /\ closing' = TRUE
    /\ UNCHANGED <<callVars, att, dialing, slots, up, backoff, answers>>

Goroutine(c, a) ==
    \/ BeginDial(c, a) \/ AcquireSlot(c, a) \/ Dial(c, a) \/ Handshake(c, a)

Next ==
    \/ Tick
    \/ \E p \in Peer :
         \/ Reconnect(p) \/ Expire(p) \/ Session(p)
         \/ \E c \in AutoDialer : tryAutoConnect(c, p)
         \/ \E c \in User : Command(c, p)
    \/ ReconnectDial
    \/ \E c \in AutoDialer : autoDial(c)
    \/ \E c \in Caller :
         \/ \E a \in Addr : Goroutine(c, a)
         \/ Return(c)
    \/ \E a \in Addr : Flip(a)
    \/ Close

Spec == Init /\ [][Next]_vars

\* Timers fire, goroutines are scheduled, a dial and a handshake end by their
\* timeouts; senders blocked on a channel are served in order, so that nobody
\* waits for a slot for ever.
Fairness ==
    /\ WF_vars(Tick) /\ WF_vars(ReconnectDial)
    /\ \A c \in AutoDialer : WF_vars(autoDial(c))
    /\ \A p \in Peer : WF_vars(Reconnect(p)) /\ WF_vars(Expire(p))
    /\ \A c \in Caller :
         /\ WF_vars(Return(c))
         /\ \A a \in Addr : SF_vars(Goroutine(c, a))

FairSpec == Spec /\ Fairness

----------------------------------------------------------------------------
(* What dialing promises.                                                  *)

\* docs/architecture.md: "The process also refuses a second in-flight TCP dial
\* to the same host:port and caps outbound handshakes at 4", whoever asks: an
\* address is registered and a slot taken exactly while somebody dials, on
\* every path out of dialOne.
DialsCounted ==
    /\ \A a \in Addr :
         Cardinality({c \in Caller : att[c][a] \in {"slot", "tcp", "shake"}})
            = IF a \in dialing THEN 1 ELSE 0
    /\ slots = Cardinality({x \in Caller \X Addr :
                              att[x[1]][x[2]] \in {"tcp", "shake"}})

\* A call that got a session, by whichever address, does not report a failure,
\* and the back-off of its peer does not grow, although its other addresses
\* failed.
SuccessCounts ==
    [][\A c \in Caller : Return(c) /\ At(c, {"ok"}) # {} =>
           \A p \in target[c] : delay'[p] <= delay[p]]_vars

\* Every Connect returns, also when the node closes.
ConnectReturns == \A c \in Caller : step[c] = "dialing" ~> step[c] = "idle"

\* docs/architecture.md, "--reconnect retries last-seen TCP addresses": a known
\* peer whose addresses answer from some time on is connected again and again,
\* however often sessions, dials and addresses failed before, and although a
\* late Fail may follow the Reset of a session.  One good address is not
\* enough: the back-off is kept per peer, and an announced address that fails
\* whenever the period ends keeps reconnectOnce from its turn.
Reconnects ==
    \A p \in Peer :
        <>[](\A a \in AddrsFor[p] : a \in answers /\ Owner[a] = p)
            => []<>(p \in up \/ closing)
=============================================================================
