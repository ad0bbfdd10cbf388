---------------------------- MODULE DialerProofs ----------------------------
(***************************************************************************)
(* Dial slots and registered addresses are counted right on every path,    *)
(* for any peers, addresses, callers and bounds, and a call that succeeds  *)
(* never lengthens a back-off.                                             *)
(***************************************************************************)
EXTENDS Dialer, FiniteSetTheorems, TLAPS

----------------------------------------------------------------------------
(* The inductive invariant.                                                *)

\* Who has address a registered, and which dials hold a slot.
Dialers(a) == {c \in Caller : att[c][a] \in {"slot", "tcp", "shake"}}
Holders    == {x \in Caller \X Addr : att[x[1]][x[2]] \in {"tcp", "shake"}}

\* Everything in TypeOK but the bounds of slots.
Types ==
    /\ step \in [Caller -> {"idle", "checked", "dialing"}]
    /\ target \in [Caller -> SUBSET Peer]
    /\ att \in [Caller -> [Addr -> {"none"} \cup Running \cup Result]]
    /\ todo \subseteq Peer /\ up \subseteq Peer /\ waiting \subseteq Peer
    /\ dialing \subseteq Addr /\ answers \subseteq Addr
    /\ delay \in [Peer -> {0} \cup Initial..Cap]
    /\ closing \in BOOLEAN

\* An address is registered by one caller, exactly while it is in dialing.
OneDialer ==
    \A a \in Addr :
        /\ a \in dialing => \E c \in Caller : Dialers(a) = {c}
        /\ a \notin dialing => Dialers(a) = {}

\* The semaphore counts the dials that hold a slot.
SlotsInv == slots = Cardinality(Holders) /\ slots <= Slots

\* A caller that is not dialing has no goroutines.
Resting ==
    \A c \in Caller : step[c] # "dialing" => att[c] = None

IInv == Types /\ OneDialer /\ SlotsInv /\ Resting

----------------------------------------------------------------------------
(* Facts about the sets.                                                   *)

\* Finitely many dials.
LEMMA HoldersFinite == IsFiniteSet(Holders) /\ Cardinality(Holders) \in Nat
<1>1. IsFiniteSet(Caller \X Addr)
  BY DialerAssumption, FS_Product
<1>2. QED
  BY <1>1, FS_Subset, FS_CardinalityType DEF Holders

\* One goroutine moves: what it does to the two sets.
LEMMA GotoFacts ==
    ASSUME Types, NEW c \in Caller, NEW a \in Addr,
           NEW s \in {"none"} \cup Running \cup Result, Goto(c, a, s)
    PROVE  /\ att' \in [Caller -> [Addr -> {"none"} \cup Running \cup Result]]
           /\ \A d \in Caller : d # c => att'[d] = att[d]
           /\ att'[c][a] = s
           /\ \A b \in Addr : b # a => att'[c][b] = att[c][b]
  BY DEF Types, Goto

\* A caller that starts or ends a dial.
LEMMA DialersMove ==
    ASSUME Types, NEW c \in Caller, NEW a \in Addr,
           NEW s \in {"none"} \cup Running \cup Result, Goto(c, a, s)
    PROVE  /\ \A b \in Addr : b # a => Dialers(b)' = Dialers(b)
           /\ Dialers(a)' = IF s \in {"slot", "tcp", "shake"}
                            THEN Dialers(a) \cup {c} ELSE Dialers(a) \ {c}
  BY GotoFacts DEF Dialers

\* A caller that takes or leaves a slot.
LEMMA HoldersMove ==
    ASSUME Types, NEW c \in Caller, NEW a \in Addr,
           NEW s \in {"none"} \cup Running \cup Result, Goto(c, a, s)
    PROVE  Holders' = IF s \in {"tcp", "shake"}
                      THEN Holders \cup {<<c, a>>} ELSE Holders \ {<<c, a>>}
<1>1. \A x \in Caller \X Addr :
        x # <<c, a>> => att'[x[1]][x[2]] = att[x[1]][x[2]]
  BY GotoFacts
<1>2. att'[c][a] = s /\ <<c, a>> \in Caller \X Addr
  BY GotoFacts
<1>3. QED
  BY <1>1, <1>2 DEF Holders

\* Who calls.
LEMMA Callers == Pass \in Caller /\ AutoDialer \subseteq Caller /\ User \subseteq Caller
  BY DEF Caller

\* The shorter of a doubled delay and the cap is a delay.
LEMMA CappedDelay ==
    ASSUME NEW d \in Initial..Cap
    PROVE  Min({2 * d, Cap}) \in Initial..Cap
<1>1. d \in Nat /\ 2 * d \in Nat /\ Cap \in Nat /\ Initial \in Nat \ {0}
  BY DialerAssumption
<1>2. CASE 2 * d <= Cap
  <2>1. \A x \in {2 * d, Cap} : (\A y \in {2 * d, Cap} : x <= y) => x = 2 * d
    BY <1>1, <1>2
  <2>2. 2 * d \in {2 * d, Cap} /\ \A y \in {2 * d, Cap} : 2 * d <= y
    BY <1>1, <1>2
  <2>3. Min({2 * d, Cap}) = 2 * d
    BY <2>1, <2>2 DEF Min
  <2>4. QED
    BY <1>1, <1>2, <2>3
<1>3. CASE 2 * d > Cap
  <2>1. \A x \in {2 * d, Cap} : (\A y \in {2 * d, Cap} : x <= y) => x = Cap
    BY <1>1, <1>3
  <2>2. Cap \in {2 * d, Cap} /\ \A y \in {2 * d, Cap} : Cap <= y
    BY <1>1, <1>3
  <2>3. Min({2 * d, Cap}) = Cap
    BY <2>1, <2>2 DEF Min
  <2>4. QED
    BY <1>1, <2>3
<1>4. QED
  BY <1>1, <1>2, <1>3

\* Fail and Reset keep the types of the back-off.
LEMMA BackoffTypes ==
    ASSUME Types, NEW ps \in SUBSET Peer, Fail(ps) \/ Reset(ps)
    PROVE  /\ delay' \in [Peer -> {0} \cup Initial..Cap]
           /\ waiting' \subseteq Peer
<1>1. CASE Fail(ps)
  <2>1. Initial \in Initial..Cap
    BY DialerAssumption
  <2>2. \A p \in Peer : delay[p] # 0 => Min({2 * delay[p], Cap}) \in Initial..Cap
    BY CappedDelay DEF Types
  <2>3. QED
    BY <1>1, <2>1, <2>2 DEF Fail, Types
<1>2. CASE Reset(ps)
  BY <1>2 DEF Reset, Types
<1>3. QED
  BY <1>1, <1>2

----------------------------------------------------------------------------
(* Preservation.                                                           *)

\* Steps that touch no dial.
LEMMA QuietStep ==
    ASSUME IInv, Types', UNCHANGED <<att, dialing, slots>>,
           \A c \in Caller : step[c] = "dialing" => step'[c] = "dialing"
    PROVE  IInv'
  BY DEF IInv, OneDialer, SlotsInv, Resting, Dialers, Holders

\* Tick, Reconnect, tryAutoConnect, Expire, Session, Flip and Close decide, or
\* change the world.
LEMMA WorldStep ==
    ASSUME IInv,
           \/ Tick \/ Close
           \/ \E p \in Peer : Reconnect(p) \/ Expire(p) \/ Session(p)
           \/ \E p \in Peer, c \in AutoDialer : tryAutoConnect(c, p)
           \/ \E a \in Addr : Flip(a)
    PROVE  IInv'
<1>1. Types
  BY DEF IInv
<1>2. Pass \in Caller /\ AutoDialer \subseteq Caller
  BY Callers
<1>3. CASE Tick \/ Close
  <2>1. Types'
    BY <1>1, <1>3 DEF Tick, Close, Types, backoff, world, callVars
  <2>2. QED
    BY IInv, <1>3, <2>1, QuietStep DEF Tick, Close, callVars
<1>4. ASSUME NEW p \in Peer, Reconnect(p)
      PROVE  IInv'
  <2>1. Types'
    BY <1>1, <1>2, <1>4 DEF Reconnect, Types, backoff, world
  <2>2. \A c \in Caller : step[c] = "dialing" => step'[c] = "dialing"
    BY <1>1, <1>4 DEF Reconnect, Types
  <2>3. QED
    BY IInv, <1>4, <2>1, <2>2, QuietStep DEF Reconnect
<1>5. ASSUME NEW p \in Peer, Expire(p)
      PROVE  IInv'
  BY IInv, <1>1, <1>5, QuietStep DEF Expire, Types, callVars, world
<1>6. ASSUME NEW p \in Peer, Session(p)
      PROVE  IInv'
  <2>1. Reset({p}) /\ {p} \in SUBSET Peer
    BY <1>6 DEF Session
  <2>2. Types'
    BY <1>1, <1>6, <2>1, BackoffTypes DEF Session, Types, callVars
  <2>3. QED
    BY IInv, <1>6, <2>2, QuietStep DEF Session, callVars
<1>7. ASSUME NEW p \in Peer, NEW c \in AutoDialer, tryAutoConnect(c, p)
      PROVE  IInv'
  BY IInv, <1>1, <1>2, <1>7, QuietStep
  DEF tryAutoConnect, Types, backoff, world
<1>8. ASSUME NEW a \in Addr, Flip(a)
      PROVE  IInv'
  BY IInv, <1>1, <1>8, QuietStep DEF Flip, Types, backoff, callVars
<1>9. QED
  BY <1>3, <1>4, <1>5, <1>6, <1>7, <1>8

\* A caller that rests takes part in no dial, and a new call has not begun any.
LEMMA ConnectStep ==
    ASSUME IInv, NEW c \in Caller, NEW as \in SUBSET Addr, step[c] # "dialing",
           Connect(c, as), UNCHANGED target
    PROVE  IInv'
<1>1. Types /\ att[c] = None
  BY DEF IInv, Resting
<1>2. Types'
  BY <1>1 DEF Connect, Types, Running, backoff, world
<1>3. /\ \A d \in Caller \ {c} : att'[d] = att[d]
      /\ \A a \in Addr : att[c][a] = "none" /\ att'[c][a] \in {"sem", "none"}
  BY <1>1 DEF Connect, Types, None
<1>4. \A a \in Addr : Dialers(a)' = Dialers(a)
  BY <1>3 DEF Dialers
<1>5. Holders' = Holders
  <2>1. \A x \in Caller \X Addr :
          att'[x[1]][x[2]] \in {"tcp", "shake"}
          <=> att[x[1]][x[2]] \in {"tcp", "shake"}
    BY <1>3
  <2>2. QED
    BY <2>1 DEF Holders
<1>6. step'[c] = "dialing" /\ \A d \in Caller \ {c} : step'[d] = step[d]
  BY <1>1 DEF Connect, Types
<1>7. OneDialer' /\ SlotsInv'
  BY IInv, <1>4, <1>5 DEF IInv, OneDialer, SlotsInv, Connect
<1>8. Resting'
  BY IInv, <1>3, <1>6 DEF IInv, Resting
<1>9. QED
  BY <1>2, <1>7, <1>8 DEF IInv

\* The three ways into Connect, and the way round it.
LEMMA CallStep ==
    ASSUME IInv,
           \/ ReconnectDial
           \/ \E c \in AutoDialer : autoDial(c)
           \/ \E p \in Peer, c \in User : Command(c, p)
    PROVE  IInv'
<1>1. Types
  BY DEF IInv
<1>2. Pass \in Caller /\ AutoDialer \subseteq Caller /\ User \subseteq Caller
  BY Callers
<1>3. \A p \in Peer : AddrsFor[p] \subseteq Addr
  BY DialerAssumption
<1>4. CASE ReconnectDial
  <2>1. PICK p \in target[Pass] : Connect(Pass, AddrsFor[p])
    BY <1>4 DEF ReconnectDial
  <2>2. p \in Peer
    BY <1>1, <1>2 DEF Types
  <2>3. QED
    BY IInv, <1>2, <1>3, <1>4, <2>1, <2>2, ConnectStep DEF ReconnectDial
<1>5. ASSUME NEW c \in AutoDialer, autoDial(c)
      PROVE  IInv'
  <2>1. c \in Caller /\ step[c] = "checked" /\ target[c] \subseteq Peer
    BY <1>1, <1>2, <1>5 DEF autoDial, Types
  <2>2. CASE \E p \in target[c] : \E a \in AddrsFor[p] :
               Connect(c, {a}) /\ UNCHANGED target
    <3>1. PICK p \in target[c] : \E a \in AddrsFor[p] :
                 Connect(c, {a}) /\ UNCHANGED target
      BY <2>2
    <3>2. PICK a \in AddrsFor[p] : Connect(c, {a}) /\ UNCHANGED target
      BY <3>1
    <3>3. {a} \in SUBSET Addr
      BY <1>3, <2>1, <3>1, <3>2
    <3>4. QED
      BY IInv, <2>1, <3>2, <3>3, ConnectStep
  <2>3. CASE /\ step' = [step EXCEPT ![c] = "idle"]
             /\ target' = [target EXCEPT ![c] = {}]
             /\ UNCHANGED <<att, todo, dialing, slots, world, backoff>>
    <3>1. Types'
      BY <1>1, <2>1, <2>3 DEF Types, world, backoff
    <3>2. \A d \in Caller : step[d] = "dialing" => step'[d] = "dialing"
      BY <1>1, <2>1, <2>3 DEF Types
    <3>3. QED
      BY IInv, <2>3, <3>1, <3>2, QuietStep
  <2>4. QED
    BY <1>5, <2>2, <2>3 DEF autoDial
<1>6. ASSUME NEW p \in Peer, NEW c \in User, Command(c, p)
      PROVE  IInv'
  <2>1. c \in Caller /\ step[c] # "dialing" /\ UNCHANGED target
    BY <1>2, <1>6 DEF Command
  <2>2. CASE Connect(c, AddrsFor[p])
    BY IInv, <1>3, <2>1, <2>2, ConnectStep
  <2>3. ASSUME NEW a \in AddrsFor[p], Connect(c, {a})
        PROVE  IInv'
    <3>1. {a} \in SUBSET Addr
      BY <1>3
    <3>2. QED
      BY IInv, <2>1, <2>3, <3>1, ConnectStep
  <2>4. QED
    BY <1>6, <2>2, <2>3 DEF Command
<1>7. QED
  BY <1>4, <1>5, <1>6

\* A goroutine takes a registration, keeps it or gives it back.
LEMMA RegistrationKept ==
    ASSUME IInv, NEW c \in Caller, NEW a \in Addr,
           NEW s \in {"none"} \cup Running \cup Result, Goto(c, a, s),
           \/ /\ a \notin dialing /\ dialing' = dialing \cup {a} /\ s = "slot"
           \/ /\ c \in Dialers(a) /\ dialing' = dialing
              /\ s \in {"slot", "tcp", "shake"}
           \/ /\ c \in Dialers(a) /\ dialing' = dialing \ {a}
              /\ s \notin {"slot", "tcp", "shake"}
           \/ /\ c \notin Dialers(a) /\ dialing' = dialing
              /\ s \notin {"slot", "tcp", "shake"}
    PROVE  OneDialer'
<1>1. Types /\ OneDialer
  BY DEF IInv
<1>2. /\ \A b \in Addr : b # a => Dialers(b)' = Dialers(b)
      /\ Dialers(a)' = IF s \in {"slot", "tcp", "shake"}
                       THEN Dialers(a) \cup {c} ELSE Dialers(a) \ {c}
  BY <1>1, DialersMove
<1>3. ASSUME NEW b \in Addr, b # a
      PROVE  /\ b \in dialing' => \E d \in Caller : Dialers(b)' = {d}
             /\ b \notin dialing' => Dialers(b)' = {}
  BY <1>1, <1>2, <1>3 DEF OneDialer
<1>4. /\ a \in dialing => \E d \in Caller : Dialers(a) = {d}
      /\ a \notin dialing => Dialers(a) = {}
  BY <1>1 DEF OneDialer
<1>5. /\ a \in dialing' => \E d \in Caller : Dialers(a)' = {d}
      /\ a \notin dialing' => Dialers(a)' = {}
  BY <1>2, <1>4
<1>6. QED
  BY <1>3, <1>5 DEF OneDialer

\* A goroutine takes a slot, keeps it or gives it back.
LEMMA SlotKept ==
    ASSUME IInv, NEW c \in Caller, NEW a \in Addr,
           NEW s \in {"none"} \cup Running \cup Result, Goto(c, a, s),
           \/ /\ <<c, a>> \notin Holders /\ slots < Slots
              /\ slots' = slots + 1 /\ s \in {"tcp", "shake"}
           \/ /\ <<c, a>> \in Holders /\ slots' = slots
              /\ s \in {"tcp", "shake"}
           \/ /\ <<c, a>> \in Holders /\ slots' = slots - 1
              /\ s \notin {"tcp", "shake"}
           \/ /\ <<c, a>> \notin Holders /\ slots' = slots
              /\ s \notin {"tcp", "shake"}
    PROVE  SlotsInv'
<1>1. Types /\ SlotsInv
  BY DEF IInv
<1>2. Holders' = IF s \in {"tcp", "shake"}
                 THEN Holders \cup {<<c, a>>} ELSE Holders \ {<<c, a>>}
  BY <1>1, HoldersMove
<1>3. /\ IsFiniteSet(Holders) /\ Cardinality(Holders) \in Nat
      /\ Cardinality(Holders \cup {<<c, a>>}) =
           IF <<c, a>> \in Holders THEN Cardinality(Holders)
           ELSE Cardinality(Holders) + 1
      /\ Cardinality(Holders \ {<<c, a>>}) =
           IF <<c, a>> \in Holders THEN Cardinality(Holders) - 1
           ELSE Cardinality(Holders)
  BY HoldersFinite, FS_AddElement, FS_RemoveElement
<1>4. slots = Cardinality(Holders) /\ slots <= Slots /\ Slots \in Nat
  BY <1>1, DialerAssumption DEF SlotsInv
<1>5. slots' = Cardinality(Holders')
  BY <1>2, <1>3, <1>4
<1>6. slots' <= Slots
  BY <1>3, <1>4
<1>7. QED
  BY <1>5, <1>6 DEF SlotsInv

\* The rest of the invariant, when the goroutine of c for a moves.
LEMMA GoroutineKeeps ==
    ASSUME IInv, NEW c \in Caller, NEW a \in Addr, att[c][a] # "none",
           NEW s \in {"none"} \cup Running \cup Result, Goto(c, a, s),
           UNCHANGED <<callVars, answers, closing>>,
           dialing' \subseteq Addr, up' \subseteq Peer,
           UNCHANGED backoff \/ \E ps \in SUBSET Peer : Reset(ps),
           OneDialer', SlotsInv'
    PROVE  IInv'
<1>1. Types
  BY DEF IInv
<1>2. /\ delay' \in [Peer -> {0} \cup Initial..Cap]
      /\ waiting' \subseteq Peer
  BY <1>1, BackoffTypes DEF Types, backoff
<1>3. Types'
  BY <1>1, <1>2, GotoFacts DEF Types, callVars
<1>4. step[c] = "dialing"
  BY DEF IInv, Resting, None
<1>5. Resting'
  BY IInv, <1>1, <1>4, GotoFacts DEF IInv, Resting, callVars
<1>6. QED
  BY <1>3, <1>5 DEF IInv

\* The steps of a goroutine.
LEMMA GoroutineStep ==
    ASSUME IInv, NEW c \in Caller, NEW a \in Addr, Goroutine(c, a)
    PROVE  IInv'
<1> USE DEF Running, Result
<1>1. Types
  BY DEF IInv
<1>2. /\ c \in Dialers(a) <=> att[c][a] \in {"slot", "tcp", "shake"}
      /\ <<c, a>> \in Holders <=> att[c][a] \in {"tcp", "shake"}
  BY DEF Dialers, Holders
<1>3. dialing \subseteq Addr /\ up \subseteq Peer
  BY <1>1 DEF Types
<1>4. CASE BeginDial(c, a)
  <2>1. /\ att[c][a] = "sem" /\ UNCHANGED <<callVars, slots, world, backoff>>
        /\ \/ a \in dialing /\ Goto(c, a, "already") /\ UNCHANGED dialing
           \/ a \notin dialing /\ Goto(c, a, "slot") /\ dialing' = dialing \cup {a}
           \/ Goto(c, a, "cancelled") /\ UNCHANGED dialing
    BY <1>4 DEF BeginDial
  <2>2. PICK s \in {"already", "slot", "cancelled"} : Goto(c, a, s) /\
           \/ a \notin dialing /\ s = "slot" /\ dialing' = dialing \cup {a}
           \/ s # "slot" /\ UNCHANGED dialing
    BY <2>1
  <2>3. OneDialer'
    BY IInv, <1>2, <2>1, <2>2, RegistrationKept
  <2>4. SlotsInv'
    BY IInv, <1>2, <2>1, <2>2, SlotKept
  <2>5. QED
    BY IInv, <1>3, <2>1, <2>2, <2>3, <2>4, GoroutineKeeps DEF world
<1>5. CASE AcquireSlot(c, a)
  <2>1. /\ att[c][a] = "slot" /\ UNCHANGED <<callVars, world, backoff>>
        /\ \/ /\ slots < Slots /\ slots' = slots + 1
              /\ Goto(c, a, "tcp") /\ UNCHANGED dialing
           \/ /\ Goto(c, a, "cancelled") /\ dialing' = dialing \ {a}
              /\ UNCHANGED slots
    BY <1>5 DEF AcquireSlot
  <2>2. PICK s \in {"tcp", "cancelled"} : Goto(c, a, s) /\
           \/ /\ s = "tcp" /\ slots < Slots /\ slots' = slots + 1
              /\ UNCHANGED dialing
           \/ s = "cancelled" /\ dialing' = dialing \ {a} /\ UNCHANGED slots
    BY <2>1
  <2>3. OneDialer'
    BY IInv, <1>2, <2>1, <2>2, RegistrationKept
  <2>4. SlotsInv'
    BY IInv, <1>2, <2>1, <2>2, SlotKept
  <2>5. QED
    BY IInv, <1>3, <2>1, <2>2, <2>3, <2>4, GoroutineKeeps DEF world
<1>6. CASE Dial(c, a)
  <2>1. /\ att[c][a] = "tcp" /\ UNCHANGED <<callVars, world, backoff>>
        /\ \/ Goto(c, a, "shake") /\ UNCHANGED <<slots, dialing>>
           \/ End(c, a, "failed") \/ End(c, a, "cancelled")
    BY <1>6 DEF Dial
  <2>2. PICK s \in {"shake", "failed", "cancelled"} : Goto(c, a, s) /\
           \/ s = "shake" /\ UNCHANGED <<slots, dialing>>
           \/ s # "shake" /\ slots' = slots - 1 /\ dialing' = dialing \ {a}
    BY <2>1 DEF End
  <2>3. OneDialer'
    BY IInv, <1>2, <2>1, <2>2, RegistrationKept
  <2>4. SlotsInv'
    BY IInv, <1>2, <2>1, <2>2, SlotKept
  <2>5. QED
    BY IInv, <1>3, <2>1, <2>2, <2>3, <2>4, GoroutineKeeps DEF world
<1>7. CASE Handshake(c, a)
  <2>1. /\ att[c][a] = "shake" /\ UNCHANGED <<callVars, answers, closing>>
        /\ \/ /\ End(c, a, "ok") /\ up' = up \cup {Owner[a]}
              /\ Reset({Owner[a]} \ up)
           \/ End(c, a, "failed") /\ UNCHANGED <<up, backoff>>
    BY <1>7 DEF Handshake
  <2>2. PICK s \in {"ok", "failed"} :
           Goto(c, a, s) /\ slots' = slots - 1 /\ dialing' = dialing \ {a}
    BY <2>1 DEF End
  <2>3. OneDialer'
    BY IInv, <1>2, <2>1, <2>2, RegistrationKept
  <2>4. SlotsInv'
    BY IInv, <1>2, <2>1, <2>2, SlotKept
  <2>5. /\ up' \subseteq Peer
        /\ UNCHANGED backoff \/ \E ps \in SUBSET Peer : Reset(ps)
    BY <1>3, <2>1, DialerAssumption
  <2>6. QED
    BY IInv, <1>3, <2>1, <2>2, <2>3, <2>4, <2>5, GoroutineKeeps
<1>8. QED
  BY <1>4, <1>5, <1>6, <1>7 DEF Goroutine

\* Connect returns: its goroutines have ended.
LEMMA ReturnStep ==
    ASSUME IInv, NEW c \in Caller, Return(c)
    PROVE  IInv'
<1>1. Types
  BY DEF IInv
<1>2. /\ att' = [att EXCEPT ![c] = None] /\ step' = [step EXCEPT ![c] = "idle"]
      /\ target' = [target EXCEPT ![c] = {}]
      /\ UNCHANGED <<todo, dialing, slots, world>>
  BY DEF Return
<1>3. \A a \in Addr : att[c][a] \notin Running
  BY DEF Return, At
<1>4. /\ delay' \in [Peer -> {0} \cup Initial..Cap]
      /\ waiting' \subseteq Peer
  <2>1. target[c] \in SUBSET Peer
    BY <1>1 DEF Types
  <2>2. Reset(target[c]) \/ Fail(target[c]) \/ UNCHANGED backoff
    BY DEF Return, Returned
  <2>3. QED
    BY <1>1, <2>1, <2>2, BackoffTypes DEF Types, backoff
<1>5. Types'
  BY <1>1, <1>2, <1>4 DEF Types, world, None
<1>6. /\ \A d \in Caller \ {c} : att'[d] = att[d] /\ step'[d] = step[d]
      /\ \A a \in Addr : att'[c][a] = "none"
      /\ att'[c] = None
  BY <1>1, <1>2 DEF Types, None
<1>7. \A a \in Addr : Dialers(a)' = Dialers(a)
  BY <1>3, <1>6 DEF Dialers, Running
<1>8. Holders' = Holders
  <2>1. \A x \in Caller \X Addr :
          att'[x[1]][x[2]] \in {"tcp", "shake"}
          <=> att[x[1]][x[2]] \in {"tcp", "shake"}
    BY <1>3, <1>6 DEF Running
  <2>2. QED
    BY <2>1 DEF Holders
<1>9. QED
  BY <1>2, <1>5, <1>6, <1>7, <1>8 DEF IInv, OneDialer, SlotsInv, Resting

----------------------------------------------------------------------------
(* The theorems.                                                           *)

\* IInv holds initially.
LEMMA IInvInit ==
    ASSUME Init
    PROVE  IInv
<1>1. Types /\ Resting
  BY DEF Init, Types, Resting, None
<1>2. \A a \in Addr : Dialers(a) = {}
  BY DEF Init, Dialers, None
<1>3. Holders = {}
  BY DEF Init, Holders, None
<1>4. QED
  BY <1>1, <1>2, <1>3, FS_EmptySet, DialerAssumption
  DEF Init, IInv, OneDialer, SlotsInv

\* Every step preserves IInv.
LEMMA IInvNext ==
    ASSUME IInv, [Next]_vars
    PROVE  IInv'
<1>1. CASE UNCHANGED vars
  <2>1. Types'
    BY IInv, <1>1 DEF IInv, vars, callVars, world, backoff, Types
  <2>2. QED
    BY IInv, <1>1, <2>1, QuietStep DEF vars, callVars
<1>2. ASSUME NEW p \in Peer,
             \/ Reconnect(p) \/ Expire(p) \/ Session(p)
             \/ \E c \in AutoDialer : tryAutoConnect(c, p)
             \/ \E c \in User : Command(c, p)
      PROVE  IInv'
  BY IInv, <1>2, WorldStep, CallStep
<1>3. ASSUME NEW c \in Caller, Return(c) \/ \E a \in Addr : Goroutine(c, a)
      PROVE  IInv'
  BY IInv, <1>3, GoroutineStep, ReturnStep
<1>4. CASE Tick \/ Close \/ \E a \in Addr : Flip(a)
  BY IInv, <1>4, WorldStep
<1>5. CASE ReconnectDial \/ \E c \in AutoDialer : autoDial(c)
  BY IInv, <1>5, CallStep
<1>6. QED
  BY <1>1, <1>2, <1>3, <1>4, <1>5 DEF Next

\* The inductive invariant holds in every reachable state.
THEOREM Invariance == Spec => []IInv
  BY IInvInit, IInvNext, PTL DEF Spec

\* The slots taken never exceed the four of dialSem and are never given back
\* twice, and no back-off delay leaves its bounds.
THEOREM TypeCorrect == Spec => []TypeOK
<1>1. IInv => TypeOK
  BY HoldersFinite, DialerAssumption DEF IInv, Types, SlotsInv, TypeOK
<1>2. QED
  BY <1>1, Invariance, PTL

\* Whoever asks, an address is dialled by one goroutine at a time, exactly while
\* it is registered, and a slot is taken exactly while a dial is under way.
THEOREM DialsAreCounted == Spec => []DialsCounted
<1>1. ASSUME IInv
      PROVE  DialsCounted
  <2>1. ASSUME NEW a \in Addr
        PROVE  Cardinality(Dialers(a)) = IF a \in dialing THEN 1 ELSE 0
    <3>1. CASE a \in dialing
      BY IInv, <3>1, FS_Singleton DEF IInv, OneDialer
    <3>2. CASE a \notin dialing
      BY IInv, <3>2, FS_EmptySet DEF IInv, OneDialer
    <3>3. QED
      BY <3>1, <3>2
  <2>2. QED
    BY IInv, <2>1 DEF IInv, SlotsInv, DialsCounted, Dialers, Holders
<1>2. QED
  BY <1>1, Invariance, PTL

\* A call that reached the peer by any of its addresses resets the back-off,
\* whatever became of the others.
THEOREM SuccessNeverPunished == Spec => SuccessCounts
<1>1. ASSUME IInv, [Next]_vars
      PROVE  [\A c \in Caller : Return(c) /\ At(c, {"ok"}) # {} =>
                \A p \in target[c] : delay'[p] <= delay[p]]_vars
  <2>1. ASSUME NEW c \in Caller, Return(c), At(c, {"ok"}) # {},
               NEW p \in target[c]
        PROVE  delay'[p] <= delay[p]
    <3>1. Reset(target[c])
      BY <2>1 DEF Return, Returned
    <3>2. p \in Peer /\ delay[p] \in Nat
      BY IInv, DialerAssumption DEF IInv, Types
    <3>3. delay'[p] = 0
      BY <3>1, <3>2 DEF Reset
    <3>4. QED
      BY <3>2, <3>3
  <2>2. QED
    BY <2>1
<1>2. QED
  BY <1>1, Invariance, PTL DEF Spec, SuccessCounts
=============================================================================
