------------------------------ MODULE LocalProofs -----------------------------
(***************************************************************************)
(* The components that MCLocal puts side by side, for any number of        *)
(* subscribers, senders and neighbours and for any times that satisfy      *)
(* MCLocal's assumptions: each has an inductive invariant of its own, and  *)
(* none touches the state of another.                                      *)
(***************************************************************************)
EXTENDS MCLocal, Integers, Sequences, FiniteSetTheorems, SequenceTheorems,
        WellFoundedInduction, TLAPS

----------------------------------------------------------------------------
(* The node's lifecycle.                                                   *)

\* The flags.
NodeFlags ==
    /\ crashed \in BOOLEAN /\ closed \in BOOLEAN /\ cancelled \in BOOLEAN
    /\ unmap \in BOOLEAN /\ held \in BOOLEAN /\ mapped \in BOOLEAN
    /\ leaked \in BOOLEAN /\ unsaved \in BOOLEAN

\* The rest of the type invariant.
NodeShapes ==
    /\ main \in {"run", "cancel", "chans", "unmap", "peers", "save", "exit"}
    /\ events \subseteq Sub /\ doomed \subseteq Sub
    /\ chan \in [Sub -> {"none", "open", "closed"}]
    /\ buf \in [Sub -> 0..Buffer]
    /\ todo \in [Emitter -> SUBSET Sub]
    /\ nat \in {"idle", "adding", "added", "undo", "loop", "renewing", "done"}

\* Close has begun once main has left "run"; what it has taken it has until it
\* undoes the mapping; a prober that renews works for a node that can undo the
\* mapping, or that has closed.
NodeOwner ==
    /\ closed <=> main # "run"
    /\ held => main \in {"cancel", "chans", "unmap"}
    /\ nat \in {"loop", "renewing"} /\ ~closed => unmap
    /\ Node!MappingOwned

NodeInv == NodeFlags /\ NodeShapes /\ NodeOwner

\* A node that starts has no mapping.
LEMMA NodeInit == Node!Init => NodeInv
<1> SUFFICES ASSUME Node!Init PROVE NodeInv
  OBVIOUS
<1>1. NodeFlags
  BY DEF Node!Init, NodeFlags
<1>2. NodeShapes
  <2>1. buf \in [Sub -> 0..Buffer]
    BY BufferAssumption DEF Node!Init
  <2>2. QED
    BY <2>1 DEF Node!Init, NodeShapes
<1>3. NodeOwner
  BY DEF Node!Init, NodeOwner, Node!MappingOwned
<1>4. QED
  BY <1>1, <1>2, <1>3 DEF NodeInv

\* A step that only touches the event channels.
LEMMA EventStep ==
    ASSUME NodeInv, UNCHANGED <<Node!nodeVars, Node!natVars>>,
           crashed' \in BOOLEAN, NodeShapes'
    PROVE  NodeInv'
<1>1. NodeFlags'
  BY DEF NodeInv, NodeFlags, Node!nodeVars, Node!natVars
<1>2. NodeOwner'
  BY DEF NodeInv, NodeOwner, Node!MappingOwned, Node!nodeVars, Node!natVars
<1>3. QED
  BY <1>1, <1>2 DEF NodeInv

\* A subscriber comes, or takes an event.
LEMMA SubscribeStep ==
    ASSUME NodeInv, NEW s \in Sub, Node!Subscribe(s) \/ Node!Consume(s)
    PROVE  NodeInv'
<1>1. NodeShapes /\ NodeFlags
  BY DEF NodeInv
<1>2. NodeShapes'
  BY <1>1, BufferAssumption
  DEF NodeShapes, Node!Subscribe, Node!Consume, Node!nodeVars, Node!natVars
<1>3. QED
  BY <1>1, <1>2, EventStep DEF NodeFlags, Node!Subscribe, Node!Consume

\* A goroutine emits an event, or sends it to one channel.
LEMMA EmitStep ==
    ASSUME NodeInv, NEW g \in Emitter,
           Node!Emit(g) \/ \E s \in Sub : Node!Send(g, s)
    PROVE  NodeInv'
<1>1. NodeShapes /\ NodeFlags
  BY DEF NodeInv
<1>2. CASE Node!Emit(g)
  <2>1. NodeShapes'
    BY <1>1, <1>2 DEF NodeShapes, Node!Emit, Node!nodeVars, Node!natVars
  <2>2. QED
    BY <1>1, <1>2, <2>1, EventStep DEF NodeFlags, Node!Emit
<1>3. ASSUME NEW s \in Sub, Node!Send(g, s)
      PROVE  NodeInv'
  <2>1. buf' \in [Sub -> 0..Buffer]
    BY <1>1, <1>3, BufferAssumption DEF NodeShapes, Node!Send
  <2>2. NodeShapes'
    BY <1>1, <1>3, <2>1 DEF NodeShapes, Node!Send, Node!nodeVars, Node!natVars
  <2>3. QED
    BY <1>1, <1>3, <2>2, EventStep DEF NodeFlags, Node!Send
<1>4. QED
  BY <1>2, <1>3

\* The prober's steps, and the end of a lease.
LEMMA ProberStep ==
    ASSUME NodeInv,
           \/ Node!MapTCP \/ Node!Mapped \/ Node!Handover \/ Node!Undo
           \/ Node!RenewLoop \/ Node!Renew \/ Node!Expire
    PROVE  NodeInv'
<1>1. NodeShapes /\ NodeFlags
  BY DEF NodeInv
<1>2. UNCHANGED <<Node!nodeVars, Node!eventVars>>
  BY DEF Node!MapTCP, Node!Mapped, Node!Handover, Node!Undo, Node!RenewLoop,
         Node!Renew, Node!Expire
<1>3. NodeShapes'
  BY <1>1, <1>2
  DEF NodeShapes, Node!nodeVars, Node!eventVars, Node!MapTCP, Node!Mapped,
      Node!Handover, Node!Undo, Node!RenewLoop, Node!Renew, Node!Expire
<1>4. NodeFlags'
  BY <1>1, <1>2
  DEF NodeFlags, Node!nodeVars, Node!eventVars, Node!MapTCP, Node!Mapped,
      Node!Handover, Node!Undo, Node!Cleanup, Node!RenewLoop, Node!Renew,
      Node!Expire
<1>5. NodeOwner'
  <2>1. CASE Node!MapTCP
    BY <1>1, <2>1
    DEF NodeInv, NodeFlags, NodeOwner, Node!MappingOwned, Node!MapTCP,
        Node!nodeVars, Node!eventVars
  <2>2. CASE Node!Mapped
    BY <1>1, <2>2
    DEF NodeInv, NodeFlags, NodeOwner, Node!MappingOwned, Node!Mapped,
        Node!nodeVars, Node!eventVars
  <2>3. CASE Node!Handover
    BY <1>1, <2>3
    DEF NodeInv, NodeFlags, NodeOwner, Node!MappingOwned, Node!Handover,
        Node!nodeVars, Node!eventVars
  <2>4. CASE Node!Undo
    BY <1>1, <2>4
    DEF NodeInv, NodeFlags, NodeOwner, Node!MappingOwned, Node!Undo,
        Node!Cleanup,
        Node!nodeVars, Node!eventVars
  <2>5. CASE Node!RenewLoop
    BY <1>1, <2>5
    DEF NodeInv, NodeFlags, NodeOwner, Node!MappingOwned, Node!RenewLoop,
        Node!nodeVars, Node!eventVars
  <2>6. CASE Node!Renew
    BY <1>1, <2>6
    DEF NodeInv, NodeFlags, NodeOwner, Node!MappingOwned, Node!Renew,
        Node!nodeVars, Node!eventVars
  <2>7. CASE Node!Expire
    BY <1>1, <2>7
    DEF NodeInv, NodeFlags, NodeOwner, Node!MappingOwned, Node!Expire,
        Node!nodeVars, Node!eventVars
  <2>8. QED
    BY <2>1, <2>2, <2>3, <2>4, <2>5, <2>6, <2>7
<1>6. QED
  BY <1>3, <1>4, <1>5 DEF NodeInv

\* Main's steps: a command, and Close.
LEMMA MainStep ==
    ASSUME NodeInv, Node!SetNick \/ Node!Close \/ Node!Closing
    PROVE  NodeInv'
<1>1. NodeShapes /\ NodeFlags
  BY DEF NodeInv
<1>2. NodeShapes'
  BY <1>1
  DEF NodeShapes, Node!eventVars, Node!natVars, Node!SetNick, Node!Close,
      Node!Closing, Node!Cancel, Node!CloseChannel, Node!Unmap, Node!CloseRest,
      Node!SaveIdentity
<1>3. NodeFlags'
  BY <1>1
  DEF NodeFlags, Node!eventVars, Node!natVars, Node!SetNick, Node!Close,
      Node!Closing, Node!Cancel, Node!CloseChannel, Node!Unmap, Node!Cleanup,
      Node!CloseRest, Node!SaveIdentity
<1>4. NodeOwner'
  <2>1. CASE Node!SetNick
    BY <1>1, <2>1
    DEF NodeInv, NodeFlags, NodeOwner, Node!MappingOwned, Node!SetNick,
        Node!natVars, Node!eventVars
  <2>2. CASE Node!Close
    BY <1>1, <2>2
    DEF NodeInv, NodeFlags, NodeOwner, Node!MappingOwned, Node!Close,
        Node!natVars, Node!eventVars
  <2>3. CASE Node!Cancel
    BY <1>1, <2>3
    DEF NodeInv, NodeFlags, NodeOwner, Node!MappingOwned, Node!Cancel,
        Node!natVars, Node!eventVars
  <2>4. CASE Node!CloseChannel
    BY <1>1, <2>4
    DEF NodeInv, NodeFlags, NodeOwner, Node!MappingOwned, Node!CloseChannel,
        Node!natVars, Node!eventVars
  <2>5. CASE Node!Unmap
    BY <1>1, <2>5
    DEF NodeInv, NodeFlags, NodeOwner, Node!MappingOwned, Node!Unmap,
        Node!Cleanup,
        Node!natVars, Node!eventVars
  <2>6. CASE Node!CloseRest
    BY <1>1, <2>6
    DEF NodeInv, NodeFlags, NodeOwner, Node!MappingOwned, Node!CloseRest,
        Node!natVars, Node!eventVars
  <2>7. CASE Node!SaveIdentity
    BY <1>1, <2>7
    DEF NodeInv, NodeFlags, NodeOwner, Node!MappingOwned, Node!SaveIdentity,
        Node!natVars, Node!eventVars
  <2>8. QED
    BY <2>1, <2>2, <2>3, <2>4, <2>5, <2>6, <2>7 DEF Node!Closing
<1>5. QED
  BY <1>2, <1>3, <1>4 DEF NodeInv

\* Every step of the lifecycle preserves NodeInv.
LEMMA NodeStep == NodeInv /\ [Node!Next]_nodeVars => NodeInv'
<1> SUFFICES ASSUME NodeInv, [Node!Next]_nodeVars
             PROVE  NodeInv'
  OBVIOUS
<1>1. CASE Node!Next
  BY <1>1, SubscribeStep, EmitStep, ProberStep, MainStep DEF Node!Next
<1>2. CASE UNCHANGED nodeVars
  BY <1>2
  DEF NodeInv, NodeShapes, NodeFlags, NodeOwner, Node!MappingOwned, nodeVars
<1>3. QED
  BY <1>1, <1>2

----------------------------------------------------------------------------
(* A session's timers.                                                     *)

\* The type invariant: what is not a number ...
SessionFlags ==
    /\ open \in BOOLEAN /\ ticked \in BOOLEAN
    /\ why \in {"no", "idle", "malformed", "write"}
    /\ remote \in {"well", "silent", "garbled"}

\* ... and the numbers.
SessionTypes ==
    /\ age \in Nat /\ armed \in 0..IdleAfter
    /\ tick \in 1..Every /\ blocked \in 0..WriteWait + 1
    /\ malformed \in 0..Tolerated
    /\ ping \in 0..Delay + 1 /\ pong \in 0..Delay + 1
    /\ ponged \in 0..PongGap

\* Only garbage moves the deadline alone, only a silent remote blocks the write
\* loop, and the timer comes before the session is too old.
SessionBounds ==
    /\ remote # "garbled" => armed = age
    /\ remote # "silent" => blocked = 0
    /\ age <= IdleAfter + Every
    /\ open => malformed < Tolerated
    /\ ~ticked /\ open => age + tick <= IdleAfter + Every

\* What keeps a session with a remote that is well from growing old: nothing is
\* under way and the timer is due in time, or a ping or a pong is and will be
\* there in time; a ping that AllowPong ignores follows a pong that has reset
\* the age or is about to.
Attended ==
    /\ open
    /\ ticked => tick = Every /\ ping = 0 /\ pong = 0 /\ age < 2 * Every
    /\ ~ticked /\ ping = 0 /\ pong = 0 => age + tick < 2 * Every
    /\ ping > 0 => ping + tick = Every + 1 /\ age + 1 < 2 * Every + ping
    /\ pong > 0 => /\ Every + 1 <= tick + pong + Delay
                   /\ age + 1 < 2 * Every + Delay + pong
    /\ ponged < PongGap /\ pong = 0 => age <= ponged

SessionInv ==
    /\ SessionFlags /\ SessionTypes /\ SessionBounds
    /\ remote = "well" => Attended

\* A session starts with the timer a period away.
LEMMA SessionInit == Session!Init => SessionInv
<1> SUFFICES ASSUME Session!Init PROVE SessionInv
  OBVIOUS
<1>1. SessionFlags
  BY DEF Session!Init, SessionFlags
<1>2. SessionTypes
  BY TimerAssumption DEF Session!Init, SessionTypes
<1>3. SessionBounds
  BY TimerAssumption DEF Session!Init, SessionBounds
<1>4. Attended
  BY TimerAssumption DEF Session!Init, Attended
<1>5. QED
  BY <1>1, <1>2, <1>3, <1>4 DEF SessionInv

\* A session with a remote that is well has time left.
LEMMA NotIdle ==
    ASSUME SessionInv, remote = "well"
    PROVE  open /\ age < IdleAfter /\ armed < IdleAfter /\ blocked = 0
  BY TimerAssumption DEF SessionInv, SessionTypes, SessionBounds, Attended

\* A malformed frame.
LEMMA MalformedStep ==
    ASSUME SessionInv, Session!Malformed
    PROVE  SessionInv'
<1>1. SessionFlags'
  BY DEF SessionInv, SessionFlags, Session!Malformed, Session!Ended
<1>2. /\ open /\ malformed' = malformed + 1 /\ armed' = 0 /\ remote = "garbled"
      /\ malformed' >= Tolerated => ~open'
      /\ UNCHANGED <<age, tick, ticked, blocked, ping, pong, ponged, remote>>
  BY DEF Session!Malformed, Session!Ended
<1>3. SessionTypes' /\ SessionBounds'
  BY <1>2, TimerAssumption DEF SessionInv, SessionTypes, SessionBounds
<1>4. ASSUME remote' = "well"
      PROVE  Attended'
  BY <1>4, NotIdle, TimerAssumption
  DEF SessionInv, SessionFlags, SessionTypes, Attended, Session!Malformed,
      Session!Ended
<1>5. QED
  BY <1>1, <1>2, <1>3, <1>4 DEF SessionInv

\* A good frame.
LEMMA ChatStep ==
    ASSUME SessionInv, Session!Chat
    PROVE  SessionInv'
<1>1. SessionFlags'
  BY DEF SessionInv, SessionFlags, Session!Chat, Session!Frame
<1>2. SessionTypes'
  BY TimerAssumption
  DEF SessionInv, SessionTypes, SessionFlags, Session!Chat, Session!Frame
<1>3. SessionBounds'
  BY TimerAssumption
  DEF SessionInv, SessionFlags, SessionTypes, SessionBounds, Session!Chat,
      Session!Frame
<1>4. ASSUME remote' = "well"
      PROVE  Attended'
  BY <1>4, NotIdle, TimerAssumption
  DEF SessionInv, SessionFlags, SessionTypes, Attended, Session!Chat,
      Session!Frame
<1>5. QED
  BY <1>1, <1>2, <1>3, <1>4 DEF SessionInv

\* A pong.
LEMMA PongStep ==
    ASSUME SessionInv, Session!Pong
    PROVE  SessionInv'
<1>1. SessionFlags'
  BY DEF SessionInv, SessionFlags, Session!Pong, Session!Frame
<1>2. SessionTypes'
  BY TimerAssumption
  DEF SessionInv, SessionTypes, SessionFlags, Session!Pong, Session!Frame
<1>3. SessionBounds'
  BY TimerAssumption
  DEF SessionInv, SessionFlags, SessionTypes, SessionBounds, Session!Pong,
      Session!Frame
<1>4. ASSUME remote' = "well"
      PROVE  Attended'
  BY <1>4, NotIdle, TimerAssumption
  DEF SessionInv, SessionFlags, SessionTypes, Attended, Session!Pong,
      Session!Frame
<1>5. QED
  BY <1>1, <1>2, <1>3, <1>4 DEF SessionInv

\* The read deadline.
LEMMA ReadTimeoutStep ==
    ASSUME SessionInv, Session!ReadTimeout
    PROVE  SessionInv'
<1>1. SessionFlags'
  BY DEF SessionInv, SessionFlags, Session!ReadTimeout, Session!Ended
<1>2. SessionTypes'
  BY TimerAssumption
  DEF SessionInv, SessionTypes, SessionFlags, Session!ReadTimeout,
      Session!Ended
<1>3. SessionBounds'
  BY TimerAssumption
  DEF SessionInv, SessionFlags, SessionTypes, SessionBounds,
      Session!ReadTimeout, Session!Ended
<1>4. ASSUME remote' = "well"
      PROVE  Attended'
  BY <1>4, NotIdle, TimerAssumption
  DEF SessionInv, SessionFlags, SessionTypes, Attended, Session!ReadTimeout,
      Session!Ended
<1>5. QED
  BY <1>1, <1>2, <1>3, <1>4 DEF SessionInv

\* The ping timer.
LEMMA TickStep ==
    ASSUME SessionInv, Session!Tick
    PROVE  SessionInv'
<1>1. SessionFlags'
  BY DEF SessionInv, SessionFlags, Session!Tick, Session!Ended
<1>2. /\ open /\ ticked /\ blocked = 0 /\ ~ticked'
      /\ UNCHANGED <<age, armed, tick, malformed, pong, ponged, remote>>
  BY DEF Session!Tick
<1>3. /\ age > IdleAfter => ~open' /\ UNCHANGED <<ping, blocked>>
      /\ ~(age > IdleAfter) =>
           /\ open'
           /\ \/ age < Every /\ UNCHANGED <<ping, blocked>>
              \/ age >= Every /\ remote # "silent" /\ ping' = 1 /\ UNCHANGED blocked
              \/ remote = "silent" /\ blocked' \in {0, 1} /\ UNCHANGED ping
  BY <1>2 DEF Session!Tick, Session!Ended
<1>4. SessionTypes'
  <2>1. ping' \in {ping, 1} /\ blocked' \in {0, 1}
    BY <1>2, <1>3
  <2>2. QED
    BY <1>2, <2>1, TimerAssumption DEF SessionInv, SessionTypes
<1>5. SessionBounds'
  BY <1>2, <1>3, TimerAssumption DEF SessionInv, SessionTypes, SessionBounds
<1>6. ASSUME remote' = "well"
      PROVE  Attended'
  <2>1. remote = "well" /\ age < IdleAfter /\ Attended /\ ticked
    BY <1>2, <1>6, NotIdle DEF SessionInv
  <2>2. age < 2 * Every /\ ping = 0 /\ pong = 0 /\ tick = Every
    BY <2>1 DEF Attended
  <2>3. ~(age > IdleAfter)
    BY <2>1, TimerAssumption DEF SessionInv, SessionTypes
  <2>4. /\ open'
        /\ (age < Every /\ ping' = ping) \/ (age >= Every /\ ping' = 1)
    BY <1>3, <2>1, <2>3
  <2>5. QED
    BY <1>2, <2>1, <2>2, <2>4, TimerAssumption
    DEF SessionInv, SessionTypes, Attended
<1>7. QED
  BY <1>1, <1>4, <1>5, <1>6 DEF SessionInv

\* A write that blocks.
LEMMA BlockStep ==
    ASSUME SessionInv, Session!Block
    PROVE  SessionInv'
<1>1. SessionFlags'
  BY DEF SessionInv, SessionFlags, Session!Block
<1>2. SessionTypes'
  BY TimerAssumption DEF SessionInv, SessionTypes, SessionFlags, Session!Block
<1>3. SessionBounds'
  BY TimerAssumption
  DEF SessionInv, SessionFlags, SessionTypes, SessionBounds, Session!Block
<1>4. ASSUME remote' = "well"
      PROVE  Attended'
  BY <1>4, NotIdle, TimerAssumption
  DEF SessionInv, SessionFlags, SessionTypes, Attended, Session!Block
<1>5. QED
  BY <1>1, <1>2, <1>3, <1>4 DEF SessionInv

\* The write deadline.
LEMMA WriteTimeoutStep ==
    ASSUME SessionInv, Session!WriteTimeout
    PROVE  SessionInv'
<1>1. SessionFlags'
  BY DEF SessionInv, SessionFlags, Session!WriteTimeout, Session!Ended
<1>2. SessionTypes'
  BY TimerAssumption
  DEF SessionInv, SessionTypes, SessionFlags, Session!WriteTimeout,
      Session!Ended
<1>3. SessionBounds'
  BY TimerAssumption
  DEF SessionInv, SessionFlags, SessionTypes, SessionBounds,
      Session!WriteTimeout, Session!Ended
<1>4. ASSUME remote' = "well"
      PROVE  Attended'
  BY <1>4, NotIdle, TimerAssumption
  DEF SessionInv, SessionFlags, SessionTypes, Attended, Session!WriteTimeout,
      Session!Ended
<1>5. QED
  BY <1>1, <1>2, <1>3, <1>4 DEF SessionInv

\* A ping arrives.
LEMMA AnswerStep ==
    ASSUME SessionInv, Session!Answer
    PROVE  SessionInv'
<1>1. SessionFlags'
  BY DEF SessionInv, SessionFlags, Session!Answer
<1>2. SessionTypes'
  BY TimerAssumption DEF SessionInv, SessionTypes, SessionFlags, Session!Answer
<1>3. SessionBounds'
  BY TimerAssumption
  DEF SessionInv, SessionFlags, SessionTypes, SessionBounds, Session!Answer
<1>4. ASSUME remote' = "well"
      PROVE  Attended'
  BY <1>4, NotIdle, TimerAssumption
  DEF SessionInv, SessionFlags, SessionTypes, Attended, Session!Answer
<1>5. QED
  BY <1>1, <1>2, <1>3, <1>4 DEF SessionInv

\* The remote fails.
LEMMA FaultStep ==
    ASSUME SessionInv, Session!Fault
    PROVE  SessionInv'
<1>1. SessionFlags'
  BY DEF SessionInv, SessionFlags, Session!Fault
<1>2. SessionTypes'
  BY TimerAssumption DEF SessionInv, SessionTypes, SessionFlags, Session!Fault
<1>3. SessionBounds'
  BY TimerAssumption
  DEF SessionInv, SessionFlags, SessionTypes, SessionBounds, Session!Fault
<1>4. ASSUME remote' = "well"
      PROVE  Attended'
  BY <1>4, NotIdle, TimerAssumption
  DEF SessionInv, SessionFlags, SessionTypes, Attended, Session!Fault
<1>5. QED
  BY <1>1, <1>2, <1>3, <1>4 DEF SessionInv

\* Time goes on.
LEMMA ElapseStep ==
    ASSUME SessionInv, Session!Elapse
    PROVE  SessionInv'
<1>1. SessionFlags'
  BY DEF SessionInv, SessionFlags, Session!Elapse, Session!Grown
<1>2. SessionTypes'
  BY TimerAssumption
  DEF SessionInv, SessionTypes, Session!Elapse, Session!Grown
<1>3. /\ armed < IdleAfter /\ ping <= Delay /\ pong <= Delay
      /\ age' = age + 1 /\ armed' = armed + 1
      /\ tick' = IF tick = 1 THEN Every ELSE tick - 1
      /\ ping' = IF ping = 0 THEN 0 ELSE ping + 1
      /\ pong' = IF pong = 0 THEN 0 ELSE pong + 1
      /\ ponged' = IF ponged < PongGap THEN ponged + 1 ELSE ponged
      /\ blocked = 0 => blocked' = 0
      /\ UNCHANGED <<malformed, remote>>
  BY DEF Session!Elapse, Session!Grown
<1>4. /\ open /\ open' /\ (ticked => blocked # 0)
      /\ ticked' <=> ticked \/ tick = 1
  BY DEF Session!Elapse
<1>5. SessionBounds'
  BY <1>3, <1>4, TimerAssumption
  DEF SessionInv, SessionTypes, SessionBounds
<1>6. ASSUME remote' = "well"
      PROVE  Attended'
  <2>1. ~ticked /\ Attended
    BY <1>3, <1>4, <1>6, NotIdle DEF SessionInv
  <2>2. QED
    BY <1>3, <1>4, <2>1, TimerAssumption DEF SessionInv, SessionTypes, Attended
<1>7. QED
  BY <1>1, <1>2, <1>5, <1>6 DEF SessionInv

\* Every step of a session preserves SessionInv.
LEMMA SessionStep == SessionInv /\ [Session!Next]_sessionVars => SessionInv'
<1> SUFFICES ASSUME SessionInv, [Session!Next]_sessionVars
             PROVE  SessionInv'
  OBVIOUS
<1>1. CASE Session!Next
  BY <1>1, MalformedStep, ChatStep, PongStep, ReadTimeoutStep, TickStep,
     BlockStep, WriteTimeoutStep, AnswerStep, FaultStep, ElapseStep
  DEF Session!Next
<1>2. CASE UNCHANGED sessionVars
  BY <1>2
  DEF SessionInv, SessionFlags, SessionTypes, SessionBounds, Attended,
      sessionVars
<1>3. QED
  BY <1>1, <1>2

----------------------------------------------------------------------------
(* The table of neighbours.                                                *)

\* An entry's time is the time of its peer's last packet.
LanInv ==
    /\ Lan!TypeOK
    /\ stamp = heard
    /\ Lan!StaysListed

\* Discovery counts as this module does.
LEMMA LanCardinality == \A S : Lan!Cardinality(S) = Cardinality(S)
  BY DEF Lan!Cardinality, Cardinality

\* Nobody has been heard at the start.
LEMMA LanInit == Lan!Init => LanInv
<1> SUFFICES ASSUME Lan!Init PROVE LanInv
  OBVIOUS
<1>1. Lan!TypeOK
  BY LanCardinality, LanAssumption, FS_EmptySet DEF Lan!Init, Lan!TypeOK
<1>2. Lan!StaysListed
  BY LanCardinality, LanAssumption DEF Lan!Init, Lan!StaysListed
<1>3. QED
  BY <1>1, <1>2 DEF Lan!Init, LanInv

\* Sets of neighbours are finite, and the smaller one has fewer.
LEMMA Neighbours ==
    ASSUME NEW S \in SUBSET Neighbour, NEW T \in SUBSET Neighbour, T \subseteq S
    PROVE  /\ IsFiniteSet(S) /\ Cardinality(S) \in Nat
           /\ Cardinality(T) \in Nat /\ Cardinality(T) <= Cardinality(S)
<1>1. IsFiniteSet(S)
  BY LanAssumption, FS_Subset
<1>2. QED
  BY <1>1, FS_Subset, FS_CardinalityType

\* The peers other than p heard since p was.
HeardSince(p, h) == {q \in Neighbour \ {p} : h[q] <= h[p]}

\* A table that keeps whoever is young and was in it, after a step in which the
\* peers heard since p are at least those before.
LEMMA Outlived ==
    ASSUME NEW p \in Neighbour, NEW h, NEW k,
           HeardSince(p, h) \subseteq HeardSince(p, k),
           Cardinality(HeardSince(p, h)) >= MaxSeen
    PROVE  Cardinality(HeardSince(p, k)) >= MaxSeen
<1>1. Cardinality(HeardSince(p, h)) <= Cardinality(HeardSince(p, k))
  BY Neighbours DEF HeardSince
<1>2. QED
  BY <1>1, Neighbours, LanAssumption DEF HeardSince

\* What pruneSeenLocked leaves of a table with at most one entry too many.
LEMMA KeptFacts ==
    ASSUME NEW in \in SUBSET Neighbour, NEW a \in [Neighbour -> 0..Life],
           Cardinality(in) <= MaxSeen + 1, NEW out \in Lan!kept(in, a)
    PROVE  /\ out \subseteq in /\ Cardinality(out) <= MaxSeen
           /\ \A p \in in \ out :
                a[p] < Life => Cardinality(HeardSince(p, a)) >= MaxSeen
<1> DEFINE young == {p \in in : a[p] < Life}
<1>1. /\ IsFiniteSet(young) /\ Cardinality(young) \in Nat
      /\ Cardinality(young) <= MaxSeen + 1
  BY Neighbours, LanAssumption
<1>2. CASE Cardinality(young) <= MaxSeen
  BY LanCardinality, <1>2 DEF Lan!kept
<1>3. CASE ~(Cardinality(young) <= MaxSeen)
  <2>1. PICK x \in young : out = young \ {x} /\ \A y \in young : a[x] >= a[y]
    BY LanCardinality, <1>3 DEF Lan!kept
  <2>2. /\ Cardinality(out) = Cardinality(young) - 1
        /\ Cardinality(out) = MaxSeen
    <3>1. Cardinality(young \ {x}) = Cardinality(young) - 1
      BY <1>1, FS_RemoveElement
    <3>2. QED
      BY <1>1, <1>3, <2>1, <3>1, LanAssumption
  <2>3. out \subseteq HeardSince(x, a)
    BY <2>1 DEF HeardSince
  <2>4. Cardinality(HeardSince(x, a)) >= MaxSeen
    BY <2>2, <2>3, Neighbours DEF HeardSince
  <2>5. \A p \in in \ out : a[p] < Life => p = x
    BY <2>1
  <2>6. QED
    BY <2>1, <2>2, <2>4, <2>5, LanAssumption
<1>4. QED
  BY <1>2, <1>3

\* The read loop handles a packet.
LEMMA HandleStep ==
    ASSUME LanInv, Lan!Handle
    PROVE  LanInv'
<1>1. PICK p \in packet :
        /\ packet' = {}
        /\ IF p = Self THEN UNCHANGED <<seen, stamp, heard>>
           ELSE /\ stamp' = Lan!stamped(p)
                /\ seen' \in Lan!kept(seen \cup {p}, stamp')
                /\ heard' = [heard EXCEPT ![p] = 0]
        /\ UNCHANGED disc
  BY DEF Lan!Handle
<1>2. packet' \subseteq Neighbour \cup {Self} /\ Cardinality(packet') <= 1
  BY <1>1, FS_EmptySet
<1>3. CASE p = Self
  BY LanCardinality, <1>1, <1>2, <1>3 DEF LanInv, Lan!TypeOK, Lan!StaysListed
<1>4. CASE p # Self
  <2>1. /\ p \in Neighbour
        /\ heard' = [heard EXCEPT ![p] = 0] /\ stamp' = heard'
        /\ heard' \in [Neighbour -> 0..Life]
        /\ heard \in [Neighbour -> 0..Life] /\ seen \subseteq Neighbour
    <3>1. /\ packet \subseteq Neighbour \cup {Self} /\ stamp = heard
          /\ heard \in [Neighbour -> 0..Life] /\ seen \subseteq Neighbour
      BY DEF LanInv, Lan!TypeOK
    <3>2. p \in Neighbour
      BY <1>4, <3>1
    <3>3. /\ stamp' = [stamp EXCEPT ![p] = 0]
          /\ heard' = [heard EXCEPT ![p] = 0]
      BY <1>1, <1>4 DEF Lan!stamped
    <3>4. QED
      BY <3>1, <3>2, <3>3, LanAssumption
  <2>2. Cardinality(seen \cup {p}) <= MaxSeen + 1
    <3>1. IsFiniteSet(seen) /\ Cardinality(seen) \in Nat
      BY <2>1, Neighbours
    <3>2. Cardinality(seen) <= MaxSeen
      BY LanCardinality DEF LanInv, Lan!TypeOK
    <3>3. /\ Cardinality(seen \cup {p}) <= Cardinality(seen) + 1
          /\ Cardinality(seen \cup {p}) \in Nat
      BY <3>1, FS_AddElement
    <3>4. QED
      BY <3>1, <3>2, <3>3, LanAssumption
  <2>3. /\ seen' \subseteq seen \cup {p} /\ Cardinality(seen') <= MaxSeen
        /\ \A q \in (seen \cup {p}) \ seen' :
             heard'[q] < Life => Cardinality(HeardSince(q, heard')) >= MaxSeen
    <3>1. seen' \in Lan!kept(seen \cup {p}, heard')
      BY <1>1, <1>4, <2>1
    <3>2. QED
      <4> DEFINE in == seen \cup {p}
      <4>1. in \in SUBSET Neighbour /\ Cardinality(in) <= MaxSeen + 1
        BY <2>1, <2>2
      <4>2. seen' \in Lan!kept(in, heard')
        BY <3>1
      <4> HIDE DEF in
      <4>3. /\ seen' \subseteq in /\ Cardinality(seen') <= MaxSeen
            /\ \A q \in in \ seen' :
                 heard'[q] < Life => Cardinality(HeardSince(q, heard')) >= MaxSeen
        BY <2>1, <4>1, <4>2, KeptFacts
      <4>4. QED
        BY <4>3 DEF in
  <2>4. ASSUME NEW q \in Neighbour, heard'[q] < Life, q \notin seen'
        PROVE  Cardinality(HeardSince(q, heard')) >= MaxSeen
    <3>1. CASE q \in seen \cup {p}
      BY <2>3, <2>4, <3>1
    <3>2. CASE q \notin seen \cup {p}
      <4>1. HeardSince(q, heard) \subseteq HeardSince(q, heard')
        BY <2>1, <3>2 DEF HeardSince
      <4>2. Cardinality(HeardSince(q, heard)) >= MaxSeen
        BY LanCardinality, <2>1, <2>4, <3>2
        DEF LanInv, Lan!StaysListed, HeardSince
      <4>3. QED
        BY <4>1, <4>2, Outlived
    <3>3. QED
      BY <3>1, <3>2
  <2>5. Lan!StaysListed'
    BY LanCardinality, <2>4 DEF Lan!StaysListed, HeardSince
  <2>6. Lan!TypeOK'
    BY LanCardinality, <1>1, <1>2, <2>1, <2>3 DEF LanInv, Lan!TypeOK
  <2>7. QED
    BY <2>1, <2>5, <2>6 DEF LanInv
<1>5. QED
  BY <1>3, <1>4

\* Nearby drops what has expired.
LEMMA NearbyStep ==
    ASSUME LanInv, Lan!Nearby
    PROVE  LanInv'
<1>1. seen' \subseteq seen /\ Cardinality(seen') <= MaxSeen
  BY LanCardinality, Neighbours, LanAssumption
  DEF LanInv, Lan!TypeOK, Lan!Nearby
<1>2. Lan!TypeOK'
  BY LanCardinality, <1>1 DEF LanInv, Lan!TypeOK, Lan!Nearby
<1>3. Lan!StaysListed'
  BY LanCardinality DEF LanInv, Lan!StaysListed, Lan!Nearby
<1>4. QED
  BY <1>2, <1>3 DEF LanInv, Lan!Nearby

\* Entries and peers grow old together.
LEMMA AgeStep ==
    ASSUME LanInv, Lan!Elapse
    PROVE  LanInv'
<1>1. /\ heard' = [p \in Neighbour |-> IF heard[p] < Life THEN heard[p] + 1
                                       ELSE Life]
      /\ stamp' = heard' /\ UNCHANGED <<disc, packet, seen>>
      /\ heard \in [Neighbour -> 0..Life]
  BY LanCardinality DEF LanInv, Lan!TypeOK, Lan!Elapse
<1>2. heard' \in [Neighbour -> 0..Life]
  BY <1>1, LanAssumption
<1>3. ASSUME NEW p \in Neighbour, heard'[p] < Life, p \notin seen
      PROVE  Cardinality(HeardSince(p, heard')) >= MaxSeen
  <2>1. heard[p] < Life /\ heard'[p] = heard[p] + 1
    BY <1>1, <1>3, LanAssumption
  <2>2. HeardSince(p, heard) \subseteq HeardSince(p, heard')
    BY <1>1, <2>1, LanAssumption DEF HeardSince
  <2>3. Cardinality(HeardSince(p, heard)) >= MaxSeen
    BY LanCardinality, <1>3, <2>1 DEF LanInv, Lan!StaysListed, HeardSince
  <2>4. QED
    BY <2>2, <2>3, Outlived
<1>4. Lan!StaysListed'
  BY LanCardinality, <1>1, <1>3 DEF Lan!StaysListed, HeardSince
<1>5. QED
  BY LanCardinality, <1>1, <1>2, <1>4 DEF LanInv, Lan!TypeOK

\* Every step of discovery preserves LanInv.
LEMMA LanStep == LanInv /\ [Lan!Next]_lanVars => LanInv'
<1> SUFFICES ASSUME LanInv, [Lan!Next]_lanVars
             PROVE  LanInv'
  OBVIOUS
<1>1. ASSUME NEW p \in Neighbour \cup {Self}, Lan!Read(p)
      PROVE  LanInv'
  <2>1. Cardinality(packet') <= 1
    <3>1. Cardinality({p}) = 1
      BY FS_Singleton
    <3>2. QED
      BY <1>1, <3>1 DEF Lan!Read
  <2>2. QED
    BY LanCardinality, <1>1, <2>1
    DEF LanInv, Lan!TypeOK, Lan!StaysListed, Lan!Read
<1>2. CASE Lan!Close \/ UNCHANGED lanVars
  BY LanCardinality, <1>2
  DEF LanInv, Lan!TypeOK, Lan!StaysListed, Lan!Close, lanVars
<1>3. QED
  BY <1>1, <1>2, HandleStep, NearbyStep, AgeStep DEF Lan!Next

----------------------------------------------------------------------------
(* The flood limiter.                                                      *)

\* A window h accounts for the frames let through at the times w: the last
\* stamps of h are theirs, read at most Lag earlier.
Accounts(h, w) ==
    /\ Len(w) <= Len(h) /\ Len(h) <= Limit
    /\ \A i \in 1..Len(w) : h[Len(h) - Len(w) + i] <= w[i] + Lag
    /\ \A i, j \in 1..Len(w) : i <= j => w[j] <= w[i]

Stamps == 0..Flood!Old
Recent == 0..Span - Lag

FloodInv ==
    /\ Cardinality(Flood!Keys) <= MaxKeys
    /\ call \in [Reader -> {<<>>} \cup (Key \X (0..Lag))]
    /\ hits \in [Key -> Seq(Stamps)]
    /\ passed \in [Key -> Seq(Recent)]
    /\ \A k \in Key : Accounts(hits[k], passed[k])

\* Limiter counts as this module does.
LEMMA FloodCardinality == \A S : Flood!Cardinality(S) = Cardinality(S)
  BY DEF Flood!Cardinality, Cardinality

\* A set of numbers has a least one.
LEMMA LeastIndex ==
    ASSUME NEW T \in SUBSET Nat, T # {}
    PROVE  Flood!Min(T) \in T /\ \A y \in T : Flood!Min(T) <= y
<1> DEFINE R == {ss \in Nat \X Nat : ss[1] < ss[2]}
<1>1. IsWellFoundedOn(R, Nat)
  BY NatLessThanWellFounded, Zenon DEF OpToRel
<1>2. \E x \in T : \A y \in T : ~(<<y, x>> \in R)
  <2> HIDE DEF R
  <2>1. QED
    BY <1>1, WFMin
<1>3. \A x, y \in Nat : <<y, x>> \notin R => x <= y
  OBVIOUS
<1>4. \E x \in T : \A y \in T : x <= y
  <2> HIDE DEF R
  <2>1. QED
    BY <1>2, <1>3
<1>5. QED
  BY <1>4 DEF Flood!Min

\* Since cuts off the leading stamps that are too old, and nothing else.
LEMMA SinceFacts ==
    ASSUME NEW S \in SUBSET Nat, NEW q \in Seq(S), NEW a \in Int
    PROVE  \E n \in 0..Len(q) :
             /\ Flood!Since(q, a) \in Seq(S)
             /\ Len(Flood!Since(q, a)) = Len(q) - n
             /\ \A i \in 1..Len(q) - n : Flood!Since(q, a)[i] = q[n + i]
             /\ \A i \in 1..n : q[i] > a
             /\ n < Len(q) => q[n + 1] <= a
<1> DEFINE J == {i \in 1..Len(q) : q[i] <= a}
<1>1. Len(q) \in Nat /\ \A i \in 1..Len(q) : q[i] \in S /\ q[i] \in Nat
  BY ElementOfSeq, LenProperties
<1>2. CASE J = {}
  <2>1. Flood!Since(q, a) = <<>>
    BY <1>2 DEF Flood!Since, Flood!SelectInSeq
  <2>2. \A i \in 1..Len(q) : q[i] > a
    BY <1>1, <1>2
  <2>3. <<>> \in Seq(S) /\ Len(<<>>) = 0
    BY EmptySeq
  <2>4. WITNESS Len(q) \in 0..Len(q)
  <2>5. QED
    BY <1>1, <2>1, <2>2, <2>3
<1>3. CASE J # {}
  <2> DEFINE m == Flood!Min(J)
  <2>1. m \in J /\ \A i \in J : m <= i
    <3>1. J \in SUBSET Nat
      BY <1>1
    <3> HIDE DEF J
    <3>2. QED
      BY <1>3, <3>1, LeastIndex
  <2>2. Flood!Since(q, a) = SubSeq(q, m, Len(q))
    <3>1. m # 0
      BY <1>1, <2>1
    <3>2. QED
      BY <1>3, <3>1, Zenon DEF Flood!Since, Flood!SelectInSeq
  <2> HIDE DEF m
  <2>3. /\ m \in 1..Len(q) /\ q[m] <= a
        /\ \A i \in 1..m - 1 : q[i] > a
    BY <1>1, <2>1
  <2>4. /\ SubSeq(q, m, Len(q)) \in Seq(S)
        /\ Len(SubSeq(q, m, Len(q))) = Len(q) - m + 1
        /\ \A i \in 1..Len(q) - m + 1 : SubSeq(q, m, Len(q))[i] = q[m + i - 1]
    BY <1>1, <2>3, SubSeqProperties
  <2>5. m - 1 \in 0..Len(q)
    BY <1>1, <2>3
  <2>6. WITNESS m - 1 \in 0..Len(q)
  <2>7. QED
    BY <1>1, <2>2, <2>3, <2>4
<1>4. QED
  BY <1>2, <1>3

\* What the two kinds of sequence hold.
LEMMA StampFacts ==
    ASSUME NEW h \in Seq(Stamps), NEW w \in Seq(Recent)
    PROVE  /\ Len(h) \in Nat /\ Len(w) \in Nat
           /\ \A i \in 1..Len(h) : h[i] \in Nat /\ h[i] <= Span + Lag + 1
           /\ \A i \in 1..Len(w) : w[i] \in Nat /\ w[i] <= Span - Lag
           /\ Span \in Nat /\ Lag \in Nat /\ Lag <= Span /\ Limit \in Nat
<1>1. Len(h) \in Nat /\ \A i \in 1..Len(h) : h[i] \in Stamps
  BY ElementOfSeq, LenProperties
<1>2. Len(w) \in Nat /\ \A i \in 1..Len(w) : w[i] \in Recent
  BY ElementOfSeq, LenProperties
<1>3. QED
  BY <1>1, <1>2, LimiterAssumption DEF Stamps, Recent, Flood!Old

\* Allow cuts no stamp of a frame that counts.
LEMMA PrunedWindow ==
    ASSUME NEW h \in Seq(Stamps), NEW w \in Seq(Recent), Accounts(h, w),
           NEW now \in 0..Lag
    PROVE  /\ Flood!Pruned(h, now) \in Seq(Stamps)
           /\ Accounts(Flood!Pruned(h, now), w)
           /\ Len(Flood!Pruned(h, now)) <= Len(h)
<1>a. /\ Len(h) \in Nat /\ Len(w) \in Nat
      /\ \A i \in 1..Len(h) : h[i] \in Nat /\ h[i] <= Span + Lag + 1
      /\ \A i \in 1..Len(w) : w[i] \in Nat /\ w[i] <= Span - Lag
      /\ Span \in Nat /\ Lag \in Nat /\ Lag <= Span /\ Limit \in Nat
  BY StampFacts
<1>b. /\ Len(w) <= Len(h) /\ Len(h) <= Limit
      /\ \A i \in 1..Len(w) : h[Len(h) - Len(w) + i] <= w[i] + Lag
      /\ \A i, j \in 1..Len(w) : i <= j => w[j] <= w[i]
  BY DEF Accounts
<1> DEFINE q == Flood!Pruned(h, now)
<1>1. Stamps \in SUBSET Nat /\ now + Span \in Int /\ now \in Nat
  BY LimiterAssumption DEF Stamps, Flood!Old
<1>2. PICK n \in 0..Len(h) :
        /\ q \in Seq(Stamps) /\ Len(q) = Len(h) - n
        /\ \A i \in 1..Len(h) - n : q[i] = h[n + i]
        /\ \A i \in 1..n : h[i] > now + Span
  BY <1>1, SinceFacts DEF Flood!Pruned
<1> HIDE DEF q
<1>3. n <= Len(h) - Len(w)
  <2>1. SUFFICES ASSUME Len(w) > 0, Len(h) - Len(w) + 1 <= n
                 PROVE  FALSE
    BY <1>a, <1>b
  <2>2. h[Len(h) - Len(w) + 1] <= w[1] + Lag
    BY <2>1, <1>a, <1>b
  <2>3. h[Len(h) - Len(w) + 1] > now + Span
    BY <1>2, <2>1, <1>a, <1>b
  <2>4. /\ h[Len(h) - Len(w) + 1] \in Nat /\ w[1] \in Nat
        /\ w[1] <= Span - Lag
    BY <2>1, <1>a, <1>b
  <2>5. QED
    BY <1>1, <2>2, <2>3, <2>4, <1>a
<1>4. \A i \in 1..Len(w) : q[Len(q) - Len(w) + i] = h[Len(h) - Len(w) + i]
  <2> TAKE i \in 1..Len(w)
  <2>1. Len(q) - Len(w) + i \in 1..Len(h) - n
    BY <1>2, <1>3, <1>a, <1>b
  <2>2. n + (Len(q) - Len(w) + i) = Len(h) - Len(w) + i
    BY <1>2, <1>a
  <2>3. QED
    BY <1>2, <2>1, <2>2
<1>5. Accounts(q, w)
  BY <1>2, <1>3, <1>4, <1>a, <1>b DEF Accounts
<1>6. QED
  BY <1>2, <1>5, <1>a DEF q

\* A frame that passes is accounted for.
LEMMA AllowedWindow ==
    ASSUME NEW h \in Seq(Stamps), NEW w \in Seq(Recent), Accounts(h, w),
           NEW now \in 0..Lag, Len(h) < Limit
    PROVE  /\ Append(h, now) \in Seq(Stamps) /\ Append(w, 0) \in Seq(Recent)
           /\ Accounts(Append(h, now), Append(w, 0))
<1>a. /\ Len(h) \in Nat /\ Len(w) \in Nat
      /\ \A i \in 1..Len(h) : h[i] \in Nat /\ h[i] <= Span + Lag + 1
      /\ \A i \in 1..Len(w) : w[i] \in Nat /\ w[i] <= Span - Lag
      /\ Span \in Nat /\ Lag \in Nat /\ Lag <= Span /\ Limit \in Nat
  BY StampFacts
<1>b. /\ Len(w) <= Len(h) /\ Len(h) <= Limit
      /\ \A i \in 1..Len(w) : h[Len(h) - Len(w) + i] <= w[i] + Lag
      /\ \A i, j \in 1..Len(w) : i <= j => w[j] <= w[i]
  BY DEF Accounts
<1>1. now \in Stamps /\ 0 \in Recent /\ now \in Nat /\ now <= Lag
  BY LimiterAssumption DEF Stamps, Recent, Flood!Old
<1> DEFINE g == Append(h, now)
           v == Append(w, 0)
<1>2. /\ g \in Seq(Stamps) /\ Len(g) = Len(h) + 1
      /\ \A i \in 1..Len(h) : g[i] = h[i]
      /\ g[Len(h) + 1] = now
  BY <1>1, AppendProperties
<1>3. /\ v \in Seq(Recent) /\ Len(v) = Len(w) + 1
      /\ \A i \in 1..Len(w) : v[i] = w[i]
      /\ v[Len(w) + 1] = 0
  BY <1>1, AppendProperties
<1> HIDE DEF g, v
<1>4. \A i \in 1..Len(v) : g[Len(g) - Len(v) + i] <= v[i] + Lag
  <2> TAKE i \in 1..Len(v)
  <2>1. CASE i = Len(w) + 1
    BY <1>1, <1>2, <1>3, <2>1, <1>a, <1>b
  <2>2. CASE i # Len(w) + 1
    <3>1. i \in 1..Len(w) /\ Len(h) - Len(w) + i \in 1..Len(h)
      BY <1>3, <2>2, <1>a, <1>b
    <3>2. Len(g) - Len(v) + i = Len(h) - Len(w) + i
      BY <1>2, <1>3, <1>a
    <3>3. v[i] = w[i] /\ g[Len(h) - Len(w) + i] = h[Len(h) - Len(w) + i]
      BY <1>2, <1>3, <3>1
    <3>4. h[Len(h) - Len(w) + i] <= w[i] + Lag
      BY <3>1, <1>b
    <3>5. QED
      BY <3>2, <3>3, <3>4, Zenon
  <2>3. QED
    BY <2>1, <2>2
<1>5. ASSUME NEW i \in 1..Len(v), NEW j \in 1..Len(v), i <= j
      PROVE  v[j] <= v[i]
  <2>1. CASE j = Len(w) + 1
    <3>1. v[j] = 0
      BY <1>3, <2>1
    <3>2. v[i] \in Recent
      BY <1>3, ElementOfSeq
    <3>3. QED
      BY <3>1, <3>2 DEF Recent
  <2>2. CASE j # Len(w) + 1
    <3>1. i \in 1..Len(w) /\ j \in 1..Len(w)
      BY <1>3, <1>5, <2>2, <1>a
    <3>2. QED
      BY <1>3, <1>5, <3>1, <1>b
  <2>3. QED
    BY <2>1, <2>2
<1>6. Accounts(g, v)
  BY <1>2, <1>3, <1>4, <1>5, <1>a, <1>b DEF Accounts
<1>7. QED
  BY <1>2, <1>3, <1>6 DEF g, v

\* A sequence of which every stamp is one older.
LEMMA OlderFacts ==
    ASSUME NEW q \in Seq(Stamps)
    PROVE  /\ Flood!Older(q) \in Seq(Stamps)
           /\ Len(Flood!Older(q)) = Len(q)
           /\ \A i \in 1..Len(q) :
                Flood!Older(q)[i] = IF q[i] < Flood!Old THEN q[i] + 1
                                    ELSE Flood!Old
<1>1. /\ Len(q) \in Nat /\ DOMAIN q = 1..Len(q)
      /\ \A i \in 1..Len(q) : q[i] \in Stamps
  BY ElementOfSeq, LenProperties
<1>2. Flood!Older(q) = [i \in 1..Len(q) |-> IF q[i] < Flood!Old THEN q[i] + 1
                                             ELSE Flood!Old]
  BY <1>1 DEF Flood!Older
<1>3. Flood!Old \in Nat
  BY LimiterAssumption DEF Flood!Old
<1>4. Flood!Older(q) \in [1..Len(q) -> Stamps]
  BY <1>1, <1>2, <1>3 DEF Stamps
<1>5. Flood!Older(q) \in Seq(Stamps) /\ Len(Flood!Older(q)) = Len(q)
  BY <1>1, <1>4
<1>6. QED
  BY <1>2, <1>5

\* Time passes, and what is still to be counted is still accounted for.
LEMMA OlderWindow ==
    ASSUME NEW h \in Seq(Stamps), NEW w \in Seq(Recent), Accounts(h, w)
    PROVE  LET v == Flood!Since(Flood!Older(w), Span - Lag)
           IN  /\ Flood!Older(h) \in Seq(Stamps) /\ v \in Seq(Recent)
               /\ Accounts(Flood!Older(h), v)
<1>a. /\ Len(h) \in Nat /\ Len(w) \in Nat
      /\ \A i \in 1..Len(h) : h[i] \in Nat /\ h[i] <= Span + Lag + 1
      /\ \A i \in 1..Len(w) : w[i] \in Nat /\ w[i] <= Span - Lag
      /\ Span \in Nat /\ Lag \in Nat /\ Lag <= Span /\ Limit \in Nat
  BY StampFacts
<1>b. /\ Len(w) <= Len(h) /\ Len(h) <= Limit
      /\ \A i \in 1..Len(w) : h[Len(h) - Len(w) + i] <= w[i] + Lag
      /\ \A i, j \in 1..Len(w) : i <= j => w[j] <= w[i]
  BY DEF Accounts
<1> DEFINE u == Flood!Older(w)
           v == Flood!Since(u, Span - Lag)
           g == Flood!Older(h)
<1>1. /\ g \in Seq(Stamps) /\ Len(g) = Len(h)
      /\ \A i \in 1..Len(h) : g[i] = IF h[i] < Flood!Old THEN h[i] + 1
                                     ELSE Flood!Old
  BY OlderFacts
<1>2. \A i \in 1..Len(h) : g[i] \in Nat /\ g[i] <= h[i] + 1
  BY <1>1, <1>a DEF Flood!Old
<1>3. w \in Seq(Stamps)
  <2>1. Recent \subseteq Stamps
    BY LimiterAssumption DEF Recent, Stamps, Flood!Old
  <2>2. QED
    BY <2>1
<1>4. /\ u \in Seq(Stamps) /\ Len(u) = Len(w)
      /\ \A i \in 1..Len(w) : u[i] = w[i] + 1
  BY <1>3, OlderFacts, <1>a DEF Flood!Old
<1> HIDE DEF u, g
<1>5. PICK n \in 0..Len(u) :
        /\ v \in Seq(Stamps) /\ Len(v) = Len(u) - n
        /\ \A i \in 1..Len(u) - n : v[i] = u[n + i]
        /\ n < Len(u) => u[n + 1] <= Span - Lag
  <2>1. Stamps \in SUBSET Nat /\ Span - Lag \in Int
    BY LimiterAssumption DEF Stamps, Flood!Old
  <2>2. QED
    BY <1>4, <2>1, SinceFacts
<1> HIDE DEF v
<1>6. \A i \in 1..Len(v) : /\ v[i] = w[n + i] + 1 /\ n + i \in 1..Len(w)
                           /\ v[i] \in Nat /\ v[i] <= Span - Lag
  <2> TAKE i \in 1..Len(v)
  <2>1. n + i \in 1..Len(w) /\ n + 1 \in 1..Len(w) /\ n < Len(u)
    BY <1>4, <1>5, <1>a
  <2>2. v[i] = w[n + i] + 1 /\ w[n + 1] + 1 <= Span - Lag
    BY <1>4, <1>5, <2>1
  <2>3. w[n + i] <= w[n + 1]
    BY <2>1, <1>b
  <2>4. QED
    BY <2>1, <2>2, <2>3, <1>a
<1>7. v \in Seq(Recent)
  <2>1. \A i \in 1..Len(v) : v[i] \in Recent
    BY <1>6, <1>a DEF Recent
  <2>2. v \in [1..Len(v) -> Recent] /\ Len(v) \in Nat
    BY <1>5, <2>1, LenProperties
  <2>3. QED
    BY <2>2
<1>8. Len(v) <= Len(g) /\ Len(g) <= Limit
  BY <1>1, <1>4, <1>5, <1>a, <1>b
<1>9. \A i \in 1..Len(v) : g[Len(g) - Len(v) + i] <= v[i] + Lag
  <2> TAKE i \in 1..Len(v)
  <2>1. /\ Len(g) - Len(v) + i = Len(h) - Len(w) + (n + i)
        /\ Len(h) - Len(w) + (n + i) \in 1..Len(h)
    BY <1>1, <1>4, <1>5, <1>6, <1>a, <1>b
  <2>2. h[Len(h) - Len(w) + (n + i)] <= w[n + i] + Lag
    BY <1>6, <1>b
  <2>3. QED
    <3> DEFINE m == Len(h) - Len(w) + (n + i)
    <3>1. m \in 1..Len(h) /\ h[m] \in Nat /\ h[m] <= w[n + i] + Lag
      BY <2>1, <2>2, <1>a
    <3>2. g[m] \in Nat /\ g[m] <= h[m] + 1
      BY <1>2, <3>1
    <3>3. v[i] = w[n + i] + 1 /\ w[n + i] \in Nat
      <4>1. n + i \in 1..Len(w) /\ v[i] = w[n + i] + 1
        BY <1>6
      <4>2. QED
        BY <4>1, <1>a
    <3> HIDE DEF m
    <3>4. \A a, b, c, d \in Nat :
            a <= b + 1 /\ b <= c + Lag /\ d = c + 1 => a <= d + Lag
      BY <1>a
    <3>5. g[m] <= v[i] + Lag
      BY <1>6, <3>1, <3>2, <3>3, <3>4, Zenon
    <3>6. QED
      BY <2>1, <3>5 DEF m
<1>10. ASSUME NEW i \in 1..Len(v), NEW j \in 1..Len(v), i <= j
       PROVE  v[j] <= v[i]
  <2>1. /\ n + i \in 1..Len(w) /\ n + j \in 1..Len(w) /\ n + i <= n + j
        /\ v[i] = w[n + i] + 1 /\ v[j] = w[n + j] + 1
    BY <1>5, <1>6, <1>10, <1>a
  <2>2. w[n + j] <= w[n + i]
    BY <2>1, <1>b
  <2>3. QED
    BY <2>1, <2>2, <1>a
<1>11. QED
  BY <1>1, <1>7, <1>8, <1>9, <1>10 DEF Accounts, u, v, g

\* No window is open at the start.
LEMMA FloodInit == Flood!Init => FloodInv
<1> SUFFICES ASSUME Flood!Init PROVE FloodInv
  OBVIOUS
<1>1. Flood!Keys = {}
  BY DEF Flood!Init, Flood!Keys
<1>2. Cardinality(Flood!Keys) <= MaxKeys
  BY <1>1, FS_EmptySet, LimiterAssumption
<1>3. /\ call \in [Reader -> {<<>>} \cup (Key \X (0..Lag))]
      /\ hits \in [Key -> Seq(Stamps)] /\ passed \in [Key -> Seq(Recent)]
  <2>1. <<>> \in Seq(Stamps) /\ <<>> \in Seq(Recent)
    BY EmptySeq
  <2>2. QED
    BY <2>1 DEF Flood!Init
<1>4. ASSUME NEW k \in Key
      PROVE  Accounts(hits[k], passed[k])
  <2>1. hits[k] = <<>> /\ passed[k] = <<>> /\ Len(<<>>) = 0
    BY EmptySeq DEF Flood!Init
  <2>2. QED
    BY <2>1, LimiterAssumption DEF Accounts
<1>5. QED
  BY <1>2, <1>3, <1>4 DEF FloodInv

\* Sets of senders are finite, and the smaller one has fewer.
LEMMA Senders ==
    ASSUME NEW S \in SUBSET Key, NEW T \in SUBSET Key, T \subseteq S
    PROVE  /\ IsFiniteSet(S) /\ Cardinality(S) \in Nat
           /\ Cardinality(T) \in Nat /\ Cardinality(T) <= Cardinality(S)
<1>1. IsFiniteSet(S)
  BY LimiterAssumption, FS_Subset
<1>2. QED
  BY <1>1, FS_Subset, FS_CardinalityType

\* One more element.
LEMMA OneMore ==
    ASSUME NEW S, NEW x, IsFiniteSet(S)
    PROVE  Cardinality(S \cup {x}) <= Cardinality(S) + 1
<1>1. Cardinality(S) \in Nat
  BY FS_CardinalityType
<1>2. Cardinality(S \cup {x}) = IF x \in S THEN Cardinality(S)
                                ELSE Cardinality(S) + 1
  BY FS_AddElement
<1>3. QED
  BY <1>1, <1>2

\* A waiting Allow has a sender and a recent time; what becomes of its window.
LEMMA CallFacts ==
    ASSUME FloodInv, NEW r \in Reader, call[r] # <<>>
    PROVE  LET k   == call[r][1]
               now == call[r][2]
               q   == Flood!Pruned(hits[k], now)
           IN  /\ k \in Key /\ now \in 0..Lag
               /\ q \in Seq(Stamps) /\ Accounts(q, passed[k])
               /\ Len(q) <= Len(hits[k])
<1>1. call[r] \in Key \X (0..Lag)
  BY DEF FloodInv
<1>2. call[r][1] \in Key /\ call[r][2] \in 0..Lag
  BY <1>1
<1>3. /\ hits[call[r][1]] \in Seq(Stamps) /\ passed[call[r][1]] \in Seq(Recent)
      /\ Accounts(hits[call[r][1]], passed[call[r][1]])
  BY <1>2 DEF FloodInv
<1>4. QED
  BY <1>2, <1>3, PrunedWindow

\* Time goes on.
LEMMA FloodElapse ==
    ASSUME FloodInv, Flood!Elapse
    PROVE  FloodInv'
<1>1. ASSUME NEW k \in Key
      PROVE  /\ hits'[k] \in Seq(Stamps) /\ passed'[k] \in Seq(Recent)
             /\ Accounts(hits'[k], passed'[k])
             /\ hits[k] = <<>> => hits'[k] = <<>>
  <2>1. /\ hits[k] \in Seq(Stamps) /\ passed[k] \in Seq(Recent)
        /\ Accounts(hits[k], passed[k])
    BY DEF FloodInv
  <2>2. /\ hits'[k] = Flood!Older(hits[k])
        /\ passed'[k] = Flood!Since(Flood!Older(passed[k]), Span - Lag)
    BY DEF Flood!Elapse
  <2>3. hits[k] = <<>> => hits'[k] = <<>>
    <3>1. Len(hits'[k]) = Len(hits[k]) /\ hits'[k] \in Seq(Stamps)
      BY <2>1, <2>2, OlderFacts
    <3>2. QED
      BY <2>1, <3>1, EmptySeq
  <2>4. QED
    BY <2>1, <2>2, <2>3, OlderWindow
<1>2. hits' \in [Key -> Seq(Stamps)] /\ passed' \in [Key -> Seq(Recent)]
  BY <1>1 DEF Flood!Elapse
<1>3. call' \in [Reader -> {<<>>} \cup (Key \X (0..Lag))]
  <2>1. ASSUME NEW r \in Reader, call[r] # <<>>
        PROVE  <<call[r][1], call[r][2] + 1>> \in Key \X (0..Lag)
    <3>1. call[r][1] \in Key /\ call[r][2] \in 0..Lag /\ call[r][2] < Lag
      BY <2>1, CallFacts DEF Flood!Elapse
    <3>2. QED
      BY <3>1, LimiterAssumption
  <2>2. QED
    BY <2>1 DEF Flood!Elapse
<1>4. Cardinality(Flood!Keys') <= MaxKeys
  <2>1. /\ Flood!Keys' \subseteq Flood!Keys
        /\ Flood!Keys \in SUBSET Key /\ Flood!Keys' \in SUBSET Key
    BY <1>1 DEF Flood!Keys
  <2>2. QED
    BY <2>1, Senders, LimiterAssumption DEF FloodInv
<1>5. QED
  BY <1>1, <1>2, <1>3, <1>4 DEF FloodInv

\* A frame passes.
LEMMA AllowedStep ==
    ASSUME FloodInv, NEW r \in Reader, call[r] # <<>>, Flood!Allowed(r)
    PROVE  FloodInv'
<1> DEFINE k   == call[r][1]
           now == call[r][2]
           q   == Flood!Pruned(hits[k], now)
<1>1. /\ k \in Key /\ now \in 0..Lag /\ q \in Seq(Stamps)
      /\ Accounts(q, passed[k])
  BY CallFacts
<1>2. PICK gone \in IF hits[k] = <<>> /\ Cardinality(Flood!Keys) >= MaxKeys
                    THEN Flood!dropOldest(Flood!Keys) ELSE {{}} :
        /\ hits' = [x \in Key |-> IF x = k THEN Append(q, now)
                                  ELSE IF x \in gone THEN <<>> ELSE hits[x]]
        /\ passed' = [x \in Key |-> IF x = k THEN Append(passed[k], 0)
                                    ELSE IF x \in gone THEN <<>>
                                    ELSE passed[x]]
  BY FloodCardinality DEF Flood!Allowed
<1>3. Len(q) < Limit /\ call' = [call EXCEPT ![r] = <<>>]
  BY DEF Flood!Allowed
<1> HIDE DEF k, now, q
<1>4. /\ Append(q, now) \in Seq(Stamps) /\ Append(passed[k], 0) \in Seq(Recent)
      /\ Accounts(Append(q, now), Append(passed[k], 0))
  BY <1>1, <1>3, AllowedWindow DEF FloodInv
<1>5. ASSUME NEW x \in Key
      PROVE  /\ hits'[x] \in Seq(Stamps) /\ passed'[x] \in Seq(Recent)
             /\ Accounts(hits'[x], passed'[x])
  <2>1. CASE x = k
    BY <1>2, <1>4, <2>1
  <2>2. CASE x # k /\ x \in gone
    <3>1. hits'[x] = <<>> /\ passed'[x] = <<>>
      BY <1>2, <2>2
    <3>2. <<>> \in Seq(Stamps) /\ <<>> \in Seq(Recent) /\ Len(<<>>) = 0
      BY EmptySeq
    <3>3. Accounts(<<>>, <<>>)
      BY <3>2, LimiterAssumption DEF Accounts
    <3>4. QED
      BY <3>1, <3>2, <3>3
  <2>3. CASE x # k /\ x \notin gone
    BY <1>2, <2>3 DEF FloodInv
  <2>4. QED
    BY <2>1, <2>2, <2>3
<1>6. hits' \in [Key -> Seq(Stamps)] /\ passed' \in [Key -> Seq(Recent)]
  BY <1>2, <1>5
<1>7. call' \in [Reader -> {<<>>} \cup (Key \X (0..Lag))]
  BY <1>3 DEF FloodInv
<1>8. Cardinality(Flood!Keys') <= MaxKeys
  <2>1. /\ Flood!Keys \in SUBSET Key /\ Flood!Keys' \in SUBSET Key
        /\ Flood!Keys' \subseteq (Flood!Keys \ gone) \cup {k}
    BY <1>1, <1>2 DEF Flood!Keys
  <2>2. /\ IsFiniteSet(Flood!Keys) /\ Cardinality(Flood!Keys) \in Nat
        /\ Cardinality(Flood!Keys) <= MaxKeys /\ MaxKeys \in Nat
    BY <2>1, Senders, LimiterAssumption DEF FloodInv
  <2>3. CASE hits[k] # <<>>
    <3>1. Flood!Keys' \subseteq Flood!Keys
      BY <1>1, <2>1, <2>3 DEF Flood!Keys
    <3>2. QED
      BY <2>1, <2>2, <3>1, Senders
  <2>4. CASE hits[k] = <<>> /\ ~(Cardinality(Flood!Keys) >= MaxKeys)
    <3> DEFINE S == Flood!Keys \cup {k}
    <3>1. Flood!Keys' \subseteq S /\ S \in SUBSET Key
      BY <1>1, <2>1
    <3>2. Cardinality(S) <= Cardinality(Flood!Keys) + 1
      BY <2>2, OneMore
    <3> HIDE DEF S
    <3>3. Cardinality(Flood!Keys') <= Cardinality(S) /\ Cardinality(S) \in Nat
          /\ Cardinality(Flood!Keys') \in Nat
      BY <2>1, <3>1, Senders
    <3>4. QED
      BY <2>2, <2>4, <3>2, <3>3
  <2>5. CASE hits[k] = <<>> /\ Cardinality(Flood!Keys) >= MaxKeys
    <3>1. PICK y \in Flood!Keys : gone = {y}
      BY <1>2, <2>5 DEF Flood!dropOldest
    <3> DEFINE R == Flood!Keys \ {y}
               S == R \cup {k}
    <3>2. IsFiniteSet(R) /\ Cardinality(R) = Cardinality(Flood!Keys) - 1
      BY <2>2, FS_RemoveElement
    <3>3. Flood!Keys' \subseteq S /\ S \in SUBSET Key
      BY <1>1, <2>1, <3>1
    <3> HIDE DEF R
    <3>4. Cardinality(S) <= Cardinality(R) + 1
      BY <3>2, OneMore
    <3> HIDE DEF S
    <3>5. Cardinality(Flood!Keys') <= Cardinality(S) /\ Cardinality(S) \in Nat
          /\ Cardinality(Flood!Keys') \in Nat
      BY <2>1, <3>3, Senders
    <3>6. QED
      BY <2>2, <3>2, <3>4, <3>5
  <2>6. QED
    BY <2>3, <2>4, <2>5
<1>9. QED
  BY <1>5, <1>6, <1>7, <1>8 DEF FloodInv

\* A frame is refused.
LEMMA RefusedStep ==
    ASSUME FloodInv, NEW r \in Reader, call[r] # <<>>, Flood!Refused(r)
    PROVE  FloodInv'
<1> DEFINE k == call[r][1]
           q == Flood!Pruned(hits[k], call[r][2])
<1>1. /\ k \in Key /\ q \in Seq(Stamps) /\ Accounts(q, passed[k])
      /\ Len(q) <= Len(hits[k])
  BY CallFacts
<1>2. /\ Len(q) >= Limit /\ hits' = [hits EXCEPT ![k] = q]
      /\ call' = [call EXCEPT ![r] = <<>>] /\ passed' = passed
  BY DEF Flood!Refused
<1> HIDE DEF k, q
<1>3. hits[k] # <<>>
  <2>1. Len(hits[k]) \in Nat /\ Len(q) \in Nat
    BY <1>1, LenProperties DEF FloodInv
  <2>2. Len(hits[k]) > 0
    BY <1>1, <1>2, <2>1, LimiterAssumption
  <2>3. QED
    BY <2>2, EmptySeq
<1>4. Cardinality(Flood!Keys') <= MaxKeys
  <2>1. /\ Flood!Keys \in SUBSET Key /\ Flood!Keys' \in SUBSET Key
        /\ Flood!Keys' \subseteq Flood!Keys
    BY <1>1, <1>2, <1>3 DEF Flood!Keys, FloodInv
  <2>2. /\ Cardinality(Flood!Keys') <= Cardinality(Flood!Keys)
        /\ Cardinality(Flood!Keys') \in Nat /\ Cardinality(Flood!Keys) \in Nat
    BY <2>1, Senders
  <2>3. Cardinality(Flood!Keys) <= MaxKeys
    BY DEF FloodInv
  <2>4. QED
    BY <2>2, <2>3, LimiterAssumption
<1>5. QED
  BY <1>1, <1>2, <1>4 DEF FloodInv

\* Every step of the limiter preserves FloodInv.
LEMMA FloodStep == FloodInv /\ [Flood!Next]_floodVars => FloodInv'
<1> SUFFICES ASSUME FloodInv, [Flood!Next]_floodVars
             PROVE  FloodInv'
  OBVIOUS
<1>1. ASSUME NEW r \in Reader, NEW k \in Key, Flood!Enter(r, k)
      PROVE  FloodInv'
  <2>1. <<k, 0>> \in Key \X (0..Lag)
    BY LimiterAssumption
  <2>2. call' \in [Reader -> {<<>>} \cup (Key \X (0..Lag))]
    BY <1>1, <2>1 DEF FloodInv, Flood!Enter
  <2>3. QED
    BY <1>1, <2>2 DEF FloodInv, Flood!Enter, Flood!Keys
<1>2. CASE UNCHANGED floodVars
  BY <1>2 DEF FloodInv, floodVars, Flood!Keys
<1>3. QED
  BY <1>1, <1>2, FloodElapse, AllowedStep, RefusedStep DEF Flood!Next

----------------------------------------------------------------------------
(* The four together.                                                      *)

IInv == NodeInv /\ FloodInv /\ SessionInv /\ LanInv

\* IInv holds in every state of the four components.
THEOREM Invariance == Spec => []IInv
<1>1. Init => IInv
  BY NodeInit, FloodInit, SessionInit, LanInit DEF Init, IInv
<1>2. IInv /\ [Next]_vars => IInv'
  <2> SUFFICES ASSUME IInv, [Next]_vars
               PROVE  IInv'
    OBVIOUS
  <2>1. /\ [Node!Next]_nodeVars /\ [Flood!Next]_floodVars
        /\ [Session!Next]_sessionVars /\ [Lan!Next]_lanVars
    BY DEF Next, vars
  <2>2. QED
    BY <2>1, NodeStep, FloodStep, SessionStep, LanStep DEF IInv
<1>3. QED
  BY <1>1, <1>2, PTL DEF Spec

\* Every variable of the four components keeps its type.
THEOREM TypeCorrect == Spec => []TypeOK
<1>1. NodeInv => Node!TypeOK
  BY DEF NodeInv, NodeFlags, NodeShapes, Node!TypeOK
<1>2. FloodInv => Flood!TypeOK
  BY FloodCardinality
  DEF FloodInv, Flood!TypeOK, Accounts, Stamps, Recent
<1>3. SessionInv => Session!TypeOK
  BY TimerAssumption
  DEF SessionInv, SessionFlags, SessionTypes, SessionBounds, Session!TypeOK,
      Session!Ages
<1>4. IInv => TypeOK
  BY <1>1, <1>2, <1>3 DEF IInv, LanInv, TypeOK
<1>5. QED
  BY <1>4, Invariance, PTL

\* A port mapping always has somebody who will delete it, however Close meets
\* the prober.
THEOREM MappingHasOwner == Spec => []MappingOwned
<1>1. IInv => MappingOwned
  BY DEF IInv, NodeInv, NodeOwner, MappingOwned
<1>2. QED
  BY <1>1, Invariance, PTL

\* No sender passes Allow more than Limit times in the span less the wait for
\* the lock, with any number of readers.
THEOREM FloodBounded == Spec => []WindowBound
<1>1. IInv => WindowBound
  <2> SUFFICES ASSUME IInv, NEW k \in Key
               PROVE  Len(passed[k]) <= Limit
    BY DEF WindowBound, Flood!WindowBound
  <2>1. hits[k] \in Seq(Stamps) /\ passed[k] \in Seq(Recent)
    BY DEF IInv, FloodInv
  <2>2. Len(hits[k]) \in Nat /\ Len(passed[k]) \in Nat /\ Limit \in Nat
    BY <2>1, LenProperties, LimiterAssumption
  <2>3. QED
    BY <2>2 DEF IInv, FloodInv, Accounts
<1>2. QED
  BY <1>1, Invariance, PTL

\* A session with a dead or garbled remote end is closed within idleAfter and
\* one pingEvery.
THEOREM DeadSessionCloses == Spec => []DeadClosed
<1>1. IInv => DeadClosed
  BY DEF IInv, SessionInv, SessionBounds, DeadClosed, Session!DeadClosed
<1>2. QED
  BY <1>1, Invariance, PTL

\* readLoop and writeLoop never close a session whose remote end is well.
THEOREM LiveSessionStays == Spec => []LiveKept
<1>1. IInv => LiveKept
  BY DEF IInv, SessionInv, Attended, LiveKept, Session!LiveKept
<1>2. QED
  BY <1>1, Invariance, PTL

\* A peer that goes on announcing itself is not pruned from the table of
\* nearby peers, unless MaxSeen others are as fresh.
THEOREM AnnouncerListed == Spec => []StaysListed
<1>1. IInv => StaysListed
  BY DEF IInv, LanInv, StaysListed
<1>2. QED
  BY <1>1, Invariance, PTL
===============================================================================
