---------------------------- MODULE RouterProofs ----------------------------
(***************************************************************************)
(* At-most-once handling, for every clock, time limit, store size, number  *)
(* of goroutines and set of messages.                                      *)
(***************************************************************************)
EXTENDS Router, FiniteSetTheorems, FunctionTheorems, SequenceTheorems,
        WellFoundedInduction, TLAPS

----------------------------------------------------------------------------
(* The inductive invariant.                                                *)

Times == 0..Horizon

\* The types the argument needs: all but those of the queue, of the wire and
\* of the set of evicted IDs.
Types ==
    /\ now \in Times
    /\ stamp \in [Msg -> Times \cup {NoTime}]
    /\ pc \in [Worker -> {"idle", "add", "handle", "flood", "mark"}]
    /\ job \in [Worker -> Msg \cup {NoMsg}]
    /\ checked \in [Worker -> Times]
    /\ handled \in [Msg -> 0..2]
    /\ flooded \in [Msg -> 0..2]

\* No call of Handle that passes the freshness test from now on can be for m.
TooLate(m) == now > Ts[m] + MaxPastSkew + MaxDelay

\* What a goroutine between Fresh and Add knows.
Pending ==
    \A w \in Worker :
        /\ pc[w] = "idle" <=> job[w] = NoMsg
        /\ pc[w] \in {"add", "mark"} =>
             /\ checked[w] <= now /\ now <= checked[w] + MaxDelay
             /\ Ts[job[w]] <= checked[w] + MaxFutureSkew
             /\ checked[w] <= Ts[job[w]] + MaxPastSkew

\* An entry is not much older than its message.
Dated ==
    \A m \in Msg : stamp[m] # NoTime => Ts[m] <= stamp[m] + MaxFutureSkew

Taken(m) ==
    \/ handled[m] # 0 \/ flooded[m] # 0
    \/ \E w \in Worker : pc[w] \in {"handle", "flood"} /\ job[w] = m

\* A message once taken by Handle is in the store, or no longer fresh.
Remembered ==
    \A m \in Msg \ evicted : Taken(m) => stamp[m] # NoTime \/ TooLate(m)

\* One goroutine at a time carries a message from Add to the flood.
Once ==
    \A m \in Msg \ evicted :
        /\ handled[m] < 2 /\ flooded[m] < 2
        /\ \A w \in Worker : job[w] = m =>
             /\ pc[w] = "handle" => handled[m] = 0 /\ flooded[m] = 0
             /\ pc[w] = "flood" => flooded[m] = 0
             /\ pc[w] \in {"handle", "flood"} =>
                  \A v \in Worker : job[v] = m /\ pc[v] \in {"handle", "flood"}
                                    => v = w

\* A direct message of this node that others have is in the store, or no
\* longer fresh, and nobody has handled it.
OwnDirect ==
    \A m \in (Local \cap Direct) \ evicted :
        /\ m \in wire => stamp[m] # NoTime \/ TooLate(m)
        /\ handled[m] = 0
        /\ \A w \in Worker : job[w] = m => m \in wire /\ pc[w] = "add"

IInv == Types /\ Pending /\ Dated /\ Remembered /\ Once /\ OwnDirect

----------------------------------------------------------------------------
(* The store.                                                              *)

\* An ID leaves the map only by eviction or when it has outlived the TTL.
Forgets(m) ==
    \/ stamp'[m] = stamp[m]
    \/ stamp'[m] = NoTime /\ (m \in evicted' \/ stamp[m] < now - TTL)

\* What Insert does to the map.
LEMMA InsertFacts ==
    ASSUME Types, NEW m \in Msg, Insert(m)
    PROVE  /\ stamp' \in [Msg -> Times \cup {NoTime}]
           /\ stamp'[m] = now
           /\ evicted \subseteq evicted'
           /\ \A i \in Msg \ {m} : Forgets(i)
<1>1. CASE Cardinality(Seen) < SeenMax
  BY Types, Insert(m), <1>1 DEF Types, Insert, Forgets
<1>2. CASE ~(Cardinality(Seen) < SeenMax)
  <2>1. /\ stamp' = [i \in Msg |-> IF i = m THEN now
                                   ELSE IF i \in Front(Surplus) THEN NoTime
                                   ELSE SweptStamp[i]]
        /\ evicted' = evicted \cup Front(Surplus)
    BY Insert(m), <1>2 DEF Insert
  <2>2. \A i \in Msg : \/ SweptStamp[i] = stamp[i]
                       \/ SweptStamp[i] = NoTime /\ stamp[i] < now - TTL
    BY DEF SweptStamp, Expired
  <2>3. stamp' \in [Msg -> Times \cup {NoTime}]
    BY Types, <2>1, <2>2 DEF Types
  <2>4. QED
    BY <2>1, <2>2, <2>3 DEF Forgets
<1>3. QED
  BY <1>1, <1>2

\* What the sweep does to the map.
LEMMA SweepFacts ==
    ASSUME Types, Sweep
    PROVE  /\ stamp' \in [Msg -> Times \cup {NoTime}]
           /\ \A i \in Msg : Forgets(i)
  BY Types, Sweep DEF Types, Sweep, SweptStamp, Expired, Forgets

\* What is forgotten because of its age is too late to be taken again: this is
\* where TTL >= MaxPastSkew + MaxFutureSkew + MaxDelay is needed.
LEMMA ForgottenTooLate ==
    ASSUME Types, Dated, NEW m \in Msg, m \notin evicted', Forgets(m),
           stamp[m] # NoTime \/ TooLate(m), now' = now
    PROVE  stamp'[m] # NoTime \/ TooLate(m)'
<1>1. now \in Nat /\ Ts[m] \in Nat /\ stamp[m] \in Times \cup {NoTime}
  BY Types, MsgAssumption, TimeAssumption DEF Types, Times
<1>2. CASE stamp'[m] = stamp[m]
  BY <1>2 DEF TooLate
<1>3. CASE stamp[m] # NoTime /\ stamp[m] < now - TTL
  <2>1. Ts[m] <= stamp[m] + MaxFutureSkew
    BY Dated, <1>3 DEF Dated
  <2>2. QED
    BY <1>1, <1>3, <2>1, TimeAssumption DEF TooLate, Times
<1>4. QED
  BY <1>2, <1>3 DEF Forgets, TooLate

\* A goroutine that reaches Add is not too late.
LEMMA PendingInTime ==
    ASSUME Types, Pending, NEW w \in Worker, pc[w] \in {"add", "mark"}
    PROVE  job[w] \in Msg /\ ~TooLate(job[w])
<1>1. job[w] \in Msg
  BY DEF Types, Pending
<1>2. /\ now \in Nat /\ checked[w] \in Nat /\ Ts[job[w]] \in Nat
      /\ now <= checked[w] + MaxDelay
      /\ checked[w] <= Ts[job[w]] + MaxPastSkew
  BY <1>1, MsgAssumption, TimeAssumption DEF Types, Times, Pending
<1>3. QED
  BY <1>1, <1>2, TimeAssumption DEF TooLate

----------------------------------------------------------------------------
(* Preservation.                                                           *)

\* Receive preserves IInv.
LEMMA ReceiveStep ==
    ASSUME IInv, NEW w \in Worker, NEW m \in Msg, Receive(w, m)
    PROVE  IInv'
<1>1. Types'
  BY IInv, Receive(w, m), MsgAssumption, TimeAssumption
  DEF IInv, Receive, Goto, Fresh, Types, Times
<1>2. Pending'
  BY IInv, Receive(w, m), MsgAssumption, TimeAssumption
  DEF IInv, Receive, Goto, Fresh, Types, Times, Pending
<1>3. Dated'
  BY IInv, Receive(w, m), MsgAssumption, TimeAssumption
  DEF IInv, Receive, Goto, Fresh, Dated
<1>4. Remembered'
  BY IInv, Receive(w, m), MsgAssumption, TimeAssumption
  DEF IInv, Receive, Goto, Fresh, Remembered, Taken, TooLate, Types, Pending
<1>5. Once'
  BY IInv, Receive(w, m), MsgAssumption, TimeAssumption
  DEF IInv, Receive, Goto, Fresh, Once, Types
<1>6. OwnDirect'
  BY IInv, Receive(w, m), MsgAssumption, TimeAssumption
  DEF IInv, Receive, Goto, Fresh, OwnDirect, TooLate, Types
<1>7. QED
  BY <1>1, <1>2, <1>3, <1>4, <1>5, <1>6 DEF IInv

\* Inject preserves IInv.
LEMMA InjectStep ==
    ASSUME IInv, NEW w \in Worker, NEW m \in Msg, Inject(w, m)
    PROVE  IInv'
<1>1. Types'
  BY IInv, Inject(w, m), MsgAssumption, TimeAssumption
  DEF IInv, Inject, Goto, Created, Types, Times
<1>2. Pending'
  BY IInv, Inject(w, m), MsgAssumption, TimeAssumption
  DEF IInv, Inject, Goto, Created, Types, Times, Pending
<1>3. Dated'
  BY IInv, Inject(w, m), MsgAssumption, TimeAssumption
  DEF IInv, Inject, Goto, Created, Dated
<1>4. Remembered'
  BY IInv, Inject(w, m), MsgAssumption, TimeAssumption
  DEF IInv, Inject, Goto, Created, Remembered, Taken, TooLate, Types, Pending
<1>5. Once'
  BY IInv, Inject(w, m), MsgAssumption, TimeAssumption
  DEF IInv, Inject, Goto, Created, Once, Types
<1>6. OwnDirect'
  BY IInv, Inject(w, m), MsgAssumption, TimeAssumption
  DEF IInv, Inject, Goto, Created, OwnDirect, TooLate, Types
<1>7. QED
  BY <1>1, <1>2, <1>3, <1>4, <1>5, <1>6 DEF IInv

\* Resync preserves IInv.
LEMMA ResyncStep ==
    ASSUME IInv, NEW w \in Worker, NEW m \in Msg, Resync(w, m)
    PROVE  IInv'
<1>1. Types'
  BY IInv, Resync(w, m), MsgAssumption, TimeAssumption
  DEF IInv, Resync, Goto, Created, Types, Times
<1>2. Pending'
  BY IInv, Resync(w, m), MsgAssumption, TimeAssumption
  DEF IInv, Resync, Goto, Created, Types, Times, Pending
<1>3. Dated'
  BY IInv, Resync(w, m), MsgAssumption, TimeAssumption
  DEF IInv, Resync, Goto, Created, Dated
<1>4. Remembered'
  BY IInv, Resync(w, m), MsgAssumption, TimeAssumption
  DEF IInv, Resync, Goto, Created, Remembered, Taken, TooLate, Types, Pending
<1>5. Once'
  BY IInv, Resync(w, m), MsgAssumption, TimeAssumption
  DEF IInv, Resync, Goto, Created, Once, Types
<1>6. OwnDirect'
  BY IInv, Resync(w, m), MsgAssumption, TimeAssumption
  DEF IInv, Resync, Goto, Created, OwnDirect, TooLate, Types
<1>7. QED
  BY <1>1, <1>2, <1>3, <1>4, <1>5, <1>6 DEF IInv

\* Handler preserves IInv.
LEMMA HandlerStep ==
    ASSUME IInv, NEW w \in Worker, Handler(w)
    PROVE  IInv'
<1>1. Types'
  <2>1. job[w] \in Msg
    BY IInv, Handler(w) DEF IInv, Handler, Types, Pending
  <2>2. QED
    BY IInv, Handler(w), <2>1, TimeAssumption
    DEF IInv, Handler, Goto, Return, More, Types, Times
<1>2. Pending'
  BY IInv, Handler(w), MsgAssumption, TimeAssumption
  DEF IInv, Handler, Goto, Return, More, Types, Times, Pending
<1>3. Dated'
  BY IInv, Handler(w), MsgAssumption, TimeAssumption
  DEF IInv, Handler, Goto, Return, More, Dated
<1>4. Remembered'
  BY IInv, Handler(w), MsgAssumption, TimeAssumption
  DEF IInv, Handler, Goto, Return, More, Remembered, Taken, TooLate, Types, Pending
<1>5. Once'
  BY IInv, Handler(w), MsgAssumption, TimeAssumption
  DEF IInv, Handler, Goto, Return, More, Once, Types
<1>6. OwnDirect'
  BY IInv, Handler(w), MsgAssumption, TimeAssumption
  DEF IInv, Handler, Goto, Return, More, OwnDirect, TooLate, Types
<1>7. QED
  BY <1>1, <1>2, <1>3, <1>4, <1>5, <1>6 DEF IInv

\* Broadcast preserves IInv.
LEMMA BroadcastStep ==
    ASSUME IInv, NEW w \in Worker, Broadcast(w)
    PROVE  IInv'
<1>1. Types'
  <2>1. job[w] \in Msg
    BY IInv, Broadcast(w) DEF IInv, Broadcast, Types, Pending
  <2>2. QED
    BY IInv, Broadcast(w), <2>1, TimeAssumption
    DEF IInv, Broadcast, Goto, Return, More, Types, Times
<1>2. Pending'
  BY IInv, Broadcast(w), MsgAssumption, TimeAssumption
  DEF IInv, Broadcast, Goto, Return, More, Types, Times, Pending
<1>3. Dated'
  BY IInv, Broadcast(w), MsgAssumption, TimeAssumption
  DEF IInv, Broadcast, Goto, Return, More, Dated
<1>4. Remembered'
  BY IInv, Broadcast(w), MsgAssumption, TimeAssumption
  DEF IInv, Broadcast, Goto, Return, More, Remembered, Taken, TooLate, Types, Pending
<1>5. Once'
  BY IInv, Broadcast(w), MsgAssumption, TimeAssumption
  DEF IInv, Broadcast, Goto, Return, More, Once, Types
<1>6. OwnDirect'
  BY IInv, Broadcast(w), MsgAssumption, TimeAssumption
  DEF IInv, Broadcast, Goto, Return, More, OwnDirect, TooLate, Types
<1>7. QED
  BY <1>1, <1>2, <1>3, <1>4, <1>5, <1>6 DEF IInv

\* Tick preserves IInv.
LEMMA TickStep ==
    ASSUME IInv, Tick
    PROVE  IInv'
<1>1. Types'
  BY IInv, Tick, TimeAssumption DEF IInv, Tick, Types, Times
<1>2. Pending'
  BY IInv, Tick, MsgAssumption, TimeAssumption
  DEF IInv, Tick, Types, Times, Pending
<1>3. Dated'
  BY IInv, Tick DEF IInv, Tick, Dated
<1>4. \A m \in Msg : TooLate(m) => TooLate(m)'
  BY IInv, Tick, MsgAssumption, TimeAssumption
  DEF IInv, Tick, Types, Times, TooLate
<1>5. Remembered' /\ OwnDirect'
  BY IInv, Tick, <1>4, MsgAssumption
  DEF IInv, Tick, Remembered, OwnDirect, Taken
<1>6. Once'
  BY IInv, Tick DEF IInv, Tick, Once
<1>7. QED
  BY <1>1, <1>2, <1>3, <1>5, <1>6 DEF IInv

\* Sweep preserves IInv.
LEMMA SweepStep ==
    ASSUME IInv, Sweep
    PROVE  IInv'
<1> USE SweepFacts
<1>1. Types' /\ Pending'
  BY IInv, Sweep DEF IInv, Sweep, Types, Pending
<1>2. Dated'
  BY IInv, Sweep DEF IInv, Dated, Forgets
<1>3. \A m \in Msg \ evicted :
        stamp[m] # NoTime \/ TooLate(m) => stamp'[m] # NoTime \/ TooLate(m)'
  BY IInv, Sweep, ForgottenTooLate DEF IInv, Sweep
<1>4. Remembered'
  BY IInv, Sweep, <1>3 DEF IInv, Sweep, Remembered, Taken
<1>5. OwnDirect'
  BY IInv, Sweep, <1>3, MsgAssumption DEF IInv, Sweep, OwnDirect
<1>6. Once'
  BY IInv, Sweep DEF IInv, Sweep, Once
<1>7. QED
  BY <1>1, <1>2, <1>4, <1>5, <1>6 DEF IInv

\* Storing an ID keeps the dates of the entries and, for every other message,
\* the memory of it.
LEMMA InsertKeeps ==
    ASSUME IInv, NEW m \in Msg, Insert(m), now' = now,
           Ts[m] <= now + MaxFutureSkew
    PROVE  /\ Dated'
           /\ \A i \in Msg \ evicted' :
                stamp[i] # NoTime \/ TooLate(i)
                => stamp'[i] # NoTime \/ TooLate(i)'
<1>1. Types /\ Dated
  BY DEF IInv
<1>2. stamp'[m] = now /\ now # NoTime
  BY <1>1, InsertFacts, TimeAssumption DEF Types, Times, NoTime
<1>3. \A i \in Msg \ {m} : Forgets(i)
  BY <1>1, InsertFacts
<1>4. Dated'
  BY <1>1, <1>2, <1>3 DEF Dated, Forgets
<1>5. ASSUME NEW i \in Msg \ evicted', stamp[i] # NoTime \/ TooLate(i)
      PROVE  stamp'[i] # NoTime \/ TooLate(i)'
  <2>1. CASE i = m
    BY <1>2, <2>1
  <2>2. CASE i # m
    BY <1>1, <1>3, <1>5, <2>2, ForgottenTooLate
  <2>3. QED
    BY <2>1, <2>2
<1>6. QED
  BY <1>4, <1>5

\* Add preserves IInv.  A goroutine that finds no entry for m holds a message
\* that is not too late, so no other has taken it, unless m was evicted.
LEMMA AddStep ==
    ASSUME IInv, NEW w \in Worker, Add(w)
    PROVE  IInv'
<1> DEFINE m == job[w]
<1>1. m \in Msg /\ ~TooLate(m) /\ pc[w] = "add"
  BY IInv, Add(w), PendingInTime DEF IInv, Add
<1>2. CASE stamp[m] # NoTime
  <2>1. Return(w) /\ UNCHANGED <<now, stamp, queue, wire, handled, flooded, evicted>>
    BY Add(w), <1>2 DEF Add
  <2>2. Types' /\ Pending' /\ Dated'
    BY IInv, <2>1, TimeAssumption
    DEF IInv, Return, Goto, Types, Times, Pending, Dated
  <2>3. Remembered'
    BY IInv, <2>1, <1>1 DEF IInv, Return, Goto, Types, Remembered, Taken, TooLate
  <2>4. Once' /\ OwnDirect'
    BY IInv, <2>1, MsgAssumption
    DEF IInv, Return, Goto, Types, Once, OwnDirect, TooLate
  <2>5. QED
    BY <2>2, <2>3, <2>4 DEF IInv
<1>3. CASE stamp[m] = NoTime
  <2>1. /\ Insert(m) /\ Goto(w, "handle", m, 0)
        /\ UNCHANGED <<now, wire, handled, flooded>>
    BY Add(w), <1>3 DEF Add
  <2>2. /\ stamp' \in [Msg -> Times \cup {NoTime}]
        /\ stamp'[m] = now /\ evicted \subseteq evicted'
    BY IInv, <1>1, <2>1, InsertFacts DEF IInv
  <2>3. Types'
    BY IInv, <1>1, <2>1, <2>2, TimeAssumption DEF IInv, Goto, Types, Times
  <2>4. /\ pc'[w] = "handle" /\ job'[w] = m
        /\ \A v \in Worker \ {w} : /\ pc'[v] = pc[v] /\ job'[v] = job[v]
                                   /\ checked'[v] = checked[v]
    BY IInv, <2>1 DEF IInv, Goto, Types
  <2>5. Pending'
    BY IInv, <1>1, <2>1, <2>4, MsgAssumption DEF IInv, Pending
  <2>6. Ts[m] <= now + MaxFutureSkew
    <3>1. Ts[m] <= checked[w] + MaxFutureSkew /\ checked[w] <= now
      BY IInv, <1>1 DEF IInv, Pending
    <3>2. checked[w] \in Nat /\ now \in Nat /\ Ts[m] \in Nat
      BY IInv, <1>1, MsgAssumption, TimeAssumption DEF IInv, Types, Times
    <3>3. QED
      BY <3>1, <3>2, TimeAssumption
  <2>7. /\ Dated'
        /\ \A i \in Msg \ evicted' :
             stamp[i] # NoTime \/ TooLate(i)
             => stamp'[i] # NoTime \/ TooLate(i)'
    BY IInv, <1>1, <2>1, <2>6, InsertKeeps
  <2>8. m \notin evicted => ~Taken(m) /\ m \notin Local \cap Direct
    <3>1. m \notin evicted => ~Taken(m)
      BY IInv, <1>1, <1>3 DEF IInv, Remembered
    <3>2. m \notin evicted /\ m \in Local \cap Direct => FALSE
      BY IInv, <1>1, <1>3 DEF IInv, OwnDirect
    <3>3. QED
      BY <3>1, <3>2
  <2>9. now # NoTime
    BY IInv, TimeAssumption DEF IInv, Types, Times, NoTime
  <2>10. Remembered'
    <3>1. ASSUME NEW i \in Msg \ evicted', Taken(i)'
          PROVE  stamp'[i] # NoTime \/ TooLate(i)'
      <4>1. CASE i = m
        BY <2>2, <2>9, <4>1
      <4>2. CASE i # m
        <5>1. Taken(i)
          BY <2>1, <2>4, <3>1, <4>2 DEF Taken
        <5>2. QED
          BY IInv, <2>2, <2>7, <5>1 DEF IInv, Remembered
      <4>3. QED
        BY <4>1, <4>2
    <3>2. QED
      BY <3>1 DEF Remembered
  <2>11. Once'
    <3>1. ASSUME NEW i \in Msg \ evicted'
          PROVE  /\ handled'[i] < 2 /\ flooded'[i] < 2
                 /\ \A v \in Worker : job'[v] = i =>
                      /\ pc'[v] = "handle" => handled'[i] = 0 /\ flooded'[i] = 0
                      /\ pc'[v] = "flood" => flooded'[i] = 0
                      /\ pc'[v] \in {"handle", "flood"} =>
                           \A u \in Worker :
                             job'[u] = i /\ pc'[u] \in {"handle", "flood"}
                             => u = v
      <4>1. CASE i = m
        <5>1. ~Taken(m)
          BY <2>2, <2>8, <4>1
        <5>2. handled[m] = 0 /\ flooded[m] = 0
          BY <5>1 DEF Taken
        <5>3. \A v \in Worker : job[v] = m => pc[v] \notin {"handle", "flood"}
          BY <5>1 DEF Taken
        <5>4. QED
          BY <2>1, <2>4, <4>1, <5>2, <5>3
      <4>2. CASE i # m
        BY IInv, <2>1, <2>2, <2>4, <4>2 DEF IInv, Once
      <4>3. QED
        BY <4>1, <4>2
    <3>2. QED
      BY <3>1 DEF Once
  <2>12. OwnDirect'
    BY IInv, <2>1, <2>2, <2>4, <2>7, <2>8, MsgAssumption DEF IInv, OwnDirect
  <2>13. QED
    BY <2>3, <2>5, <2>7, <2>10, <2>11, <2>12 DEF IInv
<1>4. QED
  BY <1>2, <1>3

\* Mark preserves IInv.
LEMMA MarkStep ==
    ASSUME IInv, NEW w \in Worker, Mark(w)
    PROVE  IInv'
<1> DEFINE m == job[w]
<1>1. m \in Msg /\ pc[w] = "mark"
  BY IInv, Mark(w), PendingInTime DEF IInv, Mark
<1>2. /\ Return(w) /\ UNCHANGED <<now, wire, handled, flooded>>
      /\ Insert(m) \/ UNCHANGED <<stamp, queue, evicted>>
  BY Mark(w) DEF Mark
<1>3. /\ pc'[w] = "idle" /\ job'[w] = NoMsg
      /\ \A v \in Worker \ {w} : /\ pc'[v] = pc[v] /\ job'[v] = job[v]
                                 /\ checked'[v] = checked[v]
  BY IInv, <1>2 DEF IInv, Return, Goto, Types
<1>4. /\ stamp' \in [Msg -> Times \cup {NoTime}]
      /\ evicted \subseteq evicted'
  BY IInv, <1>1, <1>2, InsertFacts DEF IInv, Types
<1>5. Types' /\ Pending'
  BY IInv, <1>2, <1>3, <1>4, TimeAssumption
  DEF IInv, Return, Goto, Types, Times, Pending
<1>6. /\ Dated'
      /\ \A i \in Msg \ evicted' :
           stamp[i] # NoTime \/ TooLate(i)
           => stamp'[i] # NoTime \/ TooLate(i)'
  <2>1. Ts[m] <= now + MaxFutureSkew
    <3>1. Ts[m] <= checked[w] + MaxFutureSkew /\ checked[w] <= now
      BY IInv, <1>1 DEF IInv, Pending
    <3>2. checked[w] \in Nat /\ now \in Nat /\ Ts[m] \in Nat
      BY IInv, <1>1, MsgAssumption, TimeAssumption DEF IInv, Types, Times
    <3>3. QED
      BY <3>1, <3>2, TimeAssumption
  <2>2. CASE Insert(m)
    BY IInv, <1>1, <1>2, <2>1, <2>2, InsertKeeps
  <2>3. CASE UNCHANGED <<stamp, queue, evicted>>
    BY IInv, <1>2, <2>3 DEF IInv, Dated, TooLate
  <2>4. QED
    BY <1>2, <2>2, <2>3
<1>7. \A i \in Msg : Taken(i)' => Taken(i)
  BY <1>1, <1>2, <1>3, MsgAssumption DEF Taken
<1>8. Remembered'
  BY IInv, <1>4, <1>6, <1>7 DEF IInv, Remembered
<1>9. Once'
  BY IInv, <1>2, <1>3, <1>4, MsgAssumption DEF IInv, Once
<1>10. OwnDirect'
  BY IInv, <1>2, <1>3, <1>4, <1>6, MsgAssumption DEF IInv, OwnDirect
<1>11. QED
  BY <1>5, <1>6, <1>8, <1>9, <1>10 DEF IInv

\* SendDirect preserves IInv.
LEMMA SendDirectStep ==
    ASSUME IInv, NEW m \in Msg, SendDirect(m)
    PROVE  IInv'
<1>1. /\ Insert(m) /\ wire' = wire \cup {m} /\ Ts[m] = now
      /\ m \notin wire /\ m \in Local \cap Direct
      /\ UNCHANGED <<now, pc, job, checked, handled, flooded>>
  BY SendDirect(m) DEF SendDirect, Created
<1>2. /\ stamp' \in [Msg -> Times \cup {NoTime}]
      /\ stamp'[m] = now /\ evicted \subseteq evicted'
  BY IInv, <1>1, InsertFacts DEF IInv
<1>3. Types' /\ Pending'
  BY IInv, <1>1, <1>2 DEF IInv, Types, Pending
<1>4. now # NoTime /\ Ts[m] <= now + MaxFutureSkew
  BY IInv, <1>1, TimeAssumption DEF IInv, Types, Times, NoTime
<1>5. /\ Dated'
      /\ \A i \in Msg \ evicted' :
           stamp[i] # NoTime \/ TooLate(i)
           => stamp'[i] # NoTime \/ TooLate(i)'
  BY IInv, <1>1, <1>4, InsertKeeps
<1>6. Remembered'
  BY IInv, <1>1, <1>2, <1>5 DEF IInv, Remembered, Taken
<1>7. Once'
  BY IInv, <1>1, <1>2 DEF IInv, Once
<1>8. OwnDirect'
  BY IInv, <1>1, <1>2, <1>4, <1>5, MsgAssumption DEF IInv, OwnDirect
<1>9. QED
  BY <1>3, <1>5, <1>6, <1>7, <1>8 DEF IInv

----------------------------------------------------------------------------
(* The theorems.                                                           *)

\* IInv holds initially.
LEMMA IInvInit ==
    ASSUME Init
    PROVE  IInv
  BY MsgAssumption, TimeAssumption
  DEF Init, IInv, Types, Times, Pending, Dated, Remembered, Taken, Once,
      OwnDirect

\* Every step preserves IInv.
LEMMA IInvNext ==
    ASSUME IInv, [Next]_vars
    PROVE  IInv'
<1>1. CASE UNCHANGED vars
  BY IInv, <1>1
  DEF vars, IInv, Types, Pending, Dated, Remembered, Taken, TooLate, Once,
      OwnDirect
<1>2. ASSUME NEW w \in Worker, WorkerStep(w)
      PROVE  IInv'
  BY IInv, <1>2, ReceiveStep, InjectStep, ResyncStep, AddStep, HandlerStep,
     BroadcastStep, MarkStep
  DEF WorkerStep
<1>3. QED
  BY IInv, <1>1, <1>2, SendDirectStep, SweepStep, TickStep DEF Next

\* The inductive invariant holds in every reachable state.
THEOREM Invariance == Spec => []IInv
  BY IInvInit, IInvNext, PTL DEF Spec

\* Whatever peers repeat and whenever, Handle runs the handler and floods at
\* most once for every message whose ID was not evicted from a full store.
THEOREM HandledAtMostOnce == Spec => []AtMostOnce
<1>1. IInv => AtMostOnce
  BY DEF IInv, Once, AtMostOnce
<1>2. QED
  BY <1>1, Invariance, PTL

\* The node never handles its own direct message when it comes back.
THEOREM OwnDirectNeverHandled == Spec => []OwnDirectIgnored
<1>1. IInv => OwnDirectIgnored
  BY DEF IInv, OwnDirect, OwnDirectIgnored
<1>2. QED
  BY <1>1, Invariance, PTL

----------------------------------------------------------------------------
(* The queue and the map.                                                  *)

\* QueueMatchesMap, with the length as the absence of repetitions, and the
\* types that IInv leaves out.
Store ==
    /\ queue \in Seq(Msg)
    /\ Queued = Seen
    /\ \A i, j \in 1..Len(queue) : queue[i] = queue[j] => i = j
    /\ \A i, j \in 1..Len(queue) :
         i < j => stamp[queue[i]] <= stamp[queue[j]]
    /\ \A m \in Msg : stamp[m] <= now
    /\ Cardinality(Seen) <= SeenMax

Sets == wire \subseteq Msg /\ evicted \subseteq Msg

StoreInv == Store /\ Sets

\* A set of numbers has a least one.
LEMMA LeastIndex ==
    ASSUME NEW T \in SUBSET Nat, T # {}
    PROVE  \E x \in T : \A y \in T : x <= y
<1> DEFINE R == {ss \in Nat \X Nat : ss[1] < ss[2]}
<1>1. IsWellFoundedOn(R, Nat)
  BY NatLessThanWellFounded, Zenon DEF OpToRel
<1>2. \E x \in T : \A y \in T : ~(<<y, x>> \in R)
  <2> HIDE DEF R
  <2>1. QED
    BY <1>1, WFMin
<1>3. \A x, y \in Nat : <<y, x>> \notin R => x <= y
  OBVIOUS
<1>4. QED
  <2> HIDE DEF R
  <2>1. QED
    BY <1>2, <1>3

\* The entries of the queue, by position.
LEMMA QueueFacts ==
    ASSUME Types, Store
    PROVE  /\ Len(queue) \in Nat /\ DOMAIN queue = 1..Len(queue)
           /\ \A i \in 1..Len(queue) : /\ queue[i] \in Msg
                                        /\ stamp[queue[i]] \in Nat
                                        /\ stamp[queue[i]] # NoTime
<1>1. Len(queue) \in Nat /\ DOMAIN queue = 1..Len(queue)
  BY LenProperties DEF Store
<1>2. ASSUME NEW i \in 1..Len(queue)
      PROVE  queue[i] \in Msg /\ stamp[queue[i]] # NoTime
  BY <1>1 DEF Store, Queued, Seen
<1>3. \A m \in Msg : stamp[m] \in Nat \/ stamp[m] = NoTime
  BY TimeAssumption DEF Types, Times
<1>4. QED
  BY <1>1, <1>2, <1>3

\* Because the queue is in the order of time, what has expired comes first.
LEMMA ExpiredFirst ==
    ASSUME Types, Store
    PROVE  \E k \in 0..Len(queue) :
             \A i \in 1..Len(queue) : Expired(queue[i]) <=> i <= k
<1> DEFINE N == Len(queue)
           J == {i \in 0..N : i = N \/ ~Expired(queue[i + 1])}
<1>1. N \in Nat
  BY QueueFacts
<1>2. J \in SUBSET Nat /\ N \in J
  BY <1>1
<1>3. PICK k \in J : \A y \in J : k <= y
  <2> HIDE DEF J
  <2>1. QED
    BY <1>2, LeastIndex
<1>4. k \in 0..N
  BY <1>3
<1>5. ASSUME NEW i \in 1..N, i <= k
      PROVE  Expired(queue[i])
  <2>1. i - 1 \in 0..N /\ i - 1 < k /\ (i - 1) + 1 = i
    BY <1>1, <1>4, <1>5
  <2>2. i - 1 \notin J
    BY <1>3, <1>4, <2>1
  <2>3. QED
    BY <2>1, <2>2
<1>6. ASSUME NEW i \in 1..N, ~(i <= k)
      PROVE  ~Expired(queue[i])
  <2>1. k + 1 \in 1..N /\ k # N /\ (k + 1 = i \/ k + 1 < i)
    BY <1>1, <1>4, <1>6
  <2>2. ~Expired(queue[k + 1])
    BY <1>3, <2>1
  <2>3. /\ stamp[queue[k + 1]] \in Nat /\ stamp[queue[i]] \in Nat
        /\ stamp[queue[i]] # NoTime
    BY <2>1, QueueFacts
  <2>4. CASE k + 1 < i
    <3>1. stamp[queue[k + 1]] <= stamp[queue[i]]
      BY <2>1, <2>4 DEF Store
    <3>2. now \in Nat /\ TTL \in Nat
      BY TimeAssumption DEF Types, Times
    <3>3. QED
      BY <2>2, <2>3, <3>1, <3>2 DEF Expired
  <2>5. QED
    BY <2>1, <2>2, <2>4
<1>7. QED
  BY <1>4, <1>5, <1>6

\* t is the queue without its first d entries.
IsTail(t, d) ==
    /\ t \in Seq(Msg) /\ Len(t) = Len(queue) - d
    /\ \A i \in 1..Len(queue) - d : t[i] = queue[d + i]

\* The loop of sweepLocked computes such a tail: by induction on its turns,
\* as there is no first turn after which kept is anything else.
LEMMA SweptTail ==
    ASSUME Types, Store, NEW k \in 0..Len(queue),
           \A i \in 1..Len(queue) : Expired(queue[i]) <=> i <= k
    PROVE  IsTail(SweptQueue, k)
<1> DEFINE N == Len(queue)
           Turn(f, i) == IF i = 0 THEN <<>>
                         ELSE IF Expired(queue[i]) THEN f[i - 1]
                         ELSE Append(f[i - 1], queue[i])
           g == [i \in 0..N |-> SubSeq(queue, k + 1, i)]
           Bad == {i \in 0..N : kept[i] # g[i]}
<1>1. N \in Nat /\ queue \in Seq(Msg) /\ \A i \in 1..N : queue[i] \in Msg
  BY QueueFacts DEF Store
<1>2. ASSUME NEW i \in 0..N
      PROVE  g[i] = Turn(g, i)
  <2>1. CASE i <= k
    <3>1. g[i] = <<>>
      BY <1>1, <2>1, SubSeqEmpty
    <3>2. CASE i = 0
      BY <3>1, <3>2
    <3>3. CASE i # 0
      <4>1. i - 1 \in 0..N /\ i - 1 < k + 1
        BY <1>1, <2>1, <3>3
      <4>2. g[i - 1] = <<>>
        BY <1>1, <4>1, SubSeqEmpty
      <4>3. QED
        BY <2>1, <3>1, <3>3, <4>2
    <3>4. QED
      BY <3>2, <3>3
  <2>2. CASE ~(i <= k)
    <3>1. i \in 1..N /\ k + 1 \in 1..N /\ i \in (k + 1)..N /\ i - 1 \in 0..N
      BY <1>1, <2>2
    <3>2. SubSeq(queue, k + 1, i) = SubSeq(queue, k + 1, i - 1) \o <<queue[i]>>
      BY <1>1, <3>1, SubSeqRecursiveSecond
    <3>3. SubSeq(queue, k + 1, i - 1) \in Seq(Msg)
      BY <1>1, <3>1, SubSeqProperties
    <3>4. SubSeq(queue, k + 1, i) = Append(SubSeq(queue, k + 1, i - 1), queue[i])
      BY <1>1, <3>1, <3>2, <3>3, AppendIsConcat
    <3>5. ~Expired(queue[i]) /\ i # 0
      BY <2>2, <3>1
    <3>6. QED
      BY <3>1, <3>4, <3>5
  <2>3. QED
    BY <2>1, <2>2
<1>3. g = [i \in 0..N |-> Turn(g, i)]
  BY <1>2
<1>4. kept = [i \in 0..N |-> Turn(kept, i)]
  <2>1. \E f : f = [i \in 0..N |-> Turn(f, i)]
    <3> HIDE DEF g, Turn
    <3>1. QED
      BY <1>3
  <2>2. kept = CHOOSE f : f = [i \in 0..N |-> Turn(f, i)]
    BY DEF kept
  <2>3. QED
    <3> HIDE DEF Turn
    <3>1. QED
      BY <2>1, <2>2
<1>5. Bad = {}
  <2>1. SUFFICES ASSUME Bad # {} PROVE FALSE
    OBVIOUS
  <2>2. PICK i \in Bad : \A y \in Bad : i <= y
    <3>1. Bad \in SUBSET Nat
      BY <1>1
    <3> HIDE DEF Bad
    <3>2. QED
      BY <2>1, <3>1, LeastIndex
  <2>3. i \in 0..N /\ kept[i] # g[i]
    BY <2>2
  <2>4. kept[i] = Turn(kept, i) /\ g[i] = Turn(g, i)
    <3> HIDE DEF g, Turn
    <3>1. QED
      BY <1>2, <1>4, <2>3
  <2>5. i # 0
    BY <2>3, <2>4
  <2>6. i - 1 \in 0..N /\ ~(i <= i - 1)
    BY <1>1, <2>3, <2>5
  <2>7. kept[i - 1] = g[i - 1]
    <3> HIDE DEF g
    <3>1. QED
      BY <2>2, <2>6
  <2>8. Turn(kept, i) = Turn(g, i)
    <3> HIDE DEF g
    <3>1. QED
      BY <2>7
  <2>9. QED
    BY <2>3, <2>4, <2>8
<1>6. SweptQueue = SubSeq(queue, k + 1, N)
  <2>1. kept[N] = g[N]
    <3> HIDE DEF g
    <3>1. QED
      BY <1>1, <1>5
  <2>2. QED
    BY <1>1, <2>1 DEF SweptQueue
<1>7. /\ SubSeq(queue, k + 1, N) \in Seq(Msg)
      /\ Len(SubSeq(queue, k + 1, N)) = IF k + 1 <= N THEN N - (k + 1) + 1 ELSE 0
      /\ \A i \in 1..N - (k + 1) + 1 :
           SubSeq(queue, k + 1, N)[i] = queue[(k + 1) + i - 1]
  BY <1>1, SubSeqProperties
<1>8. \A i \in 1..N - k : /\ i \in 1..N - (k + 1) + 1
                          /\ (k + 1) + i - 1 = k + i
  BY <1>1
<1>9. Len(SubSeq(queue, k + 1, N)) = N - k
  BY <1>1, <1>7
<1>10. QED
  BY <1>6, <1>7, <1>8, <1>9 DEF IsTail

\* The first d IDs of the queue.
Dropped(d) == {queue[i] : i \in 1..d}

\* The part of the map that stays when the first d IDs of the queue go.
LEMMA TailFacts ==
    ASSUME Types, Store, NEW d \in 0..Len(queue), NEW t, IsTail(t, d)
    PROVE  /\ t \in Seq(Msg) /\ Len(t) \in Nat /\ DOMAIN t = 1..Len(t)
           /\ {t[i] : i \in 1..Len(t)} = Seen \ Dropped(d)
           /\ \A i, j \in 1..Len(t) : t[i] = t[j] => i = j
           /\ \A i, j \in 1..Len(t) : i < j => stamp[t[i]] <= stamp[t[j]]
<1> DEFINE N == Len(queue)
<1>1. N \in Nat /\ d \in Nat /\ d <= N
  BY QueueFacts
<1>2. t \in Seq(Msg) /\ Len(t) = N - d /\ DOMAIN t = 1..Len(t)
  BY LenProperties DEF IsTail
<1>3. \A i \in 1..Len(t) : d + i \in 1..N /\ t[i] = queue[d + i]
  BY <1>1, <1>2 DEF IsTail
<1>4. \A i \in 1..N : i \notin 1..d => i - d \in 1..Len(t) /\ d + (i - d) = i
  BY <1>1, <1>2
<1>5. \A i, j \in 1..Len(t) : /\ d + i = d + j => i = j
                              /\ i < j => d + i < d + j
  BY <1>1, <1>2
<1>6. \A i \in 1..Len(t), j \in 1..d : j \in 1..N /\ d + i # j
  BY <1>1, <1>2
<1>7. Seen = {queue[i] : i \in 1..N}
  BY QueueFacts DEF Store, Queued
<1>8. {t[i] : i \in 1..Len(t)} = Seen \ Dropped(d)
  <2>1. ASSUME NEW i \in 1..Len(t)
        PROVE  t[i] \in Seen \ Dropped(d)
    <3>1. t[i] \in Seen
      BY <1>3, <1>7
    <3>2. t[i] \notin Dropped(d)
      BY <1>3, <1>6 DEF Dropped, Store
    <3>3. QED
      BY <3>1, <3>2
  <2>2. ASSUME NEW m \in Seen \ Dropped(d)
        PROVE  m \in {t[i] : i \in 1..Len(t)}
    <3>1. PICK i \in 1..N : m = queue[i]
      BY <1>7
    <3>2. i \notin 1..d
      BY <3>1 DEF Dropped
    <3>3. QED
      BY <1>3, <1>4, <3>1, <3>2
  <2>3. QED
    BY <2>1, <2>2
<1>9. \A i, j \in 1..Len(t) : t[i] = t[j] => i = j
  BY <1>3, <1>5 DEF Store
<1>10. ASSUME NEW i \in 1..Len(t), NEW j \in 1..Len(t), i < j
       PROVE  stamp[t[i]] <= stamp[t[j]]
  <2>1. d + i \in 1..N /\ d + j \in 1..N /\ d + i < d + j
    BY <1>3, <1>5, <1>10
  <2>2. stamp[queue[d + i]] <= stamp[queue[d + j]]
    BY <2>1 DEF Store
  <2>3. QED
    BY <1>3, <2>2
<1>11. Len(t) \in Nat
  BY <1>1, <1>2
<1>12. QED
  BY <1>2, <1>8, <1>9, <1>10, <1>11

\* The map is finite.
LEMMA SeenFinite ==
    /\ IsFiniteSet(Seen)
    /\ \A S : IsFiniteSet(Seen \ S) /\ Cardinality(Seen \ S) \in Nat
                /\ Cardinality(Seen \ S) <= Cardinality(Seen)
    /\ Cardinality(Seen) \in Nat
  BY MsgAssumption, FS_Subset, FS_CardinalityType DEF Seen

\* Dropping the first d IDs from both.
LEMMA DropStore ==
    ASSUME Types, Store, NEW d \in 0..Len(queue), IsTail(queue', d),
           \A m \in Msg : stamp'[m] = IF m \in Dropped(d) THEN NoTime
                                      ELSE stamp[m],
           now' = now
    PROVE  Store'
<1>1. /\ queue' \in Seq(Msg) /\ DOMAIN queue' = 1..Len(queue')
      /\ {queue'[i] : i \in 1..Len(queue')} = Seen \ Dropped(d)
      /\ \A i, j \in 1..Len(queue') : queue'[i] = queue'[j] => i = j
      /\ \A i, j \in 1..Len(queue') :
           i < j => stamp[queue'[i]] <= stamp[queue'[j]]
  BY TailFacts
<1>2. Seen' = Seen \ Dropped(d)
  BY DEF Seen
<1>3. Queued' = Seen'
  BY <1>1, <1>2 DEF Queued
<1>4. \A i \in 1..Len(queue') : stamp'[queue'[i]] = stamp[queue'[i]]
  BY <1>1 DEF Seen
<1>5. \A i, j \in 1..Len(queue') :
        i < j => stamp'[queue'[i]] <= stamp'[queue'[j]]
  BY <1>1, <1>4
<1>6. Cardinality(Seen') <= SeenMax
  <2>1. /\ Cardinality(Seen \ Dropped(d)) \in Nat
        /\ Cardinality(Seen \ Dropped(d)) <= Cardinality(Seen)
        /\ Cardinality(Seen) \in Nat
    BY SeenFinite
  <2>2. Cardinality(Seen) <= SeenMax
    BY DEF Store
  <2>3. QED
    BY <1>2, <2>1, <2>2, SizeAssumption
<1>7. ASSUME NEW m \in Msg
      PROVE  stamp'[m] <= now'
  <2>1. now \in Nat
    BY DEF Types, Times
  <2>2. NoTime <= now
    BY <2>1 DEF NoTime
  <2>3. stamp[m] <= now
    BY DEF Store
  <2>4. stamp'[m] = NoTime \/ stamp'[m] = stamp[m]
    OBVIOUS
  <2>5. QED
    BY <2>2, <2>3, <2>4
<1>8. QED
  BY <1>1, <1>3, <1>5, <1>6, <1>7 DEF Store

\* Dropping the first d IDs and then adding a new one at the end.
LEMMA AppendStore ==
    ASSUME Types, Store, NEW d \in 0..Len(queue), NEW t, IsTail(t, d),
           NEW m \in Msg, stamp[m] = NoTime,
           queue' = Append(t, m),
           \A i \in Msg : stamp'[i] = IF i = m THEN now
                                      ELSE IF i \in Dropped(d) THEN NoTime
                                      ELSE stamp[i],
           Cardinality(Seen \ Dropped(d)) < SeenMax,
           now' = now
    PROVE  Store'
<1> DEFINE L == Len(t)
<1>1. /\ t \in Seq(Msg) /\ L \in Nat
      /\ {t[i] : i \in 1..L} = Seen \ Dropped(d)
      /\ \A i, j \in 1..L : t[i] = t[j] => i = j
      /\ \A i, j \in 1..L : i < j => stamp[t[i]] <= stamp[t[j]]
  BY TailFacts
<1>2. now \in Nat /\ now # NoTime
  BY TimeAssumption DEF Types, Times, NoTime
<1>3. /\ queue' \in Seq(Msg) /\ Len(queue') = L + 1
      /\ \A i \in 1..L : queue'[i] = t[i]
      /\ queue'[L + 1] = m
  BY <1>1, AppendProperties
<1>4. DOMAIN queue' = 1..Len(queue')
  BY <1>3, LenProperties
<1>5. \A i \in 1..Len(queue') : i \in 1..L \/ i = L + 1
  BY <1>1, <1>3
<1>6. 1..L \subseteq 1..Len(queue') /\ L + 1 \in 1..Len(queue')
  BY <1>1, <1>3
<1>7. m \notin Seen /\ Seen' = (Seen \ Dropped(d)) \cup {m}
  BY <1>2 DEF Seen
<1>8. \A i \in 1..L : t[i] # m /\ t[i] \in Msg /\ stamp'[t[i]] = stamp[t[i]]
  BY <1>1, <1>7 DEF Seen
<1>9. Queued' = Seen'
  <2>1. Queued' = {queue'[i] : i \in 1..Len(queue')}
    BY <1>4 DEF Queued
  <2>2. {queue'[i] : i \in 1..Len(queue')} = {t[i] : i \in 1..L} \cup {m}
    BY <1>3, <1>5, <1>6
  <2>3. QED
    BY <1>1, <1>7, <2>1, <2>2
<1>10. ASSUME NEW i \in 1..Len(queue'), NEW j \in 1..Len(queue')
       PROVE  queue'[i] = queue'[j] => i = j
  BY <1>1, <1>3, <1>5, <1>8
<1>11. \A k \in Msg : stamp'[k] <= now'
  BY <1>2 DEF Store, NoTime
<1>12. ASSUME NEW i \in 1..Len(queue'), NEW j \in 1..Len(queue'), i < j
       PROVE  stamp'[queue'[i]] <= stamp'[queue'[j]]
  <2>1. i \in 1..L
    BY <1>1, <1>3, <1>12
  <2>2. CASE j \in 1..L
    BY <1>1, <1>3, <1>8, <1>12, <2>1, <2>2
  <2>3. CASE j = L + 1
    <3>1. stamp'[queue'[j]] = now
      BY <1>3, <2>3
    <3>2. stamp'[queue'[i]] <= now
      BY <1>3, <1>8, <1>11, <2>1
    <3>3. QED
      BY <3>1, <3>2
  <2>4. QED
    BY <1>5, <2>2, <2>3
<1>13. Cardinality(Seen') <= SeenMax
  <2>1. Cardinality(Seen') = Cardinality(Seen \ Dropped(d)) + 1
    BY <1>7, SeenFinite, FS_AddElement
  <2>2. Cardinality(Seen \ Dropped(d)) \in Nat
    BY SeenFinite
  <2>3. QED
    BY <2>1, <2>2, SizeAssumption
<1>14. QED
  BY <1>3, <1>9, <1>10, <1>11, <1>12, <1>13 DEF Store

\* What the sweep does, seen from the queue.
LEMMA SweepDrops ==
    ASSUME Types, Store
    PROVE  \E k \in 0..Len(queue) :
             /\ IsTail(SweptQueue, k)
             /\ \A m \in Msg : SweptStamp[m] = IF m \in Dropped(k) THEN NoTime
                                                ELSE stamp[m]
<1>1. PICK k \in 0..Len(queue) :
        \A i \in 1..Len(queue) : Expired(queue[i]) <=> i <= k
  BY ExpiredFirst
<1>2. IsTail(SweptQueue, k)
  BY <1>1, SweptTail
<1>3. ASSUME NEW m \in Msg
      PROVE  m \in Queued /\ Expired(m) <=> m \in Dropped(k)
  <2>1. \A i \in 1..k : i \in 1..Len(queue) /\ i <= k
    BY QueueFacts
  <2>2. \A i \in 1..Len(queue) : i <= k => i \in 1..k
    BY QueueFacts
  <2>3. QED
    BY <1>1, <2>1, <2>2, QueueFacts DEF Queued, Dropped
<1>4. \A m \in Msg : SweptStamp[m] = IF m \in Dropped(k) THEN NoTime
                                     ELSE stamp[m]
  BY <1>3 DEF SweptStamp
<1>5. QED
  BY <1>2, <1>4

\* The loop of Add ends: it has made room or emptied the queue.
LEMMA SurplusFacts ==
    ASSUME Len(SweptQueue) \in Nat
    PROVE  /\ Surplus \in 0..Len(SweptQueue)
           /\ \/ Surplus = Len(SweptQueue)
              \/ Cardinality(Left(Surplus)) < SeenMax
<1> DEFINE N == Len(SweptQueue)
           J == {k \in 0..N : k = N \/ Cardinality(Left(k)) < SeenMax}
<1>1. J \in SUBSET Nat /\ N \in J
  OBVIOUS
<1>2. PICK k \in J : \A y \in J : k <= y
  <2> HIDE DEF J
  <2>1. QED
    BY <1>1, LeastIndex
<1>3. ASSUME NEW j \in 0..(k - 1)
      PROVE  Cardinality(Left(j)) >= SeenMax
  <2>1. j \in 0..N /\ j < k /\ j # N
    BY <1>2
  <2>2. j \notin J
    BY <1>2, <2>1
  <2>3. Cardinality(Left(j)) \in Nat
    <3>1. Left(j) \in SUBSET Msg
      BY DEF Left
    <3>2. QED
      BY <3>1, MsgAssumption, FS_Subset, FS_CardinalityType
  <2>4. QED
    BY <2>1, <2>2, <2>3, SizeAssumption
<1>4. /\ k \in 0..N
      /\ k = N \/ Cardinality(Left(k)) < SeenMax
      /\ \A j \in 0..(k - 1) : Cardinality(Left(j)) >= SeenMax
  BY <1>2, <1>3
<1>5. QED
  BY <1>4, Zenon DEF Surplus

\* Insert drops a number of the oldest IDs and adds the new one.
LEMMA InsertStore ==
    ASSUME Types, Store, NEW m \in Msg, stamp[m] = NoTime, Insert(m),
           now' = now, evicted \subseteq Msg
    PROVE  Store' /\ evicted' \subseteq Msg
<1>1. Len(queue) \in Nat /\ queue \in Seq(Msg)
  BY QueueFacts DEF Store
<1>2. CASE Cardinality(Seen) < SeenMax
  <2>1. /\ stamp' = [stamp EXCEPT ![m] = now] /\ queue' = Append(queue, m)
        /\ evicted' = evicted
    BY Insert(m), <1>2 DEF Insert
  <2>2. IsTail(queue, 0) /\ 0 \in 0..Len(queue)
    BY <1>1 DEF IsTail
  <2>3. Dropped(0) = {}
    BY DEF Dropped
  <2>4. \A i \in Msg : stamp'[i] = IF i = m THEN now
                                   ELSE IF i \in Dropped(0) THEN NoTime
                                   ELSE stamp[i]
    BY <2>1, <2>3 DEF Types
  <2>5. Seen \ Dropped(0) = Seen
    BY <2>3
  <2>6. Store'
    BY <1>2, <2>1, <2>2, <2>4, <2>5, AppendStore
  <2>7. QED
    BY <2>1, <2>6
<1>3. CASE ~(Cardinality(Seen) < SeenMax)
  <2> DEFINE Q == SweptQueue
             s == Surplus
             t == SubSeq(Q, s + 1, Len(Q))
  <2>1. /\ stamp' = [i \in Msg |-> IF i = m THEN now
                                   ELSE IF i \in Front(s) THEN NoTime
                                   ELSE SweptStamp[i]]
        /\ queue' = Append(t, m)
        /\ evicted' = evicted \cup Front(s)
    BY Insert(m), <1>3 DEF Insert
  <2>2. PICK k \in 0..Len(queue) :
          /\ IsTail(Q, k)
          /\ \A i \in Msg : SweptStamp[i] = IF i \in Dropped(k) THEN NoTime
                                             ELSE stamp[i]
    BY SweepDrops
  <2>3. /\ Q \in Seq(Msg) /\ Len(Q) = Len(queue) - k /\ Len(Q) \in Nat
        /\ \A i \in 1..Len(Q) : Q[i] = queue[k + i] /\ Q[i] \in Msg
    BY <1>1, <2>2, ElementOfSeq DEF IsTail
  <2>4. s \in 0..Len(Q) /\ (s = Len(Q) \/ Cardinality(Left(s)) < SeenMax)
    BY <2>3, SurplusFacts
  <2>5. k + s \in 0..Len(queue) /\ k \in Nat /\ s \in Nat
    BY <1>1, <2>3, <2>4
  <2> HIDE DEF Q, s
  <2>6. IsTail(t, k + s)
    <3>1. /\ t \in Seq(Msg)
          /\ Len(t) = IF s + 1 <= Len(Q) THEN Len(Q) - (s + 1) + 1 ELSE 0
          /\ \A i \in 1..Len(Q) - (s + 1) + 1 : t[i] = Q[(s + 1) + i - 1]
      <4>1. \A i \in (s + 1)..Len(Q) : Q[i] \in Msg
        BY <2>3, <2>5
      <4>2. s + 1 \in Int /\ Len(Q) \in Int
        BY <2>3, <2>5
      <4>3. QED
        BY <4>1, <4>2, SubSeqProperties
    <3>2. Len(t) = Len(queue) - (k + s)
      BY <1>1, <2>3, <2>4, <2>5, <3>1
    <3>3. ASSUME NEW i \in 1..Len(queue) - (k + s)
          PROVE  t[i] = queue[(k + s) + i]
      <4>1. /\ i \in 1..Len(Q) - (s + 1) + 1 /\ (s + 1) + i - 1 = s + i
            /\ s + i \in 1..Len(Q) /\ k + (s + i) = (k + s) + i
        BY <1>1, <2>3, <2>4, <2>5
      <4>2. t[i] = Q[s + i] /\ Q[s + i] = queue[k + (s + i)]
        BY <2>3, <3>1, <4>1
      <4>3. QED
        BY <4>1, <4>2
    <3>4. QED
      BY <3>1, <3>2, <3>3 DEF IsTail
  <2>7. Dropped(k + s) = Dropped(k) \cup Front(s)
    <3>1. Front(s) = {queue[k + i] : i \in 1..s}
      <4>1. 1..s \subseteq 1..Len(Q)
        BY <2>3, <2>4
      <4>2. QED
        BY <2>3, <4>1 DEF Front, Q
    <3>2. \A i \in 1..k + s : i \in 1..k \/ (i - k \in 1..s /\ k + (i - k) = i)
      BY <2>5
    <3>3. \A i \in 1..k : i \in 1..k + s
      BY <2>5
    <3>4. \A i \in 1..s : k + i \in 1..k + s
      BY <2>5
    <3>5. QED
      BY <3>1, <3>2, <3>3, <3>4 DEF Dropped
  <2>8. \A i \in Msg : stamp'[i] = IF i = m THEN now
                                   ELSE IF i \in Dropped(k + s) THEN NoTime
                                   ELSE stamp[i]
    BY <2>1, <2>2, <2>7
  <2>9. Cardinality(Seen \ Dropped(k + s)) < SeenMax
    <3>1. Left(s) = Seen \ Dropped(k + s)
      BY <2>2, <2>7 DEF Left, Seen
    <3>2. CASE s = Len(Q)
      <4>1. k + s = Len(queue)
        BY <1>1, <2>3, <2>5, <3>2
      <4>2. Seen \ Dropped(k + s) = {}
        <5>1. Seen = {queue[i] : i \in 1..Len(queue)}
          BY QueueFacts DEF Store, Queued
        <5>2. QED
          BY <4>1, <5>1 DEF Dropped
      <4>3. Cardinality(Seen \ Dropped(k + s)) = 0
        BY <4>2, FS_EmptySet
      <4>4. QED
        BY <4>3, SizeAssumption
    <3>3. QED
      BY <2>4, <3>1, <3>2
  <2>10. Store'
    BY <2>1, <2>5, <2>6, <2>8, <2>9, AppendStore
  <2>11. Front(s) \subseteq Msg
    <3>1. 1..s \subseteq 1..Len(Q)
      BY <2>3, <2>4
    <3>2. QED
      BY <2>3, <3>1 DEF Front, Q
  <2>12. QED
    BY <2>1, <2>10, <2>11
<1>4. QED
  BY <1>2, <1>3

\* StoreInv holds initially.
LEMMA StoreInit ==
    ASSUME Init
    PROVE  StoreInv
<1>1. queue = <<>> /\ Seen = {} /\ Queued = {}
  BY Init DEF Init, Seen, Queued
<1>2. Cardinality(Seen) = 0
  BY <1>1, FS_EmptySet
<1>3. \A m \in Msg : stamp[m] <= now
  BY Init DEF Init, NoTime
<1>4. Store
  BY <1>1, <1>2, <1>3, SizeAssumption DEF Store
<1>5. QED
  BY Init, <1>4, MsgAssumption DEF Init, StoreInv, Sets

\* Every step preserves StoreInv.
LEMMA StoreNext ==
    ASSUME IInv, StoreInv, [Next]_vars
    PROVE  StoreInv'
<1>1. Types /\ Pending /\ Store /\ wire \subseteq Msg /\ evicted \subseteq Msg
  BY DEF IInv, StoreInv, Sets
<1>2. ASSUME UNCHANGED <<stamp, queue, now>>
      PROVE  Store'
  BY <1>1, <1>2 DEF Store, Queued, Seen
<1>3. ASSUME NEW w \in Worker, pc[w] # "idle"
      PROVE  job[w] \in Msg
  BY <1>1, <1>3 DEF Types, Pending
<1>4. ASSUME NEW w \in Worker, Add(w) \/ Mark(w)
      PROVE  StoreInv'
  <2>1. /\ job[w] \in Msg /\ wire' = wire /\ now' = now
        /\ \/ UNCHANGED <<stamp, queue, evicted>>
           \/ stamp[job[w]] = NoTime /\ Insert(job[w])
    BY <1>3, <1>4 DEF Add, Mark
  <2>2. CASE UNCHANGED <<stamp, queue, evicted>>
    BY <1>1, <1>2, <2>1, <2>2 DEF StoreInv, Sets
  <2>3. CASE stamp[job[w]] = NoTime /\ Insert(job[w])
    BY <1>1, <2>1, <2>3, InsertStore DEF StoreInv, Sets
  <2>4. QED
    BY <2>1, <2>2, <2>3
<1>5. ASSUME NEW m \in Msg, SendDirect(m)
      PROVE  StoreInv'
  BY <1>1, <1>5, InsertStore DEF StoreInv, Sets, SendDirect, Created
<1>6. ASSUME NEW w \in Worker, NEW m \in Msg,
             Receive(w, m) \/ Inject(w, m) \/ Resync(w, m)
      PROVE  StoreInv'
  BY <1>1, <1>2, <1>6 DEF StoreInv, Sets, Receive, Inject, Resync
<1>7. ASSUME NEW w \in Worker, Handler(w) \/ Broadcast(w)
      PROVE  StoreInv'
  BY <1>1, <1>2, <1>3, <1>7 DEF StoreInv, Sets, Handler, Broadcast
<1>8. CASE Sweep
  <2>1. /\ stamp' = SweptStamp /\ queue' = SweptQueue
        /\ UNCHANGED <<now, wire, evicted>>
    BY <1>8 DEF Sweep
  <2>2. PICK k \in 0..Len(queue) :
          /\ IsTail(SweptQueue, k)
          /\ \A i \in Msg : SweptStamp[i] = IF i \in Dropped(k) THEN NoTime
                                             ELSE stamp[i]
    BY <1>1, SweepDrops
  <2>3. Store'
    BY <1>1, <2>1, <2>2, DropStore
  <2>4. QED
    BY <1>1, <2>1, <2>3 DEF StoreInv, Sets
<1>9. CASE Tick
  <2>1. now' = now + 1 /\ UNCHANGED <<stamp, queue, wire, evicted>>
    BY <1>9 DEF Tick
  <2>2. \A m \in Msg : stamp[m] <= now'
    BY <1>1, <2>1, TimeAssumption DEF Store, Types, Times, NoTime
  <2>3. Store'
    BY <1>1, <2>1, <2>2 DEF Store, Queued, Seen
  <2>4. QED
    BY <1>1, <2>1, <2>3 DEF StoreInv, Sets
<1>10. CASE UNCHANGED vars
  BY <1>1, <1>2, <1>10 DEF vars, StoreInv, Sets
<1>11. QED
  BY <1>4, <1>5, <1>6, <1>7, <1>8, <1>9, <1>10 DEF Next, WorkerStep

\* A queue without repetitions is as long as its set of entries is large.
LEMMA StoreMatches ==
    ASSUME Types, Store
    PROVE  QueueMatchesMap
<1>1. /\ Len(queue) \in Nat /\ DOMAIN queue = 1..Len(queue)
      /\ queue \in [1..Len(queue) -> Msg]
  BY QueueFacts, LenProperties DEF Store
<1>2. Seen = {queue[i] : i \in 1..Len(queue)}
  BY <1>1 DEF Store, Queued
<1>3. queue \in [1..Len(queue) -> Seen]
  BY <1>1, <1>2
<1>4. queue \in Bijection(1..Len(queue), Seen)
  BY <1>2, <1>3, Fun_IsBij DEF Store
<1>5. Cardinality(Seen) = Len(queue)
  BY <1>1, <1>4, FS_CountingElements DEF ExistsBijection
<1>6. QED
  BY <1>1, <1>5 DEF Store, QueueMatchesMap

\* Map and queue never come apart: the queue lists every stored ID once, in
\* the order of their times, through every sweep and every eviction.
THEOREM QueueIsTheMap == Spec => []QueueMatchesMap
  BY StoreInit, Invariance, StoreNext, StoreMatches, PTL DEF Spec, IInv, StoreInv

\* Every variable keeps its type and the store its size limit.
THEOREM TypeCorrect == Spec => []TypeOK
<1>1. IInv /\ StoreInv => TypeOK
  BY DEF IInv, StoreInv, Types, Times, Store, Sets, TypeOK
<1>2. QED
  BY <1>1, StoreInit, Invariance, StoreNext, PTL DEF Spec
=============================================================================
