---------------------------- MODULE GossipProofs ----------------------------
(***************************************************************************)
(* Flooding, for every mesh, every set of messages, every queue length, and *)
(* any way links break and limiters refuse.                                *)
(***************************************************************************)
EXTENDS Gossip, SequenceTheorems, TLAPS

----------------------------------------------------------------------------
(* The inductive invariant.                                                *)

Busy == {"handle", "flood"}

\* What a goroutine at each step knows about its message.
JobOK(n, t) ==
    /\ pc[<<n, t>>] = "idle" <=> job[<<n, t>>] = NoMsg
    /\ pc[<<n, t>>] \in Busy => job[<<n, t>>] \in seen[n]
    /\ pc[<<n, t>>] = "handle" => handled[n][job[<<n, t>>]] = 0
    /\ pc[<<n, t>>] = "mark" => /\ n = t
                               /\ job[<<n, t>>] \in Joins
                               /\ Origin[job[<<n, t>>]] = n

\* Between Add and the end of the flood no other goroutine of the node has the
\* same message.
Alone(n, t, u) ==
    /\ pc[<<n, t>>] \in Busy /\ pc[<<n, u>>] \in Busy
    /\ job[<<n, t>>] = job[<<n, u>>]
    => t = u

Jobs == \A n, t, u \in Node : JobOK(n, t) /\ Alone(n, t, u)

\* Nobody has a message that was not published, and what was handled is in the
\* store.
Known ==
    \A n, t \in Node, m \in Msg :
        /\ m \in seen[n] \/ m \in InFlight(<<n, t>>) \/ job[<<n, t>>] = m
           => m \in published
        /\ handled[n][m] # 0 => m \in seen[n]

\* Whoever sends a message has it in the store, or is about to.
Has(n, m) ==
    m \in seen[n] \/ (job[<<n, n>>] = m /\ pc[<<n, n>>] = "mark")

Sources ==
    \A n, p \in Node, m \in Msg :
        m \in InFlight(<<p, n>>) \/ (n # p /\ job[<<n, p>>] = m) => Has(p, m)

\* No goroutine of n is going to queue m for p.
Spent(n, p, m) ==
    /\ m \in seen[n]
    /\ \A t \in Node : /\ ~Owes(n, t, p, m)
                       /\ job[<<n, t>>] = m => pc[<<n, t>>] # "handle"

\* What has crossed a link as often as it may is not going to cross it again,
\* and what was never published has not crossed any.
Crossings ==
    \A n, p \in Node, m \in Msg :
        /\ crossed[<<n, p>>][m] <= Allowed(n, m)
        /\ crossed[<<n, p>>][m] = Allowed(n, m) => Spent(n, p, m)
        /\ crossed[<<n, p>>][m] # 0 => m \in published

IInv == TypeOK /\ Jobs /\ Known /\ Sources /\ Crossings /\ Covered

----------------------------------------------------------------------------
(* What the building blocks of the actions do.                             *)

Steps == {"idle", "add", "handle", "flood", "mark"}

\* A pair of nodes is a goroutine and a direction of a link.
LEMMA PairFacts ==
    /\ \A n, p \in Node : <<n, p>> \in Pair
    /\ \A a, b, n, p \in Node : <<a, b>> = <<n, p>> <=> a = n /\ b = p
    /\ \A n \in Node : <<n, n>> \notin Link
    /\ \A n, p \in Node : <<n, p>> \in Link => <<p, n>> \in Link
  BY MeshAssumption DEF Pair

\* Goto moves one goroutine and leaves the others alone.
LEMMA GotoFacts ==
    ASSUME TypeOK, NEW a \in Node, NEW b \in Node, NEW step \in Steps,
           NEW m \in Msg \cup {NoMsg}, NEW S \in SUBSET Node,
           Goto(<<a, b>>, step, m, S)
    PROVE  /\ pc' \in [Pair -> Steps]
           /\ job' \in [Pair -> Msg \cup {NoMsg}]
           /\ todo' \in [Pair -> SUBSET Node]
           /\ pc'[<<a, b>>] = step /\ job'[<<a, b>>] = m
           /\ todo'[<<a, b>>] = S
           /\ \A n, t \in Node : n # a \/ t # b =>
                /\ pc'[<<n, t>>] = pc[<<n, t>>]
                /\ job'[<<n, t>>] = job[<<n, t>>]
                /\ todo'[<<n, t>>] = todo[<<n, t>>]
  BY PairFacts DEF TypeOK, Goto, Steps

\* The step counts one more crossing, of m from n to p.
Counted(n, p, m) ==
    /\ crossed' \in [Pair -> [Msg -> Nat]]
    /\ crossed'[<<n, p>>][m] = crossed[<<n, p>>][m] + 1
    /\ \A a, b \in Node, x \in Msg :
         a # n \/ b # p \/ x # m =>
            crossed'[<<a, b>>][x] = crossed[<<a, b>>][x]

\* A queued message is in flight on its link, and has crossed it.
LEMMA QueueFacts ==
    ASSUME TypeOK, NEW n \in Node, NEW p \in Node, NEW m \in Msg,
           Queue(n, p, m)
    PROVE  /\ net' \in [Pair -> Seq(Msg)]
           /\ \A l \in Pair : Len(net'[l]) <= QueueLen
           /\ up' = up
           /\ \A a, b \in Node :
                InFlight(<<a, b>>)' = InFlight(<<a, b>>)
                     \cup (IF a = n /\ b = p THEN {m} ELSE {})
           /\ Counted(n, p, m)
<1> DEFINE l == <<n, p>>
<1>1. l \in Pair /\ net[l] \in Seq(Msg) /\ Len(net[l]) < QueueLen
  BY PairFacts, Queue(n, p, m) DEF TypeOK, Queue
<1>2. /\ Append(net[l], m) \in Seq(Msg)
      /\ Len(Append(net[l], m)) = Len(net[l]) + 1
      /\ \A i \in 1..Len(net[l]) : Append(net[l], m)[i] = net[l][i]
      /\ Append(net[l], m)[Len(net[l]) + 1] = m
  BY <1>1
<1>3. /\ net' \in [Pair -> Seq(Msg)]
      /\ net'[l] = Append(net[l], m)
      /\ \A k \in Pair : k # l => net'[k] = net[k]
  BY <1>1, <1>2, Queue(n, p, m) DEF TypeOK, Queue
<1>4. \A k \in Pair : Len(net'[k]) <= QueueLen
  <2>1. Len(net'[l]) <= QueueLen
    BY <1>1, <1>2, <1>3, QueueAssumption, LenProperties
  <2>2. QED
    BY <2>1, <1>3 DEF TypeOK
<1>5. InFlight(l)' = InFlight(l) \cup {m}
  <2>1. Len(net[l]) \in Nat
    BY <1>1, LenProperties
  <2>2. /\ DOMAIN net[l] = 1..Len(net[l])
        /\ DOMAIN (net'[l]) = 1..(Len(net[l]) + 1)
    BY <1>1, <1>2, <1>3, LenProperties
  <2>3. ASSUME NEW x \in InFlight(l)
        PROVE  x \in InFlight(l)'
    <3>1. PICK i \in 1..Len(net[l]) : x = net[l][i]
      BY <2>2 DEF InFlight
    <3>2. i \in 1..(Len(net[l]) + 1) /\ net'[l][i] = x
      BY <3>1, <2>1, <1>2, <1>3
    <3>3. QED
      BY <3>2, <2>2 DEF InFlight
  <2>4. m \in InFlight(l)'
    <3>1. Len(net[l]) + 1 \in 1..(Len(net[l]) + 1)
      BY <2>1
    <3>2. QED
      BY <3>1, <2>2, <1>2, <1>3 DEF InFlight
  <2>5. ASSUME NEW x \in InFlight(l)'
        PROVE  x \in InFlight(l) \cup {m}
    <3>1. PICK i \in 1..(Len(net[l]) + 1) : x = net'[l][i]
      BY <2>2 DEF InFlight
    <3>2. CASE i = Len(net[l]) + 1
      BY <3>1, <3>2, <1>2, <1>3
    <3>3. CASE i # Len(net[l]) + 1
      <4>1. i \in 1..Len(net[l])
        BY <3>3, <2>1
      <4>2. QED
        BY <4>1, <3>1, <2>2, <1>2, <1>3 DEF InFlight
    <3>4. QED
      BY <3>2, <3>3
  <2>6. QED
    BY <2>3, <2>4, <2>5
<1>6. \A k \in Pair : k # l => InFlight(k)' = InFlight(k)
  BY <1>3 DEF InFlight
<1>7. Counted(n, p, m) /\ up' = up
  <2>1. crossed' = [crossed EXCEPT ![l][m] = @ + 1] /\ up' = up
    BY Queue(n, p, m) DEF Queue
  <2>2. crossed \in [Pair -> [Msg -> Nat]]
    BY DEF TypeOK
  <2>3. crossed[l] \in [Msg -> Nat] /\ crossed[l][m] \in Nat
    BY <2>2, <1>1
  <2>4. crossed' = [crossed EXCEPT ![l] = [crossed[l] EXCEPT ![m] = @ + 1]]
    BY <2>1
  <2>5. /\ [crossed[l] EXCEPT ![m] = @ + 1] \in [Msg -> Nat]
        /\ [crossed[l] EXCEPT ![m] = @ + 1][m] = crossed[l][m] + 1
        /\ \A x \in Msg : x # m =>
             [crossed[l] EXCEPT ![m] = @ + 1][x] = crossed[l][x]
    BY <2>3
  <2>6. crossed' \in [Pair -> [Msg -> Nat]]
    BY <2>2, <2>4, <2>5, <1>1
  <2>7. crossed'[l][m] = crossed[l][m] + 1
    BY <2>2, <2>4, <2>5, <1>1
  <2>8. ASSUME NEW a \in Node, NEW b \in Node, NEW x \in Msg,
               a # n \/ b # p \/ x # m
        PROVE  crossed'[<<a, b>>][x] = crossed[<<a, b>>][x]
    <3>1. CASE a = n /\ b = p
      BY <3>1, <2>8, <2>2, <2>4, <2>5, <1>1
    <3>2. CASE ~(a = n /\ b = p)
      <4>1. <<a, b>> \in Pair /\ <<a, b>> # l
        BY <3>2, PairFacts
      <4>2. crossed'[<<a, b>>] = crossed[<<a, b>>]
        BY <4>1, <2>2, <2>4, <1>1
      <4>3. QED
        BY <4>2
    <3>3. QED
      BY <3>1, <3>2
  <2>9. QED
    BY <2>1, <2>6, <2>7, <2>8 DEF Counted
<1>8. ASSUME NEW a \in Node, NEW b \in Node
      PROVE  InFlight(<<a, b>>)' = InFlight(<<a, b>>)
                  \cup (IF a = n /\ b = p THEN {m} ELSE {})
  <2>1. CASE a = n /\ b = p
    BY <2>1, <1>1, <1>5
  <2>2. CASE ~(a = n /\ b = p)
    <3>1. <<a, b>> \in Pair /\ <<a, b>> # l
      BY <2>2, PairFacts
    <3>2. QED
      BY <3>1, <2>2, <1>6
  <2>3. QED
    BY <2>1, <2>2
<1>9. QED
  BY <1>3, <1>4, <1>7, <1>8

\* The read loop takes the first message in flight off its link.
LEMMA TailFacts ==
    ASSUME TypeOK, NEW p \in Node, NEW n \in Node, net[<<p, n>>] # <<>>,
           net' = [net EXCEPT ![<<p, n>>] = Tail(@)]
    PROVE  /\ net' \in [Pair -> Seq(Msg)]
           /\ \A l \in Pair : Len(net'[l]) <= QueueLen
           /\ Head(net[<<p, n>>]) \in Msg
           /\ InFlight(<<p, n>>)
                = InFlight(<<p, n>>)' \cup {Head(net[<<p, n>>])}
           /\ \A a, b \in Node : a # p \/ b # n =>
                InFlight(<<a, b>>)' = InFlight(<<a, b>>)
<1> DEFINE l == <<p, n>>
<1>1. l \in Pair /\ net[l] \in Seq(Msg) /\ net[l] # <<>>
      /\ Len(net[l]) <= QueueLen
  BY PairFacts DEF TypeOK
<1>2. /\ Tail(net[l]) \in Seq(Msg) /\ Head(net[l]) \in Msg
      /\ Len(net[l]) \in Nat \ {0}
      /\ Head(net[l]) = net[l][1]
      /\ Len(Tail(net[l])) = Len(net[l]) - 1
      /\ \A i \in 1..(Len(net[l]) - 1) : Tail(net[l])[i] = net[l][i + 1]
  BY <1>1
<1>3. /\ net' \in [Pair -> Seq(Msg)]
      /\ net'[l] = Tail(net[l])
      /\ \A k \in Pair : k # l => net'[k] = net[k]
  BY <1>1, <1>2 DEF TypeOK
<1>4. \A k \in Pair : Len(net'[k]) <= QueueLen
  <2>1. Len(net'[l]) <= QueueLen
    <3>1. Len(net'[l]) = Len(net[l]) - 1
      BY <1>2, <1>3
    <3>2. QED
      BY <3>1, <1>1, <1>2, QueueAssumption
  <2>2. QED
    BY <2>1, <1>3 DEF TypeOK
<1>5. InFlight(l) = InFlight(l)' \cup {Head(net[l])}
  <2>1. /\ DOMAIN net[l] = 1..Len(net[l])
        /\ DOMAIN (net'[l]) = 1..(Len(net[l]) - 1)
    BY <1>1, <1>2, <1>3, LenProperties
  <2>2. ASSUME NEW x \in InFlight(l)
        PROVE  x \in InFlight(l)' \cup {Head(net[l])}
    <3>1. PICK i \in 1..Len(net[l]) : x = net[l][i]
      BY <2>1 DEF InFlight
    <3>2. CASE i = 1
      BY <3>1, <3>2, <1>2
    <3>3. CASE i # 1
      <4>1. i - 1 \in 1..(Len(net[l]) - 1) /\ net'[l][i - 1] = net[l][i]
        BY <3>3, <1>2, <1>3
      <4>2. QED
        BY <4>1, <3>1, <2>1 DEF InFlight
    <3>4. QED
      BY <3>2, <3>3
  <2>3. ASSUME NEW x \in InFlight(l)'
        PROVE  x \in InFlight(l)
    <3>1. PICK i \in 1..(Len(net[l]) - 1) : x = net'[l][i]
      BY <2>1 DEF InFlight
    <3>2. i + 1 \in 1..Len(net[l]) /\ x = net[l][i + 1]
      BY <3>1, <1>2, <1>3
    <3>3. QED
      BY <3>2, <2>1 DEF InFlight
  <2>4. Head(net[l]) \in InFlight(l)
    <3>1. 1 \in 1..Len(net[l])
      BY <1>2
    <3>2. QED
      BY <3>1, <2>1, <1>2 DEF InFlight
  <2>5. QED
    BY <2>2, <2>3, <2>4
<1>6. \A a, b \in Node : a # p \/ b # n =>
        InFlight(<<a, b>>)' = InFlight(<<a, b>>)
  <2>1. \A k \in Pair : k # l => InFlight(k)' = InFlight(k)
    BY <1>3 DEF InFlight
  <2>2. QED
    BY <2>1, PairFacts
<1>7. QED
  BY <1>2, <1>3, <1>4, <1>5, <1>6

\* A connection that closes loses frames and touches no other link.
LEMMA BreakFacts ==
    ASSUME TypeOK, NEW n \in Node, NEW p \in Node, n # p, Break(n, p)
    PROVE  /\ net' \in [Pair -> Seq(Msg)]
           /\ \A l \in Pair : Len(net'[l]) <= QueueLen
           /\ up' \subseteq up /\ <<n, p>> \notin up'
           /\ \A a, b \in Node : InFlight(<<a, b>>)' \subseteq InFlight(<<a, b>>)
           /\ \A a, b \in Node : <<a, b>> \in up' =>
                InFlight(<<a, b>>)' = InFlight(<<a, b>>)
<1>1. PICK i \in 0..Len(net[<<n, p>>]), j \in 0..Len(net[<<p, n>>]) :
        net' = [net EXCEPT ![<<n, p>>] = SubSeq(@, 1, i),
                           ![<<p, n>>] = SubSeq(@, 1, j)]
  BY Break(n, p) DEF Break
<1>2. up' = up \ {<<n, p>>, <<p, n>>}
  BY Break(n, p) DEF Break
<1>3. ASSUME NEW s \in Seq(Msg), NEW k \in 0..Len(s)
      PROVE  /\ SubSeq(s, 1, k) \in Seq(Msg)
             /\ Len(SubSeq(s, 1, k)) = k
             /\ k <= Len(s)
             /\ \A x \in 1..k : SubSeq(s, 1, k)[x] = s[x]
  BY <1>3
<1>4. <<n, p>> \in Pair /\ <<p, n>> \in Pair
      /\ net[<<n, p>>] \in Seq(Msg) /\ net[<<p, n>>] \in Seq(Msg)
  BY PairFacts DEF TypeOK
<1>5. ASSUME NEW l \in Pair
      PROVE  \E k \in 0..Len(net[l]) :
               net'[l] = IF l \in {<<n, p>>, <<p, n>>} THEN SubSeq(net[l], 1, k)
                         ELSE net[l]
  <2>1. <<n, p>> # <<p, n>>
    OBVIOUS
  <2>2. CASE l = <<n, p>>
    BY <2>1, <2>2, <1>1, <1>4 DEF TypeOK
  <2>3. CASE l = <<p, n>>
    BY <2>1, <2>3, <1>1, <1>4 DEF TypeOK
  <2>4. CASE l # <<n, p>> /\ l # <<p, n>>
    <3>1. net'[l] = net[l] /\ Len(net[l]) \in Nat
      BY <2>4, <1>1, LenProperties DEF TypeOK
    <3>2. QED
      BY <3>1, <2>4
  <2>5. QED
    BY <2>2, <2>3, <2>4
<1>6. ASSUME NEW l \in Pair
      PROVE  /\ net'[l] \in Seq(Msg) /\ Len(net'[l]) <= QueueLen
             /\ InFlight(l)' \subseteq InFlight(l)
             /\ l \notin {<<n, p>>, <<p, n>>} => InFlight(l)' = InFlight(l)
  <2>1. net[l] \in Seq(Msg) /\ Len(net[l]) <= QueueLen
    BY DEF TypeOK
  <2>2. CASE l \notin {<<n, p>>, <<p, n>>}
    BY <2>1, <2>2, <1>5 DEF InFlight
  <2>3. CASE l \in {<<n, p>>, <<p, n>>}
    <3>1. PICK k \in 0..Len(net[l]) : net'[l] = SubSeq(net[l], 1, k)
      BY <2>3, <1>5
    <3>2. /\ net'[l] \in Seq(Msg) /\ Len(net'[l]) = k /\ k <= Len(net[l])
          /\ \A x \in 1..k : net'[l][x] = net[l][x]
          /\ k \in Nat /\ Len(net[l]) \in Nat
      BY <3>1, <2>1, <1>3, LenProperties
    <3>3. DOMAIN (net'[l]) = 1..k /\ DOMAIN net[l] = 1..Len(net[l])
      BY <3>2, <2>1, LenProperties
    <3>4. InFlight(l)' \subseteq InFlight(l)
      BY <3>2, <3>3 DEF InFlight
    <3>5. Len(net'[l]) <= QueueLen
      BY <3>2, <2>1, QueueAssumption
    <3>6. QED
      BY <3>2, <3>4, <3>5, <2>3
  <2>4. QED
    BY <2>2, <2>3
<1>7. net' \in [Pair -> Seq(Msg)]
  <2>1. DOMAIN net' = Pair /\ net' = [l \in Pair |-> net'[l]]
    BY <1>1 DEF TypeOK
  <2>2. QED
    BY <2>1, <1>6
<1>8. \A a, b \in Node : <<a, b>> \in Pair
  BY PairFacts
<1>9. QED
  BY <1>2, <1>6, <1>7, <1>8

----------------------------------------------------------------------------
(* Every action preserves the invariant.                                   *)

\* The invariant holds initially.
LEMMA InitIInv == Init => IInv
<1> SUFFICES ASSUME Init PROVE IInv
  OBVIOUS
<1>1. \A l \in Pair : net[l] = <<>> /\ Len(net[l]) <= QueueLen
  BY QueueAssumption DEF Init
<1>2. \A l \in Pair : InFlight(l) = {}
  BY <1>1 DEF InFlight
<1>3. TypeOK
  BY <1>1 DEF Init, TypeOK
<1>4. \A n, t \in Node : <<n, t>> \in Pair
  BY PairFacts
<1>5. Jobs /\ Covered
  BY <1>4 DEF Init, Jobs, JobOK, Alone, Covered, Busy
<1>6. Crossings
  <2>1. ASSUME NEW n \in Node, NEW p \in Node, NEW m \in Msg
        PROVE  /\ crossed[<<n, p>>][m] = 0
               /\ crossed[<<n, p>>][m] <= Allowed(n, m)
               /\ crossed[<<n, p>>][m] # Allowed(n, m)
    <3>1. <<n, p>> \in Pair
      BY <1>4
    <3>2. crossed[<<n, p>>] = [x \in Msg |-> 0]
      BY <3>1 DEF Init
    <3>3. QED
      BY <3>2 DEF Allowed
  <2>2. QED
    BY <2>1 DEF Crossings
<1>7. NoMsg \notin Msg
  BY MsgAssumption
<1>8. Known /\ Sources
  BY <1>2, <1>4, <1>7 DEF Init, Known, Sources
<1>9. QED
  BY <1>3, <1>5, <1>6, <1>8 DEF IInv

\* InFlight reads nothing but net.
LEMMA SameNet ==
    ASSUME net' = net
    PROVE  \A a, b \in Node : InFlight(<<a, b>>)' = InFlight(<<a, b>>)
  BY DEF InFlight

\* What is in flight is a message.
LEMMA InFlightMsg ==
    ASSUME IInv, NEW a \in Node, NEW b \in Node
    PROVE  InFlight(<<a, b>>) \subseteq Msg
<1>1. net[<<a, b>>] \in Seq(Msg)
  BY IInv, PairFacts DEF IInv, TypeOK
<1>2. QED
  BY <1>1, ElementOfSeq, LenProperties DEF InFlight

\* What keeps a message on its way.
LEMMA StillOnItsWay ==
    ASSUME NEW n \in Node, NEW p \in Node, NEW m \in Msg, OnItsWay(n, p, m),
           m \in seen[p] \cup limited[<<n, p>>]
             => m \in seen'[p] \cup limited'[<<n, p>>],
           m \in InFlight(<<n, p>>) => OnItsWay(n, p, m)',
           \A t \in Node : job[<<p, t>>] = m
             => job'[<<p, t>>] = m \/ m \in seen'[p],
           \A t \in Node : Owes(n, t, p, m)
             => Owes(n, t, p, m)' \/ OnItsWay(n, p, m)'
    PROVE  OnItsWay(n, p, m)'
<1>1. CASE m \in seen[p] \cup limited[<<n, p>>]
  BY <1>1 DEF OnItsWay
<1>2. CASE m \in InFlight(<<n, p>>)
  BY <1>2
<1>3. CASE \E t \in Node : job[<<p, t>>] = m
  BY <1>3 DEF OnItsWay
<1>4. CASE \E t \in Node : Owes(n, t, p, m)
  BY <1>4 DEF OnItsWay
<1>5. QED
  BY <1>1, <1>2, <1>3, <1>4, OnItsWay(n, p, m) DEF OnItsWay

\* A step that gives an idle goroutine of n0 the message m0, and at most adds
\* messages to the queues, keeps what the invariant says of the goroutines.
LEMMA BeginKeeps ==
    ASSUME IInv, NEW n0 \in Node, NEW t0 \in Node, NEW m0 \in Msg,
           NEW step \in {"add", "mark"}, pc[<<n0, t0>>] = "idle",
           Goto(<<n0, t0>>, step, m0, {}),
           step = "mark" => n0 = t0 /\ m0 \in Joins /\ Origin[m0] = n0,
           UNCHANGED <<seen, handled>>
    PROVE  /\ pc' \in [Pair -> Steps]
           /\ job' \in [Pair -> Msg \cup {NoMsg}]
           /\ todo' \in [Pair -> SUBSET Node]
           /\ Jobs'
           /\ job[<<n0, t0>>] = NoMsg
           /\ job'[<<n0, t0>>] = m0 /\ pc'[<<n0, t0>>] = step
           /\ \A n, t \in Node : n # n0 \/ t # t0 =>
                pc'[<<n, t>>] = pc[<<n, t>>] /\ job'[<<n, t>>] = job[<<n, t>>]
           /\ \A n, t, p \in Node, m \in Msg :
                Owes(n, t, p, m) <=> Owes(n, t, p, m)'
           /\ \A n, t \in Node, m \in Msg :
                job[<<n, t>>] = m => job'[<<n, t>>] = m
           /\ \A n \in Node, m \in Msg : Has(n, m) => Has(n, m)'
<1>1. job[<<n0, t0>>] = NoMsg /\ m0 # NoMsg /\ NoMsg \notin Msg
  BY IInv, MsgAssumption DEF IInv, Jobs, JobOK
<1>2. /\ pc' \in [Pair -> Steps]
      /\ job' \in [Pair -> Msg \cup {NoMsg}]
      /\ todo' \in [Pair -> SUBSET Node]
      /\ pc'[<<n0, t0>>] = step /\ job'[<<n0, t0>>] = m0
      /\ \A n, t \in Node : n # n0 \/ t # t0 =>
           /\ pc'[<<n, t>>] = pc[<<n, t>>]
           /\ job'[<<n, t>>] = job[<<n, t>>]
           /\ todo'[<<n, t>>] = todo[<<n, t>>]
  <2>1. step \in Steps /\ {} \in SUBSET Node /\ m0 \in Msg \cup {NoMsg}
    BY DEF Steps
  <2>2. QED
    BY <2>1, GotoFacts, IInv DEF IInv
<1>3. ASSUME NEW n \in Node, NEW t \in Node, NEW u \in Node
      PROVE  JobOK(n, t)' /\ Alone(n, t, u)'
  <2>1. JobOK(n, t) /\ Alone(n, t, u)
    BY IInv DEF IInv, Jobs
  <2>2. JobOK(n, t)'
    <3>1. CASE n = n0 /\ t = t0
      BY <3>1, <1>1, <1>2 DEF JobOK, Busy
    <3>2. CASE n # n0 \/ t # t0
      BY <3>2, <2>1, <1>2 DEF JobOK, Busy
    <3>3. QED
      BY <3>1, <3>2
  <2>3. Alone(n, t, u)'
    <3>1. CASE n = n0 /\ (t = t0 \/ u = t0)
      BY <3>1, <1>2 DEF Alone, Busy
    <3>2. CASE ~(n = n0 /\ (t = t0 \/ u = t0))
      BY <3>2, <2>1, <1>2 DEF Alone, Busy
    <3>3. QED
      BY <3>1, <3>2
  <2>4. QED
    BY <2>2, <2>3
<1>4. Jobs'
  BY <1>3 DEF Jobs
<1>5. ASSUME NEW n \in Node, NEW t \in Node, NEW p \in Node, NEW m \in Msg
      PROVE  Owes(n, t, p, m) <=> Owes(n, t, p, m)'
  <2>1. CASE n = n0 /\ t = t0
    BY <2>1, <1>1, <1>2 DEF Owes
  <2>2. CASE n # n0 \/ t # t0
    BY <2>2, <1>2 DEF Owes
  <2>3. QED
    BY <2>1, <2>2
<1>6. \A n, t \in Node, m \in Msg : job[<<n, t>>] = m => job'[<<n, t>>] = m
  BY <1>1, <1>2
<1>7. \A n \in Node, m \in Msg : Has(n, m) => Has(n, m)'
  BY <1>1, <1>2 DEF Has
<1>8. QED
  BY <1>1, <1>2, <1>4, <1>5, <1>6, <1>7

\* Jobs reads four variables.
LEMMA JobsKept ==
    ASSUME Jobs, seen' = seen, handled' = handled,
           \A n, t \in Node : /\ pc'[<<n, t>>] = pc[<<n, t>>]
                              /\ job'[<<n, t>>] = job[<<n, t>>]
    PROVE  Jobs'
<1>1. ASSUME NEW n \in Node, NEW t \in Node, NEW u \in Node
      PROVE  JobOK(n, t)' /\ Alone(n, t, u)'
  <2>1. JobOK(n, t) /\ Alone(n, t, u)
    BY Jobs DEF Jobs
  <2>2. JobOK(n, t)'
    BY <2>1 DEF JobOK
  <2>3. Alone(n, t, u)'
    BY <2>1 DEF Alone
  <2>4. QED
    BY <2>2, <2>3
<1>2. QED
  BY <1>1 DEF Jobs

\* A goroutine that returns with its message in the store leaves everything
\* the invariant says of goroutines as it was.
LEMMA EndKeeps ==
    ASSUME IInv, NEW n0 \in Node, NEW t0 \in Node, Return(<<n0, t0>>),
           pc[<<n0, t0>>] \in {"add", "flood", "mark"},
           todo[<<n0, t0>>] = {} \/ pc[<<n0, t0>>] # "flood",
           \A n \in Node : seen[n] \subseteq seen'[n],
           job[<<n0, t0>>] \in seen'[n0], handled' = handled
    PROVE  /\ pc' \in [Pair -> Steps]
           /\ job' \in [Pair -> Msg \cup {NoMsg}]
           /\ todo' \in [Pair -> SUBSET Node]
           /\ Jobs'
           /\ \A n, t \in Node, m \in Msg :
                job'[<<n, t>>] = m => job[<<n, t>>] = m
           /\ \A n, t \in Node, m \in Msg :
                job[<<n, t>>] = m => job'[<<n, t>>] = m \/ m \in seen'[n]
           /\ \A n, t, p \in Node, m \in Msg :
                Owes(n, t, p, m) <=> Owes(n, t, p, m)'
           /\ \A n, t \in Node, m \in Msg :
                job'[<<n, t>>] = m /\ pc'[<<n, t>>] = "handle"
                => job[<<n, t>>] = m /\ pc[<<n, t>>] = "handle"
           /\ \A n \in Node, m \in Msg : Has(n, m) => Has(n, m)'
<1>1. /\ pc' \in [Pair -> Steps]
      /\ job' \in [Pair -> Msg \cup {NoMsg}]
      /\ todo' \in [Pair -> SUBSET Node]
      /\ pc'[<<n0, t0>>] = "idle" /\ job'[<<n0, t0>>] = NoMsg
      /\ \A n, t \in Node : n # n0 \/ t # t0 =>
           /\ pc'[<<n, t>>] = pc[<<n, t>>]
           /\ job'[<<n, t>>] = job[<<n, t>>]
           /\ todo'[<<n, t>>] = todo[<<n, t>>]
  <2>1. "idle" \in Steps /\ {} \in SUBSET Node /\ NoMsg \in Msg \cup {NoMsg}
    BY DEF Steps
  <2>2. QED
    BY <2>1, GotoFacts, IInv, Return(<<n0, t0>>) DEF IInv, Return
<1>2. NoMsg \notin Msg
  BY MsgAssumption
<1>3. ASSUME NEW n \in Node, NEW t \in Node, NEW u \in Node
      PROVE  JobOK(n, t)' /\ Alone(n, t, u)'
  <2>1. JobOK(n, t) /\ Alone(n, t, u)
    BY IInv DEF IInv, Jobs
  <2>2. JobOK(n, t)'
    <3>1. CASE n = n0 /\ t = t0
      BY <3>1, <1>1 DEF JobOK, Busy
    <3>2. CASE n # n0 \/ t # t0
      BY <3>2, <2>1, <1>1 DEF JobOK, Busy
    <3>3. QED
      BY <3>1, <3>2
  <2>3. Alone(n, t, u)'
    <3>1. CASE n = n0 /\ (t = t0 \/ u = t0)
      BY <3>1, <1>1 DEF Alone, Busy
    <3>2. CASE ~(n = n0 /\ (t = t0 \/ u = t0))
      BY <3>2, <2>1, <1>1 DEF Alone, Busy
    <3>3. QED
      BY <3>1, <3>2
  <2>4. QED
    BY <2>2, <2>3
<1>4. Jobs'
  BY <1>3 DEF Jobs
<1>5. \A n, t \in Node, m \in Msg : job'[<<n, t>>] = m => job[<<n, t>>] = m
  BY <1>1, <1>2
<1>6. \A n, t \in Node, m \in Msg :
        job[<<n, t>>] = m => job'[<<n, t>>] = m \/ m \in seen'[n]
  BY <1>1
<1>7. ASSUME NEW n \in Node, NEW t \in Node, NEW p \in Node, NEW m \in Msg
      PROVE  Owes(n, t, p, m) <=> Owes(n, t, p, m)'
  <2>1. CASE n = n0 /\ t = t0
    BY <2>1, <1>1, <1>2 DEF Owes
  <2>2. CASE n # n0 \/ t # t0
    BY <2>2, <1>1 DEF Owes
  <2>3. QED
    BY <2>1, <2>2
<1>8. \A n, t \in Node, m \in Msg :
        job'[<<n, t>>] = m /\ pc'[<<n, t>>] = "handle"
        => job[<<n, t>>] = m /\ pc[<<n, t>>] = "handle"
  BY <1>1, <1>2
<1>9. ASSUME NEW n \in Node, NEW m \in Msg, Has(n, m)
      PROVE  Has(n, m)'
  BY <1>9, <1>1 DEF Has
<1>10. QED
  BY <1>1, <1>4, <1>5, <1>6, <1>7, <1>8, <1>9

\* Nothing that is spent is owed again by a step that keeps the stores, starts
\* no handler and adds to no flood.
LEMMA SpentKept ==
    ASSUME NEW n \in Node, NEW p \in Node, NEW m \in Msg, Spent(n, p, m),
           seen[n] \subseteq seen'[n],
           \A t \in Node : Owes(n, t, p, m)' => Owes(n, t, p, m),
           \A t \in Node :
             job'[<<n, t>>] = m /\ pc'[<<n, t>>] = "handle"
             => job[<<n, t>>] = m /\ pc[<<n, t>>] = "handle"
    PROVE  Spent(n, p, m)'
  BY DEF Spent

\* Crossings survives a step that queues nothing and starts no handler.
LEMMA CrossingsKept ==
    ASSUME IInv, crossed' = crossed, published \subseteq published',
           \A n \in Node : seen[n] \subseteq seen'[n],
           \A n, t, p \in Node, m \in Msg :
             Owes(n, t, p, m)' => Owes(n, t, p, m),
           \A n, t \in Node, m \in Msg :
             job'[<<n, t>>] = m /\ pc'[<<n, t>>] = "handle"
             => job[<<n, t>>] = m /\ pc[<<n, t>>] = "handle"
    PROVE  Crossings'
<1>1. ASSUME NEW n \in Node, NEW p \in Node, NEW m \in Msg
      PROVE  /\ crossed'[<<n, p>>][m] <= Allowed(n, m)
             /\ crossed'[<<n, p>>][m] = Allowed(n, m) => Spent(n, p, m)'
             /\ crossed'[<<n, p>>][m] # 0 => m \in published'
  <2>1. /\ crossed[<<n, p>>][m] <= Allowed(n, m)
        /\ crossed[<<n, p>>][m] = Allowed(n, m) => Spent(n, p, m)
        /\ crossed[<<n, p>>][m] # 0 => m \in published
    BY IInv DEF IInv, Crossings
  <2>2. Spent(n, p, m) => Spent(n, p, m)'
    BY SpentKept
  <2>3. QED
    BY <2>1, <2>2
<1>2. QED
  BY <1>1 DEF Crossings, Allowed, Floods

\* Covered survives a step that leaves every message on its way and sends the
\* messages it adds to the stores on theirs.
LEMMA CoveredStep ==
    ASSUME IInv, up' \subseteq up,
           \A n, p \in Node, m \in Msg :
             <<n, p>> \in up' /\ OnItsWay(n, p, m) => OnItsWay(n, p, m)',
           \A n \in Node : seen'[n] \subseteq Msg,
           \A n, p \in Node, m \in Msg :
             /\ m \in seen'[n] /\ m \notin seen[n]
             /\ Floods(n, m) /\ <<n, p>> \in up'
             => OnItsWay(n, p, m)'
    PROVE  Covered'
<1>1. ASSUME NEW n \in Node, NEW p \in Node, <<n, p>> \in up',
             NEW m \in seen'[n], Floods(n, m)
      PROVE  OnItsWay(n, p, m)'
  <2>1. CASE m \in seen[n]
    BY <2>1, <1>1, IInv DEF IInv, Covered
  <2>2. CASE m \notin seen[n]
    BY <2>2, <1>1
  <2>3. QED
    BY <2>1, <2>2
<1>2. QED
  BY <1>1 DEF Covered, Floods

\* The same for a step that adds nothing to the stores.
LEMMA CoveredKept ==
    ASSUME IInv, up' \subseteq up, seen' = seen,
           \A n, p \in Node, m \in Msg :
             <<n, p>> \in up' /\ OnItsWay(n, p, m) => OnItsWay(n, p, m)'
    PROVE  Covered'
<1>1. \A n \in Node : seen[n] \subseteq Msg
  BY IInv DEF IInv, TypeOK
<1>2. QED
  BY IInv, <1>1, CoveredStep

\* Inject preserves the invariant.
LEMMA InjectStep ==
    ASSUME IInv, NEW m0 \in Msg, Inject(m0)
    PROVE  IInv'
<1> DEFINE n0 == Origin[m0]
<1>1. n0 \in Node /\ NoMsg \notin Msg
  BY MsgAssumption
<1>2. /\ pc[<<n0, n0>>] = "idle" /\ Goto(<<n0, n0>>, "add", m0, {})
      /\ published' = published \cup {m0}
      /\ up' = up /\ net' = net /\ seen' = seen /\ handled' = handled
      /\ crossed' = crossed /\ limited' = limited
  BY Inject(m0) DEF Inject
<1>3. /\ pc' \in [Pair -> Steps]
      /\ job' \in [Pair -> Msg \cup {NoMsg}]
      /\ todo' \in [Pair -> SUBSET Node]
      /\ Jobs'
      /\ job'[<<n0, n0>>] = m0 /\ pc'[<<n0, n0>>] = "add"
      /\ \A n, t \in Node : n # n0 \/ t # n0 =>
           pc'[<<n, t>>] = pc[<<n, t>>] /\ job'[<<n, t>>] = job[<<n, t>>]
      /\ \A n, t, p \in Node, m \in Msg :
           Owes(n, t, p, m) <=> Owes(n, t, p, m)'
      /\ \A n, t \in Node, m \in Msg :
           job[<<n, t>>] = m => job'[<<n, t>>] = m
      /\ \A n \in Node, m \in Msg : Has(n, m) => Has(n, m)'
  BY <1>1, <1>2, BeginKeeps, IInv
<1>4. \A a, b \in Node : InFlight(<<a, b>>)' = InFlight(<<a, b>>)
  BY <1>2, SameNet
<1>5. TypeOK'
  BY IInv, <1>2, <1>3 DEF IInv, TypeOK, Steps
<1>6. Known'
  <2>1. ASSUME NEW n \in Node, NEW t \in Node, NEW m \in Msg
        PROVE  /\ m \in seen'[n] \/ m \in InFlight(<<n, t>>)'
                    \/ job'[<<n, t>>] = m
                  => m \in published'
               /\ handled'[n][m] # 0 => m \in seen'[n]
    <3>1. /\ m \in seen[n] \/ m \in InFlight(<<n, t>>) \/ job[<<n, t>>] = m
             => m \in published
          /\ handled[n][m] # 0 => m \in seen[n]
      BY IInv DEF IInv, Known
    <3>2. job'[<<n, t>>] = m => m = m0 \/ job[<<n, t>>] = m
      BY <1>3
    <3>3. QED
      BY <3>1, <3>2, <1>2, <1>4
  <2>2. QED
    BY <2>1 DEF Known
<1>7. Sources'
  BY IInv, <1>2, <1>3, <1>4 DEF IInv, Sources
<1>8. Crossings'
  <2>1. \A n, t \in Node, m \in Msg :
          job'[<<n, t>>] = m /\ pc'[<<n, t>>] = "handle"
          => job[<<n, t>>] = m /\ pc[<<n, t>>] = "handle"
    BY <1>3
  <2>2. QED
    BY <2>1, <1>2, <1>3, CrossingsKept, IInv
<1>9. Covered'
  <2>1. ASSUME NEW n \in Node, NEW p \in Node, NEW m \in Msg,
               OnItsWay(n, p, m)
        PROVE  OnItsWay(n, p, m)'
    <3>1. m \in InFlight(<<n, p>>) => OnItsWay(n, p, m)'
      BY <1>4 DEF OnItsWay
    <3>2. /\ \A t \in Node : job[<<p, t>>] = m => job'[<<p, t>>] = m
          /\ \A t \in Node : Owes(n, t, p, m) => Owes(n, t, p, m)'
      BY <1>3
    <3>3. QED
      BY <3>1, <3>2, <2>1, <1>2, StillOnItsWay
  <2>2. QED
    BY IInv, <1>2, <2>1, CoveredKept
<1>10. QED
  BY <1>3, <1>5, <1>6, <1>7, <1>8, <1>9 DEF IInv

\* Receive preserves the invariant: what leaves the queue is in the hands of
\* the read loop.
LEMMA ReceiveStep ==
    ASSUME IInv, NEW n0 \in Node, NEW p0 \in Node, Receive(n0, p0)
    PROVE  IInv'
<1> DEFINE m0 == Head(net[<<p0, n0>>])
<1>1. /\ pc[<<n0, p0>>] = "idle" /\ net[<<p0, n0>>] # <<>>
      /\ net' = [net EXCEPT ![<<p0, n0>>] = Tail(@)]
      /\ Goto(<<n0, p0>>, "add", m0, {})
      /\ up' = up /\ seen' = seen /\ published' = published
      /\ handled' = handled /\ crossed' = crossed /\ limited' = limited
  BY Receive(n0, p0) DEF Receive
<1>2. /\ net' \in [Pair -> Seq(Msg)]
      /\ \A l \in Pair : Len(net'[l]) <= QueueLen
      /\ m0 \in Msg
      /\ InFlight(<<p0, n0>>) = InFlight(<<p0, n0>>)' \cup {m0}
      /\ \A a, b \in Node : a # p0 \/ b # n0 =>
           InFlight(<<a, b>>)' = InFlight(<<a, b>>)
  BY <1>1, TailFacts, IInv DEF IInv
<1>3. /\ pc' \in [Pair -> Steps]
      /\ job' \in [Pair -> Msg \cup {NoMsg}]
      /\ todo' \in [Pair -> SUBSET Node]
      /\ Jobs'
      /\ job'[<<n0, p0>>] = m0 /\ pc'[<<n0, p0>>] = "add"
      /\ \A n, t \in Node : n # n0 \/ t # p0 =>
           pc'[<<n, t>>] = pc[<<n, t>>] /\ job'[<<n, t>>] = job[<<n, t>>]
      /\ \A n, t, p \in Node, m \in Msg :
           Owes(n, t, p, m) <=> Owes(n, t, p, m)'
      /\ \A n, t \in Node, m \in Msg :
           job[<<n, t>>] = m => job'[<<n, t>>] = m
      /\ \A n \in Node, m \in Msg : Has(n, m) => Has(n, m)'
  BY <1>1, <1>2, BeginKeeps, IInv
<1>4. TypeOK'
  BY IInv, <1>1, <1>2, <1>3 DEF IInv, TypeOK, Steps
<1>5. \A a, b \in Node : InFlight(<<a, b>>)' \subseteq InFlight(<<a, b>>)
  BY <1>2
<1>6. Known'
  <2>1. m0 \in published
    BY IInv, <1>2 DEF IInv, Known
  <2>2. ASSUME NEW n \in Node, NEW t \in Node, NEW m \in Msg
        PROVE  /\ m \in seen'[n] \/ m \in InFlight(<<n, t>>)'
                    \/ job'[<<n, t>>] = m
                  => m \in published'
               /\ handled'[n][m] # 0 => m \in seen'[n]
    <3>1. /\ m \in seen[n] \/ m \in InFlight(<<n, t>>) \/ job[<<n, t>>] = m
             => m \in published
          /\ handled[n][m] # 0 => m \in seen[n]
      BY IInv DEF IInv, Known
    <3>2. job'[<<n, t>>] = m => m = m0 \/ job[<<n, t>>] = m
      BY <1>3
    <3>3. QED
      BY <3>1, <3>2, <2>1, <1>1, <1>5
  <2>3. QED
    BY <2>2 DEF Known
<1>7. Sources'
  <2>1. ASSUME NEW n \in Node, NEW p \in Node, NEW m \in Msg,
               m \in InFlight(<<p, n>>)' \/ (n # p /\ job'[<<n, p>>] = m)
        PROVE  Has(p, m)
    <3>1. CASE m \in InFlight(<<p, n>>)
      BY <3>1, IInv DEF IInv, Sources
    <3>2. CASE n # p /\ job[<<n, p>>] = m
      BY <3>2, IInv DEF IInv, Sources
    <3>3. CASE n = n0 /\ p = p0 /\ m = m0
      <4>1. m \in InFlight(<<p, n>>)
        BY <3>3, <1>2
      <4>2. QED
        BY <4>1, <3>1
    <3>4. QED
      BY <3>1, <3>2, <3>3, <2>1, <1>3, <1>5
  <2>2. QED
    BY <2>1, <1>3 DEF Sources
<1>8. Crossings'
  <2>1. \A n, t \in Node, m \in Msg :
          job'[<<n, t>>] = m /\ pc'[<<n, t>>] = "handle"
          => job[<<n, t>>] = m /\ pc[<<n, t>>] = "handle"
    BY <1>3
  <2>2. QED
    BY <2>1, <1>1, <1>3, CrossingsKept, IInv
<1>9. Covered'
  <2>1. ASSUME NEW n \in Node, NEW p \in Node, NEW m \in Msg,
               OnItsWay(n, p, m)
        PROVE  OnItsWay(n, p, m)'
    <3>1. m \in InFlight(<<n, p>>) => OnItsWay(n, p, m)'
      <4>1. CASE m \in InFlight(<<n, p>>)'
        BY <4>1 DEF OnItsWay
      <4>2. CASE n = p0 /\ p = n0 /\ m = m0
        BY <4>2, <1>3 DEF OnItsWay
      <4>3. QED
        BY <4>1, <4>2, <1>2
    <3>2. /\ \A t \in Node : job[<<p, t>>] = m => job'[<<p, t>>] = m
          /\ \A t \in Node : Owes(n, t, p, m) => Owes(n, t, p, m)'
      BY <1>3
    <3>3. QED
      BY <3>1, <3>2, <2>1, <1>1, StillOnItsWay
  <2>2. QED
    BY IInv, <1>1, <2>1, CoveredKept
<1>10. QED
  BY <1>3, <1>4, <1>6, <1>7, <1>8, <1>9 DEF IInv

\* RateLimit preserves the invariant: what leaves the queue is remembered as
\* refused.
LEMMA RateLimitStep ==
    ASSUME IInv, NEW n0 \in Node, NEW p0 \in Node, RateLimit(n0, p0)
    PROVE  IInv'
<1> DEFINE m0 == Head(net[<<p0, n0>>])
<1>1. /\ net[<<p0, n0>>] # <<>>
      /\ net' = [net EXCEPT ![<<p0, n0>>] = Tail(@)]
      /\ limited' = [limited EXCEPT ![<<p0, n0>>] = @ \cup {m0}]
      /\ up' = up /\ seen' = seen /\ pc' = pc /\ job' = job /\ todo' = todo
      /\ published' = published /\ handled' = handled /\ crossed' = crossed
  BY RateLimit(n0, p0) DEF RateLimit
<1>2. /\ net' \in [Pair -> Seq(Msg)]
      /\ \A l \in Pair : Len(net'[l]) <= QueueLen
      /\ m0 \in Msg
      /\ InFlight(<<p0, n0>>) = InFlight(<<p0, n0>>)' \cup {m0}
      /\ \A a, b \in Node : a # p0 \/ b # n0 =>
           InFlight(<<a, b>>)' = InFlight(<<a, b>>)
  BY <1>1, TailFacts, IInv DEF IInv
<1>3. /\ limited' \in [Pair -> SUBSET Msg]
      /\ m0 \in limited'[<<p0, n0>>]
      /\ \A a, b \in Node : limited[<<a, b>>] \subseteq limited'[<<a, b>>]
  <2>1. limited \in [Pair -> SUBSET Msg]
    BY IInv DEF IInv, TypeOK
  <2>2. <<p0, n0>> \in Pair
    BY PairFacts
  <2>3. \A l \in Pair : limited[l] \subseteq limited'[l]
    BY <2>1, <2>2, <1>1
  <2>4. \A a, b \in Node : <<a, b>> \in Pair
    BY PairFacts
  <2>5. limited' \in [Pair -> SUBSET Msg] /\ m0 \in limited'[<<p0, n0>>]
    BY <2>1, <2>2, <1>1, <1>2
  <2>6. QED
    BY <2>3, <2>4, <2>5
<1>4. TypeOK'
  BY IInv, <1>1, <1>2, <1>3 DEF IInv, TypeOK
<1>5. \A a, b \in Node : InFlight(<<a, b>>)' \subseteq InFlight(<<a, b>>)
  BY <1>2
<1>6. /\ \A n \in Node, m \in Msg : Has(n, m) <=> Has(n, m)'
      /\ \A n, t, p \in Node, m \in Msg :
           Owes(n, t, p, m) <=> Owes(n, t, p, m)'
  BY <1>1 DEF Has, Owes
<1>7. Jobs'
  BY IInv, <1>1, JobsKept DEF IInv
<1>8. Known'
  BY IInv, <1>1, <1>5 DEF IInv, Known
<1>9. Sources'
  BY IInv, <1>1, <1>5, <1>6 DEF IInv, Sources
<1>10. Crossings'
  BY IInv, <1>1, <1>6, CrossingsKept
<1>11. Covered'
  <2>1. ASSUME NEW n \in Node, NEW p \in Node, NEW m \in Msg,
               OnItsWay(n, p, m)
        PROVE  OnItsWay(n, p, m)'
    <3>1. m \in InFlight(<<n, p>>) => OnItsWay(n, p, m)'
      <4>1. CASE m \in InFlight(<<n, p>>)'
        BY <4>1 DEF OnItsWay
      <4>2. CASE n = p0 /\ p = n0 /\ m = m0
        BY <4>2, <1>3 DEF OnItsWay
      <4>3. QED
        BY <4>1, <4>2, <1>2
    <3>2. \A t \in Node : Owes(n, t, p, m) => Owes(n, t, p, m)'
      BY <1>6
    <3>3. limited[<<n, p>>] \subseteq limited'[<<n, p>>]
      BY <1>3
    <3>4. QED
      BY <3>1, <3>2, <3>3, <2>1, <1>1, StillOnItsWay
  <2>2. QED
    BY IInv, <1>1, <2>1, CoveredKept
<1>12. QED
  BY <1>4, <1>7, <1>8, <1>9, <1>10, <1>11 DEF IInv

\* Disconnect preserves the invariant: what is lost was on a link that is no
\* longer open.
LEMMA DisconnectStep ==
    ASSUME IInv, NEW n0 \in Node, NEW p0 \in Node, Disconnect(n0, p0)
    PROVE  IInv'
<1>1. /\ <<n0, p0>> \in up /\ Break(n0, p0)
      /\ seen' = seen /\ pc' = pc /\ job' = job /\ todo' = todo
      /\ published' = published /\ handled' = handled /\ crossed' = crossed
      /\ limited' = limited
  BY Disconnect(n0, p0) DEF Disconnect
<1>2. n0 # p0
  BY <1>1, PairFacts, IInv DEF IInv, TypeOK
<1>3. /\ net' \in [Pair -> Seq(Msg)]
      /\ \A l \in Pair : Len(net'[l]) <= QueueLen
      /\ up' \subseteq up /\ <<n0, p0>> \notin up'
      /\ \A a, b \in Node : InFlight(<<a, b>>)' \subseteq InFlight(<<a, b>>)
      /\ \A a, b \in Node : <<a, b>> \in up' =>
           InFlight(<<a, b>>)' = InFlight(<<a, b>>)
  BY <1>1, <1>2, BreakFacts, IInv DEF IInv
<1>4. TypeOK'
  BY IInv, <1>1, <1>3 DEF IInv, TypeOK
<1>5. /\ \A n \in Node, m \in Msg : Has(n, m) <=> Has(n, m)'
      /\ \A n, t, p \in Node, m \in Msg :
           Owes(n, t, p, m) <=> Owes(n, t, p, m)'
  BY <1>1 DEF Has, Owes
<1>6. Jobs'
  BY IInv, <1>1, JobsKept DEF IInv
<1>7. Known'
  BY IInv, <1>1, <1>3 DEF IInv, Known
<1>8. Sources'
  BY IInv, <1>1, <1>3, <1>5 DEF IInv, Sources
<1>9. Crossings'
  BY IInv, <1>1, <1>5, CrossingsKept
<1>10. Covered'
  <2>1. ASSUME NEW n \in Node, NEW p \in Node, NEW m \in Msg,
               <<n, p>> \in up', OnItsWay(n, p, m)
        PROVE  OnItsWay(n, p, m)'
    <3>1. m \in InFlight(<<n, p>>) => OnItsWay(n, p, m)'
      BY <2>1, <1>3 DEF OnItsWay
    <3>2. \A t \in Node : Owes(n, t, p, m) => Owes(n, t, p, m)'
      BY <1>5
    <3>3. QED
      BY <3>1, <3>2, <2>1, <1>1, StillOnItsWay
  <2>2. QED
    BY IInv, <1>1, <1>3, <2>1, CoveredKept
<1>11. QED
  BY <1>4, <1>6, <1>7, <1>8, <1>9, <1>10 DEF IInv

\* Resync preserves the invariant: its message is one the sender need not
\* flood, and the sender is about to store it.
LEMMA ResyncStep ==
    ASSUME IInv, NEW m0 \in Msg, NEW p0 \in Node, Resync(p0, m0)
    PROVE  IInv'
<1> DEFINE n0 == Origin[m0]
<1>1. n0 \in Node /\ NoMsg \notin Msg
  BY MsgAssumption
<1>2. /\ pc[<<n0, n0>>] = "idle" /\ Goto(<<n0, n0>>, "mark", m0, {})
      /\ m0 \in Joins
      /\ published' = published \cup {m0}
      /\ Queue(n0, p0, m0) \/ UNCHANGED <<up, net, crossed>>
      /\ seen' = seen /\ handled' = handled /\ limited' = limited
  BY Resync(p0, m0) DEF Resync
<1>3. /\ net' \in [Pair -> Seq(Msg)]
      /\ \A l \in Pair : Len(net'[l]) <= QueueLen
      /\ crossed' \in [Pair -> [Msg -> Nat]]
      /\ up' = up
      /\ \A a, b \in Node :
           InFlight(<<a, b>>) \subseteq InFlight(<<a, b>>)'
      /\ \A a, b \in Node, m \in Msg :
           m \in InFlight(<<a, b>>)'
              => m \in InFlight(<<a, b>>) \/ (a = n0 /\ m = m0)
      /\ crossed' = crossed \/ Counted(n0, p0, m0)
  <2>1. CASE Queue(n0, p0, m0)
    <3>1. /\ net' \in [Pair -> Seq(Msg)]
          /\ \A l \in Pair : Len(net'[l]) <= QueueLen
          /\ up' = up
          /\ \A a, b \in Node :
               InFlight(<<a, b>>)' = InFlight(<<a, b>>)
                    \cup (IF a = n0 /\ b = p0 THEN {m0} ELSE {})
          /\ Counted(n0, p0, m0)
      BY <2>1, <1>1, QueueFacts, IInv DEF IInv
    <3>2. QED
      BY <3>1 DEF Counted
  <2>2. CASE UNCHANGED <<up, net, crossed>>
    BY <2>2, SameNet, IInv DEF IInv, TypeOK
  <2>3. QED
    BY <2>1, <2>2, <1>2
<1>4. /\ pc' \in [Pair -> Steps]
      /\ job' \in [Pair -> Msg \cup {NoMsg}]
      /\ todo' \in [Pair -> SUBSET Node]
      /\ Jobs'
      /\ job'[<<n0, n0>>] = m0 /\ pc'[<<n0, n0>>] = "mark"
      /\ \A n, t \in Node : n # n0 \/ t # n0 =>
           pc'[<<n, t>>] = pc[<<n, t>>] /\ job'[<<n, t>>] = job[<<n, t>>]
      /\ \A n, t, p \in Node, m \in Msg :
           Owes(n, t, p, m) <=> Owes(n, t, p, m)'
      /\ \A n, t \in Node, m \in Msg :
           job[<<n, t>>] = m => job'[<<n, t>>] = m
      /\ \A n \in Node, m \in Msg : Has(n, m) => Has(n, m)'
  <2>1. PICK n \in Node : n = n0
    BY <1>1
  <2>2. /\ "mark" \in {"add", "mark"} /\ UNCHANGED <<seen, handled>>
        /\ "mark" = "mark" => n = n /\ m0 \in Joins /\ Origin[m0] = n
        /\ pc[<<n, n>>] = "idle" /\ Goto(<<n, n>>, "mark", m0, {})
    BY <2>1, <1>2
  <2>3. /\ pc' \in [Pair -> Steps]
        /\ job' \in [Pair -> Msg \cup {NoMsg}]
        /\ todo' \in [Pair -> SUBSET Node]
        /\ Jobs'
        /\ job'[<<n, n>>] = m0 /\ pc'[<<n, n>>] = "mark"
        /\ \A a, t \in Node : a # n \/ t # n =>
             pc'[<<a, t>>] = pc[<<a, t>>] /\ job'[<<a, t>>] = job[<<a, t>>]
        /\ \A a, t, p \in Node, m \in Msg :
             Owes(a, t, p, m) <=> Owes(a, t, p, m)'
        /\ \A a, t \in Node, m \in Msg :
             job[<<a, t>>] = m => job'[<<a, t>>] = m
        /\ \A a \in Node, m \in Msg : Has(a, m) => Has(a, m)'
    BY <2>2, BeginKeeps, IInv
  <2>4. QED
    BY <2>1, <2>3
<1>5. TypeOK'
  BY IInv, <1>2, <1>3, <1>4 DEF IInv, TypeOK, Steps
<1>6. Known'
  <2>1. ASSUME NEW n \in Node, NEW t \in Node, NEW m \in Msg
        PROVE  /\ m \in seen'[n] \/ m \in InFlight(<<n, t>>)'
                    \/ job'[<<n, t>>] = m
                  => m \in published'
               /\ handled'[n][m] # 0 => m \in seen'[n]
    <3>1. /\ m \in seen[n] \/ m \in InFlight(<<n, t>>) \/ job[<<n, t>>] = m
             => m \in published
          /\ handled[n][m] # 0 => m \in seen[n]
      BY IInv DEF IInv, Known
    <3>2. job'[<<n, t>>] = m => m = m0 \/ job[<<n, t>>] = m
      BY <1>4
    <3>3. m \in InFlight(<<n, t>>)' => m = m0 \/ m \in InFlight(<<n, t>>)
      BY <1>3
    <3>4. QED
      BY <3>1, <3>2, <3>3, <1>2
  <2>2. QED
    BY <2>1 DEF Known
<1>7. Sources'
  <2>1. ASSUME NEW n \in Node, NEW p \in Node, NEW m \in Msg,
               m \in InFlight(<<p, n>>)' \/ (n # p /\ job'[<<n, p>>] = m)
        PROVE  Has(p, m)'
    <3>1. CASE m \in InFlight(<<p, n>>) \/ (n # p /\ job[<<n, p>>] = m)
      BY <3>1, <1>4, IInv DEF IInv, Sources
    <3>2. CASE p = n0 /\ m = m0
      BY <3>2, <1>4 DEF Has
    <3>3. QED
      BY <3>1, <3>2, <2>1, <1>3, <1>4
  <2>2. QED
    BY <2>1 DEF Sources
<1>8. Crossings'
  <2>1. ASSUME NEW n \in Node, NEW p \in Node, NEW m \in Msg
        PROVE  /\ crossed'[<<n, p>>][m] <= Allowed(n, m)
               /\ crossed'[<<n, p>>][m] = Allowed(n, m) => Spent(n, p, m)'
               /\ crossed'[<<n, p>>][m] # 0 => m \in published'
    <3>1. /\ crossed[<<n, p>>][m] <= Allowed(n, m)
          /\ crossed[<<n, p>>][m] = Allowed(n, m) => Spent(n, p, m)
          /\ crossed[<<n, p>>][m] # 0 => m \in published
      BY IInv DEF IInv, Crossings
    <3>2. Spent(n, p, m) => Spent(n, p, m)'
      BY <1>2, <1>4, SpentKept
    <3>3. CASE crossed'[<<n, p>>][m] = crossed[<<n, p>>][m]
      BY <3>1, <3>2, <3>3, <1>2
    <3>4. CASE n = n0 /\ p = p0 /\ m = m0 /\ Counted(n0, p0, m0)
      <4>1. crossed[<<n, p>>][m] = 0
        BY <3>1, <3>4, Resync(p0, m0) DEF Resync
      <4>2. crossed'[<<n, p>>][m] = 1
        BY <4>1, <3>4 DEF Counted
      <4>3. Allowed(n, m) = 2
        BY <3>4, <1>2 DEF Allowed, Floods
      <4>4. QED
        BY <4>2, <4>3, <3>4, <1>2
    <3>5. QED
      BY <3>3, <3>4, <1>3 DEF Counted
  <2>2. QED
    BY <2>1 DEF Crossings, Allowed, Floods
<1>9. Covered'
  <2>1. ASSUME NEW n \in Node, NEW p \in Node, NEW m \in Msg,
               OnItsWay(n, p, m)
        PROVE  OnItsWay(n, p, m)'
    <3>1. m \in InFlight(<<n, p>>) => OnItsWay(n, p, m)'
      BY <1>3 DEF OnItsWay
    <3>2. /\ \A t \in Node : job[<<p, t>>] = m => job'[<<p, t>>] = m
          /\ \A t \in Node : Owes(n, t, p, m) => Owes(n, t, p, m)'
      BY <1>4
    <3>3. QED
      BY <3>1, <3>2, <2>1, <1>2, StillOnItsWay
  <2>2. QED
    BY IInv, <1>2, <1>3, <2>1, CoveredKept
<1>10. QED
  BY <1>4, <1>5, <1>6, <1>7, <1>8, <1>9 DEF IInv

\* A goroutine that returns with its message in the store preserves the
\* invariant, provided the store of no node gains a message to be flooded.
LEMMA EndStep ==
    ASSUME IInv, NEW n0 \in Node, NEW t0 \in Node, Return(<<n0, t0>>),
           pc[<<n0, t0>>] \in {"add", "flood", "mark"},
           todo[<<n0, t0>>] = {} \/ pc[<<n0, t0>>] # "flood",
           job[<<n0, t0>>] \in seen'[n0],
           seen' \in [Node -> SUBSET Msg],
           \A n \in Node : seen[n] \subseteq seen'[n],
           \A n \in Node, m \in Msg : m \in seen'[n] /\ m \notin seen[n]
             => ~Floods(n, m) /\ m \in published,
           up' = up, net' = net, published' = published, handled' = handled,
           crossed' = crossed, limited' = limited
    PROVE  IInv'
<1>1. /\ pc' \in [Pair -> Steps]
      /\ job' \in [Pair -> Msg \cup {NoMsg}]
      /\ todo' \in [Pair -> SUBSET Node]
      /\ Jobs'
      /\ \A n, t \in Node, m \in Msg :
           job'[<<n, t>>] = m => job[<<n, t>>] = m
      /\ \A n, t \in Node, m \in Msg :
           job[<<n, t>>] = m => job'[<<n, t>>] = m \/ m \in seen'[n]
      /\ \A n, t, p \in Node, m \in Msg :
           Owes(n, t, p, m) <=> Owes(n, t, p, m)'
      /\ \A n, t \in Node, m \in Msg :
           job'[<<n, t>>] = m /\ pc'[<<n, t>>] = "handle"
           => job[<<n, t>>] = m /\ pc[<<n, t>>] = "handle"
      /\ \A n \in Node, m \in Msg : Has(n, m) => Has(n, m)'
  BY EndKeeps
<1>2. \A a, b \in Node : InFlight(<<a, b>>)' = InFlight(<<a, b>>)
  BY SameNet
<1>3. TypeOK'
  BY IInv, <1>1 DEF IInv, TypeOK, Steps
<1>4. Known'
  <2>1. ASSUME NEW n \in Node, NEW t \in Node, NEW m \in Msg
        PROVE  /\ m \in seen'[n] \/ m \in InFlight(<<n, t>>)'
                    \/ job'[<<n, t>>] = m
                  => m \in published'
               /\ handled'[n][m] # 0 => m \in seen'[n]
    <3>1. /\ m \in seen[n] \/ m \in InFlight(<<n, t>>) \/ job[<<n, t>>] = m
             => m \in published
          /\ handled[n][m] # 0 => m \in seen[n]
      BY IInv DEF IInv, Known
    <3>2. job'[<<n, t>>] = m => job[<<n, t>>] = m
      BY <1>1
    <3>3. QED
      BY <3>1, <3>2, <1>2
  <2>2. QED
    BY <2>1 DEF Known
<1>5. Sources'
  BY IInv, <1>1, <1>2 DEF IInv, Sources
<1>6. Crossings'
  BY IInv, <1>1, CrossingsKept
<1>7. Covered'
  <2>1. ASSUME NEW n \in Node, NEW p \in Node, NEW m \in Msg,
               OnItsWay(n, p, m)
        PROVE  OnItsWay(n, p, m)'
    <3>1. m \in InFlight(<<n, p>>) => OnItsWay(n, p, m)'
      BY <1>2 DEF OnItsWay
    <3>2. \A t \in Node : job[<<p, t>>] = m
            => job'[<<p, t>>] = m \/ m \in seen'[p]
      BY <1>1
    <3>3. \A t \in Node : Owes(n, t, p, m) => Owes(n, t, p, m)'
      BY <1>1
    <3>4. QED
      BY <3>1, <3>2, <3>3, <2>1, StillOnItsWay
  <2>2. \A n \in Node : seen'[n] \subseteq Msg
    OBVIOUS
  <2>3. QED
    BY IInv, <2>1, <2>2, CoveredStep
<1>8. QED
  BY <1>1, <1>3, <1>4, <1>5, <1>6, <1>7 DEF IInv

\* Mark preserves the invariant.
LEMMA MarkStep ==
    ASSUME IInv, NEW n0 \in Node, Mark(n0)
    PROVE  IInv'
<1> DEFINE m0 == job[<<n0, n0>>]
<1>1. /\ pc[<<n0, n0>>] = "mark" /\ Return(<<n0, n0>>)
      /\ seen' = [seen EXCEPT ![n0] = @ \cup {m0}]
      /\ up' = up /\ net' = net /\ published' = published
      /\ handled' = handled /\ crossed' = crossed /\ limited' = limited
  BY Mark(n0) DEF Mark
<1>2. m0 \in Msg /\ m0 \in Joins /\ Origin[m0] = n0
  BY <1>1, IInv, MsgAssumption DEF IInv, Jobs, JobOK
<1>3. m0 \in published
  BY <1>2, IInv DEF IInv, Known
<1>4. /\ seen' \in [Node -> SUBSET Msg] /\ m0 \in seen'[n0]
      /\ \A n \in Node : seen[n] \subseteq seen'[n]
      /\ \A n \in Node, m \in Msg :
           m \in seen'[n] /\ m \notin seen[n] => n = n0 /\ m = m0
  BY <1>1, <1>2, IInv DEF IInv, TypeOK
<1>5. \A n \in Node, m \in Msg : m \in seen'[n] /\ m \notin seen[n]
        => ~Floods(n, m) /\ m \in published
  BY <1>2, <1>3, <1>4 DEF Floods
<1>6. QED
  BY <1>1, <1>4, <1>5, IInv, EndStep

\* A goroutine that is not idle has a message.
LEMMA HasJob ==
    ASSUME IInv, NEW n \in Node, NEW t \in Node, pc[<<n, t>>] # "idle"
    PROVE  job[<<n, t>>] \in Msg
<1>1. job[<<n, t>>] \in Msg \cup {NoMsg}
  BY IInv, PairFacts DEF IInv, TypeOK
<1>2. job[<<n, t>>] # NoMsg
  BY IInv DEF IInv, Jobs, JobOK
<1>3. QED
  BY <1>1, <1>2

\* Add preserves the invariant: a known message is dropped, a new one is owed
\* to every peer but the one it came from, and that one has it.
LEMMA AddStep ==
    ASSUME IInv, NEW n0 \in Node, NEW t0 \in Node, Add(n0, t0)
    PROVE  IInv'
<1> DEFINE m0 == job[<<n0, t0>>]
<1>1. /\ pc[<<n0, t0>>] = "add"
      /\ up' = up /\ net' = net /\ published' = published
      /\ handled' = handled /\ crossed' = crossed /\ limited' = limited
  BY Add(n0, t0) DEF Add
<1>2. m0 \in Msg
  BY <1>1, IInv, HasJob
<1>3. CASE m0 \in seen[n0]
  <2>1. Return(<<n0, t0>>) /\ seen' = seen
    BY <1>3, Add(n0, t0) DEF Add
  <2>2. seen \in [Node -> SUBSET Msg]
    BY IInv DEF IInv, TypeOK
  <2>3. QED
    BY <2>1, <2>2, <1>1, <1>3, IInv, EndStep
<1>4. CASE m0 \notin seen[n0]
  <2>1. /\ Goto(<<n0, t0>>, "handle", m0, {})
        /\ seen' = [seen EXCEPT ![n0] = @ \cup {m0}]
    BY <1>4, Add(n0, t0) DEF Add
  <2>2. /\ pc' \in [Pair -> Steps]
        /\ job' \in [Pair -> Msg \cup {NoMsg}]
        /\ todo' \in [Pair -> SUBSET Node]
        /\ pc'[<<n0, t0>>] = "handle"
        /\ \A n, t \in Node : job'[<<n, t>>] = job[<<n, t>>]
        /\ \A n, t \in Node : n # n0 \/ t # t0 =>
             /\ pc'[<<n, t>>] = pc[<<n, t>>]
             /\ todo'[<<n, t>>] = todo[<<n, t>>]
    <3>1. "handle" \in Steps /\ {} \in SUBSET Node /\ m0 \in Msg \cup {NoMsg}
      BY <1>2 DEF Steps
    <3> HIDE DEF m0
    <3>2. /\ pc' \in [Pair -> Steps]
          /\ job' \in [Pair -> Msg \cup {NoMsg}]
          /\ todo' \in [Pair -> SUBSET Node]
          /\ pc'[<<n0, t0>>] = "handle" /\ job'[<<n0, t0>>] = m0
          /\ \A n, t \in Node : n # n0 \/ t # t0 =>
               /\ pc'[<<n, t>>] = pc[<<n, t>>]
               /\ job'[<<n, t>>] = job[<<n, t>>]
               /\ todo'[<<n, t>>] = todo[<<n, t>>]
      BY <3>1, <2>1, GotoFacts, IInv DEF IInv
    <3>3. job'[<<n0, t0>>] = job[<<n0, t0>>]
      BY <3>2 DEF m0
    <3>4. QED
      BY <3>2, <3>3
  <2>3. /\ seen' \in [Node -> SUBSET Msg] /\ m0 \in seen'[n0]
        /\ \A n \in Node : seen[n] \subseteq seen'[n]
        /\ \A n \in Node, m \in Msg :
             m \in seen'[n] /\ m \notin seen[n] => n = n0 /\ m = m0
    BY <2>1, <1>2, IInv DEF IInv, TypeOK
  <2>4. m0 \in published /\ handled[n0][m0] = 0
    BY <1>2, <1>4, IInv DEF IInv, Known
  <2>5. \A a, b \in Node : InFlight(<<a, b>>)' = InFlight(<<a, b>>)
    BY <1>1, SameNet
  <2>6. TypeOK'
    BY IInv, <1>1, <2>2, <2>3 DEF IInv, TypeOK, Steps
  <2>7. ASSUME NEW n \in Node, NEW t \in Node, NEW u \in Node
        PROVE  JobOK(n, t)' /\ Alone(n, t, u)'
    <3>1. /\ JobOK(n, t) /\ JobOK(n, u) /\ JobOK(n0, t0)
          /\ Alone(n, t, u)
      BY IInv DEF IInv, Jobs
    <3>2. JobOK(n, t)'
      <4>1. CASE n = n0 /\ t = t0
        BY <4>1, <3>1, <1>1, <2>2, <2>3, <2>4 DEF JobOK, Busy
      <4>2. CASE n # n0 \/ t # t0
        BY <4>2, <3>1, <1>1, <2>2, <2>3 DEF JobOK, Busy
      <4>3. QED
        BY <4>1, <4>2
    <3>3. Alone(n, t, u)'
      <4>1. CASE n # n0 \/ (t # t0 /\ u # t0)
        BY <4>1, <3>1, <2>2 DEF Alone, Busy
      <4>2. CASE n = n0 /\ t = t0 /\ u # t0
        <5>1. pc[<<n, u>>] \in Busy => job[<<n, u>>] # m0
          BY <4>2, <3>1, <1>4 DEF JobOK
        <5>2. QED
          BY <5>1, <4>2, <2>2 DEF Alone
      <4>3. CASE n = n0 /\ t # t0 /\ u = t0
        <5>1. pc[<<n, t>>] \in Busy => job[<<n, t>>] # m0
          BY <4>3, <3>1, <1>4 DEF JobOK
        <5>2. QED
          BY <5>1, <4>3, <2>2 DEF Alone
      <4>4. CASE t = u
        BY <4>4 DEF Alone
      <4>5. QED
        BY <4>1, <4>2, <4>3, <4>4
    <3>4. QED
      BY <3>2, <3>3
  <2>8. Jobs'
    BY <2>7 DEF Jobs
  <2>9. Known'
    <3>1. ASSUME NEW n \in Node, NEW t \in Node, NEW m \in Msg
          PROVE  /\ m \in seen'[n] \/ m \in InFlight(<<n, t>>)'
                      \/ job'[<<n, t>>] = m
                    => m \in published'
                 /\ handled'[n][m] # 0 => m \in seen'[n]
      <4>1. /\ m \in seen[n] \/ m \in InFlight(<<n, t>>) \/ job[<<n, t>>] = m
               => m \in published
            /\ handled[n][m] # 0 => m \in seen[n]
        BY IInv DEF IInv, Known
      <4>2. QED
        BY <4>1, <1>1, <2>2, <2>3, <2>4, <2>5
    <3>2. QED
      BY <3>1 DEF Known
  <2>10. \A n \in Node, m \in Msg : Has(n, m) => Has(n, m)'
    BY <1>1, <2>2, <2>3 DEF Has
  <2>11. Sources'
    BY IInv, <2>2, <2>5, <2>10 DEF IInv, Sources
  <2>12. Crossings'
    <3>1. ASSUME NEW n \in Node, NEW p \in Node, NEW m \in Msg
          PROVE  /\ crossed'[<<n, p>>][m] <= Allowed(n, m)
                 /\ crossed'[<<n, p>>][m] = Allowed(n, m) => Spent(n, p, m)'
                 /\ crossed'[<<n, p>>][m] # 0 => m \in published'
      <4>1. /\ crossed[<<n, p>>][m] <= Allowed(n, m)
            /\ crossed[<<n, p>>][m] = Allowed(n, m) => Spent(n, p, m)
            /\ crossed[<<n, p>>][m] # 0 => m \in published
        BY IInv DEF IInv, Crossings
      <4>2. ASSUME Spent(n, p, m)
            PROVE  Spent(n, p, m)'
        <5>1. m \in seen[n] /\ m \in seen'[n]
          BY <4>2, <2>3 DEF Spent
        <5>2. ASSUME NEW t \in Node
              PROVE  /\ ~Owes(n, t, p, m)'
                     /\ job'[<<n, t>>] = m => pc'[<<n, t>>] # "handle"
          <6>1. /\ ~Owes(n, t, p, m)
                /\ job[<<n, t>>] = m => pc[<<n, t>>] # "handle"
            BY <4>2 DEF Spent
          <6>2. CASE n = n0 /\ t = t0
            <7>1. m # m0
              BY <5>1, <6>2, <1>4
            <7>2. QED
              BY <7>1, <6>1, <6>2, <2>2, <2>3 DEF Owes
          <6>3. CASE n # n0 \/ t # t0
            BY <6>1, <6>3, <2>2, <2>3 DEF Owes
          <6>4. QED
            BY <6>2, <6>3
        <5>3. QED
          BY <5>1, <5>2 DEF Spent
      <4>3. QED
        BY <4>1, <4>2, <1>1
    <3>2. QED
      BY <3>1 DEF Crossings, Allowed, Floods
  <2>13. Covered'
    <3>1. ASSUME NEW n \in Node, NEW p \in Node, NEW m \in Msg,
                 OnItsWay(n, p, m)
          PROVE  OnItsWay(n, p, m)'
      <4>1. m \in InFlight(<<n, p>>) => OnItsWay(n, p, m)'
        BY <2>5 DEF OnItsWay
      <4>2. \A t \in Node : Owes(n, t, p, m) => Owes(n, t, p, m)'
        BY <1>1, <2>2 DEF Owes
      <4>3. m \in seen[p] \cup limited[<<n, p>>]
            => m \in seen'[p] \cup limited'[<<n, p>>]
        BY <1>1, <2>3
      <4>4. QED
        BY <4>1, <4>2, <4>3, <3>1, <2>2, StillOnItsWay
    <3>2. ASSUME NEW p \in Node, <<n0, p>> \in up, NEW m \in Msg, m = m0
          PROVE  OnItsWay(n0, p, m)'
      <4>1. CASE t0 # p
        BY <4>1, <3>2, <2>2 DEF OnItsWay, Owes
      <4>2. CASE t0 = p
        <5>1. n0 # p
          BY <3>2, PairFacts, IInv DEF IInv, TypeOK
        <5>2. Has(p, m)
          BY <5>1, <4>2, <3>2, IInv DEF IInv, Sources
        <5>3. QED
          BY <5>2, <2>2, <2>3 DEF Has, OnItsWay
      <4>3. QED
        BY <4>1, <4>2
    <3>3. \A n \in Node : seen'[n] \subseteq Msg
      BY <2>3
    <3>4. \A n, p \in Node, m \in Msg :
            /\ m \in seen'[n] /\ m \notin seen[n]
            /\ Floods(n, m) /\ <<n, p>> \in up'
            => OnItsWay(n, p, m)'
      BY <3>2, <2>3, <1>1
    <3>5. QED
      BY IInv, <1>1, <3>1, <3>3, <3>4, CoveredStep
  <2>14. QED
    BY <2>6, <2>8, <2>9, <2>11, <2>12, <2>13 DEF IInv
<1>5. QED
  BY <1>3, <1>4

\* A goroutine that goes on to the next turn of its flood keeps its message.
LEMMA FloodFacts ==
    ASSUME IInv, NEW n0 \in Node, NEW t0 \in Node, pc[<<n0, t0>>] # "idle",
           NEW S \in SUBSET Node,
           Goto(<<n0, t0>>, "flood", job[<<n0, t0>>], S)
    PROVE  /\ pc' \in [Pair -> Steps]
           /\ job' \in [Pair -> Msg \cup {NoMsg}]
           /\ todo' \in [Pair -> SUBSET Node]
           /\ pc'[<<n0, t0>>] = "flood" /\ todo'[<<n0, t0>>] = S
           /\ \A n, t \in Node : job'[<<n, t>>] = job[<<n, t>>]
           /\ \A n, t \in Node : n # n0 \/ t # t0 =>
                /\ pc'[<<n, t>>] = pc[<<n, t>>]
                /\ todo'[<<n, t>>] = todo[<<n, t>>]
<1>1. PICK m0 \in Msg \cup {NoMsg} : m0 = job[<<n0, t0>>]
  BY HasJob
<1>2. Goto(<<n0, t0>>, "flood", m0, S) /\ "flood" \in Steps
  BY <1>1 DEF Steps
<1>3. /\ pc' \in [Pair -> Steps]
      /\ job' \in [Pair -> Msg \cup {NoMsg}]
      /\ todo' \in [Pair -> SUBSET Node]
      /\ pc'[<<n0, t0>>] = "flood" /\ job'[<<n0, t0>>] = m0
      /\ todo'[<<n0, t0>>] = S
      /\ \A n, t \in Node : n # n0 \/ t # t0 =>
           /\ pc'[<<n, t>>] = pc[<<n, t>>]
           /\ job'[<<n, t>>] = job[<<n, t>>]
           /\ todo'[<<n, t>>] = todo[<<n, t>>]
  BY <1>2, GotoFacts, IInv DEF IInv
<1>4. QED
  BY <1>1, <1>3

\* Handler preserves the invariant: the copy of the table holds every open
\* link the message is owed to.
LEMMA HandlerStep ==
    ASSUME IInv, NEW n0 \in Node, NEW t0 \in Node, Handler(n0, t0)
    PROVE  IInv'
<1> DEFINE m0 == job[<<n0, t0>>]
<1>1. /\ pc[<<n0, t0>>] = "handle"
      /\ handled' = [handled EXCEPT ![n0][m0] = @ + 1]
      /\ Goto(<<n0, t0>>, "flood", m0, Peers(n0) \ {t0})
      /\ up' = up /\ net' = net /\ published' = published
      /\ seen' = seen /\ crossed' = crossed /\ limited' = limited
  BY Handler(n0, t0) DEF Handler
<1>2. m0 \in Msg /\ m0 \in seen[n0]
  BY <1>1, HasJob, IInv DEF IInv, Jobs, JobOK, Busy
<1>3. /\ pc' \in [Pair -> Steps]
      /\ job' \in [Pair -> Msg \cup {NoMsg}]
      /\ todo' \in [Pair -> SUBSET Node]
      /\ pc'[<<n0, t0>>] = "flood" /\ todo'[<<n0, t0>>] = Peers(n0) \ {t0}
      /\ \A n, t \in Node : job'[<<n, t>>] = job[<<n, t>>]
      /\ \A n, t \in Node : n # n0 \/ t # t0 =>
           /\ pc'[<<n, t>>] = pc[<<n, t>>]
           /\ todo'[<<n, t>>] = todo[<<n, t>>]
  <2>1. Peers(n0) \ {t0} \in SUBSET Node
    BY DEF Peers
  <2>2. pc[<<n0, t0>>] # "idle"
    BY <1>1
  <2>3. QED
    BY <2>1, <2>2, <1>1, IInv, FloodFacts
<1>4. /\ handled' \in [Node -> [Msg -> Nat]]
      /\ \A n \in Node, m \in Msg :
           n # n0 \/ m # m0 => handled'[n][m] = handled[n][m]
  BY <1>1, <1>2, IInv DEF IInv, TypeOK
<1>5. \A a, b \in Node : InFlight(<<a, b>>)' = InFlight(<<a, b>>)
  BY <1>1, SameNet
<1>6. TypeOK'
  BY IInv, <1>1, <1>3, <1>4 DEF IInv, TypeOK, Steps
<1>7. ASSUME NEW n \in Node, NEW t \in Node, NEW u \in Node
      PROVE  JobOK(n, t)' /\ Alone(n, t, u)'
  <2>1. JobOK(n, t) /\ Alone(n, t, u) /\ Alone(n0, t, t0)
        /\ JobOK(n0, t0)
    BY IInv DEF IInv, Jobs
  <2>2. JobOK(n, t)'
    <3>1. CASE n = n0 /\ t = t0
      BY <3>1, <2>1, <1>1, <1>3 DEF JobOK, Busy
    <3>2. CASE n # n0 \/ t # t0
      <4>1. pc[<<n, t>>] = "handle" => n # n0 \/ job[<<n, t>>] # m0
        BY <3>2, <2>1, <1>1 DEF Alone, Busy
      <4>2. pc[<<n, t>>] = "handle" =>
              handled'[n][job[<<n, t>>]] = handled[n][job[<<n, t>>]]
        <5>1. pc[<<n, t>>] = "handle" => job[<<n, t>>] \in Msg
          BY HasJob, IInv
        <5>2. QED
          BY <5>1, <4>1, <1>4
      <4>3. QED
        BY <4>2, <3>2, <2>1, <1>1, <1>3 DEF JobOK, Busy
    <3>3. QED
      BY <3>1, <3>2
  <2>3. Alone(n, t, u)'
    <3>1. \A v \in Node : pc'[<<n, v>>] \in Busy <=> pc[<<n, v>>] \in Busy
      BY <1>1, <1>3 DEF Busy
    <3>2. QED
      BY <3>1, <2>1, <1>3 DEF Alone
  <2>4. QED
    BY <2>2, <2>3
<1>8. Jobs'
  BY <1>7 DEF Jobs
<1>9. Known'
  <2>1. ASSUME NEW n \in Node, NEW t \in Node, NEW m \in Msg
        PROVE  /\ m \in seen'[n] \/ m \in InFlight(<<n, t>>)'
                    \/ job'[<<n, t>>] = m
                  => m \in published'
               /\ handled'[n][m] # 0 => m \in seen'[n]
    <3>1. /\ m \in seen[n] \/ m \in InFlight(<<n, t>>) \/ job[<<n, t>>] = m
             => m \in published
          /\ handled[n][m] # 0 => m \in seen[n]
      BY IInv DEF IInv, Known
    <3>2. QED
      BY <3>1, <1>1, <1>2, <1>3, <1>4, <1>5
  <2>2. QED
    BY <2>1 DEF Known
<1>10. \A n \in Node, m \in Msg : Has(n, m) => Has(n, m)'
  BY <1>1, <1>3 DEF Has
<1>11. Sources'
  BY IInv, <1>3, <1>5, <1>10 DEF IInv, Sources
<1>12. Crossings'
  <2>1. ASSUME NEW n \in Node, NEW t \in Node, NEW p \in Node, NEW m \in Msg
        PROVE  Owes(n, t, p, m)' => Owes(n, t, p, m)
    <3>1. CASE n = n0 /\ t = t0
      BY <3>1, <1>1, <1>3 DEF Owes
    <3>2. CASE n # n0 \/ t # t0
      BY <3>2, <1>3 DEF Owes
    <3>3. QED
      BY <3>1, <3>2
  <2>2. \A n, t \in Node, m \in Msg :
          job'[<<n, t>>] = m /\ pc'[<<n, t>>] = "handle"
          => job[<<n, t>>] = m /\ pc[<<n, t>>] = "handle"
    BY <1>3
  <2>3. QED
    BY <2>1, <2>2, <1>1, IInv, CrossingsKept
<1>13. Covered'
  <2>1. ASSUME NEW n \in Node, NEW p \in Node, NEW m \in Msg,
               <<n, p>> \in up', OnItsWay(n, p, m)
        PROVE  OnItsWay(n, p, m)'
    <3>1. m \in InFlight(<<n, p>>) => OnItsWay(n, p, m)'
      BY <1>5 DEF OnItsWay
    <3>2. ASSUME NEW t \in Node, Owes(n, t, p, m)
          PROVE  Owes(n, t, p, m)'
      <4>1. CASE n = n0 /\ t = t0
        <5>1. p \in Peers(n0) \ {t0}
          BY <4>1, <3>2, <2>1, <1>1 DEF Owes, Peers
        <5>2. QED
          BY <5>1, <4>1, <3>2, <1>3 DEF Owes
      <4>2. CASE n # n0 \/ t # t0
        BY <4>2, <3>2, <1>3 DEF Owes
      <4>3. QED
        BY <4>1, <4>2
    <3>3. QED
      BY <3>1, <3>2, <2>1, <1>1, <1>3, StillOnItsWay
  <2>2. QED
    BY IInv, <1>1, <2>1, CoveredKept
<1>14. QED
  BY <1>6, <1>8, <1>9, <1>11, <1>12, <1>13 DEF IInv

\* Flood preserves the invariant: a peer is served by a message in flight, or
\* its link is closed.
LEMMA FloodStep ==
    ASSUME IInv, NEW n0 \in Node, NEW t0 \in Node, Flood(n0, t0)
    PROVE  IInv'
<1> DEFINE m0 == job[<<n0, t0>>]
<1>1. /\ pc[<<n0, t0>>] = "flood"
      /\ seen' = seen /\ published' = published
      /\ handled' = handled /\ limited' = limited
  BY Flood(n0, t0) DEF Flood
<1>2. m0 \in Msg /\ m0 \in seen[n0] /\ todo[<<n0, t0>>] \subseteq Node
  <2>1. todo[<<n0, t0>>] \subseteq Node
    BY IInv, PairFacts DEF IInv, TypeOK
  <2>2. QED
    BY <2>1, <1>1, HasJob, IInv DEF IInv, Jobs, JobOK, Busy
<1>3. ASSUME NEW p0 \in todo[<<n0, t0>>],
             \/ Queue(n0, p0, m0)
             \/ QueueFull(n0, p0) /\ Break(n0, p0) /\ UNCHANGED crossed
             \/ Closed(n0, p0) /\ UNCHANGED <<up, net, crossed>>,
             Goto(<<n0, t0>>, "flood", m0, todo[<<n0, t0>>] \ {p0})
      PROVE  IInv'
  <2>1. p0 \in Node
    BY <1>2
  <2>2. /\ net' \in [Pair -> Seq(Msg)]
        /\ \A l \in Pair : Len(net'[l]) <= QueueLen
        /\ crossed' \in [Pair -> [Msg -> Nat]]
        /\ up' \subseteq up
        /\ \A a, b \in Node : <<a, b>> \in up' =>
             InFlight(<<a, b>>) \subseteq InFlight(<<a, b>>)'
        /\ \A a, b \in Node, m \in Msg :
             m \in InFlight(<<a, b>>)'
                => m \in InFlight(<<a, b>>) \/ (a = n0 /\ m = m0)
        /\ crossed' = crossed \/ Counted(n0, p0, m0)
        /\ \A m \in Msg : m = m0 /\ <<n0, p0>> \in up'
             => m \in InFlight(<<n0, p0>>)'
    <3>1. crossed \in [Pair -> [Msg -> Nat]] /\ TypeOK
      BY IInv DEF IInv, TypeOK
    <3>2. CASE Queue(n0, p0, m0)
      <4> HIDE DEF m0
      <4>1. /\ net' \in [Pair -> Seq(Msg)]
            /\ \A l \in Pair : Len(net'[l]) <= QueueLen
            /\ up' = up
            /\ \A a, b \in Node :
                 InFlight(<<a, b>>)' = InFlight(<<a, b>>)
                      \cup (IF a = n0 /\ b = p0 THEN {m0} ELSE {})
            /\ Counted(n0, p0, m0)
        BY <3>1, <3>2, <2>1, <1>2, QueueFacts
      <4>2. crossed' \in [Pair -> [Msg -> Nat]]
        BY <4>1 DEF Counted
      <4>3. QED
        BY <4>1, <4>2, <2>1
    <3>3. CASE QueueFull(n0, p0) /\ Break(n0, p0) /\ UNCHANGED crossed
      <4>1. n0 # p0
        BY <3>3, <3>1, PairFacts DEF QueueFull, TypeOK
      <4>2. /\ net' \in [Pair -> Seq(Msg)]
            /\ \A l \in Pair : Len(net'[l]) <= QueueLen
            /\ up' \subseteq up /\ <<n0, p0>> \notin up'
            /\ \A a, b \in Node :
                 InFlight(<<a, b>>)' \subseteq InFlight(<<a, b>>)
            /\ \A a, b \in Node : <<a, b>> \in up' =>
                 InFlight(<<a, b>>)' = InFlight(<<a, b>>)
        BY <4>1, <3>1, <3>3, <2>1, BreakFacts
      <4>3. QED
        BY <4>2, <3>1, <3>3
    <3>4. CASE Closed(n0, p0) /\ UNCHANGED <<up, net, crossed>>
      <4>1. \A a, b \in Node : InFlight(<<a, b>>)' = InFlight(<<a, b>>)
        BY <3>4, SameNet
      <4>2. <<n0, p0>> \notin up'
        BY <3>4 DEF Closed
      <4>3. QED
        BY <4>1, <4>2, <3>1, <3>4 DEF TypeOK
    <3>5. QED
      BY <3>2, <3>3, <3>4, <1>3
  <2>3. /\ pc' \in [Pair -> Steps]
        /\ job' \in [Pair -> Msg \cup {NoMsg}]
        /\ todo' \in [Pair -> SUBSET Node]
        /\ todo'[<<n0, t0>>] = todo[<<n0, t0>>] \ {p0}
        /\ \A n, t \in Node : job'[<<n, t>>] = job[<<n, t>>]
        /\ \A n, t \in Node : pc'[<<n, t>>] = pc[<<n, t>>]
        /\ \A n, t \in Node : n # n0 \/ t # t0 =>
             todo'[<<n, t>>] = todo[<<n, t>>]
    <3> DEFINE S == todo[<<n0, t0>>] \ {p0}
    <3>1. /\ S \in SUBSET Node /\ pc[<<n0, t0>>] # "idle"
          /\ Goto(<<n0, t0>>, "flood", job[<<n0, t0>>], S)
      BY <1>1, <1>2, <1>3
    <3> HIDE DEF S
    <3>2. /\ pc' \in [Pair -> Steps]
          /\ job' \in [Pair -> Msg \cup {NoMsg}]
          /\ todo' \in [Pair -> SUBSET Node]
          /\ pc'[<<n0, t0>>] = "flood"
          /\ todo'[<<n0, t0>>] = S
          /\ \A n, t \in Node : job'[<<n, t>>] = job[<<n, t>>]
          /\ \A n, t \in Node : n # n0 \/ t # t0 =>
               /\ pc'[<<n, t>>] = pc[<<n, t>>]
               /\ todo'[<<n, t>>] = todo[<<n, t>>]
      BY <3>1, IInv, FloodFacts
    <3>3. QED
      BY <3>2, <1>1 DEF S
  <2>4. TypeOK'
    BY IInv, <1>1, <2>2, <2>3 DEF IInv, TypeOK, Steps
  <2>5. Jobs'
    BY IInv, <1>1, <2>3, JobsKept DEF IInv
  <2>6. Known'
    <3>1. ASSUME NEW n \in Node, NEW t \in Node, NEW m \in Msg
          PROVE  /\ m \in seen'[n] \/ m \in InFlight(<<n, t>>)'
                      \/ job'[<<n, t>>] = m
                    => m \in published'
                 /\ handled'[n][m] # 0 => m \in seen'[n]
      <4>1. /\ m \in seen[n] \/ m \in InFlight(<<n, t>>) \/ job[<<n, t>>] = m
               => m \in published
            /\ handled[n][m] # 0 => m \in seen[n]
        BY IInv DEF IInv, Known
      <4>2. m \in InFlight(<<n, t>>)' => m \in InFlight(<<n, t>>) \/ m \in seen[n]
        BY <2>2, <1>2
      <4>3. QED
        BY <4>1, <4>2, <1>1, <2>3
    <3>2. QED
      BY <3>1 DEF Known
  <2>7. Sources'
    <3>1. ASSUME NEW n \in Node, NEW p \in Node, NEW m \in Msg,
                 m \in InFlight(<<p, n>>)' \/ (n # p /\ job'[<<n, p>>] = m)
          PROVE  Has(p, m)'
      <4>1. Has(p, m) => Has(p, m)'
        BY <1>1, <2>3 DEF Has
      <4>2. CASE m \in InFlight(<<p, n>>) \/ (n # p /\ job[<<n, p>>] = m)
        BY <4>1, <4>2, IInv DEF IInv, Sources
      <4>3. CASE p = n0 /\ m = m0
        BY <4>3, <1>1, <1>2 DEF Has
      <4>4. QED
        BY <4>2, <4>3, <3>1, <2>2, <2>3
    <3>2. QED
      BY <3>1 DEF Sources
  <2>8. Crossings'
    <3>1. ASSUME NEW n \in Node, NEW p \in Node, NEW m \in Msg
          PROVE  /\ crossed'[<<n, p>>][m] <= Allowed(n, m)
                 /\ crossed'[<<n, p>>][m] = Allowed(n, m) => Spent(n, p, m)'
                 /\ crossed'[<<n, p>>][m] # 0 => m \in published'
      <4>1. /\ crossed[<<n, p>>][m] <= Allowed(n, m)
            /\ crossed[<<n, p>>][m] = Allowed(n, m) => Spent(n, p, m)
            /\ crossed[<<n, p>>][m] # 0 => m \in published
        BY IInv DEF IInv, Crossings
      <4>2. Spent(n, p, m) => Spent(n, p, m)'
        <5>1. \A t \in Node : Owes(n, t, p, m)' => Owes(n, t, p, m)
          BY <2>3 DEF Owes
        <5>2. QED
          BY <5>1, <1>1, <2>3, SpentKept
      <4>3. CASE crossed'[<<n, p>>][m] = crossed[<<n, p>>][m]
        BY <4>1, <4>2, <4>3, <1>1
      <4>4. CASE n = n0 /\ p = p0 /\ m = m0 /\ Counted(n0, p0, m0)
        <5>1. Owes(n, t0, p, m)
          BY <4>4, <1>1, <1>3 DEF Owes
        <5>2. crossed[<<n, p>>][m] # Allowed(n, m)
          BY <4>1, <5>1 DEF Spent
        <5>3. crossed[<<n, p>>][m] \in Nat
          <6>1. crossed[<<n, p>>] \in [Msg -> Nat]
            BY IInv, PairFacts DEF IInv, TypeOK
          <6>2. QED
            BY <6>1
        <5>4. crossed'[<<n, p>>][m] = crossed[<<n, p>>][m] + 1
          BY <4>4 DEF Counted
        <5>5. Allowed(n, m) \in Nat
          BY DEF Allowed
        <5>6. crossed'[<<n, p>>][m] <= Allowed(n, m)
          BY <4>1, <5>2, <5>3, <5>4, <5>5
        <5>7. m \in published'
          BY <4>4, <1>1, <1>2, IInv DEF IInv, Known
        <5>8. Spent(n, p, m)'
          <6>1. ASSUME NEW t \in Node
                PROVE  /\ ~Owes(n, t, p, m)'
                       /\ job'[<<n, t>>] = m => pc'[<<n, t>>] # "handle"
            <7>1. CASE t = t0
              BY <7>1, <4>4, <1>1, <1>2, <2>3 DEF Owes
            <7>2. CASE t # t0
              <8>1. Alone(n0, t, t0)
                BY IInv DEF IInv, Jobs
              <8>2. job[<<n, t>>] = m => pc[<<n, t>>] \notin Busy
                BY <8>1, <7>2, <4>4, <1>1 DEF Alone, Busy
              <8>3. QED
                BY <8>2, <4>4, <1>1, <1>2, <2>3 DEF Owes, Busy
            <7>3. QED
              BY <7>1, <7>2
          <6>2. m \in seen'[n]
            BY <4>4, <1>1, <1>2
          <6>3. QED
            BY <6>1, <6>2 DEF Spent
        <5>9. QED
          BY <5>6, <5>7, <5>8
      <4>5. QED
        BY <4>3, <4>4, <2>2 DEF Counted
    <3>2. QED
      BY <3>1 DEF Crossings, Allowed, Floods
  <2>9. Covered'
    <3>1. ASSUME NEW n \in Node, NEW p \in Node, NEW m \in Msg,
                 <<n, p>> \in up', OnItsWay(n, p, m)
          PROVE  OnItsWay(n, p, m)'
      <4>1. m \in InFlight(<<n, p>>) => OnItsWay(n, p, m)'
        BY <3>1, <2>2 DEF OnItsWay
      <4>2. ASSUME NEW t \in Node, Owes(n, t, p, m)
            PROVE  Owes(n, t, p, m)' \/ OnItsWay(n, p, m)'
        <5>1. CASE n = n0 /\ t = t0 /\ p = p0
          <6>1. m = m0
            BY <5>1, <4>2 DEF Owes
          <6>2. m \in InFlight(<<n, p>>)'
            BY <6>1, <5>1, <3>1, <2>2
          <6>3. QED
            BY <6>2 DEF OnItsWay
        <5>2. CASE ~(n = n0 /\ t = t0 /\ p = p0)
          BY <5>2, <4>2, <2>3, <1>1 DEF Owes
        <5>3. QED
          BY <5>1, <5>2
      <4>3. QED
        BY <4>1, <4>2, <3>1, <1>1, <2>3, StillOnItsWay
    <3>2. QED
      BY IInv, <1>1, <2>2, <3>1, CoveredKept
  <2>10. QED
    BY <2>4, <2>5, <2>6, <2>7, <2>8, <2>9 DEF IInv
<1>4. CASE /\ todo[<<n0, t0>>] = {} /\ Return(<<n0, t0>>)
           /\ UNCHANGED <<up, net, crossed>>
  <2>1. seen \in [Node -> SUBSET Msg]
    BY IInv DEF IInv, TypeOK
  <2>2. QED
    BY <2>1, <1>1, <1>2, <1>4, IInv, EndStep
<1>5. QED
  BY <1>3, <1>4, Flood(n0, t0) DEF Flood

\* A step that changes nothing preserves the invariant.
LEMMA StutterStep ==
    ASSUME IInv, UNCHANGED vars
    PROVE  IInv'
<1>1. /\ up' = up /\ net' = net /\ seen' = seen /\ pc' = pc /\ job' = job
      /\ todo' = todo /\ published' = published /\ handled' = handled
      /\ crossed' = crossed /\ limited' = limited
  BY DEF vars
<1>2. \A a, b \in Node : InFlight(<<a, b>>)' = InFlight(<<a, b>>)
  BY <1>1, SameNet
<1>3. TypeOK'
  BY IInv, <1>1 DEF IInv, TypeOK
<1>4. Jobs'
  BY IInv, <1>1, JobsKept DEF IInv
<1>5. Known'
  <2>1. ASSUME NEW n \in Node, NEW t \in Node, NEW m \in Msg
        PROVE  /\ (m \in seen[n] \/ m \in InFlight(<<n, t>>) \/ job[<<n, t>>] = m
                  => m \in published)'
               /\ (handled[n][m] # 0 => m \in seen[n])'
    <3>1. InFlight(<<n, t>>)' = InFlight(<<n, t>>)
      BY <1>2
    <3>2. /\ m \in seen[n] \/ m \in InFlight(<<n, t>>) \/ job[<<n, t>>] = m
             => m \in published
          /\ handled[n][m] # 0 => m \in seen[n]
      BY IInv DEF IInv, Known
    <3>3. QED
      BY <1>1, <3>1, <3>2
  <2>2. QED
    BY <2>1 DEF Known
<1>6. \A n \in Node, m \in Msg : Has(n, m) <=> Has(n, m)'
  BY <1>1 DEF Has
<1>7. Sources'
  BY IInv, <1>1, <1>2, <1>6 DEF IInv, Sources
<1>8. \A n, t, p \in Node, m \in Msg : Owes(n, t, p, m) <=> Owes(n, t, p, m)'
  BY <1>1 DEF Owes
<1>9. Crossings'
  BY IInv, <1>1, <1>8, CrossingsKept
<1>10. \A n, p \in Node, m \in Msg : OnItsWay(n, p, m) => OnItsWay(n, p, m)'
  BY <1>1, <1>2, <1>8 DEF OnItsWay
<1>11. Covered'
  BY IInv, <1>1, <1>10, CoveredKept
<1>12. QED
  BY <1>3, <1>4, <1>5, <1>7, <1>9, <1>11 DEF IInv

----------------------------------------------------------------------------
(* The theorems.                                                           *)

\* Every state of every run satisfies the invariant.
THEOREM Invariance == Spec => []IInv
<1>1. Init => IInv
  BY InitIInv
<1>2. IInv /\ [Next]_vars => IInv'
  <2> SUFFICES ASSUME IInv, [Next]_vars PROVE IInv'
    OBVIOUS
  <2>1. ASSUME NEW m \in Msg, Inject(m) PROVE IInv'
    BY <2>1, InjectStep
  <2>2. ASSUME NEW m \in Msg, NEW p \in Node, Resync(p, m) PROVE IInv'
    BY <2>2, ResyncStep
  <2>3. ASSUME NEW n \in Node, NEW t \in Node, Receive(n, t) PROVE IInv'
    BY <2>3, ReceiveStep
  <2>4. ASSUME NEW n \in Node, NEW t \in Node, Add(n, t) PROVE IInv'
    BY <2>4, AddStep
  <2>5. ASSUME NEW n \in Node, NEW t \in Node, Handler(n, t) PROVE IInv'
    BY <2>5, HandlerStep
  <2>6. ASSUME NEW n \in Node, NEW t \in Node, Flood(n, t) PROVE IInv'
    BY <2>6, FloodStep
  <2>7. ASSUME NEW n \in Node, NEW t \in Node, RateLimit(n, t) PROVE IInv'
    BY <2>7, RateLimitStep
  <2>8. ASSUME NEW n \in Node, NEW t \in Node, Disconnect(n, t) PROVE IInv'
    BY <2>8, DisconnectStep
  <2>9. ASSUME NEW n \in Node, Mark(n) PROVE IInv'
    BY <2>9, MarkStep
  <2>10. CASE UNCHANGED vars
    BY <2>10, StutterStep
  <2>11. QED
    BY <2>1, <2>2, <2>3, <2>4, <2>5, <2>6, <2>7, <2>8, <2>9, <2>10
       DEF Next, Step
<1>3. QED
  BY <1>1, <1>2, PTL DEF Spec

\* The send queues stay within their capacity, and the rest has its type.
THEOREM TypeCorrect == Spec => []TypeOK
<1>1. IInv => TypeOK
  BY DEF IInv
<1>2. QED
  BY <1>1, Invariance, PTL

\* No message is stranded half-way: what a node has stored it has passed on, or
\* is about to, over every link that is still open.
THEOREM CoveredAlways == Spec => []Covered
<1>1. IInv => Covered
  BY DEF IInv
<1>2. QED
  BY <1>1, Invariance, PTL

\* A node queues a message at most once on each of its links, and a join it
\* resends at most twice: a cycle does not amplify it.
THEOREM CrossesOnce == Spec => []CrossOnce
<1>1. IInv => CrossOnce
  BY DEF IInv, Crossings, CrossOnce
<1>2. QED
  BY <1>1, Invariance, PTL

\* In a quiet mesh the two ends of every open link have stored the same
\* flooded messages, but for those a rate limiter refused.
THEOREM ConvergedAlways == Spec => []Converged
<1>1. IInv => Converged
  <2> SUFFICES ASSUME IInv, Quiet, NEW n \in Node, NEW p \in Node,
                      <<n, p>> \in up, NEW m \in seen[n], Floods(n, m)
               PROVE  m \in seen[p] \cup limited[<<n, p>>]
    BY DEF Converged
  <2>1. OnItsWay(n, p, m)
    BY DEF IInv, Covered
  <2>2. m # NoMsg
    BY MsgAssumption DEF IInv, TypeOK
  <2>3. ASSUME NEW a \in Node, NEW b \in Node
        PROVE  pc[<<a, b>>] = "idle" /\ job[<<a, b>>] = NoMsg
    <3>1. pc[<<a, b>>] = "idle"
      BY PairFacts DEF Quiet
    <3>2. JobOK(a, b)
      BY DEF IInv, Jobs
    <3>3. QED
      BY <3>1, <3>2 DEF JobOK
  <2>4. InFlight(<<n, p>>) = {}
    BY PairFacts DEF Quiet, InFlight
  <2>5. \A t \in Node : job[<<p, t>>] # m /\ job[<<n, t>>] # m
    BY <2>2, <2>3
  <2>6. QED
    BY <2>1, <2>4, <2>5 DEF OnItsWay, Owes
<1>2. QED
  BY <1>1, Invariance, PTL

\* A step of the mesh is a publication, a delivery or nothing at all to Broadcast.
LEMMA StepSimulated ==
  ASSUME IInv, [Next]_vars
  PROVE  Abstract!Next \/ UNCHANGED <<published, handled>>
<1>stutter. CASE UNCHANGED vars
  BY <1>stutter DEF vars
<1>inject. ASSUME NEW m \in Msg, Inject(m) PROVE Abstract!Next
  BY <1>inject DEF Inject, Abstract!Next, Abstract!Publish
<1>resync. ASSUME NEW m \in Msg, NEW p \in Node, Resync(p, m)
           PROVE  Abstract!Next
  BY <1>resync DEF Resync, Abstract!Next, Abstract!Publish
<1>handler. ASSUME NEW n \in Node, NEW t \in Node, Handler(n, t)
            PROVE  Abstract!Next
  <2>1. /\ pc[<<n, t>>] = "handle" /\ published' = published
        /\ handled' = [handled EXCEPT ![n][job[<<n, t>>]] = @ + 1]
    BY <1>handler DEF Handler
  <2>2. PICK m \in Msg : m = job[<<n, t>>]
    BY <2>1, HasJob
  <2>3. handled[n][m] = 0 /\ m \in published
    BY <2>1, <2>2 DEF IInv, Jobs, JobOK, Known
  <2>4. handled' = [handled EXCEPT ![n][m] = 1]
    BY <2>1, <2>2, <2>3 DEF IInv, TypeOK
  <2>5. QED
    BY <2>1, <2>3, <2>4 DEF Abstract!Next, Abstract!Deliver
<1>silent. ASSUME NEW n \in Node, NEW t \in Node,
                  Receive(n, t) \/ Add(n, t) \/ Flood(n, t) \/ RateLimit(n, t)
                    \/ Disconnect(n, t) \/ Mark(n)
           PROVE  UNCHANGED <<published, handled>>
  BY <1>silent DEF Receive, Add, Flood, RateLimit, Disconnect, Mark
<1> QED
  BY <1>stutter, <1>inject, <1>resync, <1>handler, <1>silent DEF Next, Step

\* The mesh implements Broadcast: the handler of a node runs at most once for a
\* message, and only for one that was published.
THEOREM Implements == Spec => Refines
<1>1. Init => Abstract!Init
  BY DEF Init, Abstract!Init
<1>2. IInv /\ [Next]_vars => [Abstract!Next]_(Abstract!vars)
  BY StepSimulated DEF Abstract!vars
<1>3. QED
  BY <1>1, <1>2, Invariance, PTL DEF Spec, Refines, Abstract!Spec
=============================================================================
