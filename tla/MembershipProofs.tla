-------------------------- MODULE MembershipProofs --------------------------
(***************************************************************************)
(* What the member tables show, for any mesh, any number of channels and   *)
(* messages, and any way connections are lost, made again and replaced.    *)
(***************************************************************************)
EXTENDS Membership, SequenceTheorems, TLAPS

----------------------------------------------------------------------------
(* The inductive invariant.                                                *)

\* A command announces what it has done to the joined channels.
Commands ==
    \A n \in Node : \A a \in terminal[n] : a[1] = "join" <=> a[2] \in joined[n]

\* Both ends of an open connection are in their tables.
Connections ==
    \A l \in alive : <<l[2], l[1]>> \in alive /\ l[2] \in peers[l[1]]

\* What a hook may hold.
HookType == [step : {"idle", "snapshot", "send"}, todo : SUBSET Channel,
             sent : SUBSET Message]

\* The messages on link l: in its queue, being handled by the reader of its
\* first end, or sent by the hook of that end and not yet stored.
OnLink(l) == Range(net[l]) \cup reader[l] \cup hook[l].sent

\* IDs are not used twice.  A node stores its leaves before it sends them, and
\* so never handles one of its own; of its joins it may, while the hook that
\* has sent one has not stored it.  A reader handles one message at a time.
News ==
    /\ \A n \in Node : \A m \in seen[n] : m.id <= ids
    /\ \A l \in Link : \A m \in OnLink(l) : m.id <= ids
    /\ \A l \in Link : \A m \in Range(net[l]) :
         m.type = "leave" => m \in seen[m.sender]
    /\ \A l \in Link : \A m \in reader[l] :
         m.type = "leave" => m \in seen[m.sender] /\ m.sender # l[1]
    /\ \A l \in Link : \A m \in hook[l].sent : m.sender = l[1]
    /\ \A l \in Link : \A m, k \in reader[l] : m = k

\* n is handling a message of p about c.
Heard(n, p, c) ==
    \E l \in Link : l[1] = n /\ \E m \in reader[l] : m.sender = p
                                                      /\ m.channel = c

\* p has sent n a message of type t about c, which n does not have yet.
Coming(n, p, c, t) ==
    \E m \in Range(net[<<p, n>>]) :
        m.sender = p /\ m.channel = c /\ m.type = t /\ m \notin seen[n]

\* n lists p in a channel that p has left, and will not do so for long.
Corrected(n, p, c) ==
    \/ <<n, p, c>> \in excused
    \/ Heard(n, p, c)
    \/ <<"leave", c>> \in terminal[p]
    \/ p \in downs[n]
    \/ p \in peers[n] /\ <<n, p>> \notin alive
    \/ <<n, p>> \in alive /\ Coming(n, p, c, "leave")

\* n does not list p in a channel that p has joined, and soon will.
Told(n, p, c) ==
    \/ <<n, p, c>> \in excused
    \/ Heard(n, p, c)
    \/ <<"join", c>> \in terminal[p]
    \/ <<n, p>> \notin alive
    \/ hook[<<p, n>>] = Snapshot
    \/ c \in hook[<<p, n>>].todo
    \/ Coming(n, p, c, "join")

Claim(n, p, c) ==
    c \in joined[n] =>
        /\ p \in members[n][c] /\ c \notin joined[p] => Corrected(n, p, c)
        /\ p \notin members[n][c] /\ c \in joined[p] => Told(n, p, c)

Listing == \A l \in Link : \A c \in Channel : Claim(l[1], l[2], c)

IInv == TypeOK /\ Commands /\ Connections /\ News /\ SelfListed /\ Listing

----------------------------------------------------------------------------
(* Frames on a link, messages and links.                                   *)

\* What a queue holds once a frame is put in or taken out.
LEMMA Frames ==
    ASSUME NEW s \in Seq(Message)
    PROVE  /\ Range(s) \subseteq Message
           /\ Range(<<>>) = {}
           /\ \A m \in Message : /\ Append(s, m) \in Seq(Message)
                                 /\ Range(Append(s, m)) = Range(s) \cup {m}
           /\ s # <<>> => /\ Head(s) \in Range(s)
                          /\ Tail(s) \in Seq(Message)
                          /\ Range(s) = Range(Tail(s)) \cup {Head(s)}
<1>1. Range(s) \subseteq Message /\ Range(<<>>) = {}
  BY DEF Range
<1>2. ASSUME NEW m \in Message
      PROVE  Append(s, m) \in Seq(Message) /\ Range(Append(s, m)) = Range(s) \cup {m}
  <2>1. Append(s, m) \in Seq(Message)
    BY AppendProperties
  <2>2. Range(Append(s, m)) \subseteq Range(s) \cup {m}
    BY AppendProperties DEF Range
  <2>3. ASSUME NEW i \in DOMAIN s
        PROVE  s[i] \in Range(Append(s, m))
    BY AppendProperties DEF Range
  <2>4. m \in Range(Append(s, m))
    <3>1. Len(s) + 1 \in DOMAIN Append(s, m) /\ Append(s, m)[Len(s) + 1] = m
      BY AppendProperties
    <3>2. QED
      BY <3>1 DEF Range
  <2>5. QED
    BY <2>1, <2>2, <2>3, <2>4 DEF Range
<1>3. ASSUME s # <<>>
      PROVE  /\ Head(s) \in Range(s)
             /\ Tail(s) \in Seq(Message)
             /\ Range(s) = Range(Tail(s)) \cup {Head(s)}
  <2>1. /\ Len(s) \in Nat /\ Len(s) >= 1 /\ DOMAIN s = 1..Len(s)
        /\ Head(s) = s[1]
    BY <1>3, EmptySeq
  <2>2. /\ Tail(s) \in Seq(Message) /\ Len(Tail(s)) = Len(s) - 1
        /\ DOMAIN Tail(s) = 1..(Len(s) - 1)
        /\ \A i \in 1..(Len(s) - 1) : Tail(s)[i] = s[i + 1]
    BY <1>3, <2>1, HeadTailProperties
  <2>3. Head(s) \in Range(s)
    BY <2>1 DEF Range
  <2>4. Range(Tail(s)) \subseteq Range(s)
    BY <2>1, <2>2 DEF Range
  <2>5. ASSUME NEW i \in 1..Len(s)
        PROVE  s[i] \in Range(Tail(s)) \cup {Head(s)}
    <3>1. CASE i = 1
      BY <3>1, <2>1
    <3>2. CASE i # 1
      <4>1. i - 1 \in 1..(Len(s) - 1) /\ (i - 1) + 1 = i
        BY <3>2, <2>1
      <4>2. Tail(s)[i - 1] = s[i]
        BY <4>1, <2>2
      <4>3. QED
        BY <4>1, <4>2, <2>2 DEF Range
    <3>3. QED
      BY <3>1, <3>2
  <2>6. QED
    BY <2>1, <2>2, <2>3, <2>4, <2>5 DEF Range
<1>4. QED
  BY <1>1, <1>2, <1>3

\* A link joins two nodes, in both directions.
LEMMA LinkFacts ==
    ASSUME NEW l \in Link
    PROVE  /\ l[1] \in Node /\ l[2] \in Node /\ l[1] # l[2]
           /\ <<l[1], l[2]>> = l /\ <<l[2], l[1]>> \in Link
BY MembershipAssumption

\* A new message is one that nobody has seen.
LEMMA NewFacts ==
    ASSUME TypeOK, News, ids < MaxMsg, NEW n \in Node, NEW c \in Channel,
           NEW t \in {"join", "leave"}
    PROVE  /\ NewMessage(t, n, c) \in Message
           /\ NewMessage(t, n, c).sender = n /\ NewMessage(t, n, c).type = t
           /\ NewMessage(t, n, c).channel = c
           /\ NewMessage(t, n, c).id = ids + 1
           /\ \A q \in Node : NewMessage(t, n, c) \notin seen[q]
           /\ ids + 1 \in 0..MaxMsg /\ ids \in Nat
<1>1. ids \in Nat /\ ids + 1 \in 1..MaxMsg /\ ids + 1 \in 0..MaxMsg
  BY MembershipAssumption DEF TypeOK
<1>2. NewMessage(t, n, c) \in Message /\ NewMessage(t, n, c).id = ids + 1
  BY <1>1 DEF NewMessage, Message
<1>3. ASSUME NEW q \in Node, NewMessage(t, n, c) \in seen[q]
      PROVE  FALSE
  <2>1. NewMessage(t, n, c).id <= ids
    BY <1>3 DEF News
  <2>2. QED
    BY <2>1, <1>1, <1>2
<1>4. QED
  BY <1>1, <1>2, <1>3 DEF NewMessage

\* A flood keeps what is on its way and puts the message on the open links.
LEMMA FloodFacts ==
    ASSUME TypeOK, NEW n \in Node, NEW p \in Node, NEW m \in Message
    PROVE  /\ Flooded(n, p, m) \in [Link -> Seq(Message)]
           /\ \A l \in Link :
                /\ Range(net[l]) \subseteq Range(Flooded(n, p, m)[l])
                /\ Range(Flooded(n, p, m)[l]) \subseteq Range(net[l]) \cup {m}
                /\ l[1] = n /\ l[2] # p /\ l[2] \in peers[n] /\ l \in alive
                   => m \in Range(Flooded(n, p, m)[l])
<1>1. ASSUME NEW l \in Link
      PROVE  /\ net[l] \in Seq(Message)
             /\ Append(net[l], m) \in Seq(Message)
             /\ Range(Append(net[l], m)) = Range(net[l]) \cup {m}
  BY Frames DEF TypeOK
<1>2. QED
  BY <1>1 DEF Flooded

----------------------------------------------------------------------------
(* The first states.                                                       *)

\* The invariant holds when the nodes start, or have just heard of each other.
LEMMA IInvInit == Init => IInv
<1> SUFFICES ASSUME Init PROVE IInv
  OBVIOUS
<1>1. PICK s \in Start :
        /\ alive = s.open /\ rooms = s.rooms
        /\ ids = s.ids /\ sessions = s.sessions
        /\ members = [n \in Node |-> [c \in Channel |->
             IF c = General THEN {n} \cup {p \in Node : <<n, p>> \in s.heard}
             ELSE {}]]
  BY DEF Init
<1>2. /\ s.ids \in 0..MaxMsg /\ s.sessions \in 0..MaxSession
      /\ s.open \subseteq s.heard /\ s.open \subseteq Link
      /\ s.rooms \in [Node -> SUBSET Channel]
      /\ \A l \in s.open : <<l[2], l[1]>> \in s.open
  BY MembershipAssumption
<1>3. General \in Channel
  BY MembershipAssumption
<1>4. Idle \in HookType /\ Idle.sent = {}
  BY DEF Idle, HookType
<1>5. TypeOK
  <2>1. <<>> \in Seq(Message)
    OBVIOUS
  <2>2. QED
    BY <1>1, <1>2, <1>3, <1>4, <2>1 DEF Init, TypeOK, HookType
<1>6. Commands /\ SelfListed
  BY <1>1, <1>3 DEF Init, Commands, SelfListed
<1>7. Connections
  <2>1. ASSUME NEW l \in alive
        PROVE  <<l[2], l[1]>> \in alive /\ l[2] \in peers[l[1]]
    <3>1. l \in Link /\ <<l[2], l[1]>> \in alive
      BY <1>1, <1>2
    <3>2. l[1] \in Node /\ l[2] \in Node /\ <<l[1], l[2]>> = l
      BY <3>1, LinkFacts
    <3>3. QED
      BY <3>1, <3>2 DEF Init
  <2>2. QED
    BY <2>1 DEF Connections
<1>8. News
  BY <1>4 DEF Init, News, OnLink, Range
<1>9. Listing
  <2>1. ASSUME NEW l \in Link, NEW c \in Channel
        PROVE  Claim(l[1], l[2], c)
    <3>1. l[1] \in Node /\ l[2] \in Node /\ l[1] # l[2] /\ <<l[1], l[2]>> = l
      BY LinkFacts
    <3>2. l \in alive => l[2] \in members[l[1]][General]
      BY <3>1, <1>1, <1>2, <1>3
    <3>3. QED
      BY <3>1, <3>2, <1>1, <1>3 DEF Init, Claim, Told, Corrected
  <2>2. QED
    BY <2>1 DEF Listing
<1>10. QED
  BY <1>5, <1>6, <1>7, <1>8, <1>9 DEF IInv

----------------------------------------------------------------------------
(* The user's commands.                                                    *)

\* A claim that an action does not touch still holds: its facts are the same
\* and what was under way still is.
LEMMA ClaimKept ==
    ASSUME NEW q, NEW r, NEW c, Claim(q, r, c),
           c \in joined'[q] => c \in joined[q],
           c \in joined'[r] <=> c \in joined[r],
           r \in members'[q][c] <=> r \in members[q][c],
           Corrected(q, r, c) /\ r \in members[q][c] /\ c \notin joined[r]
             => Corrected(q, r, c)',
           Told(q, r, c) /\ r \notin members[q][c] /\ c \in joined[r]
             => Told(q, r, c)'
    PROVE  Claim(q, r, c)'
BY DEF Claim

\* It is enough to look at the claim about one pair of linked nodes.
LEMMA ListingKept ==
    ASSUME Listing,
           \A q \in Node, r \in Node, d \in Channel :
             <<q, r>> \in Link /\ q # r /\ Claim(q, r, d) => Claim(q, r, d)'
    PROVE  Listing'
<1>1. ASSUME NEW l \in Link, NEW d \in Channel
      PROVE  Claim(l[1], l[2], d)'
  BY LinkFacts DEF Listing
<1>2. QED
  BY <1>1 DEF Listing

\* Joining: what the node does not know of the channel is excused, and the
\* others will be told.
LEMMA StepJoin ==
    ASSUME IInv, NEW n \in Node, NEW c \in Channel, Join(n, c)
    PROVE  IInv'
<1>1. TypeOK'
  BY DEF IInv, TypeOK, Join, connVars
<1>2. Commands' /\ SelfListed'
  BY DEF IInv, TypeOK, Commands, SelfListed, Join
<1>3. Connections' /\ News'
  BY DEF IInv, Connections, News, OnLink, Join, connVars
<1>4. Listing'
  <2>1. ASSUME NEW q \in Node, NEW r \in Node, NEW d \in Channel,
               <<q, r>> \in Link, q # r, Claim(q, r, d)
        PROVE  Claim(q, r, d)'
    <3>3. /\ Heard(q, r, d)' <=> Heard(q, r, d)
          /\ \A t : Coming(q, r, d, t)' <=> Coming(q, r, d, t)
      BY DEF Join, Heard, Coming
    <3>4. CASE q = n /\ d = c
      <4>1. r \notin members'[q][d]
        BY <2>1, <3>4 DEF IInv, TypeOK, Join
      <4>2. d \in joined'[r] => <<q, r, d>> \in excused'
        BY <2>1, <3>4 DEF IInv, TypeOK, Join
      <4>3. QED
        BY <4>1, <4>2 DEF Claim, Told
    <3>5. CASE r = n /\ d = c
      <4>1. d \in joined'[r] /\ <<"join", d>> \in terminal'[r]
        BY <2>1, <3>5 DEF IInv, TypeOK, Join
      <4>2. QED
        BY <4>1 DEF Claim, Told
    <3>6. CASE ~(q = n /\ d = c) /\ ~(r = n /\ d = c)
      <4>1. /\ joined'[q] \cap {d} = joined[q] \cap {d}
            /\ joined'[r] \cap {d} = joined[r] \cap {d}
            /\ members'[q][d] = members[q][d]
        BY <2>1, <3>6 DEF IInv, TypeOK, Join
      <4>2. /\ <<q, r, d>> \in excused => <<q, r, d>> \in excused'
            /\ \A a : a \in terminal[r] => a \in terminal'[r]
        BY <2>1, <3>6 DEF IInv, TypeOK, Join
      <4>3. /\ Corrected(q, r, d) => Corrected(q, r, d)'
            /\ Told(q, r, d) => Told(q, r, d)'
        BY <4>2, <3>3 DEF Corrected, Told, Join, connVars
      <4>4. QED
        BY <4>1, <4>3, <2>1, ClaimKept
    <3>7. QED
      BY <3>4, <3>5, <3>6
  <2>2. QED
    BY <2>1, ListingKept DEF IInv
<1>5. QED
  BY <1>1, <1>2, <1>3, <1>4 DEF IInv

\* Looking at another joined channel changes nothing of this.
LEMMA StepJoinAgain ==
    ASSUME IInv, NEW n \in Node, NEW c \in Channel, JoinAgain(n, c)
    PROVE  IInv'
<1>1. TypeOK'
  BY DEF IInv, TypeOK, JoinAgain, connVars
<1>2. Commands' /\ SelfListed' /\ Connections' /\ News' /\ Listing'
  BY DEF IInv, JoinAgain, connVars, Commands, SelfListed, Connections, News,
         OnLink, Listing, Claim, Corrected, Told, Heard, Coming
<1>3. QED
  BY <1>1, <1>2 DEF IInv

\* Leaving: those who list the node will be told.
LEMMA StepLeave ==
    ASSUME IInv, NEW n \in Node, NEW c \in Channel, Leave(n, c)
    PROVE  IInv'
<1>1. TypeOK'
  <2>1. PICK x \in NextCurrent(n, c) : current' = [current EXCEPT ![n] = x]
    BY DEF Leave
  <2>2. x \in joined'[n] \cup {NoChannel} /\ x \in Channel \cup {NoChannel}
    BY <2>1 DEF IInv, TypeOK, Leave, NextCurrent
  <2>3. \A k \in Node : current'[k] \in joined'[k] \cup {NoChannel}
    BY <2>1, <2>2 DEF IInv, TypeOK, Leave
  <2>4. QED
    BY <2>1, <2>2, <2>3 DEF IInv, TypeOK, Leave, connVars
<1>2. Commands' /\ SelfListed'
  BY DEF IInv, TypeOK, Commands, SelfListed, Leave
<1>3. Connections' /\ News'
  BY DEF IInv, Connections, News, OnLink, Leave, connVars
<1>4. Listing'
  <2>1. ASSUME NEW q \in Node, NEW r \in Node, NEW d \in Channel,
               <<q, r>> \in Link, q # r, Claim(q, r, d)
        PROVE  Claim(q, r, d)'
    <3>3. /\ Heard(q, r, d)' <=> Heard(q, r, d)
          /\ \A t : Coming(q, r, d, t)' <=> Coming(q, r, d, t)
      BY DEF Leave, Heard, Coming
    <3>4. CASE q = n /\ d = c
      <4>1. d \notin joined'[q]
        BY <2>1, <3>4 DEF IInv, TypeOK, Leave
      <4>2. QED
        BY <4>1 DEF Claim
    <3>5. CASE r = n /\ d = c
      <4>1. d \notin joined'[r] /\ <<"leave", d>> \in terminal'[r]
        BY <2>1, <3>5 DEF IInv, TypeOK, Leave
      <4>2. QED
        BY <4>1 DEF Claim, Corrected
    <3>6. CASE ~(q = n /\ d = c) /\ ~(r = n /\ d = c)
      <4>1. /\ joined'[q] \cap {d} = joined[q] \cap {d}
            /\ joined'[r] \cap {d} = joined[r] \cap {d}
            /\ members'[q][d] = members[q][d]
        BY <2>1, <3>6 DEF IInv, TypeOK, Leave
      <4>2. \A a : a \in terminal[r] => a \in terminal'[r]
        BY <2>1, <3>6 DEF IInv, TypeOK, Leave
      <4>3. /\ Corrected(q, r, d) => Corrected(q, r, d)'
            /\ Told(q, r, d) => Told(q, r, d)'
        BY <4>2, <3>3 DEF Corrected, Told, Leave, connVars
      <4>4. QED
        BY <4>1, <4>3, <2>1, ClaimKept
    <3>7. QED
      BY <3>4, <3>5, <3>6
  <2>2. QED
    BY <2>1, ListingKept DEF IInv
<1>5. QED
  BY <1>1, <1>2, <1>3, <1>4 DEF IInv

\* A new nickname is announced in the joined channels.
LEMMA StepSetNick ==
    ASSUME IInv, NEW n \in Node, SetNick(n)
    PROVE  IInv'
<1>1. TypeOK'
  BY DEF IInv, TypeOK, SetNick, connVars
<1>2. Commands'
  BY DEF IInv, TypeOK, Commands, SetNick
<1>3. Connections' /\ News' /\ SelfListed'
  BY DEF IInv, Connections, News, OnLink, SelfListed, SetNick, connVars
<1>4. Listing'
  <2>1. ASSUME NEW q \in Node, NEW r \in Node, NEW d \in Channel,
               <<q, r>> \in Link, q # r, Claim(q, r, d)
        PROVE  Claim(q, r, d)'
    <3>1. \A a : a \in terminal[r] => a \in terminal'[r]
      BY <2>1 DEF IInv, TypeOK, SetNick
    <3>2. /\ Heard(q, r, d)' <=> Heard(q, r, d)
          /\ \A t : Coming(q, r, d, t)' <=> Coming(q, r, d, t)
      BY DEF SetNick, Heard, Coming
    <3>3. /\ Corrected(q, r, d) => Corrected(q, r, d)'
          /\ Told(q, r, d) => Told(q, r, d)'
      BY <3>1, <3>2 DEF Corrected, Told, SetNick, connVars
    <3>4. QED
      BY <2>1, <3>3, ClaimKept DEF SetNick
  <2>2. QED
    BY <2>1, ListingKept DEF IInv
<1>5. QED
  BY <1>1, <1>2, <1>3, <1>4 DEF IInv

\* What n has just sent is not what another node has sent it.
LEMMA StillComing ==
    ASSUME TypeOK, NEW q \in Node, NEW r \in Node, q # r, <<r, q>> \in Link,
           NEW d, NEW t, NEW n \in Node, NEW m, m.sender = n,
           seen' = [seen EXCEPT ![n] = @ \cup {m}],
           Range(net[<<r, q>>]) \subseteq Range(net'[<<r, q>>]),
           Coming(q, r, d, t)
    PROVE  Coming(q, r, d, t)'
<1>1. PICK k \in Range(net[<<r, q>>]) :
        k.sender = r /\ k.channel = d /\ k.type = t /\ k \notin seen[q]
  BY DEF Coming
<1>2. k \notin seen'[q]
  BY <1>1 DEF TypeOK
<1>3. k \in Range(net'[<<r, q>>])
  BY <1>1
<1>4. QED
  BY <1>1, <1>2, <1>3 DEF Coming

\* What is on its way or being handled is a message.
LEMMA MessageFacts ==
    ASSUME TypeOK, NEW l \in Link
    PROVE  /\ Range(net[l]) \subseteq Message /\ reader[l] \subseteq Message
           /\ hook[l].sent \subseteq Message
           /\ \A k \in Message : /\ k.sender \in Node /\ k.channel \in Channel
                                 /\ k.type \in {"join", "leave"} /\ k.id \in Nat
<1>1. /\ net[l] \in Seq(Message) /\ reader[l] \subseteq Message
      /\ hook[l].sent \subseteq Message
  BY DEF TypeOK
<1>2. Range(net[l]) \subseteq Message
  BY <1>1, Frames
<1>3. QED
  BY <1>1, <1>2, MembershipAssumption DEF Message

\* Sending keeps IDs apart and leaves known to their senders.
LEMMA NewsSent ==
    ASSUME TypeOK, News, NEW m \in Message, m.id = ids + 1, ids \in Nat,
           ids' = ids + 1, reader' = reader,
           \A q \in Node : /\ seen[q] \subseteq seen'[q]
                           /\ seen'[q] \subseteq seen[q] \cup {m},
           m.type = "leave" => m \in seen'[m.sender],
           \A l \in Link :
             /\ Range(net'[l]) \subseteq Range(net[l]) \cup {m}
             /\ hook'[l].sent \subseteq hook[l].sent
                  \cup (IF m.sender = l[1] THEN {m} ELSE {})
    PROVE  News'
<1>1. ASSUME NEW k \in Message, k = m \/ k.id <= ids
      PROVE  k.id <= ids'
  <2>1. k.id \in Nat
    BY MembershipAssumption DEF Message
  <2>2. QED
    BY <2>1, <1>1
<1>2. \A q \in Node : \A k \in seen'[q] : k.id <= ids'
  <2>1. ASSUME NEW q \in Node, NEW k \in seen'[q]
        PROVE  k.id <= ids'
    <3>1. k \in Message /\ (k = m \/ k.id <= ids)
      BY DEF TypeOK, News
    <3>2. QED
      BY <3>1, <1>1
  <2>2. QED
    BY <2>1
<1>3. \A l \in Link : \A k \in OnLink(l)' : k.id <= ids'
  <2>1. ASSUME NEW l \in Link, NEW k \in OnLink(l)'
        PROVE  k.id <= ids'
    <3>1. k = m \/ k \in OnLink(l)
      BY DEF OnLink
    <3>2. k \in Message /\ (k = m \/ k.id <= ids)
      BY <3>1, MessageFacts DEF OnLink, News
    <3>3. QED
      BY <3>2, <1>1
  <2>2. QED
    BY <2>1
<1>4. \A l \in Link : \A k \in Range(net'[l]) :
        k.type = "leave" => k \in seen'[k.sender]
  <2>1. ASSUME NEW l \in Link, NEW k \in Range(net'[l]), k.type = "leave"
        PROVE  k \in seen'[k.sender]
    <3>1. CASE k = m
      BY <3>1, <2>1
    <3>2. CASE k \in Range(net[l])
      <4>1. k \in seen[k.sender] /\ k.sender \in Node
        BY <3>2, <2>1, MessageFacts DEF News
      <4>2. QED
        BY <4>1
    <3>3. QED
      BY <3>1, <3>2
  <2>2. QED
    BY <2>1
<1>5. \A l \in Link : \A k \in reader'[l] :
        k.type = "leave" => k \in seen'[k.sender] /\ k.sender # l[1]
  <2>1. ASSUME NEW l \in Link, NEW k \in reader[l], k.type = "leave"
        PROVE  k \in seen'[k.sender] /\ k.sender # l[1]
    <3>1. k \in seen[k.sender] /\ k.sender # l[1] /\ k.sender \in Node
      BY <2>1, MessageFacts DEF News
    <3>2. QED
      BY <3>1
  <2>2. QED
    BY <2>1
<1>6. \A l \in Link : \A k \in hook'[l].sent : k.sender = l[1]
  BY DEF News
<1>7. \A l \in Link : \A j, k \in reader'[l] : j = k
  BY DEF News
<1>8. QED
  BY <1>2, <1>3, <1>4, <1>5, <1>6, <1>7 DEF News

\* Nor does a step that only moves messages on, or forgets them, disturb this.
LEMMA NewsKept ==
    ASSUME TypeOK, News, ids' = ids,
           \A q \in Node : /\ seen[q] \subseteq seen'[q]
                           /\ \A k \in seen'[q] : k.id <= ids,
           \A l \in Link :
             /\ \A k \in Range(net'[l]) : k \in Message /\ k.id <= ids
                  /\ (k.type = "leave" => k \in seen[k.sender])
             /\ reader'[l] \subseteq reader[l]
             /\ hook'[l].sent \subseteq hook[l].sent
    PROVE  News'
<1>1. \A l \in Link : \A k \in OnLink(l)' : k.id <= ids
  BY DEF OnLink, News
<1>2. \A l \in Link : \A k \in Range(net'[l]) :
        k.type = "leave" => k \in seen'[k.sender]
  BY DEF Message
<1>3. \A l \in Link : \A k \in reader'[l] :
        k.type = "leave" => k \in seen'[k.sender] /\ k.sender # l[1]
  <2>1. ASSUME NEW l \in Link, NEW k \in reader'[l], k.type = "leave"
        PROVE  k \in seen'[k.sender] /\ k.sender # l[1]
    <3>1. k \in seen[k.sender] /\ k.sender # l[1] /\ k.sender \in Node
      BY <2>1, MessageFacts DEF News
    <3>2. QED
      BY <3>1
  <2>2. QED
    BY <2>1
<1>4. /\ \A l \in Link : \A k \in hook'[l].sent : k.sender = l[1]
      /\ \A l \in Link : \A j, k \in reader'[l] : j = k
  BY DEF News
<1>5. QED
  BY <1>1, <1>2, <1>3, <1>4 DEF News

\* Sending: every node listed or not is on its way to be put right, or will
\* be when its connection ends.
LEMMA StepInject ==
    ASSUME IInv, NEW n \in Node, Inject(n)
    PROVE  IInv'
<1>1. PICK a \in terminal[n] :
        /\ ids < MaxMsg
        /\ ids' = ids + 1
        /\ seen' = [seen EXCEPT ![n] = @ \cup {NewMessage(a[1], n, a[2])}]
        /\ Routed(n, NewMessage(a[1], n, a[2]))
        /\ net' = Flooded(n, n, NewMessage(a[1], n, a[2]))
        /\ terminal' = [terminal EXCEPT ![n] = @ \ {a}]
        /\ excused' = IF a[1] = "join" THEN excused
                      ELSE excused \cup {<<q, n, a[2]>> : q \in Hearsay(n, a[2])}
        /\ UNCHANGED <<joined, current, rooms, connVars, hook, reader>>
  BY DEF Inject
<1> DEFINE m == NewMessage(a[1], n, a[2])
<1>2. /\ a[1] \in {"join", "leave"} /\ a[2] \in Channel /\ a = <<a[1], a[2]>>
      /\ a[1] = "join" <=> a[2] \in joined[n]
  BY DEF IInv, TypeOK, Commands
<1>3. /\ m \in Message /\ m.sender = n /\ m.type = a[1] /\ m.channel = a[2]
      /\ m.id = ids + 1 /\ ids + 1 \in 0..MaxMsg /\ ids \in Nat
      /\ \A q \in Node : m \notin seen[q]
  BY <1>1, <1>2, NewFacts DEF IInv
<1>4. /\ Flooded(n, n, m) \in [Link -> Seq(Message)]
      /\ \A l \in Link :
           /\ Range(net[l]) \subseteq Range(Flooded(n, n, m)[l])
           /\ Range(Flooded(n, n, m)[l]) \subseteq Range(net[l]) \cup {m}
           /\ l[1] = n /\ l[2] # n /\ l[2] \in peers[n] /\ l \in alive
              => m \in Range(Flooded(n, n, m)[l])
  BY <1>3, FloodFacts DEF IInv
<1>5. members' = members
  <2>1. members' = IF a[1] = "join" THEN MemberJoin(n, a[2], n)
                                    ELSE MemberLeave(n, a[2], n)
    BY <1>1, <1>3 DEF Routed
  <2>2. CASE a[1] = "join"
    <3>1. a[2] \in joined[n] /\ n \in members[n][a[2]]
      BY <2>2, <1>2 DEF IInv, SelfListed
    <3>2. members' = [members EXCEPT ![n][a[2]] = members[n][a[2]] \cup {n}]
      BY <2>1, <2>2, <3>1 DEF MemberJoin
    <3>3. QED
      BY <3>1, <3>2, <1>2 DEF IInv, TypeOK
  <2>3. CASE a[1] # "join"
    BY <2>1, <2>3, <1>2 DEF MemberLeave
  <2>4. QED
    BY <2>2, <2>3
<1> HIDE DEF m
<1>6. TypeOK'
  <2>1. excused' \subseteq Node \X Node \X Channel
    BY <1>1, <1>2 DEF IInv, TypeOK, Hearsay
  <2>2. seen' \in [Node -> SUBSET Message]
    BY <1>1, <1>3 DEF IInv, TypeOK, m
  <2>3. net' \in [Link -> Seq(Message)]
    BY <1>1, <1>4 DEF m
  <2>4. QED
    BY <1>1, <1>3, <1>5, <2>1, <2>2, <2>3 DEF IInv, TypeOK, connVars
<1>7. Commands' /\ SelfListed' /\ Connections'
  BY <1>1, <1>5 DEF IInv, TypeOK, Commands, SelfListed, Connections, connVars
<1>8. News'
  <2>1. /\ \A q \in Node : /\ seen[q] \subseteq seen'[q]
                           /\ seen'[q] \subseteq seen[q] \cup {m}
        /\ m \in seen'[n]
    BY <1>1 DEF IInv, TypeOK, m
  <2>2. \A l \in Link : /\ Range(net'[l]) \subseteq Range(net[l]) \cup {m}
                        /\ hook'[l] = hook[l]
    BY <1>1, <1>4 DEF m
  <2>3. QED
    BY <2>1, <2>2, <1>1, <1>3, NewsSent DEF IInv
<1>9. Listing'
  <2>1. ASSUME NEW q \in Node, NEW r \in Node, NEW d \in Channel,
               <<q, r>> \in Link, q # r, Claim(q, r, d)
        PROVE  Claim(q, r, d)'
    <3>1. <<r, q>> \in Link
      BY <2>1, LinkFacts
    <3>2. Heard(q, r, d)' <=> Heard(q, r, d)
      BY <1>1 DEF Heard
    <3>3. ASSUME NEW t, Coming(q, r, d, t)
          PROVE  Coming(q, r, d, t)'
      <4>1. Range(net[<<r, q>>]) \subseteq Range(net'[<<r, q>>])
        BY <1>1, <1>4, <3>1 DEF m
      <4>2. QED
        BY <4>1, <3>1, <3>3, <2>1, <1>1, <1>3, StillComing DEF IInv, m
    <3>4. CASE r = n /\ d = a[2]
      <4>1. <<q, r>> \in alive => Coming(q, r, d, a[1])'
        <5>1. SUFFICES ASSUME <<q, r>> \in alive PROVE Coming(q, r, d, a[1])'
          OBVIOUS
        <5>2. <<r, q>> \in alive /\ q \in peers[r]
          <6>1. \A l \in alive : <<l[2], l[1]>> \in alive /\ l[2] \in peers[l[1]]
            BY DEF IInv, Connections
          <6>2. <<r, q>> \in alive
            BY <5>1, <6>1
          <6>3. QED
            BY <6>1, <6>2
        <5>3. m \in Range(net'[<<r, q>>])
          BY <5>2, <3>1, <3>4, <2>1, <1>1, <1>4 DEF m
        <5>4. m \notin seen'[q]
          BY <2>1, <3>4, <1>1, <1>3 DEF IInv, TypeOK
        <5>5. QED
          BY <5>3, <5>4, <1>3, <3>4 DEF Coming
      <4>2. CASE a[1] = "join"
        <5>1. d \in joined[r] /\ (<<q, r>> \notin alive \/ Coming(q, r, d, "join")')
          BY <4>1, <4>2, <3>4, <1>2
        <5>2. QED
          BY <5>1, <1>1 DEF Claim, Told, connVars
      <4>3. CASE a[1] = "leave"
        <5>1. d \notin joined[r] /\ (<<q, r>> \notin alive \/ Coming(q, r, d, "leave")')
          BY <4>1, <4>3, <3>4, <1>2
        <5>2. ASSUME r \in members[q][d], <<q, r>> \notin alive
              PROVE  Corrected(q, r, d)'
          <6>1. CASE r \in peers[q] \cup downs[q]
            BY <6>1, <5>2, <1>1 DEF Corrected, connVars
          <6>2. CASE r \notin peers[q] \cup downs[q]
            <7>1. q \in Hearsay(n, a[2])
              BY <6>2, <5>2, <3>4, <2>1 DEF Hearsay
            <7>2. <<q, r, d>> \in excused'
              BY <7>1, <4>3, <3>4, <1>1
            <7>3. QED
              BY <7>2 DEF Corrected
          <6>3. QED
            BY <6>1, <6>2
        <5>3. ASSUME <<q, r>> \in alive
              PROVE  Corrected(q, r, d)'
          BY <5>1, <5>3, <1>1 DEF Corrected, connVars
        <5>4. QED
          BY <5>1, <5>2, <5>3, <1>1, <1>5 DEF Claim
      <4>4. QED
        BY <4>2, <4>3, <1>2
    <3>5. CASE ~(r = n /\ d = a[2])
      <4>1. \A t : <<t, d>> \in terminal[r] => <<t, d>> \in terminal'[r]
        BY <3>5, <1>1, <1>2 DEF IInv, TypeOK
      <4>2. excused \subseteq excused'
        BY <1>1
      <4>3. /\ Corrected(q, r, d) => Corrected(q, r, d)'
            /\ Told(q, r, d) => Told(q, r, d)'
        BY <4>1, <4>2, <3>2, <3>3, <1>1 DEF Corrected, Told, connVars
      <4>4. QED
        BY <4>3, <2>1, <1>1, <1>5, ClaimKept
    <3>6. QED
      BY <3>4, <3>5
  <2>2. QED
    BY <2>1, ListingKept DEF IInv
<1>10. QED
  BY <1>6, <1>7, <1>8, <1>9 DEF IInv

----------------------------------------------------------------------------
(* The reader.                                                             *)

\* A message taken from a link is being handled, unless it was before.
LEMMA StepReceive ==
    ASSUME IInv, NEW n \in Node, NEW p \in Node, <<n, p>> \in Link, Receive(n, p)
    PROVE  IInv'
<1> DEFINE m == Head(net[<<p, n>>])
<1>1. <<p, n>> \in Link /\ n # p
  BY LinkFacts
<1>2. net[<<p, n>>] \in Seq(Message)
  BY <1>1 DEF IInv, TypeOK
<1>3. /\ Range(net[<<p, n>>]) \subseteq Message
      /\ m \in Range(net[<<p, n>>])
      /\ Tail(net[<<p, n>>]) \in Seq(Message)
      /\ Range(net[<<p, n>>]) = Range(Tail(net[<<p, n>>])) \cup {m}
  BY <1>2, Frames DEF Receive
<1>4. /\ m \in Message /\ m.sender \in Node /\ m.id <= ids
      /\ m.type = "leave" => m \in seen[m.sender]
  <2>1. m.id <= ids
    BY <1>1, <1>3 DEF IInv, News, OnLink
  <2>2. QED
    BY <2>1, <1>1, <1>3, MessageFacts DEF IInv, News
<1>5. /\ reader' = [reader EXCEPT ![<<n, p>>] = IF m \in seen[n] THEN {} ELSE {m}]
      /\ seen' = [seen EXCEPT ![n] = @ \cup {m}]
      /\ net' = [net EXCEPT ![<<p, n>>] = Tail(@)]
      /\ reader[<<n, p>>] = {}
      /\ UNCHANGED <<userVars, members, connVars, hook, ids, excused>>
  BY DEF Receive
<1> HIDE DEF m
<1>6. TypeOK'
  BY <1>1, <1>3, <1>4, <1>5 DEF IInv, TypeOK, userVars, connVars
<1>7. Commands' /\ SelfListed' /\ Connections'
  BY <1>5 DEF IInv, Commands, SelfListed, Connections, userVars, connVars
<1>8. /\ \A q \in Node : seen[q] \subseteq seen'[q]
      /\ \A q \in Node : seen'[q] \subseteq seen[q] \cup {m}
      /\ \A l \in Link : Range(net'[l]) \subseteq Range(net[l])
      /\ \A l \in Link : reader'[l] \subseteq reader[l] \cup {m}
      /\ m \in reader'[<<n, p>>] => m \notin seen[n]
  BY <1>1, <1>3, <1>5 DEF IInv, TypeOK
<1>9. News'
  <2>1. \A q \in Node : \A k \in seen'[q] : k.id <= ids
    BY <1>4, <1>8 DEF IInv, News
  <2>2. \A l \in Link : \A k \in OnLink(l)' : k.id <= ids
    <3>1. ASSUME NEW l \in Link, NEW k \in OnLink(l)'
          PROVE  k = m \/ k \in OnLink(l)
      BY <1>5, <1>8 DEF OnLink
    <3>2. QED
      BY <3>1, <1>4 DEF IInv, News
  <2>3. ASSUME NEW l \in Link, NEW k \in Range(net'[l]), k.type = "leave"
        PROVE  k \in seen'[k.sender]
    <3>1. k \in Range(net[l]) /\ k.sender \in Node
      BY <1>8, MessageFacts DEF IInv
    <3>2. QED
      BY <3>1, <2>3, <1>8 DEF IInv, News
  <2>4. ASSUME NEW l \in Link, NEW k \in reader'[l], k.type = "leave"
        PROVE  k \in seen'[k.sender] /\ k.sender # l[1]
    <3>1. CASE k \in reader[l]
      <4>1. k.sender \in Node /\ k \in seen[k.sender] /\ k.sender # l[1]
        BY <3>1, <2>4, MessageFacts DEF IInv, News
      <4>2. QED
        BY <4>1, <1>8
    <3>2. CASE k \notin reader[l]
      <4>1. l = <<n, p>> /\ k = m
        BY <3>2, <1>5, <1>8 DEF IInv, TypeOK
      <4>2. m \notin seen[n]
        BY <4>1, <1>8
      <4>3. QED
        BY <4>1, <4>2, <2>4, <1>4, <1>8
    <3>3. QED
      BY <3>1, <3>2
  <2>5. \A l \in Link : \A j, k \in reader'[l] : j = k
    <3>1. ASSUME NEW l \in Link
          PROVE  reader'[l] = reader[l] \/ reader'[l] \subseteq {m}
      BY <1>5 DEF IInv, TypeOK
    <3>2. QED
      BY <3>1 DEF IInv, News
  <2>6. \A l \in Link : \A k \in hook'[l].sent : k.sender = l[1]
    BY <1>5 DEF IInv, News
  <2>7. QED
    BY <2>1, <2>2, <2>3, <2>4, <2>5, <2>6, <1>5 DEF News
<1>10. Listing'
  <2>1. ASSUME NEW q \in Node, NEW r \in Node, NEW d \in Channel,
               <<q, r>> \in Link, q # r, Claim(q, r, d)
        PROVE  Claim(q, r, d)'
    <3>1. <<r, q>> \in Link
      BY <2>1, LinkFacts
    <3>2. Heard(q, r, d) => Heard(q, r, d)'
      <4>1. \A l \in Link : reader[l] \subseteq reader'[l]
        BY <1>5 DEF IInv, TypeOK
      <4>2. QED
        BY <4>1 DEF Heard
    <3>3. ASSUME NEW t, Coming(q, r, d, t)
          PROVE  Coming(q, r, d, t)' \/ Heard(q, r, d)'
      <4>1. PICK k \in Range(net[<<r, q>>]) :
              k.sender = r /\ k.channel = d /\ k.type = t /\ k \notin seen[q]
        BY <3>3 DEF Coming
      <4>2. CASE q = n /\ k = m
        <5>1. m \in reader'[<<n, p>>]
          BY <4>1, <4>2, <1>5 DEF IInv, TypeOK
        <5>2. QED
          BY <5>1, <4>1, <4>2 DEF Heard
      <4>3. CASE ~(q = n /\ k = m)
        <5>1. k \notin seen'[q]
          BY <4>1, <4>3, <1>5 DEF IInv, TypeOK
        <5>2. k \in Range(net'[<<r, q>>])
          <6>1. CASE <<r, q>> = <<p, n>>
            BY <6>1, <4>1, <4>3, <3>1, <1>3, <1>5 DEF IInv, TypeOK
          <6>2. CASE <<r, q>> # <<p, n>>
            BY <6>2, <4>1, <3>1, <1>5 DEF IInv, TypeOK
          <6>3. QED
            BY <6>1, <6>2
        <5>3. QED
          BY <5>1, <5>2, <4>1 DEF Coming
      <4>4. QED
        BY <4>2, <4>3
    <3>4. /\ Corrected(q, r, d) => Corrected(q, r, d)'
          /\ Told(q, r, d) => Told(q, r, d)'
      BY <3>2, <3>3, <1>5 DEF Corrected, Told, userVars, connVars
    <3>5. QED
      BY <3>4, <2>1, <1>5, ClaimKept DEF userVars
  <2>2. QED
    BY <2>1, ListingKept DEF IInv
<1>11. QED
  BY <1>6, <1>7, <1>9, <1>10 DEF IInv

\* Handling a message: what it says is now true, or it is outdated.
LEMMA StepHandle ==
    ASSUME IInv, NEW n \in Node, NEW p \in Node, <<n, p>> \in Link, Handle(n, p)
    PROVE  IInv'
<1>1. PICK m \in reader[<<n, p>>] :
        /\ Routed(n, m)
        /\ net' = Flooded(n, p, m)
        /\ reader' = [reader EXCEPT ![<<n, p>>] = {}]
        /\ excused' = IF Outdated(m)
                      THEN excused \cup {<<n, m.sender, m.channel>>}
                      ELSE excused \ {<<n, m.sender, m.channel>>}
        /\ UNCHANGED <<userVars, seen, connVars, hook, ids>>
  BY DEF Handle
<1>2. /\ m \in Message /\ m.sender \in Node /\ m.channel \in Channel
      /\ m.type \in {"join", "leave"} /\ m.id <= ids
      /\ m.type = "leave" => m \in seen[m.sender] /\ m.sender # n
  <2>1. /\ m.type = "leave" => m \in seen[m.sender] /\ m.sender # n
        /\ m.id <= ids
    BY DEF IInv, News, OnLink
  <2>2. QED
    BY <2>1, MessageFacts DEF IInv
<1>3. /\ Flooded(n, p, m) \in [Link -> Seq(Message)]
      /\ \A l \in Link :
           /\ Range(net[l]) \subseteq Range(Flooded(n, p, m)[l])
           /\ Range(Flooded(n, p, m)[l]) \subseteq Range(net[l]) \cup {m}
  BY <1>2, FloodFacts DEF IInv
<1>4. /\ members' \in [Node -> [Channel -> SUBSET Node]]
      /\ \A q, r \in Node, d \in Channel :
           <<q, r, d>> # <<n, m.sender, m.channel>>
             => (r \in members'[q][d] <=> r \in members[q][d])
      /\ m.channel \in joined[n]
           => (m.sender \in members'[n][m.channel] <=> m.type = "join")
  <2>1. CASE m.type = "join"
    <3>1. members' = MemberJoin(n, m.channel, m.sender)
      BY <2>1, <1>1 DEF Routed
    <3>2. QED
      BY <2>1, <3>1, <1>2 DEF MemberJoin, IInv, TypeOK
  <2>2. CASE m.type # "join"
    <3>1. members' = MemberLeave(n, m.channel, m.sender)
      BY <2>2, <1>1 DEF Routed
    <3>2. QED
      BY <2>2, <3>1, <1>2 DEF MemberLeave, IInv, TypeOK
  <2>3. QED
    BY <2>1, <2>2
<1>5. TypeOK'
  <2>1. excused' \subseteq Node \X Node \X Channel
    BY <1>1, <1>2 DEF IInv, TypeOK
  <2>2. reader' \in [Link -> SUBSET Message]
    BY <1>1 DEF IInv, TypeOK
  <2>3. QED
    BY <1>1, <1>3, <1>4, <2>1, <2>2 DEF IInv, TypeOK, userVars, connVars
<1>6. Commands' /\ Connections'
  BY <1>1 DEF IInv, Commands, Connections, userVars, connVars
<1>7. SelfListed'
  <2>1. ASSUME NEW q \in Node, NEW d \in joined[q]
        PROVE  q \in members'[q][d]
    <3>1. d \in Channel /\ q \in members[q][d]
      BY DEF IInv, TypeOK, SelfListed
    <3>2. CASE q = m.sender /\ q = n /\ d = m.channel
      BY <3>2, <1>2, <1>4
    <3>3. CASE ~(q = m.sender /\ q = n /\ d = m.channel)
      BY <3>1, <3>3, <1>2, <1>4
    <3>4. QED
      BY <3>2, <3>3
  <2>2. QED
    BY <2>1, <1>1 DEF SelfListed, userVars
<1>8. News'
  <2>1. ASSUME NEW l \in Link, NEW k \in Range(net'[l])
        PROVE  k \in Message /\ k.id <= ids
                 /\ (k.type = "leave" => k \in seen[k.sender])
    <3>1. k \in Range(net[l]) \/ k = m
      BY <1>1, <1>3
    <3>2. CASE k \in Range(net[l])
      BY <3>2, MessageFacts DEF IInv, News, OnLink
    <3>3. QED
      BY <3>1, <3>2, <1>2
  <2>2. \A l \in Link : reader'[l] \subseteq reader[l]
    BY <1>1 DEF IInv, TypeOK
  <2>3. \A q \in Node : \A k \in seen'[q] : k.id <= ids
    BY <1>1 DEF IInv, News
  <2>4. QED
    BY <2>1, <2>2, <2>3, <1>1, NewsKept DEF IInv
<1>9. Listing'
  <2>1. ASSUME NEW q \in Node, NEW r \in Node, NEW d \in Channel,
               <<q, r>> \in Link, q # r, Claim(q, r, d)
        PROVE  Claim(q, r, d)'
    <3>1. <<r, q>> \in Link
      BY <2>1, LinkFacts
    <3>2. CASE <<q, r, d>> = <<n, m.sender, m.channel>>
      <4>1. d \in joined[q] => (r \in members'[q][d] <=> m.type = "join")
        BY <3>2, <1>4
      <4>2. CASE Outdated(m)
        <5>1. <<q, r, d>> \in excused'
          BY <4>2, <3>2, <1>1
        <5>2. QED
          BY <5>1 DEF Claim, Corrected, Told
      <4>3. CASE ~Outdated(m)
        <5>1. m.type = "join" <=> d \in joined[r]
          BY <4>3, <3>2 DEF Outdated
        <5>2. QED
          BY <5>1, <4>1, <1>1 DEF Claim, userVars
      <4>4. QED
        BY <4>2, <4>3
    <3>3. CASE <<q, r, d>> # <<n, m.sender, m.channel>>
      <4>1. <<q, r, d>> \in excused => <<q, r, d>> \in excused'
        BY <3>3, <1>1
      <4>2. Heard(q, r, d) => Heard(q, r, d)'
        <5>1. SUFFICES ASSUME Heard(q, r, d) PROVE Heard(q, r, d)'
          OBVIOUS
        <5>2. PICK l \in Link : /\ l[1] = q
                                /\ \E k \in reader[l] : k.sender = r /\ k.channel = d
          BY <5>1 DEF Heard
        <5>3. PICK k \in reader[l] : k.sender = r /\ k.channel = d
          BY <5>2
        <5>4. l = <<n, p>> => k = m
          BY <5>3 DEF IInv, News
        <5>5. l # <<n, p>>
          BY <5>2, <5>3, <5>4, <3>3
        <5>6. k \in reader'[l]
          BY <5>5, <5>3, <1>1 DEF IInv, TypeOK
        <5>7. QED
          BY <5>2, <5>3, <5>6 DEF Heard
      <4>3. \A t : Coming(q, r, d, t) => Coming(q, r, d, t)'
        BY <3>1, <1>1, <1>3 DEF Coming
      <4>4. /\ Corrected(q, r, d) => Corrected(q, r, d)'
            /\ Told(q, r, d) => Told(q, r, d)'
        BY <4>1, <4>2, <4>3, <1>1 DEF Corrected, Told, userVars, connVars
      <4>5. r \in members'[q][d] <=> r \in members[q][d]
        BY <3>3, <1>4
      <4>6. QED
        BY <4>4, <4>5, <2>1, <1>1, ClaimKept DEF userVars
    <3>4. QED
      BY <3>2, <3>3
  <2>2. QED
    BY <2>1, ListingKept DEF IInv
<1>10. QED
  BY <1>5, <1>6, <1>7, <1>8, <1>9 DEF IInv

\* A connection's entry goes: its peer will be taken off the lists.
LEMMA StepUnregister ==
    ASSUME IInv, NEW n \in Node, NEW p \in Node, Unregister(n, p)
    PROVE  IInv'
<1>1. TypeOK'
  BY DEF IInv, TypeOK, Unregister, userVars
<1>2. Commands' /\ SelfListed' /\ News'
  BY DEF IInv, Commands, SelfListed, News, OnLink, Unregister, userVars
<1>3. Connections'
  <2>1. ASSUME NEW l \in alive
        PROVE  l[2] \in peers'[l[1]]
    <3>1. l \in Link /\ l[2] \in peers[l[1]]
      BY DEF IInv, TypeOK, Connections
    <3>2. l # <<n, p>> /\ l[1] \in Node /\ l = <<l[1], l[2]>>
      BY <3>1, LinkFacts DEF Unregister
    <3>3. QED
      BY <3>1, <3>2 DEF IInv, TypeOK, Unregister
  <2>2. QED
    BY <2>1 DEF IInv, Connections, Unregister
<1>4. Listing'
  <2>1. ASSUME NEW q \in Node, NEW r \in Node, NEW d \in Channel,
               <<q, r>> \in Link, q # r, Claim(q, r, d)
        PROVE  Claim(q, r, d)'
    <3>1. /\ Heard(q, r, d)' <=> Heard(q, r, d)
          /\ \A t : Coming(q, r, d, t)' <=> Coming(q, r, d, t)
      BY DEF Unregister, Heard, Coming
    <3>2. /\ r \in downs[q] => r \in downs'[q]
          /\ r \in peers[q] => r \in peers'[q] \/ r \in downs'[q]
      BY DEF IInv, TypeOK, Unregister
    <3>3. /\ Corrected(q, r, d) => Corrected(q, r, d)'
          /\ Told(q, r, d) => Told(q, r, d)'
      BY <3>1, <3>2 DEF Corrected, Told, Unregister, userVars
    <3>4. QED
      BY <2>1, <3>3, ClaimKept DEF Unregister, userVars
  <2>2. QED
    BY <2>1, ListingKept DEF IInv
<1>5. QED
  BY <1>1, <1>2, <1>3, <1>4 DEF IInv

\* The peer is taken off the lists: what that spoils is excused when it has
\* come back in the meantime.
LEMMA StepOnDown ==
    ASSUME IInv, NEW n \in Node, NEW p \in Node, <<n, p>> \in Link, OnDown(n, p)
    PROVE  IInv'
<1>1. n # p
  BY LinkFacts
<1>2. /\ members' \in [Node -> [Channel -> SUBSET Node]]
      /\ \A q, r \in Node, d \in Channel :
           /\ <<q, r>> # <<n, p>> => (r \in members'[q][d] <=> r \in members[q][d])
           /\ <<q, r>> = <<n, p>> => r \notin members'[q][d]
  BY DEF IInv, TypeOK, OnDown, MemberLeaveAll
<1>3. TypeOK'
  <2>1. excused' \subseteq Node \X Node \X Channel
    BY DEF IInv, TypeOK, OnDown
  <2>2. QED
    BY <1>2, <2>1 DEF IInv, TypeOK, OnDown, userVars
<1>4. Commands' /\ Connections' /\ News'
  BY DEF IInv, Commands, Connections, News, OnLink, OnDown, userVars
<1>5. SelfListed'
  <2>1. ASSUME NEW q \in Node, NEW d \in joined[q]
        PROVE  q \in members'[q][d]
    <3>1. d \in Channel /\ q \in members[q][d]
      BY DEF IInv, TypeOK, SelfListed
    <3>2. QED
      BY <3>1, <1>1, <1>2
  <2>2. QED
    BY <2>1 DEF SelfListed, OnDown, userVars
<1>6. Listing'
  <2>1. ASSUME NEW q \in Node, NEW r \in Node, NEW d \in Channel,
               <<q, r>> \in Link, q # r, Claim(q, r, d)
        PROVE  Claim(q, r, d)'
    <3>1. CASE q = n /\ r = p
      <4>1. r \notin members'[q][d]
        BY <3>1, <1>2
      <4>2. ASSUME d \in joined[r]
            PROVE  <<q, r, d>> \in excused' \/ <<q, r>> \notin alive
        <5>1. CASE p \in peers[n]
          BY <5>1, <4>2, <3>1 DEF OnDown
        <5>2. CASE p \notin peers[n]
          BY <5>2, <3>1 DEF IInv, Connections
        <5>3. QED
          BY <5>1, <5>2
      <4>3. QED
        BY <4>1, <4>2 DEF Claim, Told, OnDown, userVars
    <3>2. CASE ~(q = n /\ r = p)
      <4>1. r \in members'[q][d] <=> r \in members[q][d]
        BY <3>2, <1>2
      <4>2. <<q, r, d>> \in excused => <<q, r, d>> \in excused'
        BY <3>2 DEF OnDown
      <4>3. r \in downs[q] => r \in downs'[q]
        BY <3>2 DEF IInv, TypeOK, OnDown
      <4>4. /\ Heard(q, r, d)' <=> Heard(q, r, d)
            /\ \A t : Coming(q, r, d, t)' <=> Coming(q, r, d, t)
        BY DEF OnDown, Heard, Coming
      <4>5. /\ Corrected(q, r, d) => Corrected(q, r, d)'
            /\ Told(q, r, d) => Told(q, r, d)'
        BY <4>2, <4>3, <4>4 DEF Corrected, Told, OnDown, userVars
      <4>6. QED
        BY <4>1, <4>5, <2>1, ClaimKept DEF OnDown, userVars
    <3>3. QED
      BY <3>1, <3>2
  <2>2. QED
    BY <2>1, ListingKept DEF IInv
<1>7. QED
  BY <1>3, <1>4, <1>5, <1>6 DEF IInv

----------------------------------------------------------------------------
(* Connections and the joins they are greeted with.                        *)

\* A new connection is greeted with joins in both directions.
LEMMA StepConnect ==
    ASSUME IInv, NEW n \in Node, NEW p \in Node, <<n, p>> \in Link, Connect(n, p)
    PROVE  IInv'
<1>1. n # p /\ <<p, n>> \in Link
  BY LinkFacts
<1>2. Snapshot \in HookType /\ Snapshot.sent = {}
  BY DEF Snapshot, HookType
<1>3. /\ alive' = alive \cup {<<n, p>>, <<p, n>>}
      /\ \A q \in Node : peers[q] \subseteq peers'[q]
      /\ p \in peers'[n] /\ n \in peers'[p]
      /\ hook'[<<n, p>>] = Snapshot /\ hook'[<<p, n>>] = Snapshot
      /\ \A l \in Link : l \notin {<<n, p>>, <<p, n>>} => hook'[l] = hook[l]
  BY <1>1 DEF IInv, TypeOK, Connect
<1>4. TypeOK'
  <2>1. sessions' \in 0..MaxSession
    BY MembershipAssumption DEF IInv, TypeOK, Connect
  <2>2. peers' \in [Node -> SUBSET Node] /\ alive' \subseteq Link
    BY <1>1 DEF IInv, TypeOK, Connect
  <2>3. hook' \in [Link -> HookType]
    BY <1>1, <1>2 DEF IInv, TypeOK, HookType, Connect
  <2>4. QED
    BY <2>1, <2>2, <2>3 DEF IInv, TypeOK, HookType, Connect, userVars
<1>5. Commands' /\ SelfListed' /\ News'
  <2>1. \A l \in Link : hook'[l].sent \subseteq hook[l].sent
    BY <1>2, <1>3
  <2>2. News'
    <3>1. \A l \in Link : \A k \in Range(net[l]) : k \in Message
      BY MessageFacts DEF IInv
    <3>2. QED
      BY <2>1, <3>1, NewsKept DEF IInv, News, OnLink, Connect
  <2>3. QED
    BY <2>2 DEF IInv, Commands, SelfListed, Connect, userVars
<1>6. Connections'
  <2>1. ASSUME NEW l \in alive'
        PROVE  <<l[2], l[1]>> \in alive' /\ l[2] \in peers'[l[1]]
    <3>1. CASE l \in alive
      <4>1. l[1] \in Node
        BY <3>1, LinkFacts DEF IInv, TypeOK
      <4>2. QED
        BY <4>1, <3>1, <1>3 DEF IInv, Connections
    <3>2. CASE l \in {<<n, p>>, <<p, n>>}
      BY <3>2, <1>3
    <3>3. QED
      BY <3>1, <3>2, <1>3
  <2>2. QED
    BY <2>1 DEF Connections
<1>7. Listing'
  <2>1. ASSUME NEW q \in Node, NEW r \in Node, NEW d \in Channel,
               <<q, r>> \in Link, q # r, Claim(q, r, d)
        PROVE  Claim(q, r, d)'
    <3>1. /\ Heard(q, r, d)' <=> Heard(q, r, d)
          /\ \A t : Coming(q, r, d, t)' <=> Coming(q, r, d, t)
      BY DEF Connect, Heard, Coming
    <3>2. <<r, q>> \in Link
      BY <2>1, LinkFacts
    <3>3. Corrected(q, r, d) => Corrected(q, r, d)'
      <4>1. r \in peers[q] /\ <<q, r>> \notin alive
              => r \in peers'[q] /\ <<q, r>> \notin alive'
        BY <1>3 DEF Connect
      <4>2. QED
        BY <4>1, <3>1, <1>3 DEF Corrected, Connect, userVars
    <3>4. Told(q, r, d) => Told(q, r, d)'
      <4>1. CASE <<r, q>> \in {<<n, p>>, <<p, n>>}
        BY <4>1, <1>3 DEF Told
      <4>2. CASE <<r, q>> \notin {<<n, p>>, <<p, n>>}
        <5>1. hook'[<<r, q>>] = hook[<<r, q>>] /\ (<<q, r>> \in alive' => <<q, r>> \in alive)
          BY <4>2, <3>2, <1>3
        <5>2. QED
          BY <5>1, <3>1 DEF Told, Connect, userVars
      <4>3. QED
        BY <4>1, <4>2
    <3>5. QED
      BY <2>1, <3>3, <3>4, ClaimKept DEF Connect, userVars
  <2>2. QED
    BY <2>1, ListingKept DEF IInv
<1>8. QED
  BY <1>4, <1>5, <1>6, <1>7 DEF IInv

\* What a replaced connection carried is lost: joins are sent again, leaves
\* are excused.
LEMMA StepReplace ==
    ASSUME IInv, NEW n \in Node, NEW p \in Node, <<n, p>> \in Link, Replace(n, p)
    PROVE  IInv'
<1>1. n # p /\ <<p, n>> \in Link
  BY LinkFacts
<1>2. Snapshot \in HookType /\ Snapshot.sent = {}
  BY DEF Snapshot, HookType
<1>3. /\ hook'[<<n, p>>] = Snapshot /\ hook'[<<p, n>>] = Snapshot
      /\ \A l \in Link : l \notin {<<n, p>>, <<p, n>>}
           => hook'[l] = hook[l] /\ net'[l] = net[l]
      /\ net'[<<n, p>>] = <<>> /\ net'[<<p, n>>] = <<>>
  BY <1>1 DEF IInv, TypeOK, Replace
<1>4. /\ Lost(n, p) \subseteq Node \X Node \X Channel
      /\ Lost(p, n) \subseteq Node \X Node \X Channel
  BY <1>1, MessageFacts DEF IInv, Lost
<1>5. TypeOK'
  <2>1. sessions' \in 0..MaxSession
    BY MembershipAssumption DEF IInv, TypeOK, Replace
  <2>2. net' \in [Link -> Seq(Message)]
    <3>1. <<>> \in Seq(Message)
      OBVIOUS
    <3>2. QED
      BY <3>1, <1>1 DEF IInv, TypeOK, Replace
  <2>3. hook' \in [Link -> HookType]
    BY <1>1, <1>2 DEF IInv, TypeOK, HookType, Replace
  <2>4. excused' \subseteq Node \X Node \X Channel
    BY <1>4 DEF IInv, TypeOK, Replace
  <2>5. QED
    BY <2>1, <2>2, <2>3, <2>4 DEF IInv, TypeOK, HookType, Replace, userVars
<1>6. Commands' /\ SelfListed' /\ Connections'
  BY DEF IInv, Commands, SelfListed, Connections, Replace, userVars
<1>7. News'
  <2>1. ASSUME NEW l \in Link
        PROVE  Range(net'[l]) \subseteq Range(net[l])
    <3>1. Range(<<>>) = {}
      BY DEF Range
    <3>2. QED
      BY <3>1, <1>3
  <2>2. \A l \in Link : hook'[l].sent \subseteq hook[l].sent
    BY <1>2, <1>3
  <2>3. \A l \in Link : \A k \in Range(net[l]) : k \in Message
    BY MessageFacts DEF IInv
  <2>4. QED
    BY <2>1, <2>2, <2>3, NewsKept DEF IInv, News, OnLink, Replace
<1>8. Listing'
  <2>1. ASSUME NEW q \in Node, NEW r \in Node, NEW d \in Channel,
               <<q, r>> \in Link, q # r, Claim(q, r, d)
        PROVE  Claim(q, r, d)'
    <3>1. Heard(q, r, d)' <=> Heard(q, r, d)
      BY DEF Replace, Heard
    <3>2. <<r, q>> \in Link
      BY <2>1, LinkFacts
    <3>3. CASE <<r, q>> \in {<<n, p>>, <<p, n>>}
      <4>1. Told(q, r, d)'
        BY <3>3, <1>3 DEF Told
      <4>2. Coming(q, r, d, "leave") => <<q, r, d>> \in excused'
        <5>1. SUFFICES ASSUME Coming(q, r, d, "leave")
                       PROVE  <<q, r, d>> \in Lost(r, q)
          BY <3>3 DEF Replace
        <5>2. PICK k \in Range(net[<<r, q>>]) :
                k.sender = r /\ k.channel = d /\ k.type = "leave"
          BY <5>1 DEF Coming
        <5>3. QED
          BY <5>2 DEF Lost
      <4>3. Corrected(q, r, d) => Corrected(q, r, d)'
        BY <4>2, <3>1 DEF Corrected, Replace, userVars
      <4>4. QED
        BY <4>1, <4>3, <2>1, ClaimKept DEF Replace, userVars
    <3>4. CASE <<r, q>> \notin {<<n, p>>, <<p, n>>}
      <4>1. hook'[<<r, q>>] = hook[<<r, q>>] /\ net'[<<r, q>>] = net[<<r, q>>]
        BY <3>4, <3>2, <1>3
      <4>2. \A t : Coming(q, r, d, t)' <=> Coming(q, r, d, t)
        BY <4>1 DEF Coming, Replace
      <4>3. /\ Corrected(q, r, d) => Corrected(q, r, d)'
            /\ Told(q, r, d) => Told(q, r, d)'
        BY <4>1, <4>2, <3>1 DEF Corrected, Told, Replace, userVars
      <4>4. QED
        BY <4>3, <2>1, ClaimKept DEF Replace, userVars
    <3>5. QED
      BY <3>3, <3>4
  <2>2. QED
    BY <2>1, ListingKept DEF IInv
<1>9. QED
  BY <1>5, <1>6, <1>7, <1>8 DEF IInv

\* A connection that breaks will be unregistered at both ends.
LEMMA StepBreak ==
    ASSUME IInv, NEW n \in Node, NEW p \in Node, <<n, p>> \in Link, Break(n, p)
    PROVE  IInv'
<1>1. n # p /\ <<p, n>> \in Link
  BY LinkFacts
<1>2. /\ alive' = alive \ {<<n, p>>, <<p, n>>}
      /\ \A l \in Link : l \notin {<<n, p>>, <<p, n>>} => net'[l] = net[l]
      /\ net'[<<n, p>>] = <<>> /\ net'[<<p, n>>] = <<>>
      /\ net' \in [Link -> Seq(Message)]
  <2>1. <<>> \in Seq(Message)
    OBVIOUS
  <2>2. QED
    BY <2>1, <1>1 DEF IInv, TypeOK, Break
<1>3. TypeOK'
  BY <1>2 DEF IInv, TypeOK, Break, userVars
<1>4. Commands' /\ SelfListed'
  BY DEF IInv, Commands, SelfListed, Break, userVars
<1>5. Connections'
  <2>1. ASSUME NEW l \in alive'
        PROVE  <<l[2], l[1]>> \in alive'
    <3>1. l \in alive /\ l = <<l[1], l[2]>> /\ l \notin {<<n, p>>, <<p, n>>}
      BY <1>2, LinkFacts DEF IInv, TypeOK
    <3>2. <<l[2], l[1]>> \in alive
      BY <3>1 DEF IInv, Connections
    <3>3. QED
      BY <3>1, <3>2, <1>2
  <2>2. QED
    BY <2>1, <1>2 DEF IInv, Connections, Break
<1>6. News'
  <2>1. ASSUME NEW l \in Link
        PROVE  Range(net'[l]) \subseteq Range(net[l])
    <3>1. Range(<<>>) = {}
      BY DEF Range
    <3>2. QED
      BY <3>1, <1>2
  <2>2. \A l \in Link : \A k \in Range(net[l]) : k \in Message
    BY MessageFacts DEF IInv
  <2>3. QED
    BY <2>1, <2>2, NewsKept DEF IInv, News, OnLink, Break
<1>7. Listing'
  <2>1. ASSUME NEW q \in Node, NEW r \in Node, NEW d \in Channel,
               <<q, r>> \in Link, q # r, Claim(q, r, d)
        PROVE  Claim(q, r, d)'
    <3>1. Heard(q, r, d)' <=> Heard(q, r, d)
      BY DEF Break, Heard
    <3>2. <<r, q>> \in Link
      BY <2>1, LinkFacts
    <3>3. CASE <<r, q>> \in {<<n, p>>, <<p, n>>}
      <4>1. <<q, r>> \notin alive'
        BY <3>3, <1>2
      <4>2. <<q, r>> \in alive => r \in peers'[q]
        BY DEF IInv, Connections, Break
      <4>3. /\ Corrected(q, r, d) => Corrected(q, r, d)'
            /\ Told(q, r, d)'
        BY <4>1, <4>2, <3>1 DEF Corrected, Told, Break, userVars
      <4>4. QED
        BY <4>3, <2>1, ClaimKept DEF Break, userVars
    <3>4. CASE <<r, q>> \notin {<<n, p>>, <<p, n>>}
      <4>1. /\ net'[<<r, q>>] = net[<<r, q>>]
            /\ <<q, r>> \in alive' <=> <<q, r>> \in alive
        BY <3>4, <3>2, <1>2
      <4>2. \A t : Coming(q, r, d, t)' <=> Coming(q, r, d, t)
        BY <4>1 DEF Coming, Break
      <4>3. /\ Corrected(q, r, d) => Corrected(q, r, d)'
            /\ Told(q, r, d) => Told(q, r, d)'
        BY <4>1, <4>2, <3>1 DEF Corrected, Told, Break, userVars
      <4>4. QED
        BY <4>3, <2>1, ClaimKept DEF Break, userVars
    <3>5. QED
      BY <3>3, <3>4
  <2>2. QED
    BY <2>1, ListingKept DEF IInv
<1>8. QED
  BY <1>3, <1>4, <1>5, <1>6, <1>7 DEF IInv

\* The hook has the channels of this moment: none of them is forgotten.
LEMMA StepJoinedNames ==
    ASSUME IInv, NEW n \in Node, NEW p \in Node, <<n, p>> \in Link,
           JoinedNames(n, p)
    PROVE  IInv'
<1>1. joined[n] \subseteq Channel
  BY DEF IInv, TypeOK
<1>2. hook' \in [Link -> HookType]
  BY <1>1 DEF IInv, TypeOK, HookType, JoinedNames, Idle
<1>3. /\ joined[n] \subseteq hook'[<<n, p>>].todo
      /\ hook'[<<n, p>>].sent = {}
      /\ \A l \in Link : l # <<n, p>> => hook'[l] = hook[l]
  BY DEF IInv, TypeOK, JoinedNames, Idle
<1>4. TypeOK'
  BY <1>2 DEF IInv, TypeOK, HookType, JoinedNames, userVars, connVars
<1>5. Commands' /\ SelfListed' /\ Connections' /\ News'
  <2>1. \A l \in Link : hook'[l].sent \subseteq hook[l].sent
    BY <1>3
  <2>2. \A l \in Link : \A k \in Range(net[l]) : k \in Message
    BY MessageFacts DEF IInv
  <2>3. News'
    BY <2>1, <2>2, NewsKept DEF IInv, News, OnLink, JoinedNames
  <2>4. QED
    BY <2>3 DEF IInv, Commands, SelfListed, Connections, JoinedNames, userVars,
           connVars
<1>6. Listing'
  <2>1. ASSUME NEW q \in Node, NEW r \in Node, NEW d \in Channel,
               <<q, r>> \in Link, q # r, Claim(q, r, d)
        PROVE  Claim(q, r, d)'
    <3>1. /\ Heard(q, r, d)' <=> Heard(q, r, d)
          /\ \A t : Coming(q, r, d, t)' <=> Coming(q, r, d, t)
      BY DEF JoinedNames, Heard, Coming
    <3>2. <<r, q>> \in Link
      BY <2>1, LinkFacts
    <3>3. Corrected(q, r, d) => Corrected(q, r, d)'
      BY <3>1 DEF Corrected, JoinedNames, userVars, connVars
    <3>4. Told(q, r, d) /\ d \in joined[r] => Told(q, r, d)'
      <4>1. CASE <<r, q>> = <<n, p>>
        BY <4>1, <1>3 DEF Told
      <4>2. CASE <<r, q>> # <<n, p>>
        <5>1. hook'[<<r, q>>] = hook[<<r, q>>]
          BY <4>2, <3>2, <1>3
        <5>2. QED
          BY <5>1, <3>1 DEF Told, JoinedNames, userVars, connVars
      <4>3. QED
        BY <4>1, <4>2
    <3>5. QED
      BY <2>1, <3>3, <3>4, ClaimKept DEF JoinedNames, userVars
  <2>2. QED
    BY <2>1, ListingKept DEF IInv
<1>7. QED
  BY <1>4, <1>5, <1>6 DEF IInv

\* A join is sent again: it is on its way, was refused, or its connection is
\* gone.
LEMMA StepResync ==
    ASSUME IInv, NEW n \in Node, NEW p \in Node, <<n, p>> \in Link, Resync(n, p)
    PROVE  IInv'
<1>1. PICK c \in hook[<<n, p>>].todo :
        /\ ids < MaxMsg
        /\ ids' = ids + 1
        /\ hook' = [hook EXCEPT ![<<n, p>>] =
                      [step |-> "send", todo |-> hook[<<n, p>>].todo \ {c},
                       sent |-> {NewMessage("join", n, c)}]]
        /\ \/ /\ p \in peers[n] /\ <<n, p>> \in alive
              /\ net' = [net EXCEPT ![<<n, p>>] = Append(@, NewMessage("join", n, c))]
              /\ UNCHANGED excused
           \/ /\ <<n, p>> \notin alive
              /\ UNCHANGED <<net, excused>>
           \/ /\ <<n, p>> \in Busy
              /\ UNCHANGED net
              /\ excused' = excused \cup {<<p, n, c>>}
        /\ UNCHANGED <<userVars, members, seen, connVars, reader>>
  BY DEF Resync
<1> DEFINE m == NewMessage("join", n, c)
<1>2. /\ n # p /\ <<p, n>> \in Link /\ c \in Channel
      /\ hook[<<n, p>>].todo \subseteq Channel
  BY LinkFacts DEF IInv, TypeOK
<1>3. /\ m \in Message /\ m.sender = n /\ m.type = "join" /\ m.channel = c
      /\ m.id = ids + 1 /\ ids + 1 \in 0..MaxMsg /\ ids \in Nat
      /\ \A q \in Node : m \notin seen[q]
  BY <1>1, <1>2, NewFacts DEF IInv
<1>4. /\ Append(net[<<n, p>>], m) \in Seq(Message)
      /\ Range(Append(net[<<n, p>>], m)) = Range(net[<<n, p>>]) \cup {m}
  BY <1>3, Frames DEF IInv, TypeOK
<1>5. /\ net' \in [Link -> Seq(Message)]
      /\ \A l \in Link : /\ Range(net[l]) \subseteq Range(net'[l])
                         /\ Range(net'[l]) \subseteq Range(net[l]) \cup {m}
      /\ \/ m \in Range(net'[<<n, p>>])
         \/ <<n, p>> \notin alive
         \/ <<p, n, c>> \in excused'
  <2>1. CASE net' = [net EXCEPT ![<<n, p>>] = Append(@, m)]
    BY <2>1, <1>4 DEF IInv, TypeOK
  <2>2. CASE net' = net
    BY <2>2, <2>1, <1>1 DEF IInv, TypeOK
  <2>3. QED
    BY <2>1, <2>2, <1>1
<1> HIDE DEF m
<1>6. /\ hook' \in [Link -> HookType]
      /\ hook'[<<n, p>>].todo = hook[<<n, p>>].todo \ {c}
      /\ hook'[<<n, p>>].sent = {m}
      /\ \A l \in Link : l # <<n, p>> => hook'[l] = hook[l]
  <2>1. [step |-> "send", todo |-> hook[<<n, p>>].todo \ {c}, sent |-> {m}]
          \in HookType
    BY <1>2, <1>3 DEF HookType
  <2>2. QED
    BY <2>1, <1>1 DEF IInv, TypeOK, HookType, m
<1>7. TypeOK'
  <2>1. excused' \subseteq Node \X Node \X Channel
    BY <1>1, <1>2 DEF IInv, TypeOK
  <2>2. QED
    BY <1>1, <1>3, <1>5, <1>6, <2>1
       DEF IInv, TypeOK, HookType, userVars, connVars
<1>8. Commands' /\ SelfListed' /\ Connections'
  BY <1>1 DEF IInv, Commands, SelfListed, Connections, userVars, connVars
<1>9. News'
  <2>1. \A l \in Link : hook'[l].sent \subseteq hook[l].sent
                          \cup (IF m.sender = l[1] THEN {m} ELSE {})
    BY <1>3, <1>6
  <2>2. QED
    BY <2>1, <1>1, <1>3, <1>5, NewsSent DEF IInv
<1>10. Listing'
  <2>1. ASSUME NEW q \in Node, NEW r \in Node, NEW d \in Channel,
               <<q, r>> \in Link, q # r, Claim(q, r, d)
        PROVE  Claim(q, r, d)'
    <3>1. <<r, q>> \in Link
      BY <2>1, LinkFacts
    <3>2. Heard(q, r, d)' <=> Heard(q, r, d)
      BY <1>1 DEF Heard
    <3>3. ASSUME NEW t, Coming(q, r, d, t)
          PROVE  Coming(q, r, d, t)'
      <4>1. Range(net[<<r, q>>]) \subseteq Range(net'[<<r, q>>])
        BY <1>5, <3>1
      <4>2. QED
        BY <4>1, <3>3, <1>1 DEF Coming
    <3>4. excused \subseteq excused'
      BY <1>1
    <3>5. Corrected(q, r, d) => Corrected(q, r, d)'
      BY <3>2, <3>3, <3>4, <1>1 DEF Corrected, userVars, connVars
    <3>6. Told(q, r, d) => Told(q, r, d)'
      <4>1. CASE <<r, q>> = <<n, p>> /\ d = c
        <5>1. CASE m \in Range(net'[<<n, p>>])
          <6>1. m \notin seen'[q]
            BY <2>1, <1>1, <1>3
          <6>2. Coming(q, r, d, "join")'
            BY <6>1, <5>1, <4>1, <1>3 DEF Coming
          <6>3. QED
            BY <6>2 DEF Told
        <5>2. CASE <<n, p>> \notin alive
          <6>1. <<q, r>> \notin alive
            BY <5>2, <4>1 DEF IInv, Connections
          <6>2. QED
            BY <6>1, <1>1 DEF Told, connVars
        <5>3. CASE <<p, n, c>> \in excused'
          BY <5>3, <4>1 DEF Told
        <5>4. QED
          BY <5>1, <5>2, <5>3, <1>5
      <4>2. CASE <<r, q>> = <<n, p>> /\ d # c
        <5>1. hook[<<r, q>>] # Snapshot
          BY <4>2, <1>1 DEF Snapshot
        <5>2. d \in hook[<<r, q>>].todo => d \in hook'[<<r, q>>].todo
          BY <4>2, <1>6
        <5>3. QED
          BY <5>1, <5>2, <3>2, <3>3, <3>4, <1>1 DEF Told, userVars, connVars
      <4>3. CASE <<r, q>> # <<n, p>>
        <5>1. hook'[<<r, q>>] = hook[<<r, q>>]
          BY <4>3, <3>1, <1>6
        <5>2. QED
          BY <5>1, <3>2, <3>3, <3>4, <1>1 DEF Told, userVars, connVars
      <4>4. QED
        BY <4>1, <4>2, <4>3
    <3>7. QED
      BY <3>5, <3>6, <2>1, <1>1, ClaimKept DEF userVars
  <2>2. QED
    BY <2>1, ListingKept DEF IInv
<1>11. QED
  BY <1>7, <1>8, <1>9, <1>10 DEF IInv

\* The ID of a resent join is stored.
LEMMA StepMark ==
    ASSUME IInv, NEW n \in Node, NEW p \in Node, <<n, p>> \in Link, Mark(n, p)
    PROVE  IInv'
<1>1. /\ seen' = [seen EXCEPT ![n] = @ \cup hook[<<n, p>>].sent]
      /\ hook' = [hook EXCEPT ![<<n, p>>] =
                    IF hook[<<n, p>>].todo = {} THEN Idle
                    ELSE [hook[<<n, p>>] EXCEPT !.sent = {}]]
      /\ UNCHANGED <<userVars, members, connVars, net, reader, ids, excused>>
  BY DEF Mark
<1>2. hook[<<n, p>>] \in HookType /\ hook[<<n, p>>].sent # {}
  BY DEF IInv, TypeOK, HookType, Mark
<1>3. /\ hook' \in [Link -> HookType]
      /\ hook'[<<n, p>>].todo = hook[<<n, p>>].todo
      /\ hook'[<<n, p>>].sent = {}
      /\ \A l \in Link : l # <<n, p>> => hook'[l] = hook[l]
  <2>1. Idle \in HookType /\ Idle.todo = {} /\ Idle.sent = {}
    BY DEF Idle, HookType
  <2>2. /\ [hook[<<n, p>>] EXCEPT !.sent = {}] \in HookType
        /\ [hook[<<n, p>>] EXCEPT !.sent = {}].todo = hook[<<n, p>>].todo
        /\ [hook[<<n, p>>] EXCEPT !.sent = {}].sent = {}
    BY <1>2 DEF HookType
  <2>3. hook \in [Link -> HookType]
    BY DEF IInv, TypeOK, HookType
  <2>4. QED
    BY <2>1, <2>2, <2>3, <1>1
<1>4. /\ \A q \in Node : seen[q] \subseteq seen'[q]
      /\ \A q \in Node : q # n => seen'[q] = seen[q]
      /\ seen' \in [Node -> SUBSET Message]
      /\ \A k \in seen'[n] : k \in seen[n] \/ (k.id <= ids /\ k.sender = n)
  <2>1. \A k \in hook[<<n, p>>].sent : k.id <= ids /\ k.sender = n
    BY DEF IInv, News, OnLink
  <2>2. QED
    BY <2>1, <1>1, <1>2 DEF IInv, TypeOK, HookType
<1>5. TypeOK'
  BY <1>1, <1>3, <1>4 DEF IInv, TypeOK, HookType, userVars, connVars
<1>6. Commands' /\ SelfListed' /\ Connections'
  BY <1>1 DEF IInv, Commands, SelfListed, Connections, userVars, connVars
<1>7. News'
  <2>1. \A q \in Node : \A k \in seen'[q] : k.id <= ids
    BY <1>4 DEF IInv, News
  <2>2. \A l \in Link : hook'[l].sent \subseteq hook[l].sent
    BY <1>3
  <2>3. \A l \in Link : \A k \in Range(net[l]) : k \in Message
    BY MessageFacts DEF IInv
  <2>4. QED
    BY <2>1, <2>2, <2>3, <1>1, <1>4, NewsKept DEF IInv, News, OnLink
<1>8. Listing'
  <2>1. ASSUME NEW q \in Node, NEW r \in Node, NEW d \in Channel,
               <<q, r>> \in Link, q # r, Claim(q, r, d)
        PROVE  Claim(q, r, d)'
    <3>1. <<r, q>> \in Link
      BY <2>1, LinkFacts
    <3>2. Heard(q, r, d)' <=> Heard(q, r, d)
      BY <1>1 DEF Heard
    <3>3. ASSUME NEW t, Coming(q, r, d, t)
          PROVE  Coming(q, r, d, t)'
      <4>1. PICK k \in Range(net[<<r, q>>]) :
              k.sender = r /\ k.channel = d /\ k.type = t /\ k \notin seen[q]
        BY <3>3 DEF Coming
      <4>2. k \notin seen'[q]
        BY <4>1, <2>1, <1>4
      <4>3. QED
        BY <4>1, <4>2, <1>1 DEF Coming
    <3>4. Corrected(q, r, d) => Corrected(q, r, d)'
      BY <3>2, <3>3, <1>1 DEF Corrected, userVars, connVars
    <3>5. Told(q, r, d) => Told(q, r, d)'
      <4>1. hook[<<r, q>>] = Snapshot => hook'[<<r, q>>] = Snapshot
        <5>1. hook[<<n, p>>] # Snapshot
          BY <1>2 DEF Snapshot
        <5>2. QED
          BY <5>1, <3>1, <1>3
      <4>2. hook'[<<r, q>>].todo = hook[<<r, q>>].todo
        BY <3>1, <1>3
      <4>3. QED
        BY <4>1, <4>2, <3>2, <3>3, <1>1 DEF Told, userVars, connVars
    <3>6. QED
      BY <3>4, <3>5, <2>1, <1>1, ClaimKept DEF userVars
  <2>2. QED
    BY <2>1, ListingKept DEF IInv
<1>9. QED
  BY <1>5, <1>6, <1>7, <1>8 DEF IInv

----------------------------------------------------------------------------
(* What follows.                                                           *)

\* No step of any goroutine breaks the invariant.
LEMMA IInvNext == IInv /\ [Next]_vars => IInv'
<1> SUFFICES ASSUME IInv, [Next]_vars PROVE IInv'
  OBVIOUS
<1>1. ASSUME NEW n \in Node, NEW c \in rooms[n],
             Join(n, c) \/ JoinAgain(n, c) \/ Leave(n, c)
      PROVE  IInv'
  <2>1. c \in Channel
    BY DEF IInv, TypeOK
  <2>2. QED
    BY <1>1, <2>1, StepJoin, StepJoinAgain, StepLeave
<1>2. ASSUME NEW n \in Node, SetNick(n) \/ Inject(n)
      PROVE  IInv'
  BY <1>2, StepSetNick, StepInject
<1>3. ASSUME NEW l \in Link,
             \/ Receive(l[1], l[2]) \/ Handle(l[1], l[2])
             \/ Unregister(l[1], l[2]) \/ OnDown(l[1], l[2])
             \/ Connect(l[1], l[2]) \/ Replace(l[1], l[2]) \/ Break(l[1], l[2])
             \/ JoinedNames(l[1], l[2]) \/ Resync(l[1], l[2]) \/ Mark(l[1], l[2])
      PROVE  IInv'
  <2>1. l[1] \in Node /\ l[2] \in Node /\ <<l[1], l[2]>> \in Link
    BY LinkFacts
  <2>2. CASE Receive(l[1], l[2]) \/ Handle(l[1], l[2])
    BY <2>1, <2>2, StepReceive, StepHandle
  <2>3. CASE Unregister(l[1], l[2]) \/ OnDown(l[1], l[2])
    BY <2>1, <2>3, StepUnregister, StepOnDown
  <2>4. CASE Connect(l[1], l[2]) \/ Replace(l[1], l[2]) \/ Break(l[1], l[2])
    BY <2>1, <2>4, StepConnect, StepReplace, StepBreak
  <2>5. CASE JoinedNames(l[1], l[2]) \/ Resync(l[1], l[2]) \/ Mark(l[1], l[2])
    BY <2>1, <2>5, StepJoinedNames, StepResync, StepMark
  <2>6. QED
    BY <1>3, <2>2, <2>3, <2>4, <2>5
<1>4. CASE UNCHANGED vars
  <2>1. UNCHANGED <<joined, current, terminal, rooms, members, excused, alive,
                    peers, downs, sessions, hook, net, seen, ids, reader>>
    BY <1>4 DEF vars, userVars, connVars
  <2>2. TypeOK' /\ Commands' /\ Connections' /\ News' /\ SelfListed'
    BY <2>1 DEF IInv, TypeOK, Commands, Connections, News, OnLink, SelfListed
  <2>3. ASSUME NEW q \in Node, NEW r \in Node, NEW d \in Channel, Claim(q, r, d)
        PROVE  Claim(q, r, d)'
    <3>1. /\ Heard(q, r, d)' <=> Heard(q, r, d)
          /\ \A t : Coming(q, r, d, t)' <=> Coming(q, r, d, t)
      BY <2>1 DEF Heard, Coming
    <3>2. /\ Corrected(q, r, d) => Corrected(q, r, d)'
          /\ Told(q, r, d) => Told(q, r, d)'
      BY <2>1, <3>1 DEF Corrected, Told
    <3>3. QED
      BY <2>1, <2>3, <3>2, ClaimKept
  <2>4. QED
    BY <2>2, <2>3, ListingKept DEF IInv
<1>5. QED
  BY <1>1, <1>2, <1>3, <1>4 DEF Next

\* The inductive invariant of channels, connections and messages under way.
THEOREM Invariance == Spec => []IInv
BY IInvInit, IInvNext, PTL DEF Spec

\* Tables, queues and hooks have their types, and the current channel of a
\* node is one it is in (channel.go, Leave).
THEOREM TypeCorrect == Spec => []TypeOK
<1>1. IInv => TypeOK
  BY DEF IInv
<1>2. QED
  BY <1>1, Invariance, PTL

\* A node stays in its own list of every channel it is in: no message that
\* comes back, a resent join that overtook the storing of its ID among them,
\* and no end of a connection takes it out (handlers.go, onRouted, resyncJoins
\* and onPeerDown).
THEOREM AlwaysSelfListed == Spec => []SelfListed
<1>1. IInv => SelfListed
  BY DEF IInv
<1>2. QED
  BY <1>1, Invariance, PTL

\* When nothing is under way, two connected nodes see each other in exactly
\* the channels both are in, but for the six named races: in any mesh, however
\* often connections are lost, made again and replaced (handlers.go, onRouted,
\* resyncJoins and onPeerDown).
THEOREM MembersAgree == Spec => []Consistent
<1>1. IInv => Consistent
  <2>1. SUFFICES ASSUME IInv, Quiet, NEW l \in alive, NEW c \in joined[l[1]],
                        <<l[1], l[2], c>> \notin excused
                 PROVE  l[2] \in members[l[1]][c] <=> c \in joined[l[2]]
    BY DEF Consistent
  <2>2. /\ l \in Link /\ l[1] \in Node /\ l[2] \in Node /\ <<l[1], l[2]>> = l
        /\ <<l[2], l[1]>> \in Link /\ c \in Channel
    BY <2>1, LinkFacts DEF IInv, TypeOK
  <2>3. Claim(l[1], l[2], c)
    BY <2>1, <2>2 DEF IInv, Listing
  <2>4. ~Heard(l[1], l[2], c)
    BY <2>1 DEF Heard, Quiet
  <2>5. \A t : ~Coming(l[1], l[2], c, t)
    <3>1. net[<<l[2], l[1]>>] = <<>>
      BY <2>1, <2>2 DEF Quiet
    <3>2. QED
      BY <3>1 DEF Coming, Range
  <2>6. ~Corrected(l[1], l[2], c)
    BY <2>1, <2>2, <2>4, <2>5 DEF Corrected, Quiet
  <2>7. ~Told(l[1], l[2], c)
    <3>1. hook[<<l[2], l[1]>>] = Idle /\ Idle # Snapshot /\ Idle.todo = {}
      BY <2>1, <2>2 DEF Quiet, Idle, Snapshot
    <3>2. QED
      BY <3>1, <2>1, <2>2, <2>4, <2>5 DEF Told, Quiet
  <2>8. QED
    BY <2>3, <2>6, <2>7 DEF Claim
<1>2. QED
  BY <1>1, Invariance, PTL
=============================================================================
