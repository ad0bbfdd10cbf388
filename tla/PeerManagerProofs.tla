------------------------- MODULE PeerManagerProofs -------------------------
(***************************************************************************)
(* What holds of the connection tables for any number of nodes and         *)
(* sessions, any limits, and any way sessions break or nodes stop.         *)
(***************************************************************************)
EXTENDS PeerManager, FiniteSetTheorems, TLAPS

----------------------------------------------------------------------------
(* The inductive invariant.                                                *)

\* TypeOK without the sign of slots, which needs SlotsInv.
Types ==
    /\ task \in [Conn -> Tasks]
    /\ reader \in [Conn -> Readers]
    /\ closed \in [Conn -> BOOLEAN]
    /\ loser \in [Conn -> Conn \cup {NoConn}]
    /\ conns \in [Node -> [Node -> Conn \cup {NoConn}]]
    /\ welcomed \subseteq Session
    /\ slots \in [Node -> Int]
    /\ life \in [Node -> Lives]
    /\ doomed \in [Node -> SUBSET Conn]
    /\ balance \in [Node -> [Node -> Int]]

\* How the adopter and the read loop of one connection advance together.
Phases ==
    \A c \in Conn :
        /\ reader[c] # "none" => task[c] \in {"hook", "done"}
        /\ task[c] = "hook" => reader[c] # "none"
        /\ task[c] = "done" /\ ~closed[c] => reader[c] # "none"
        /\ reader[c] \in {"shutdown", "down", "ended"} => closed[c]
        /\ task[c] = "swap" => loser[c] \in Conn

\* How far the two ends of one session can be apart.
Ends ==
    \A c \in Conn :
        /\ task[c] \in {"adopt", "reject", "swap", "start", "hook"}
             \/ reader[c] # "none"
           => c[1] \in welcomed /\ Owner(c) # Remote(c)
        /\ Inbound(c) /\ c[1] \in welcomed
           => task[c] \notin {"idle", "handshake"}
        /\ Inbound(c) /\ task[c] # "idle" => task[Mate(c)] # "idle"

\* NoOrphan, from the moment adopt has written the entry.
Adopted(c) == task[c] \in {"swap", "start"} \/ reader[c] = "reading"

Kept ==
    \A c \in Conn :
        Adopted(c) /\ ~closed[c]
        => \/ Registered(c)
           \/ \E d \in Conn : task[d] = "swap" /\ loser[d] = c

IInv == Types /\ Phases /\ Ends /\ TableSound /\ Kept

----------------------------------------------------------------------------
(* Connections.                                                            *)

\* The two ends of a session are different Conns of the right nodes.
LEMMA ConnFacts ==
    ASSUME NEW c \in Conn
    PROVE  /\ c[1] \in Session /\ c = <<c[1], c[2]>>
           /\ Inbound(c) \in BOOLEAN
           /\ Inbound(c) => c = In(c[1])
           /\ ~Inbound(c) => c = Out(c[1])
           /\ Owner(c) \in Node /\ Remote(c) \in Node
           /\ Mate(c) \in Conn
           /\ Mate(c)[1] = c[1]
           /\ Owner(Mate(c)) = Remote(c) /\ Remote(Mate(c)) = Owner(c)
           /\ Inbound(Mate(c)) # Inbound(c)
<1>1. PICK s \in Session, d \in {"out", "in"} : c = <<s, d>>
  BY DEF Conn
<1>2. CASE d = "out"
  BY <1>1, <1>2, SessionAssumption
  DEF Conn, Inbound, Mate, Owner, Remote, In, Out
<1>3. CASE d = "in"
  BY <1>1, <1>3, SessionAssumption
  DEF Conn, Inbound, Mate, Owner, Remote, In, Out
<1>4. QED
  BY <1>2, <1>3

\* The same facts for the two ends of a given session.
LEMMA EndFacts ==
    ASSUME NEW s \in Session
    PROVE  /\ Out(s) \in Conn /\ In(s) \in Conn
           /\ Out(s)[1] = s /\ In(s)[1] = s
           /\ ~Inbound(Out(s)) /\ Inbound(In(s))
           /\ Mate(Out(s)) = In(s) /\ Mate(In(s)) = Out(s)
           /\ Owner(Out(s)) = From[s] /\ Owner(In(s)) = To[s]
           /\ Remote(Out(s)) = To[s] /\ Remote(In(s)) = From[s]
           /\ From[s] \in Node /\ To[s] \in Node
  BY SessionAssumption DEF Conn, Out, In, Inbound, Mate, Owner, Remote

\* Writing one entry of one table.
LEMMA TableUpdate ==
    ASSUME conns \in [Node -> [Node -> Conn \cup {NoConn}]],
           NEW n \in Node, NEW p \in Node, NEW x \in Conn \cup {NoConn},
           conns' = [conns EXCEPT ![n][p] = x]
    PROVE  /\ conns' \in [Node -> [Node -> Conn \cup {NoConn}]]
           /\ \A a, b \in Node : conns'[a][b]
                                   = IF a = n /\ b = p THEN x ELSE conns[a][b]
  OBVIOUS

\* Dial preserves IInv.
LEMMA DialStep ==
    ASSUME IInv, NEW s \in Session, Dial(s)
    PROVE  IInv'
<1>1. Types'
  BY IInv, Dial(s), EndFacts DEF IInv, Dial, Types, Tasks, Readers, Lives
<1>2. Phases'
  BY IInv, Dial(s), EndFacts DEF IInv, Dial, Phases, Types
<1>3. Ends'
  BY IInv, Dial(s), ConnFacts, EndFacts DEF IInv, Dial, Ends, Types, Phases
<1>4. TableSound'
  BY IInv, Dial(s), EndFacts, NoConnAssumption
  DEF IInv, Dial, TableSound, Guarded, Types, Phases
<1>5. Kept'
  BY IInv, Dial(s), EndFacts
  DEF IInv, Dial, Kept, Adopted, Registered, Types, Phases
<1>6. QED
  BY <1>1, <1>2, <1>3, <1>4, <1>5 DEF IInv

\* Accept preserves IInv.
LEMMA AcceptStep ==
    ASSUME IInv, NEW s \in Session, Accept(s)
    PROVE  IInv'
<1> USE EndFacts
<1>1. CASE MaxHandshakes > 0 /\ slots[To[s]] >= MaxHandshakes
  <2>1. Types'
    BY IInv, Accept(s), <1>1 DEF IInv, Accept, Types, Tasks
  <2>2. Phases' /\ Ends'
    BY IInv, Accept(s), <1>1, ConnFacts DEF IInv, Accept, Types, Phases, Ends
  <2>3. TableSound'
    BY IInv, Accept(s), <1>1
    DEF IInv, Accept, Types, Phases, TableSound, Guarded
  <2>4. Kept'
    BY IInv, Accept(s), <1>1
    DEF IInv, Accept, Types, Phases, Kept, Adopted, Registered
  <2>5. QED
    BY <2>1, <2>2, <2>3, <2>4 DEF IInv
<1>2. CASE ~(MaxHandshakes > 0 /\ slots[To[s]] >= MaxHandshakes)
  <2>1. slots' \in [Node -> Int]
    BY IInv, Accept(s), <1>2 DEF IInv, Accept, Types
  <2>2. Types'
    BY IInv, Accept(s), <1>2, <2>1 DEF IInv, Accept, Types, Tasks
  <2>3. Phases' /\ Ends'
    BY IInv, Accept(s), <1>2, ConnFacts DEF IInv, Accept, Types, Phases, Ends
  <2>4. TableSound'
    BY IInv, Accept(s), <1>2
    DEF IInv, Accept, Types, Phases, TableSound, Guarded
  <2>5. Kept'
    BY IInv, Accept(s), <1>2
    DEF IInv, Accept, Types, Phases, Kept, Adopted, Registered
  <2>6. QED
    BY <2>2, <2>3, <2>4, <2>5 DEF IInv
<1>3. QED
  BY <1>1, <1>2

\* A step that leaves the tables and the replacements under way alone.
LEMMA KeptStable ==
    ASSUME Kept, UNCHANGED conns,
           \A c \in Conn : (Adopted(c) /\ ~closed[c])'
                           => Adopted(c) /\ ~closed[c],
           \A d \in Conn : task[d] = "swap" => (task[d] = "swap")'
                                               /\ loser'[d] = loser[d]
    PROVE  Kept'
  BY DEF Kept, Registered

\* What an error return leaves of the variables it writes.
LEMMA GiveUpTypes ==
    ASSUME Types, NEW c \in Conn, GiveUp(c)
    PROVE  /\ task' \in [Conn -> Tasks]
           /\ closed' \in [Conn -> BOOLEAN]
           /\ slots' \in [Node -> Int]
<1>1. slots' \in [Node -> Int]
  BY Types, GiveUp(c), ConnFacts DEF Types, GiveUp, Release
<1>2. QED
  BY <1>1, Types, GiveUp(c) DEF Types, GiveUp, Tasks

\* The same for the end of a handshake.
LEMMA IdentifiedTypes ==
    ASSUME Types, NEW c \in Conn, Identified(c)
    PROVE  /\ task' \in [Conn -> Tasks]
           /\ closed' \in [Conn -> BOOLEAN]
           /\ slots' \in [Node -> Int]
<1>1. CASE Remote(c) = Owner(c)
  BY <1>1, Types, Identified(c), GiveUpTypes DEF Identified
<1>2. CASE Remote(c) # Owner(c)
  BY <1>2, Types, Identified(c) DEF Identified, Types, Tasks
<1>3. QED
  BY <1>1, <1>2

\* ReadHello preserves IInv.
LEMMA ReadHelloStep ==
    ASSUME IInv, NEW s \in Session, ReadHello(s)
    PROVE  IInv'
<1> USE EndFacts
<1>1. Types'
  BY IInv, ReadHello(s), IdentifiedTypes DEF IInv, ReadHello, Types
<1>2. task[In(s)] = "handshake" /\ reader[In(s)] = "none"
  BY IInv, ReadHello(s) DEF IInv, ReadHello, Types, Readers, Phases
<1>3. /\ task'[In(s)] \in {"adopt", "done"}
      /\ \A d \in Conn \ {In(s)} : task'[d] = task[d] /\ closed'[d] = closed[d]
  BY IInv, ReadHello(s) DEF IInv, Types, ReadHello, Identified, GiveUp
<1>4. Phases' /\ Ends'
  BY IInv, ReadHello(s), ConnFacts
  DEF IInv, ReadHello, Identified, GiveUp, Types, Phases, Ends
<1>5. TableSound'
  <2>1. \A d \in Conn : Guarded(d) => Guarded(d)'
    BY ReadHello(s), <1>2, <1>3 DEF ReadHello, Guarded
  <2>2. QED
    BY IInv, ReadHello(s), <2>1, NoConnAssumption
    DEF IInv, ReadHello, TableSound, Types
<1>6. Kept'
  <2>1. \A c \in Conn : (Adopted(c) /\ ~closed[c])' => Adopted(c) /\ ~closed[c]
    BY ReadHello(s), <1>2, <1>3 DEF ReadHello, Adopted
  <2>2. \A d \in Conn : task[d] = "swap" => (task[d] = "swap")'
    BY <1>2, <1>3
  <2>3. QED
    BY IInv, ReadHello(s), <2>1, <2>2, KeptStable DEF IInv, ReadHello
<1>7. QED
  BY <1>1, <1>4, <1>5, <1>6 DEF IInv

\* ReadWelcome preserves IInv.
LEMMA ReadWelcomeStep ==
    ASSUME IInv, NEW s \in Session, ReadWelcome(s)
    PROVE  IInv'
<1> USE EndFacts
<1>1. Types'
  BY IInv, ReadWelcome(s), IdentifiedTypes DEF IInv, ReadWelcome, Types
<1>2. task[Out(s)] = "handshake" /\ reader[Out(s)] = "none"
  BY IInv, ReadWelcome(s) DEF IInv, ReadWelcome, Types, Readers, Phases
<1>3. /\ task'[Out(s)] \in {"adopt", "done"}
      /\ \A d \in Conn \ {Out(s)} : task'[d] = task[d] /\ closed'[d] = closed[d]
  BY IInv, ReadWelcome(s) DEF IInv, Types, ReadWelcome, Identified, GiveUp
<1>4. Phases' /\ Ends'
  BY IInv, ReadWelcome(s), ConnFacts
  DEF IInv, ReadWelcome, Identified, GiveUp, Types, Phases, Ends
<1>5. TableSound'
  <2>1. \A d \in Conn : Guarded(d) => Guarded(d)'
    BY ReadWelcome(s), <1>2, <1>3 DEF ReadWelcome, Guarded
  <2>2. QED
    BY IInv, ReadWelcome(s), <2>1, NoConnAssumption
    DEF IInv, ReadWelcome, TableSound, Types
<1>6. Kept'
  <2>1. \A c \in Conn : (Adopted(c) /\ ~closed[c])' => Adopted(c) /\ ~closed[c]
    BY ReadWelcome(s), <1>2, <1>3 DEF ReadWelcome, Adopted
  <2>2. \A d \in Conn : task[d] = "swap" => (task[d] = "swap")'
    BY <1>2, <1>3
  <2>3. QED
    BY IInv, ReadWelcome(s), <2>1, <2>2, KeptStable DEF IInv, ReadWelcome
<1>7. QED
  BY <1>1, <1>4, <1>5, <1>6 DEF IInv

\* HandshakeFail preserves IInv.
LEMMA HandshakeFailStep ==
    ASSUME IInv, NEW c \in Conn, HandshakeFail(c)
    PROVE  IInv'
<1>1. Types'
  BY IInv, HandshakeFail(c), ConnFacts
  DEF IInv, HandshakeFail, GiveUp, Release, Types, Tasks, Readers, Lives
<1>2. Phases'
  BY IInv, HandshakeFail(c)
  DEF IInv, HandshakeFail, GiveUp, Release, Phases, Types
<1>3. Ends'
  BY IInv, HandshakeFail(c), ConnFacts
  DEF IInv, HandshakeFail, GiveUp, Release, Ends, Types, Phases
<1>4. TableSound'
  BY IInv, HandshakeFail(c), NoConnAssumption
  DEF IInv, HandshakeFail, GiveUp, Release, TableSound, Guarded, Types, Phases
<1>5. Kept'
  BY IInv, HandshakeFail(c)
  DEF IInv, HandshakeFail, GiveUp, Release, Kept, Adopted, Registered, Types,
      Phases
<1>6. QED
  BY <1>1, <1>2, <1>3, <1>4, <1>5 DEF IInv

\* The four outcomes of adopt.
LEMMA AdoptTooManyStep ==
    ASSUME IInv, NEW c \in Conn, adopt(c), AdoptTooMany(c)
    PROVE  IInv'
<1>1. Types'
  BY IInv, adopt(c), AdoptTooMany(c), GiveUpTypes
  DEF IInv, adopt, AdoptTooMany, Types
<1>2. Phases' /\ Ends'
  BY IInv, adopt(c), AdoptTooMany(c), ConnFacts
  DEF IInv, adopt, AdoptTooMany, GiveUp, Types, Phases, Ends
<1>3. /\ task[c] = "adopt" /\ reader[c] = "none" /\ task'[c] = "done"
      /\ \A d \in Conn \ {c} : task'[d] = task[d] /\ closed'[d] = closed[d]
  BY IInv, adopt(c), AdoptTooMany(c)
  DEF IInv, adopt, AdoptTooMany, GiveUp, Types, Phases
<1>4. TableSound'
  <2>1. \A d \in Conn : Guarded(d) => Guarded(d)'
    BY adopt(c), <1>3 DEF adopt, Guarded
  <2>2. QED
    BY IInv, AdoptTooMany(c), <2>1, NoConnAssumption
    DEF IInv, AdoptTooMany, TableSound, Types
<1>5. Kept'
  <2>1. \A d \in Conn : (Adopted(d) /\ ~closed[d])' => Adopted(d) /\ ~closed[d]
    BY adopt(c), <1>3 DEF adopt, Adopted
  <2>2. \A d \in Conn : task[d] = "swap" => (task[d] = "swap")'
    BY <1>3
  <2>3. QED
    BY IInv, AdoptTooMany(c), <2>1, <2>2, KeptStable DEF IInv, AdoptTooMany
<1>6. QED
  BY <1>1, <1>2, <1>4, <1>5 DEF IInv

\* AdoptNew preserves IInv.
LEMMA AdoptNewStep ==
    ASSUME IInv, NEW c \in Conn, adopt(c), AdoptNew(c)
    PROVE  IInv'
<1> DEFINE n == Owner(c)
           p == Remote(c)
<1>1. n \in Node /\ p \in Node
  BY ConnFacts
<1>2. /\ conns' \in [Node -> [Node -> Conn \cup {NoConn}]]
      /\ \A a, b \in Node : conns'[a][b]
                              = IF a = n /\ b = p THEN c ELSE conns[a][b]
  <2>1. conns' = [conns EXCEPT ![n][p] = c]
    BY AdoptNew(c) DEF AdoptNew
  <2>2. QED
    BY IInv, <1>1, <2>1, TableUpdate DEF IInv, Types
<1>3. Types'
  BY IInv, adopt(c), AdoptNew(c), <1>2 DEF IInv, adopt, AdoptNew, Types, Tasks
<1>4. /\ task[c] = "adopt" /\ reader[c] = "none" /\ task'[c] = "start"
      /\ \A d \in Conn \ {c} : task'[d] = task[d]
  BY IInv, adopt(c), AdoptNew(c) DEF IInv, adopt, AdoptNew, Types, Phases
<1>5. Phases' /\ Ends'
  BY IInv, adopt(c), AdoptNew(c), ConnFacts
  DEF IInv, adopt, AdoptNew, Types, Phases, Ends
<1>6. TableSound'
  <2>1. \A d \in Conn : Guarded(d) => Guarded(d)'
    BY adopt(c), <1>4 DEF adopt, Guarded
  <2>2. Guarded(c)' /\ n # p
    BY IInv, <1>4 DEF IInv, Ends, Guarded
  <2>3. ASSUME NEW a \in Node, NEW b \in Node,
               NEW d, d = conns'[a][b], d # NoConn
        PROVE  Owner(d) = a /\ Remote(d) = b /\ a # b /\ Guarded(d)'
    <3>1. CASE a = n /\ b = p
      BY <1>1, <1>2, <2>2, <2>3, <3>1
    <3>2. CASE ~(a = n /\ b = p)
      <4>1. d = conns[a][b] /\ d \in Conn
        BY IInv, <1>2, <2>3, <3>2 DEF IInv, Types
      <4>2. QED
        BY IInv, <2>1, <2>3, <4>1 DEF IInv, TableSound
    <3>3. QED
      BY <3>1, <3>2
  <2>4. QED
    BY <2>3 DEF TableSound, Guarded
<1>7. Kept'
  <2> SUFFICES ASSUME NEW d \in Conn, Adopted(d)', ~closed'[d]
               PROVE  \/ Registered(d)'
                      \/ \E e \in Conn : task'[e] = "swap" /\ loser'[e] = d
    BY DEF Kept
  <2>1. CASE d = c
    BY <1>1, <1>2, <2>1 DEF Registered
  <2>2. CASE d # c
    <3>1. Adopted(d) /\ ~closed[d]
      BY adopt(c), AdoptNew(c), <1>4, <2>2 DEF adopt, AdoptNew, Adopted
    <3>2. CASE Registered(d)
      BY AdoptNew(c), <1>2, <3>2, ConnFacts, NoConnAssumption
      DEF AdoptNew, Existing, Registered
    <3>3. CASE \E e \in Conn : task[e] = "swap" /\ loser[e] = d
      BY AdoptNew(c), <1>4, <3>3 DEF AdoptNew
    <3>4. QED
      BY IInv, <3>1, <3>2, <3>3 DEF IInv, Kept
  <2>3. QED
    BY <2>1, <2>2
<1>8. QED
  BY <1>3, <1>5, <1>6, <1>7 DEF IInv

\* AdoptReplace preserves IInv.
LEMMA AdoptReplaceStep ==
    ASSUME IInv, NEW c \in Conn, adopt(c), AdoptReplace(c)
    PROVE  IInv'
<1> DEFINE n == Owner(c)
           p == Remote(c)
<1>1. n \in Node /\ p \in Node
  BY ConnFacts
<1>2. /\ conns' \in [Node -> [Node -> Conn \cup {NoConn}]]
      /\ \A a, b \in Node : conns'[a][b]
                              = IF a = n /\ b = p THEN c ELSE conns[a][b]
  <2>1. conns' = [conns EXCEPT ![n][p] = c]
    BY AdoptReplace(c) DEF AdoptReplace
  <2>2. QED
    BY IInv, <1>1, <2>1, TableUpdate DEF IInv, Types
<1>3. Existing(c) \in Conn
  BY IInv, AdoptReplace(c), <1>1 DEF IInv, Types, AdoptReplace, Existing
<1>4. Types'
  BY IInv, adopt(c), AdoptReplace(c), <1>2, <1>3
  DEF IInv, adopt, AdoptReplace, Types, Tasks
<1>5. /\ task[c] = "adopt" /\ reader[c] = "none" /\ task'[c] = "swap"
      /\ loser'[c] = Existing(c)
      /\ \A d \in Conn \ {c} : task'[d] = task[d] /\ loser'[d] = loser[d]
  <2>1. task[c] = "adopt" /\ reader[c] = "none"
    BY IInv, adopt(c) DEF IInv, adopt, Phases
  <2>2. /\ task'[c] = "swap"
        /\ \A d \in Conn \ {c} : task'[d] = task[d]
    BY IInv, AdoptReplace(c) DEF IInv, AdoptReplace, Types
  <2>3. /\ loser'[c] = Existing(c)
        /\ \A d \in Conn \ {c} : loser'[d] = loser[d]
    BY IInv, AdoptReplace(c) DEF IInv, AdoptReplace, Types
  <2>4. QED
    BY <2>1, <2>2, <2>3
<1>6. Phases' /\ Ends'
  BY IInv, adopt(c), AdoptReplace(c), <1>3, <1>5, ConnFacts
  DEF IInv, adopt, AdoptReplace, Phases, Ends
<1>7. TableSound'
  <2>1. \A d \in Conn : Guarded(d) => Guarded(d)'
    BY adopt(c), <1>5 DEF adopt, Guarded
  <2>2. Guarded(c)' /\ n # p
    BY IInv, <1>5 DEF IInv, Ends, Guarded
  <2>3. ASSUME NEW a \in Node, NEW b \in Node,
               NEW d, d = conns'[a][b], d # NoConn
        PROVE  Owner(d) = a /\ Remote(d) = b /\ a # b /\ Guarded(d)'
    <3>1. CASE a = n /\ b = p
      BY <1>1, <1>2, <2>2, <2>3, <3>1
    <3>2. CASE ~(a = n /\ b = p)
      <4>1. d = conns[a][b] /\ d \in Conn
        BY IInv, <1>2, <2>3, <3>2 DEF IInv, Types
      <4>2. QED
        BY IInv, <2>1, <2>3, <4>1 DEF IInv, TableSound
    <3>3. QED
      BY <3>1, <3>2
  <2>4. QED
    BY <2>3 DEF TableSound, Guarded
<1>8. Kept'
  <2> SUFFICES ASSUME NEW d \in Conn, Adopted(d)', ~closed'[d]
               PROVE  \/ Registered(d)'
                      \/ \E e \in Conn : task'[e] = "swap" /\ loser'[e] = d
    BY DEF Kept
  <2>1. CASE d = c
    BY <1>1, <1>2, <2>1 DEF Registered
  <2>2. CASE d = Existing(c)
    BY <1>5, <2>2
  <2>3. CASE d # c /\ d # Existing(c)
    <3>1. Adopted(d) /\ ~closed[d]
      BY adopt(c), AdoptReplace(c), <1>5, <2>3 DEF adopt, AdoptReplace, Adopted
    <3>2. CASE Registered(d)
      BY <1>2, <2>3, <3>2, ConnFacts DEF Existing, Registered
    <3>3. CASE \E e \in Conn : task[e] = "swap" /\ loser[e] = d
      BY <1>5, <3>3
    <3>4. QED
      BY IInv, <3>1, <3>2, <3>3 DEF IInv, Kept
  <2>4. QED
    BY <2>1, <2>2, <2>3
<1>9. QED
  BY <1>4, <1>6, <1>7, <1>8 DEF IInv

\* AdoptDuplicate preserves IInv.
LEMMA AdoptDuplicateStep ==
    ASSUME IInv, NEW c \in Conn, adopt(c), AdoptDuplicate(c)
    PROVE  IInv'
<1>1. Types'
  BY IInv, adopt(c), AdoptDuplicate(c)
  DEF IInv, adopt, AdoptDuplicate, Types, Tasks
<1>2. Phases' /\ Ends'
  BY IInv, adopt(c), AdoptDuplicate(c), ConnFacts
  DEF IInv, adopt, AdoptDuplicate, Types, Phases, Ends
<1>3. /\ task[c] = "adopt" /\ reader[c] = "none" /\ task'[c] = "reject"
      /\ \A d \in Conn \ {c} : task'[d] = task[d]
  <2>1. task[c] = "adopt" /\ reader[c] = "none"
    BY IInv, adopt(c) DEF IInv, adopt, Phases
  <2>2. /\ task'[c] = "reject"
        /\ \A d \in Conn \ {c} : task'[d] = task[d]
    BY IInv, AdoptDuplicate(c) DEF IInv, AdoptDuplicate, Types
  <2>3. QED
    BY <2>1, <2>2
<1>4. TableSound'
  <2>1. \A d \in Conn : Guarded(d) => Guarded(d)'
    BY adopt(c), <1>3 DEF adopt, Guarded
  <2>2. QED
    BY IInv, AdoptDuplicate(c), <2>1, NoConnAssumption
    DEF IInv, AdoptDuplicate, TableSound, Types
<1>5. Kept'
  <2>1. \A d \in Conn : (Adopted(d) /\ ~closed[d])' => Adopted(d) /\ ~closed[d]
    BY adopt(c), AdoptDuplicate(c), <1>3 DEF adopt, AdoptDuplicate, Adopted
  <2>2. \A d \in Conn : task[d] = "swap" => (task[d] = "swap")'
    BY <1>3
  <2>3. QED
    BY IInv, AdoptDuplicate(c), <2>1, <2>2, KeptStable DEF IInv, AdoptDuplicate
<1>6. QED
  BY <1>1, <1>2, <1>4, <1>5 DEF IInv

\* adopt preserves IInv.
LEMMA adoptStep ==
    ASSUME IInv, NEW c \in Conn, adopt(c)
    PROVE  IInv'
  BY AdoptTooManyStep, AdoptNewStep, AdoptReplaceStep, AdoptDuplicateStep
  DEF adopt

\* Reject preserves IInv.
LEMMA RejectStep ==
    ASSUME IInv, NEW c \in Conn, Reject(c)
    PROVE  IInv'
<1>1. Types'
  BY IInv, Reject(c), ConnFacts
  DEF IInv, Reject, GiveUp, Release, Types, Tasks, Readers, Lives
<1>2. Phases'
  BY IInv, Reject(c) DEF IInv, Reject, GiveUp, Release, Phases, Types
<1>3. Ends'
  BY IInv, Reject(c), ConnFacts
  DEF IInv, Reject, GiveUp, Release, Ends, Types, Phases
<1>4. TableSound'
  BY IInv, Reject(c), NoConnAssumption
  DEF IInv, Reject, GiveUp, Release, TableSound, Guarded, Types, Phases
<1>5. Kept'
  BY IInv, Reject(c)
  DEF IInv, Reject, GiveUp, Release, Kept, Adopted, Registered, Types, Phases
<1>6. QED
  BY <1>1, <1>2, <1>3, <1>4, <1>5 DEF IInv

\* CloseLoser preserves IInv.
LEMMA CloseLoserStep ==
    ASSUME IInv, NEW c \in Conn, CloseLoser(c)
    PROVE  IInv'
<1>1. /\ task[c] = "swap" /\ reader[c] = "none" /\ loser[c] \in Conn
      /\ task'[c] = "start"
      /\ \A d \in Conn \ {c} : task'[d] = task[d]
  BY IInv, CloseLoser(c) DEF IInv, CloseLoser, Types, Phases
<1>2. closed' \in [Conn -> BOOLEAN]
  BY IInv, CloseLoser(c), Zenon DEF IInv, CloseLoser, Types
<1>3. Types'
  BY IInv, CloseLoser(c), <1>2 DEF IInv, CloseLoser, Types, Tasks
<1>4. \A d \in Conn : closed'[d] = (d = loser[c] \/ closed[d])
  BY IInv, CloseLoser(c), <1>1 DEF IInv, CloseLoser, Types
<1>5. Phases' /\ Ends'
  BY IInv, CloseLoser(c), <1>1, <1>4, ConnFacts
  DEF IInv, CloseLoser, Phases, Ends
<1>6. TableSound'
  <2>1. \A d \in Conn : Guarded(d) => Guarded(d)'
    BY CloseLoser(c), <1>1 DEF CloseLoser, Guarded
  <2>2. QED
    BY IInv, CloseLoser(c), <2>1, NoConnAssumption
    DEF IInv, CloseLoser, TableSound, Types
<1>7. Kept'
  <2> SUFFICES ASSUME NEW d \in Conn, Adopted(d)', ~closed'[d]
               PROVE  \/ Registered(d)'
                      \/ \E e \in Conn : task'[e] = "swap" /\ loser'[e] = d
    BY DEF Kept
  <2>1. Adopted(d) /\ ~closed[d] /\ d # loser[c]
    BY CloseLoser(c), <1>1, <1>4 DEF CloseLoser, Adopted
  <2>2. CASE Registered(d)
    BY CloseLoser(c), <2>2 DEF CloseLoser, Registered
  <2>3. CASE \E e \in Conn : task[e] = "swap" /\ loser[e] = d
    BY CloseLoser(c), <1>1, <2>1, <2>3 DEF CloseLoser
  <2>4. QED
    BY IInv, <2>1, <2>2, <2>3 DEF IInv, Kept
<1>8. QED
  BY <1>3, <1>5, <1>6, <1>7 DEF IInv

\* Start preserves IInv.
LEMMA StartStep ==
    ASSUME IInv, NEW c \in Conn, Start(c)
    PROVE  IInv'
<1>1. Types'
  BY IInv, Start(c) DEF IInv, Start, Types, Tasks, Readers, Lives
<1>2. Phases'
  BY IInv, Start(c) DEF IInv, Start, Phases, Types
<1>3. Ends'
  BY IInv, Start(c), ConnFacts DEF IInv, Start, Ends, Types, Phases
<1>4. TableSound'
  BY IInv, Start(c), NoConnAssumption
  DEF IInv, Start, TableSound, Guarded, Types, Phases
<1>5. Kept'
  BY IInv, Start(c) DEF IInv, Start, Kept, Adopted, Registered, Types, Phases
<1>6. QED
  BY <1>1, <1>2, <1>3, <1>4, <1>5 DEF IInv

\* Hook preserves IInv.
LEMMA HookStep ==
    ASSUME IInv, NEW c \in Conn, Hook(c)
    PROVE  IInv'
<1>1. Types'
  BY IInv, Hook(c), ConnFacts
  DEF IInv, Hook, Release, Types, Tasks, Readers, Lives
<1>2. Phases'
  BY IInv, Hook(c) DEF IInv, Hook, Release, Phases, Types
<1>3. Ends'
  BY IInv, Hook(c), ConnFacts DEF IInv, Hook, Release, Ends, Types, Phases
<1>4. TableSound'
  BY IInv, Hook(c), NoConnAssumption
  DEF IInv, Hook, Release, TableSound, Guarded, Types, Phases
<1>5. Kept'
  BY IInv, Hook(c)
  DEF IInv, Hook, Release, Kept, Adopted, Registered, Types, Phases
<1>6. QED
  BY <1>1, <1>2, <1>3, <1>4, <1>5 DEF IInv

\* Close preserves IInv.
LEMMA CloseStep ==
    ASSUME IInv, NEW c \in Conn, Close(c)
    PROVE  IInv'
<1>1. Types'
  BY IInv, Close(c) DEF IInv, Close, Types, Tasks, Readers, Lives
<1>2. Phases'
  BY IInv, Close(c) DEF IInv, Close, Phases, Types
<1>3. Ends'
  BY IInv, Close(c), ConnFacts DEF IInv, Close, Ends, Types, Phases
<1>4. TableSound'
  BY IInv, Close(c), NoConnAssumption
  DEF IInv, Close, TableSound, Guarded, Types, Phases
<1>5. Kept'
  BY IInv, Close(c) DEF IInv, Close, Kept, Adopted, Registered, Types, Phases
<1>6. QED
  BY <1>1, <1>2, <1>3, <1>4, <1>5 DEF IInv

\* ReadErr preserves IInv.
LEMMA ReadErrStep ==
    ASSUME IInv, NEW c \in Conn, ReadErr(c)
    PROVE  IInv'
<1>1. Types'
  BY IInv, ReadErr(c) DEF IInv, ReadErr, Types, Tasks, Readers, Lives
<1>2. Phases'
  BY IInv, ReadErr(c) DEF IInv, ReadErr, Phases, Types
<1>3. Ends'
  BY IInv, ReadErr(c), ConnFacts DEF IInv, ReadErr, Ends, Types, Phases
<1>4. TableSound'
  BY IInv, ReadErr(c), NoConnAssumption
  DEF IInv, ReadErr, TableSound, Guarded, Types, Phases
<1>5. Kept'
  BY IInv, ReadErr(c)
  DEF IInv, ReadErr, Kept, Adopted, Registered, Types, Phases
<1>6. QED
  BY <1>1, <1>2, <1>3, <1>4, <1>5 DEF IInv

\* unregister preserves IInv.
LEMMA unregisterStep ==
    ASSUME IInv, NEW c \in Conn, unregister(c)
    PROVE  IInv'
<1> DEFINE n == Owner(c)
           p == Remote(c)
<1>1. n \in Node /\ p \in Node
  BY ConnFacts
<1>2. /\ reader[c] = "shutdown" /\ closed[c]
      /\ reader'[c] \in {"down", "ended"}
      /\ \A d \in Conn \ {c} : reader'[d] = reader[d]
  BY IInv, unregister(c) DEF IInv, unregister, Types, Phases
<1>3. reader' \in [Conn -> Readers]
  BY IInv, unregister(c) DEF IInv, unregister, Types, Readers
<1>4. /\ conns' \in [Node -> [Node -> Conn \cup {NoConn}]]
      /\ \A a, b \in Node : conns'[a][b] # conns[a][b]
                            => conns'[a][b] = NoConn /\ conns[a][b] = c
      /\ \A a, b \in Node : conns'[a][b] # c \/ ~(a = n /\ b = p)
  <2>1. CASE Registered(c)
    <3>1. conns' = [conns EXCEPT ![n][p] = NoConn]
      BY unregister(c), <2>1 DEF unregister
    <3>2. QED
      BY IInv, <1>1, <2>1, <3>1, TableUpdate, NoConnAssumption
      DEF IInv, Types, Registered
  <2>2. CASE ~Registered(c)
    BY IInv, unregister(c), <1>1, <2>2 DEF IInv, unregister, Types, Registered
  <2>3. QED
    BY <2>1, <2>2
<1>5. Types'
  BY IInv, unregister(c), <1>3, <1>4 DEF IInv, unregister, Types
<1>6. Phases' /\ Ends'
  BY IInv, unregister(c), <1>2, ConnFacts DEF IInv, unregister, Phases, Ends
<1>7. TableSound'
  <2>1. ASSUME NEW a \in Node, NEW b \in Node,
               NEW d, d = conns'[a][b], d # NoConn
        PROVE  Owner(d) = a /\ Remote(d) = b /\ a # b /\ Guarded(d)'
    <3>1. d = conns[a][b] /\ d \in Conn
      BY IInv, <1>4, <2>1 DEF IInv, Types
    <3>2. Owner(d) = a /\ Remote(d) = b /\ a # b /\ Guarded(d)
      BY IInv, <2>1, <3>1 DEF IInv, TableSound
    <3>3. d # c
      BY <1>4, <2>1, <3>2
    <3>4. QED
      BY unregister(c), <1>2, <3>1, <3>2, <3>3 DEF unregister, Guarded
  <2>2. QED
    BY <2>1 DEF TableSound, Guarded
<1>8. Kept'
  <2> SUFFICES ASSUME NEW d \in Conn, Adopted(d)', ~closed'[d]
               PROVE  \/ Registered(d)'
                      \/ \E e \in Conn : task'[e] = "swap" /\ loser'[e] = d
    BY DEF Kept
  <2>1. Adopted(d) /\ ~closed[d] /\ d # c
    BY unregister(c), <1>2 DEF unregister, Adopted
  <2>2. CASE Registered(d)
    BY <1>4, <2>1, <2>2, ConnFacts DEF Registered
  <2>3. CASE \E e \in Conn : task[e] = "swap" /\ loser[e] = d
    BY unregister(c), <2>3 DEF unregister
  <2>4. QED
    BY IInv, <2>1, <2>2, <2>3 DEF IInv, Kept
<1>9. QED
  BY <1>5, <1>6, <1>7, <1>8 DEF IInv

\* OnDown preserves IInv.
LEMMA OnDownStep ==
    ASSUME IInv, NEW c \in Conn, OnDown(c)
    PROVE  IInv'
<1>1. Types'
  BY IInv, OnDown(c), ConnFacts DEF IInv, OnDown, Types, Readers
<1>2. Phases'
  BY IInv, OnDown(c) DEF IInv, OnDown, Phases, Types
<1>3. Ends'
  BY IInv, OnDown(c), ConnFacts DEF IInv, OnDown, Ends, Types, Phases
<1>4. TableSound'
  BY IInv, OnDown(c), NoConnAssumption
  DEF IInv, OnDown, TableSound, Guarded, Types, Phases
<1>5. Kept'
  BY IInv, OnDown(c) DEF IInv, OnDown, Kept, Adopted, Registered, Types, Phases
<1>6. QED
  BY <1>1, <1>2, <1>3, <1>4, <1>5 DEF IInv

\* Cancel preserves IInv.
LEMMA CancelStep ==
    ASSUME IInv, NEW n \in Node, Cancel(n)
    PROVE  IInv'
<1>1. Types'
  BY IInv, Cancel(n) DEF IInv, Cancel, Types, Tasks, Readers, Lives
<1>2. Phases'
  BY IInv, Cancel(n) DEF IInv, Cancel, Phases, Types
<1>3. Ends'
  BY IInv, Cancel(n), ConnFacts DEF IInv, Cancel, Ends, Types, Phases
<1>4. TableSound'
  BY IInv, Cancel(n), NoConnAssumption
  DEF IInv, Cancel, TableSound, Guarded, Types, Phases
<1>5. Kept'
  BY IInv, Cancel(n) DEF IInv, Cancel, Kept, Adopted, Registered, Types, Phases
<1>6. QED
  BY <1>1, <1>2, <1>3, <1>4, <1>5 DEF IInv

\* CloseAll preserves IInv.
LEMMA CloseAllStep ==
    ASSUME IInv, NEW n \in Node, CloseAll(n)
    PROVE  IInv'
<1>1. Types'
  BY IInv, CloseAll(n) DEF IInv, CloseAll, Peers, Types, Tasks, Readers, Lives
<1>2. Phases'
  BY IInv, CloseAll(n) DEF IInv, CloseAll, Peers, Phases, Types
<1>3. Ends'
  BY IInv, CloseAll(n), ConnFacts
  DEF IInv, CloseAll, Peers, Ends, Types, Phases
<1>4. TableSound'
  BY IInv, CloseAll(n), NoConnAssumption
  DEF IInv, CloseAll, Peers, TableSound, Guarded, Types, Phases
<1>5. Kept'
  BY IInv, CloseAll(n)
  DEF IInv, CloseAll, Peers, Kept, Adopted, Registered, Types, Phases
<1>6. QED
  BY <1>1, <1>2, <1>3, <1>4, <1>5 DEF IInv

\* CloseNext preserves IInv.
LEMMA CloseNextStep ==
    ASSUME IInv, NEW n \in Node, CloseNext(n)
    PROVE  IInv'
<1>1. CASE /\ doomed[n] = {}
           /\ life' = [life EXCEPT ![n] = "closed"]
           /\ UNCHANGED <<closed, doomed>>
  BY IInv, CloseNext(n), <1>1
  DEF IInv, CloseNext, Types, Lives, Phases, Ends, TableSound, Guarded, Kept,
      Adopted, Registered
<1>2. ASSUME NEW c \in doomed[n],
             closed' = [closed EXCEPT ![c] = TRUE],
             doomed' = [doomed EXCEPT ![n] = @ \ {c}],
             UNCHANGED life
      PROVE  IInv'
  <2>1. c \in Conn
    BY IInv DEF IInv, Types
  <2>2. closed' \in [Conn -> BOOLEAN]
    BY IInv, <1>2, Zenon DEF IInv, Types
  <2>3. doomed' \in [Node -> SUBSET Conn]
    BY IInv, <1>2 DEF IInv, Types
  <2>4. Types'
    BY IInv, CloseNext(n), <1>2, <2>2, <2>3 DEF IInv, CloseNext, Types
  <2>5. \A d \in Conn : closed[d] => closed'[d]
    BY IInv, <1>2, <2>1 DEF IInv, Types
  <2>6. Phases' /\ Ends' /\ TableSound'
    BY IInv, CloseNext(n), <2>5
    DEF IInv, CloseNext, Phases, Ends, TableSound, Guarded
  <2>7. Kept'
    BY IInv, CloseNext(n), <2>5 DEF IInv, CloseNext, Kept, Adopted, Registered
  <2>8. QED
    BY <2>4, <2>6, <2>7 DEF IInv
<1>3. QED
  BY CloseNext(n), <1>1, <1>2 DEF CloseNext

----------------------------------------------------------------------------
(* The theorems that follow from IInv.                                     *)

\* IInv holds initially: nothing has been dialed.
LEMMA IInvInit ==
    ASSUME Init
    PROVE  IInv
  BY Init, ConnFacts, NoConnAssumption
  DEF Init, IInv, Types, Tasks, Readers, Lives, Phases, Ends, TableSound, Kept,
      Adopted

\* Every step of every goroutine preserves IInv.
LEMMA IInvNext ==
    ASSUME IInv, [Next]_vars
    PROVE  IInv'
<1>1. CASE UNCHANGED vars
  BY IInv, <1>1
  DEF vars, IInv, Types, Phases, Ends, TableSound, Guarded, Kept, Adopted,
      Registered
<1>2. ASSUME NEW s \in Session, Dial(s)
      PROVE  IInv'
  BY IInv, <1>2, DialStep
<1>3. ASSUME NEW c \in Conn, TaskStep(c)
      PROVE  IInv'
  <2>1. c[1] \in Session
    BY ConnFacts
  <2>2. QED
    BY IInv, <1>3, <2>1, AcceptStep, ReadHelloStep, ReadWelcomeStep,
       HandshakeFailStep, adoptStep, RejectStep, CloseLoserStep, StartStep,
       HookStep
    DEF TaskStep
<1>4. ASSUME NEW c \in Conn, ReaderStep(c)
      PROVE  IInv'
  BY IInv, <1>4, ReadErrStep, unregisterStep, OnDownStep DEF ReaderStep
<1>5. ASSUME NEW c \in Conn, HandshakeFail(c) \/ ReadErr(c) \/ Close(c)
      PROVE  IInv'
  BY IInv, <1>5, HandshakeFailStep, ReadErrStep, CloseStep
<1>6. ASSUME NEW n \in Node, Cancel(n) \/ CloseAll(n) \/ CloseNext(n)
      PROVE  IInv'
  BY IInv, <1>6, CancelStep, CloseAllStep, CloseNextStep
<1>7. QED
  BY <1>1, <1>2, <1>3, <1>4, <1>5, <1>6 DEF Next

\* The inductive invariant holds in every reachable state.
THEOREM Invariance == Spec => []IInv
  BY IInvInit, IInvNext, PTL DEF Spec

\* No table of any node ever holds an entry that no goroutine will remove, an
\* entry for the wrong peer, or one for the node itself.
THEOREM TablesSound == Spec => []TableSound
  BY Invariance, PTL DEF IInv

\* NoOrphan is Kept, restricted to connections that have been started.
LEMMA KeptNoOrphan ==
    ASSUME Kept
    PROVE  NoOrphan
  BY Kept DEF Kept, Adopted, NoOrphan

\* No open session is ever read outside the table, except a replaced one
\* between the critical section of adopt and drop.Close().
THEOREM NoOrphans == Spec => []NoOrphan
  BY Invariance, KeptNoOrphan, PTL DEF IInv

\* An entry at rest has a live other end, which must be registered there.
LEMMA IInvAgreement ==
    ASSUME IInv
    PROVE  Agreement
<1> SUFFICES ASSUME Settled, NEW n \in Node, NEW p \in Node,
                    conns[n][p] # NoConn
             PROVE  conns[p][n] = Mate(conns[n][p])
  BY DEF Agreement
<1> DEFINE c == conns[n][p]
<1>1. /\ c \in Conn /\ Mate(c) \in Conn
      /\ Owner(c) = n /\ Remote(c) = p /\ Guarded(c)
      /\ Owner(Mate(c)) = p /\ Remote(Mate(c)) = n
  BY IInv, ConnFacts DEF IInv, Types, TableSound
<1>2. \A d \in Conn : task[d] \in {"idle", "done"}
  BY Settled, ConnFacts DEF Settled
<1>3. reader[c] = "reading" /\ ~closed[c] /\ ~closed[Mate(c)]
  BY Settled, <1>1, <1>2 DEF Guarded, Settled
<1>4. c[1] \in welcomed /\ task[c] = "done"
  BY IInv, <1>1, <1>2, <1>3 DEF IInv, Ends, Phases
<1>5. task[Mate(c)] = "done"
  <2>1. CASE Inbound(c)
    BY IInv, <1>1, <1>2, <1>4, <2>1 DEF IInv, Ends
  <2>2. CASE ~Inbound(c)
    <3>1. Inbound(Mate(c)) /\ Mate(c)[1] \in welcomed
      BY <1>1, <1>4, <2>2, ConnFacts
    <3>2. QED
      BY IInv, <1>1, <1>2, <3>1 DEF IInv, Ends
  <2>3. QED
    BY <2>1, <2>2
<1>6. reader[Mate(c)] = "reading"
  BY IInv, Settled, <1>1, <1>3, <1>5 DEF IInv, Phases, Settled
<1>7. Registered(Mate(c))
  BY IInv, <1>1, <1>2, <1>3, <1>6 DEF IInv, Kept, Adopted
<1>8. QED
  BY <1>1, <1>7 DEF Registered

\* Whenever nothing is under way, two nodes that have an entry for each other
\* have the two ends of one socket, and neither has an entry alone.
THEOREM EndsAgree == Spec => []Agreement
  BY Invariance, IInvAgreement, PTL

\* Only adopt and unregister write a table, and how they do.
LEMMA IInvWinnerKept ==
    ASSUME IInv, [Next]_vars, NEW n \in Node, NEW p \in Node,
           conns[n][p] # NoConn, conns'[n][p] # conns[n][p]
    PROVE  IF conns'[n][p] = NoConn
           THEN closed[conns[n][p]]
           ELSE Preferred(conns'[n][p]) /\ ~Preferred(conns[n][p])
<1> DEFINE old == conns[n][p]
<1>1. old \in Conn /\ Owner(old) = n /\ Remote(old) = p
  BY IInv DEF IInv, Types, TableSound
<1>2. ASSUME NEW c \in Conn, unregister(c)
      PROVE  conns'[n][p] = NoConn /\ closed[old]
  <2>1. Registered(c) /\ conns' = [conns EXCEPT ![Owner(c)][Remote(c)] = NoConn]
    BY <1>2 DEF unregister
  <2>2. Owner(c) \in Node /\ Remote(c) \in Node
    BY ConnFacts
  <2>3. Owner(c) = n /\ Remote(c) = p /\ conns'[n][p] = NoConn
    BY IInv, <2>1, <2>2, TableUpdate DEF IInv, Types
  <2>4. old = c
    BY <2>1, <2>3 DEF Registered
  <2>5. QED
    BY IInv, <1>2, <2>3, <2>4 DEF IInv, Phases, unregister
<1>3. ASSUME NEW c \in Conn, adopt(c)
      PROVE  /\ conns'[n][p] = c
             /\ Preferred(c) /\ ~Preferred(old)
  <2>1. AdoptNew(c) \/ AdoptReplace(c)
    BY <1>3 DEF adopt, AdoptTooMany, AdoptDuplicate
  <2>2. conns' = [conns EXCEPT ![Owner(c)][Remote(c)] = c]
    BY <2>1 DEF AdoptNew, AdoptReplace
  <2>3. Owner(c) \in Node /\ Remote(c) \in Node
    BY ConnFacts
  <2>4. Owner(c) = n /\ Remote(c) = p /\ conns'[n][p] = c
    BY IInv, <2>2, <2>3, TableUpdate DEF IInv, Types
  <2>5. Existing(c) = old /\ AdoptReplace(c)
    BY <2>1, <2>4 DEF Existing, AdoptNew
  <2>6. Inbound(c) # Inbound(old) /\ Preferred(c)
    BY <2>5 DEF AdoptReplace
  <2>7. QED
    BY <1>1, <2>4, <2>6, ConnFacts DEF Preferred
<1>4. (\E c \in Conn : unregister(c) \/ adopt(c)) \/ UNCHANGED conns
  BY DEF Next, vars, TaskStep, ReaderStep, Dial, Accept, ReadHello,
     ReadWelcome, HandshakeFail, Reject, CloseLoser, Start, Hook, Close,
     ReadErr, OnDown, Cancel, CloseAll, CloseNext
<1>5. QED
  BY <1>1, <1>2, <1>3, <1>4, NoConnAssumption

\* A live entry is only ever displaced by the preferred direction and only
\* ever deleted by its own closed connection.
THEOREM WinnersKept == Spec => WinnerKept
<1>1. ASSUME IInv, [Next]_vars
      PROVE  [\A n, p \in Node :
                conns[n][p] # NoConn /\ conns'[n][p] # conns[n][p]
                => IF conns'[n][p] = NoConn
                   THEN closed[conns[n][p]]
                   ELSE Preferred(conns'[n][p]) /\ ~Preferred(conns[n][p])]_vars
  BY IInv, [Next]_vars, IInvWinnerKept
<1>2. QED
  BY <1>1, Invariance, PTL DEF Spec, WinnerKept

----------------------------------------------------------------------------
(* The limits.                                                             *)

\* A table is finite.
LEMMA PeersFinite ==
    ASSUME NEW n \in Node
    PROVE  IsFiniteSet(Peers(n)) /\ Cardinality(Peers(n)) \in Nat
  BY NodeAssumption, FS_Subset, FS_CardinalityType DEF Peers

\* Only AdoptNew grows a table, and it found room.
LEMMA PeersBoundedNext ==
    ASSUME IInv, PeersBounded, [Next]_vars
    PROVE  PeersBounded'
<1> SUFFICES ASSUME MaxPeers > 0, NEW n \in Node
             PROVE  Cardinality(Peers(n)') <= MaxPeers
  BY DEF PeersBounded
<1>1. Cardinality(Peers(n)) <= MaxPeers
  BY PeersBounded DEF PeersBounded
<1>2. CASE UNCHANGED conns
  BY <1>1, <1>2 DEF Peers
<1>3. ASSUME NEW c \in Conn, unregister(c)
      PROVE  Cardinality(Peers(n)') <= MaxPeers
  <2>1. Owner(c) \in Node /\ Remote(c) \in Node
    BY ConnFacts
  <2>2. Peers(n)' \subseteq Peers(n)
    <3>1. CASE Registered(c)
      <4>1. conns' = [conns EXCEPT ![Owner(c)][Remote(c)] = NoConn]
        BY <1>3, <3>1 DEF unregister
      <4>2. QED
        BY IInv, <2>1, <4>1, TableUpdate DEF IInv, Types, Peers
    <3>2. CASE ~Registered(c)
      BY <1>3, <3>2 DEF unregister, Peers
    <3>3. QED
      BY <3>1, <3>2
  <2>3. /\ Cardinality(Peers(n)') \in Nat
        /\ Cardinality(Peers(n)') <= Cardinality(Peers(n))
    BY <2>2, PeersFinite, FS_Subset, FS_CardinalityType
  <2>4. QED
    BY <1>1, <2>3, PeersFinite, BoundAssumption
<1>4. ASSUME NEW c \in Conn, adopt(c)
      PROVE  Cardinality(Peers(n)') <= MaxPeers
  <2>1. Owner(c) \in Node /\ Remote(c) \in Node
    BY ConnFacts
  <2>2. CASE UNCHANGED conns
    BY <1>1, <2>2 DEF Peers
  <2>3. CASE conns' = [conns EXCEPT ![Owner(c)][Remote(c)] = c]
    <3>1. /\ Owner(c) = n => Peers(n)' = Peers(n) \cup {Remote(c)}
          /\ Owner(c) # n => Peers(n)' = Peers(n)
      BY IInv, <2>1, <2>3, TableUpdate, NoConnAssumption
      DEF IInv, Types, Peers
    <3>2. CASE Owner(c) = n /\ Remote(c) \notin Peers(n)
      <4>1. ~Full(n)
        <5>1. Existing(c) = NoConn /\ Peers(n)' # Peers(n)
          BY <2>1, <3>1, <3>2 DEF Existing, Peers
        <5>2. AdoptNew(c)
          BY <1>4, <5>1
          DEF adopt, AdoptTooMany, AdoptReplace, AdoptDuplicate, Peers
        <5>3. QED
          BY <3>2, <5>2 DEF AdoptNew
      <4>2. Cardinality(Peers(n)) < MaxPeers
        BY <4>1, PeersFinite, BoundAssumption DEF Full
      <4>3. Cardinality(Peers(n)') = Cardinality(Peers(n)) + 1
        BY <3>1, <3>2, PeersFinite, FS_AddElement
      <4>4. QED
        BY <4>2, <4>3, PeersFinite, BoundAssumption
    <3>3. CASE Owner(c) # n \/ Remote(c) \in Peers(n)
      <4>1. Peers(n)' = Peers(n)
        BY <3>1, <3>3
      <4>2. QED
        BY <1>1, <4>1
    <3>4. QED
      BY <3>2, <3>3
  <2>4. QED
    BY <1>4, <2>2, <2>3
    DEF adopt, AdoptTooMany, AdoptNew, AdoptReplace, AdoptDuplicate
<1>5. (\E c \in Conn : unregister(c) \/ adopt(c)) \/ UNCHANGED conns
  BY DEF Next, vars, TaskStep, ReaderStep, Dial, Accept, ReadHello,
     ReadWelcome, HandshakeFail, Reject, CloseLoser, Start, Hook, Close,
     ReadErr, OnDown, Cancel, CloseAll, CloseNext
<1>6. QED
  BY <1>2, <1>3, <1>4, <1>5

\* Simultaneous handshakes never push a table over config.MaxPeers.
THEOREM PeersStayBounded == Spec => []PeersBounded
<1>1. Init => PeersBounded
  <2>1. ASSUME Init, NEW n \in Node
        PROVE  Cardinality(Peers(n)) = 0
    <3>1. Peers(n) = {}
      BY <2>1 DEF Init, Peers
    <3>2. QED
      BY <3>1, FS_EmptySet
  <2>2. QED
    BY <2>1, BoundAssumption DEF PeersBounded
<1>2. QED
  BY <1>1, Invariance, PeersBoundedNext, PTL DEF Spec

\* There are finitely many connections.
LEMMA ConnFinite == IsFiniteSet(Conn)
<1>1. IsFiniteSet({"out", "in"})
  <2>1. IsFiniteSet({"out"} \cup {"in"})
    BY FS_Singleton, FS_AddElement
  <2>2. {"out", "in"} = {"out"} \cup {"in"}
    OBVIOUS
  <2>3. QED
    BY <2>1, <2>2
<1>2. QED
  BY <1>1, SessionAssumption, FS_Product DEF Conn

\* Finitely many sockets hold a slot.
LEMMA BusyFinite ==
    ASSUME NEW n \in Node
    PROVE  IsFiniteSet(Busy(n)) /\ Cardinality(Busy(n)) \in Nat
  BY ConnFinite, FS_Subset, FS_CardinalityType DEF Busy

\* The semaphore's count, also when there is no semaphore.
SlotsInv == SlotsExact /\ (MaxHandshakes = 0 => \A n \in Node : slots[n] = 0)

\* A step that neither takes nor gives back a slot.
LEMMA SlotsKept ==
    ASSUME SlotsInv, UNCHANGED slots,
           \A c \in Conn : Inbound(c) => (task'[c] \in {"idle", "done"}
                                          <=> task[c] \in {"idle", "done"})
    PROVE  SlotsInv'
<1>1. \A n \in Node : Busy(n)' = Busy(n)
  BY DEF Busy
<1>2. QED
  BY SlotsInv, <1>1 DEF SlotsInv, SlotsExact

\* The deferred release, on every way out of adoptInbound.
LEMMA SlotsReleased ==
    ASSUME Types, SlotsInv, NEW c \in Conn, task[c] \notin {"idle", "done"},
           task' = [task EXCEPT ![c] = "done"], Release(c)
    PROVE  SlotsInv'
<1>1. CASE ~(Inbound(c) /\ MaxHandshakes > 0)
  <2>1. slots' = slots
    BY <1>1 DEF Release
  <2>2. CASE ~Inbound(c)
    BY SlotsInv, <2>1, <2>2, SlotsKept DEF Types
  <2>3. CASE ~(MaxHandshakes > 0)
    BY SlotsInv, <2>1, <2>3, BoundAssumption DEF SlotsInv, SlotsExact
  <2>4. QED
    BY <1>1, <2>2, <2>3
<1>2. CASE Inbound(c) /\ MaxHandshakes > 0
  <2> SUFFICES ASSUME NEW n \in Node
               PROVE  /\ slots'[n] = Cardinality(Busy(n)')
                      /\ slots'[n] <= MaxHandshakes
    BY <1>2 DEF SlotsInv, SlotsExact
  <2>1. slots[n] = Cardinality(Busy(n)) /\ slots[n] <= MaxHandshakes
    BY SlotsInv, <1>2 DEF SlotsInv, SlotsExact
  <2>2. CASE n = Owner(c)
    <3>1. Busy(n)' = Busy(n) \ {c} /\ c \in Busy(n)
      BY <1>2, <2>2 DEF Busy, Types
    <3>2. Cardinality(Busy(n)') = Cardinality(Busy(n)) - 1
      BY <3>1, BusyFinite, FS_RemoveElement
    <3>3. slots'[n] = slots[n] - 1
      BY <1>2, <2>2 DEF Release, Types
    <3>4. QED
      BY <2>1, <3>2, <3>3, BusyFinite, BoundAssumption
  <2>3. CASE n # Owner(c)
    <3>1. Busy(n)' = Busy(n)
      BY <2>3 DEF Busy, Types
    <3>2. slots'[n] = slots[n]
      BY <1>2, <2>3 DEF Release, Types
    <3>3. QED
      BY <2>1, <3>1, <3>2
  <2>4. QED
    BY <2>2, <2>3
<1>3. QED
  BY <1>1, <1>2

\* adoptInbound takes a slot, or finds none.
LEMMA SlotsAccept ==
    ASSUME IInv, SlotsInv, NEW s \in Session, Accept(s)
    PROVE  SlotsInv'
<1> USE EndFacts
<1>1. CASE MaxHandshakes > 0 /\ slots[To[s]] >= MaxHandshakes
  BY IInv, SlotsInv, Accept(s), <1>1, SlotsKept DEF IInv, Types, Accept
<1>2. CASE ~(MaxHandshakes > 0)
  BY SlotsInv, Accept(s), <1>2, BoundAssumption DEF SlotsInv, SlotsExact, Accept
<1>3. CASE MaxHandshakes > 0 /\ ~(slots[To[s]] >= MaxHandshakes)
  <2> SUFFICES ASSUME NEW n \in Node
               PROVE  /\ slots'[n] = Cardinality(Busy(n)')
                      /\ slots'[n] <= MaxHandshakes
    BY <1>3 DEF SlotsInv, SlotsExact
  <2>1. slots[n] = Cardinality(Busy(n)) /\ slots[n] <= MaxHandshakes
    BY SlotsInv, <1>3 DEF SlotsInv, SlotsExact
  <2>2. CASE n = To[s]
    <3>1. Busy(n)' = Busy(n) \cup {In(s)} /\ In(s) \notin Busy(n)
      BY IInv, Accept(s), <1>3, <2>2 DEF IInv, Types, Accept, Busy
    <3>2. Cardinality(Busy(n)') = Cardinality(Busy(n)) + 1
      BY <3>1, BusyFinite, FS_AddElement
    <3>3. slots'[n] = slots[n] + 1
      BY IInv, Accept(s), <1>3, <2>2 DEF IInv, Types, Accept
    <3>4. QED
      BY <1>3, <2>1, <2>2, <3>2, <3>3, BusyFinite, BoundAssumption
  <2>3. CASE n # To[s]
    <3>1. Busy(n)' = Busy(n)
      BY IInv, Accept(s), <1>3, <2>3 DEF IInv, Types, Accept, Busy
    <3>2. slots'[n] = slots[n]
      BY IInv, Accept(s), <1>3, <2>3 DEF IInv, Types, Accept
    <3>3. QED
      BY <2>1, <3>1, <3>2
  <2>4. QED
    BY <2>2, <2>3
<1>4. QED
  BY <1>1, <1>2, <1>3

\* The handshake ends in a refusal of the own Peer ID or goes on.
LEMMA SlotsIdentified ==
    ASSUME IInv, SlotsInv, NEW c \in Conn, task[c] = "handshake", Identified(c)
    PROVE  SlotsInv'
<1>1. CASE Remote(c) = Owner(c)
  BY IInv, SlotsInv, <1>1, SlotsReleased DEF IInv, Identified, GiveUp
<1>2. CASE Remote(c) # Owner(c)
  BY IInv, SlotsInv, <1>2, SlotsKept DEF IInv, Types, Identified
<1>3. QED
  BY <1>1, <1>2

\* Every step of HandshakeAndAdopt keeps the count.
LEMMA SlotsTask ==
    ASSUME IInv, SlotsInv, NEW c \in Conn, TaskStep(c) \/ HandshakeFail(c)
    PROVE  SlotsInv'
<1>1. c[1] \in Session
  BY ConnFacts
<1>2. CASE Accept(c[1])
  BY IInv, SlotsInv, <1>1, <1>2, SlotsAccept
<1>3. CASE ReadHello(c[1])
  BY IInv, SlotsInv, <1>1, <1>3, EndFacts, SlotsIdentified DEF ReadHello
<1>4. CASE ReadWelcome(c[1])
  BY IInv, SlotsInv, <1>1, <1>4, EndFacts, SlotsIdentified DEF ReadWelcome
<1>5. CASE HandshakeFail(c)
  BY IInv, SlotsInv, <1>5, SlotsReleased DEF IInv, HandshakeFail, GiveUp
<1>6. CASE adopt(c)
  <2>1. CASE AdoptTooMany(c)
    BY IInv, SlotsInv, <1>6, <2>1, SlotsReleased
    DEF IInv, adopt, AdoptTooMany, GiveUp
  <2>2. CASE AdoptNew(c)
    BY IInv, SlotsInv, <1>6, <2>2, SlotsKept DEF IInv, Types, adopt, AdoptNew
  <2>3. CASE AdoptReplace(c)
    BY IInv, SlotsInv, <1>6, <2>3, SlotsKept
    DEF IInv, Types, adopt, AdoptReplace
  <2>4. CASE AdoptDuplicate(c)
    BY IInv, SlotsInv, <1>6, <2>4, SlotsKept
    DEF IInv, Types, adopt, AdoptDuplicate
  <2>5. QED
    BY <1>6, <2>1, <2>2, <2>3, <2>4 DEF adopt
<1>7. CASE Reject(c)
  BY IInv, SlotsInv, <1>7, SlotsReleased DEF IInv, Reject, GiveUp
<1>8. CASE CloseLoser(c)
  BY IInv, SlotsInv, <1>8, SlotsKept DEF IInv, Types, CloseLoser
<1>9. CASE Start(c)
  BY IInv, SlotsInv, <1>9, SlotsKept DEF IInv, Types, Start
<1>10. CASE Hook(c)
  BY IInv, SlotsInv, <1>10, SlotsReleased DEF IInv, Hook
<1>11. QED
  BY <1>2, <1>3, <1>4, <1>5, <1>6, <1>7, <1>8, <1>9, <1>10 DEF TaskStep

\* Every step keeps the count.
LEMMA SlotsNext ==
    ASSUME IInv, SlotsInv, [Next]_vars
    PROVE  SlotsInv'
<1>1. ASSUME NEW s \in Session, Dial(s)
      PROVE  SlotsInv'
  <2>1. \A c \in Conn : Inbound(c) => task'[c] = task[c]
    BY IInv, <1>1, EndFacts DEF IInv, Types, Dial
  <2>2. QED
    BY SlotsInv, <1>1, <2>1, SlotsKept DEF Dial
<1>2. CASE UNCHANGED <<task, slots>>
  BY SlotsInv, <1>2, SlotsKept
<1>3. \/ \E s \in Session : Dial(s)
      \/ \E c \in Conn : TaskStep(c) \/ HandshakeFail(c)
      \/ UNCHANGED <<task, slots>>
  BY DEF Next, vars, ReaderStep, Close, ReadErr, unregister, OnDown, Cancel,
     CloseAll, CloseNext
<1>4. QED
  BY IInv, SlotsInv, <1>1, <1>2, <1>3, SlotsTask

\* No slot is taken initially.
LEMMA SlotsInit ==
    ASSUME Init
    PROVE  SlotsInv
<1>1. ASSUME NEW n \in Node
      PROVE  slots[n] = 0 /\ Cardinality(Busy(n)) = 0
  <2>1. Busy(n) = {}
    BY Init DEF Init, Busy
  <2>2. QED
    BY Init, <2>1, FS_EmptySet DEF Init
<1>2. QED
  BY <1>1, BoundAssumption DEF SlotsInv, SlotsExact

\* Handshake slots are neither leaked nor given back twice, and never exceed
\* config.MaxHandshakes.
THEOREM SlotsAreExact == Spec => []SlotsExact
  BY SlotsInit, Invariance, SlotsNext, PTL DEF Spec, SlotsInv

\* The exact count gives slots its sign.
LEMMA TypesTypeOK ==
    ASSUME Types, SlotsInv
    PROVE  TypeOK
<1>1. slots \in [Node -> Nat]
  BY Types, SlotsInv, BusyFinite, BoundAssumption
  DEF Types, SlotsInv, SlotsExact
<1>2. QED
  BY Types, <1>1 DEF Types, TypeOK

\* Every variable keeps its type; that slots never goes below zero rests on
\* the exact count.
THEOREM TypeCorrect == Spec => []TypeOK
  BY SlotsInit, Invariance, SlotsNext, TypesTypeOK, PTL DEF Spec, IInv

----------------------------------------------------------------------------
(* The hooks.                                                              *)

\* The connections of n to p in the table whose onUp is still to run.
UpDue(n, p) == {c \in Conn : /\ Owner(c) = n /\ Remote(c) = p
                             /\ loser[c] = NoConn
                             /\ task[c] \in {"start", "hook"}}

\* The connections of n to p out of the table whose onDown is still to run.
DownDue(n, p) == {c \in Conn : /\ Owner(c) = n /\ Remote(c) = p
                               /\ reader[c] = "down"}

Entry(n, p) == IF conns[n][p] = NoConn THEN 0 ELSE 1

\* What the hooks have counted is the table, up to the calls that are due.
Counted(n, p) ==
    balance[n][p] + Cardinality(UpDue(n, p))
      = Entry(n, p) + Cardinality(DownDue(n, p))

\* Only AdoptReplace names a connection to drop.
NoLoserYet ==
    \A c \in Conn : task[c] \in {"idle", "handshake", "adopt", "reject"}
                   => loser[c] = NoConn

HooksInv == NoLoserYet /\ \A n, p \in Node : Counted(n, p)

\* Finitely many hooks are due.
LEMMA DueFinite ==
    ASSUME NEW n \in Node, NEW p \in Node
    PROVE  /\ IsFiniteSet(UpDue(n, p)) /\ Cardinality(UpDue(n, p)) \in Nat
           /\ IsFiniteSet(DownDue(n, p)) /\ Cardinality(DownDue(n, p)) \in Nat
  BY ConnFinite, FS_Subset, FS_CardinalityType DEF UpDue, DownDue

\* Running one hook.
LEMMA BalanceUpdate ==
    ASSUME balance \in [Node -> [Node -> Int]],
           NEW n \in Node, NEW p \in Node, NEW k,
           balance' = [balance EXCEPT ![n][p] = k]
    PROVE  \A a, b \in Node : balance'[a][b]
                                 = IF a = n /\ b = p THEN k ELSE balance[a][b]
  OBVIOUS

\* A step that runs no hook and makes none due.
LEMMA HooksKept ==
    ASSUME HooksInv, UNCHANGED <<conns, balance, loser>>,
           \A c \in Conn :
               /\ reader'[c] = "down" <=> reader[c] = "down"
               /\ loser[c] = NoConn
                  => (task'[c] \in {"start", "hook"}
                      <=> task[c] \in {"start", "hook"})
               /\ task'[c] \in {"idle", "handshake", "adopt", "reject"}
                  => task[c] \in {"idle", "handshake", "adopt", "reject"}
    PROVE  HooksInv'
<1>1. ASSUME NEW n \in Node, NEW p \in Node
      PROVE  Counted(n, p)'
  <2>1. UpDue(n, p)' = UpDue(n, p) /\ DownDue(n, p)' = DownDue(n, p)
    BY DEF UpDue, DownDue
  <2>2. Entry(n, p)' = Entry(n, p) /\ balance'[n][p] = balance[n][p]
    BY DEF Entry
  <2>3. QED
    BY HooksInv, <2>1, <2>2 DEF HooksInv, Counted
<1>2. NoLoserYet'
  BY HooksInv DEF HooksInv, NoLoserYet
<1>3. QED
  BY <1>1, <1>2 DEF HooksInv

\* AdoptNew: one entry more and one onUp due.
LEMMA HooksAdoptNew ==
    ASSUME IInv, HooksInv, NEW c \in Conn, adopt(c), AdoptNew(c)
    PROVE  HooksInv'
<1>1. Owner(c) \in Node /\ Remote(c) \in Node
  BY ConnFacts
<1>2. /\ task[c] = "adopt" /\ task' = [task EXCEPT ![c] = "start"]
      /\ loser' = loser /\ reader' = reader /\ balance' = balance
      /\ task \in [Conn -> Tasks]
  BY IInv, adopt(c), AdoptNew(c) DEF IInv, Types, adopt, AdoptNew
<1>3. loser[c] = NoConn
  BY HooksInv, <1>2 DEF HooksInv, NoLoserYet
<1>4. NoLoserYet'
  BY HooksInv, <1>2 DEF HooksInv, NoLoserYet
<1>5. \A a, b \in Node :
        conns'[a][b] = IF a = Owner(c) /\ b = Remote(c) THEN c ELSE conns[a][b]
  BY IInv, AdoptNew(c), <1>1, TableUpdate DEF IInv, Types, AdoptNew
<1>6. ASSUME NEW n \in Node, NEW p \in Node
      PROVE  Counted(n, p)'
  <2>1. Counted(n, p)
    BY HooksInv DEF HooksInv
  <2>2. DownDue(n, p)' = DownDue(n, p) /\ balance'[n][p] = balance[n][p]
    BY <1>2 DEF DownDue
  <2>3. balance[n][p] \in Int
    BY IInv DEF IInv, Types
  <2>4. CASE n = Owner(c) /\ p = Remote(c)
    <3>1. UpDue(n, p)' = UpDue(n, p) \cup {c} /\ c \notin UpDue(n, p)
      BY <1>2, <1>3, <2>4 DEF UpDue
    <3>2. Cardinality(UpDue(n, p)') = Cardinality(UpDue(n, p)) + 1
      <4>1. IsFiniteSet(UpDue(n, p))
        BY DueFinite
      <4>2. Cardinality(UpDue(n, p) \cup {c}) = Cardinality(UpDue(n, p)) + 1
        BY <3>1, <4>1, FS_AddElement
      <4>3. QED
        BY <3>1, <4>2
    <3>3. Entry(n, p) = 0 /\ Entry(n, p)' = 1
      BY AdoptNew(c), <1>5, <2>4, NoConnAssumption
      DEF AdoptNew, Existing, Entry
    <3>4. QED
      BY <2>1, <2>2, <2>3, <3>2, <3>3, DueFinite DEF Counted
  <2>5. CASE ~(n = Owner(c) /\ p = Remote(c))
    <3>1. UpDue(n, p)' = UpDue(n, p)
      BY <1>2, <2>5 DEF UpDue
    <3>2. Entry(n, p)' = Entry(n, p)
      BY <1>5, <2>5 DEF Entry
    <3>3. QED
      BY <2>1, <2>2, <3>1, <3>2 DEF Counted
  <2>6. QED
    BY <2>4, <2>5
<1>7. QED
  BY <1>4, <1>6 DEF HooksInv

\* AdoptReplace: the entry stays one, and c will run onReplace, not onUp.
LEMMA HooksAdoptReplace ==
    ASSUME IInv, HooksInv, NEW c \in Conn, adopt(c), AdoptReplace(c)
    PROVE  HooksInv'
<1>1. Owner(c) \in Node /\ Remote(c) \in Node
  BY ConnFacts
<1>2. /\ task[c] = "adopt" /\ task' = [task EXCEPT ![c] = "swap"]
      /\ loser' = [loser EXCEPT ![c] = Existing(c)]
      /\ reader' = reader /\ balance' = balance
      /\ task \in [Conn -> Tasks] /\ loser \in [Conn -> Conn \cup {NoConn}]
  BY IInv, adopt(c), AdoptReplace(c) DEF IInv, Types, adopt, AdoptReplace
<1>3. NoLoserYet'
  BY HooksInv, <1>2 DEF HooksInv, NoLoserYet
<1>4. \A a, b \in Node :
        conns'[a][b] = IF a = Owner(c) /\ b = Remote(c) THEN c ELSE conns[a][b]
  BY IInv, AdoptReplace(c), <1>1, TableUpdate DEF IInv, Types, AdoptReplace
<1>5. ASSUME NEW n \in Node, NEW p \in Node
      PROVE  Counted(n, p)'
  <2>1. UpDue(n, p)' = UpDue(n, p)
    BY <1>2 DEF UpDue
  <2>2. DownDue(n, p)' = DownDue(n, p) /\ balance'[n][p] = balance[n][p]
    BY <1>2 DEF DownDue
  <2>3. Entry(n, p)' = Entry(n, p)
    BY AdoptReplace(c), <1>4, NoConnAssumption
    DEF AdoptReplace, Existing, Entry
  <2>4. QED
    BY HooksInv, <2>1, <2>2, <2>3 DEF HooksInv, Counted
<1>6. QED
  BY <1>3, <1>5 DEF HooksInv

\* Hook: the onUp that was due has run.
LEMMA HooksHook ==
    ASSUME IInv, HooksInv, NEW c \in Conn, Hook(c)
    PROVE  HooksInv'
<1>1. Owner(c) \in Node /\ Remote(c) \in Node
  BY ConnFacts
<1>2. /\ task[c] = "hook" /\ task' = [task EXCEPT ![c] = "done"]
      /\ loser' = loser /\ reader' = reader /\ conns' = conns
      /\ task \in [Conn -> Tasks]
  BY IInv, Hook(c) DEF IInv, Types, Hook
<1>3. CASE loser[c] # NoConn
  <2>1. balance' = balance
    BY Hook(c), <1>3 DEF Hook
  <2>2. QED
    BY HooksInv, <1>2, <1>3, <2>1, HooksKept
<1>4. CASE loser[c] = NoConn
  <2>1. NoLoserYet'
    BY HooksInv, <1>2 DEF HooksInv, NoLoserYet
  <2>2. balance' = [balance EXCEPT ![Owner(c)][Remote(c)] = @ + 1]
    BY Hook(c), <1>4 DEF Hook
  <2>3. ASSUME NEW n \in Node, NEW p \in Node
        PROVE  Counted(n, p)'
    <3>1. Counted(n, p)
      BY HooksInv DEF HooksInv
    <3>2. DownDue(n, p)' = DownDue(n, p) /\ Entry(n, p)' = Entry(n, p)
      BY <1>2 DEF DownDue, Entry
    <3>3. balance[n][p] \in Int
      BY IInv DEF IInv, Types
    <3>4. CASE n = Owner(c) /\ p = Remote(c)
      <4>1. UpDue(n, p)' = UpDue(n, p) \ {c} /\ c \in UpDue(n, p)
        BY <1>2, <1>4, <3>4 DEF UpDue
      <4>2. Cardinality(UpDue(n, p)') = Cardinality(UpDue(n, p)) - 1
        <5>1. IsFiniteSet(UpDue(n, p))
          BY DueFinite
        <5>2. Cardinality(UpDue(n, p) \ {c}) = Cardinality(UpDue(n, p)) - 1
          BY <4>1, <5>1, FS_RemoveElement
        <5>3. QED
          BY <4>1, <5>2
      <4>3. balance'[n][p] = balance[n][p] + 1
        BY IInv, <1>1, <2>2, <3>4, BalanceUpdate DEF IInv, Types
      <4>4. Entry(n, p) \in Int
        BY DEF Entry
      <4>5. QED
        BY <3>1, <3>2, <3>3, <4>2, <4>3, <4>4, DueFinite DEF Counted
    <3>5. CASE ~(n = Owner(c) /\ p = Remote(c))
      <4>1. UpDue(n, p)' = UpDue(n, p)
        BY <1>2, <3>5 DEF UpDue
      <4>2. balance'[n][p] = balance[n][p]
        BY IInv, <1>1, <2>2, <3>5, BalanceUpdate DEF IInv, Types
      <4>3. QED
        BY <3>1, <3>2, <4>1, <4>2 DEF Counted
    <3>6. QED
      BY <3>4, <3>5
  <2>4. QED
    BY <2>1, <2>3 DEF HooksInv
<1>5. QED
  BY <1>3, <1>4

\* unregister: a connection that removes itself owes an onDown.
LEMMA HooksUnregister ==
    ASSUME IInv, HooksInv, NEW c \in Conn, unregister(c)
    PROVE  HooksInv'
<1>1. Owner(c) \in Node /\ Remote(c) \in Node
  BY ConnFacts
<1>2. /\ reader[c] = "shutdown" /\ reader \in [Conn -> Readers]
      /\ UNCHANGED <<task, loser, balance>>
  BY IInv, unregister(c) DEF IInv, Types, unregister
<1>3. CASE ~Registered(c)
  <2>1. reader' = [reader EXCEPT ![c] = "ended"] /\ conns' = conns
    BY unregister(c), <1>3 DEF unregister
  <2>2. QED
    BY HooksInv, <1>2, <2>1, HooksKept
<1>4. CASE Registered(c)
  <2>1. /\ reader' = [reader EXCEPT ![c] = "down"]
        /\ conns' = [conns EXCEPT ![Owner(c)][Remote(c)] = NoConn]
    BY unregister(c), <1>4 DEF unregister
  <2>2. NoLoserYet'
    BY HooksInv, <1>2 DEF HooksInv, NoLoserYet
  <2>3. \A a, b \in Node :
          conns'[a][b] = IF a = Owner(c) /\ b = Remote(c) THEN NoConn
                         ELSE conns[a][b]
    BY IInv, <1>1, <2>1, TableUpdate DEF IInv, Types
  <2>4. ASSUME NEW n \in Node, NEW p \in Node
        PROVE  Counted(n, p)'
    <3>1. Counted(n, p)
      BY HooksInv DEF HooksInv
    <3>2. UpDue(n, p)' = UpDue(n, p) /\ balance'[n][p] = balance[n][p]
      BY <1>2 DEF UpDue
    <3>3. balance[n][p] \in Int
      BY IInv DEF IInv, Types
    <3>4. CASE n = Owner(c) /\ p = Remote(c)
      <4>1. DownDue(n, p)' = DownDue(n, p) \cup {c} /\ c \notin DownDue(n, p)
        BY <1>2, <2>1, <3>4 DEF DownDue
      <4>2. Cardinality(DownDue(n, p)') = Cardinality(DownDue(n, p)) + 1
        <5>1. IsFiniteSet(DownDue(n, p))
          BY DueFinite
        <5>2. Cardinality(DownDue(n, p) \cup {c}) = Cardinality(DownDue(n, p)) + 1
          BY <4>1, <5>1, FS_AddElement
        <5>3. QED
          BY <4>1, <5>2
      <4>3. Entry(n, p) = 1 /\ Entry(n, p)' = 0
        BY <1>4, <2>3, <3>4, NoConnAssumption DEF Registered, Entry
      <4>4. QED
        BY <3>1, <3>2, <3>3, <4>2, <4>3, DueFinite DEF Counted
    <3>5. CASE ~(n = Owner(c) /\ p = Remote(c))
      <4>1. DownDue(n, p)' = DownDue(n, p)
        BY <1>2, <2>1, <3>5 DEF DownDue
      <4>2. Entry(n, p)' = Entry(n, p)
        BY <2>3, <3>5 DEF Entry
      <4>3. QED
        BY <3>1, <3>2, <4>1, <4>2 DEF Counted
    <3>6. QED
      BY <3>4, <3>5
  <2>5. QED
    BY <2>2, <2>4 DEF HooksInv
<1>5. QED
  BY <1>3, <1>4

\* OnDown: the call that was due has run.
LEMMA HooksOnDown ==
    ASSUME IInv, HooksInv, NEW c \in Conn, OnDown(c)
    PROVE  HooksInv'
<1>1. Owner(c) \in Node /\ Remote(c) \in Node
  BY ConnFacts
<1>2. /\ reader[c] = "down" /\ reader' = [reader EXCEPT ![c] = "ended"]
      /\ reader \in [Conn -> Readers] /\ UNCHANGED <<task, loser, conns>>
      /\ balance' = [balance EXCEPT ![Owner(c)][Remote(c)] = @ - 1]
  BY IInv, OnDown(c) DEF IInv, Types, OnDown
<1>3. NoLoserYet'
  BY HooksInv, <1>2 DEF HooksInv, NoLoserYet
<1>4. ASSUME NEW n \in Node, NEW p \in Node
      PROVE  Counted(n, p)'
  <2>1. Counted(n, p)
    BY HooksInv DEF HooksInv
  <2>2. UpDue(n, p)' = UpDue(n, p) /\ Entry(n, p)' = Entry(n, p)
    BY <1>2 DEF UpDue, Entry
  <2>3. balance[n][p] \in Int
    BY IInv DEF IInv, Types
  <2>4. CASE n = Owner(c) /\ p = Remote(c)
    <3>1. DownDue(n, p)' = DownDue(n, p) \ {c} /\ c \in DownDue(n, p)
      BY <1>2, <2>4 DEF DownDue
    <3>2. Cardinality(DownDue(n, p)') = Cardinality(DownDue(n, p)) - 1
      <4>1. IsFiniteSet(DownDue(n, p))
        BY DueFinite
      <4>2. Cardinality(DownDue(n, p) \ {c}) = Cardinality(DownDue(n, p)) - 1
        BY <3>1, <4>1, FS_RemoveElement
      <4>3. QED
        BY <3>1, <4>2
    <3>3. balance'[n][p] = balance[n][p] - 1
      BY IInv, <1>1, <1>2, <2>4, BalanceUpdate DEF IInv, Types
    <3>4. Entry(n, p) \in Int
      BY DEF Entry
    <3>5. QED
      BY <2>1, <2>2, <2>3, <3>2, <3>3, <3>4, DueFinite DEF Counted
  <2>5. CASE ~(n = Owner(c) /\ p = Remote(c))
    <3>1. DownDue(n, p)' = DownDue(n, p)
      BY <1>2, <2>5 DEF DownDue
    <3>2. balance'[n][p] = balance[n][p]
      BY IInv, <1>1, <1>2, <2>5, BalanceUpdate DEF IInv, Types
    <3>3. QED
      BY <2>1, <2>2, <3>1, <3>2 DEF Counted
  <2>6. QED
    BY <2>4, <2>5
<1>5. QED
  BY <1>3, <1>4 DEF HooksInv

\* Every step keeps the count.
LEMMA HooksNext ==
    ASSUME IInv, HooksInv, [Next]_vars
    PROVE  HooksInv'
<1>1. ASSUME NEW c \in Conn, adopt(c)
      PROVE  HooksInv'
  <2>1. CASE AdoptNew(c)
    BY IInv, HooksInv, <1>1, <2>1, HooksAdoptNew
  <2>2. CASE AdoptReplace(c)
    BY IInv, HooksInv, <1>1, <2>2, HooksAdoptReplace
  <2>3. CASE AdoptTooMany(c) \/ AdoptDuplicate(c)
    BY IInv, HooksInv, <1>1, <2>3, HooksKept
    DEF IInv, Types, adopt, AdoptTooMany, AdoptDuplicate, GiveUp
  <2>4. QED
    BY <1>1, <2>1, <2>2, <2>3 DEF adopt
<1>2. ASSUME NEW s \in Session,
             Dial(s) \/ Accept(s) \/ ReadHello(s) \/ ReadWelcome(s)
      PROVE  HooksInv'
  <2> USE EndFacts
  <2>1. CASE Dial(s)
    BY IInv, HooksInv, <2>1, HooksKept DEF IInv, Types, Dial
  <2>2. CASE Accept(s)
    BY IInv, HooksInv, <2>2, HooksKept DEF IInv, Types, Accept
  <2>3. CASE ReadHello(s)
    BY IInv, HooksInv, <2>3, HooksKept
    DEF IInv, Types, ReadHello, Identified, GiveUp
  <2>4. CASE ReadWelcome(s)
    BY IInv, HooksInv, <2>4, HooksKept
    DEF IInv, Types, ReadWelcome, Identified, GiveUp
  <2>5. QED
    BY <1>2, <2>1, <2>2, <2>3, <2>4
<1>3. ASSUME NEW c \in Conn, HandshakeFail(c) \/ Reject(c)
      PROVE  HooksInv'
  BY IInv, HooksInv, <1>3, HooksKept
  DEF IInv, Types, HandshakeFail, Reject, GiveUp
<1>4. ASSUME NEW c \in Conn, CloseLoser(c)
      PROVE  HooksInv'
  <2>1. loser[c] # NoConn
    BY IInv, <1>4, NoConnAssumption DEF IInv, Phases, CloseLoser
  <2>2. QED
    BY IInv, HooksInv, <1>4, <2>1, HooksKept DEF IInv, Types, CloseLoser
<1>5. ASSUME NEW c \in Conn, Start(c)
      PROVE  HooksInv'
  <2>1. reader[c] = "none"
    BY IInv, <1>5 DEF IInv, Types, Readers, Phases, Start
  <2>2. QED
    BY IInv, HooksInv, <1>5, <2>1, HooksKept DEF IInv, Types, Start
<1>6. ASSUME NEW c \in Conn, ReadErr(c)
      PROVE  HooksInv'
  BY IInv, HooksInv, <1>6, HooksKept DEF IInv, Types, ReadErr
<1>7. CASE UNCHANGED <<task, reader, loser, conns, balance>>
  BY HooksInv, <1>7, HooksKept
<1>8. \/ \E c \in Conn : \/ adopt(c) \/ HandshakeFail(c) \/ Reject(c)
                          \/ CloseLoser(c) \/ Start(c) \/ ReadErr(c)
                          \/ Hook(c) \/ unregister(c) \/ OnDown(c)
      \/ \E s \in Session :
            Dial(s) \/ Accept(s) \/ ReadHello(s) \/ ReadWelcome(s)
      \/ UNCHANGED <<task, reader, loser, conns, balance>>
  BY ConnFacts
  DEF Next, vars, TaskStep, ReaderStep, Close, Cancel, CloseAll, CloseNext
<1>9. QED
  BY IInv, HooksInv, <1>1, <1>2, <1>3, <1>4, <1>5, <1>6, <1>7, <1>8,
     HooksHook, HooksUnregister, HooksOnDown

\* No hook has run or is due initially.
LEMMA HooksInit ==
    ASSUME Init
    PROVE  HooksInv
<1>1. ASSUME NEW n \in Node, NEW p \in Node
      PROVE  Counted(n, p)
  <2>1. UpDue(n, p) = {} /\ DownDue(n, p) = {}
    BY Init DEF Init, UpDue, DownDue
  <2>2. Entry(n, p) = 0 /\ balance[n][p] = 0
    BY Init DEF Init, Entry
  <2>3. QED
    BY <2>1, <2>2, FS_EmptySet DEF Counted
<1>2. QED
  BY Init, <1>1 DEF Init, HooksInv, NoLoserYet

\* When nothing is under way no hook is due.
LEMMA HooksSettled ==
    ASSUME IInv, HooksInv
    PROVE  HookBalance
<1> SUFFICES ASSUME Settled, NEW n \in Node, NEW p \in Node
             PROVE  balance[n][p] = IF conns[n][p] = NoConn THEN 0 ELSE 1
  BY DEF HookBalance
<1>1. \A c \in Conn : task[c] \in {"idle", "done"} /\ reader[c] # "down"
  BY Settled, ConnFacts DEF Settled
<1>2. UpDue(n, p) = {} /\ DownDue(n, p) = {}
  BY <1>1 DEF UpDue, DownDue
<1>3. Cardinality(UpDue(n, p)) = 0 /\ Cardinality(DownDue(n, p)) = 0
  BY <1>2, FS_EmptySet
<1>4. balance[n][p] \in Int /\ Entry(n, p) \in Int
  BY IInv DEF IInv, Types, Entry
<1>5. balance[n][p] = Entry(n, p)
  BY HooksInv, <1>3, <1>4 DEF HooksInv, Counted
<1>6. QED
  BY <1>5 DEF Entry

\* Whenever nothing is under way onUp has run once more than onDown for the
\* peers in the table and equally often for all others.
THEOREM HooksBalanced == Spec => []HookBalance
  BY HooksInit, Invariance, HooksNext, HooksSettled, PTL DEF Spec

----------------------------------------------------------------------------
(* The duplicate rule.                                                     *)

\* The sessions dialed by the smaller Peer ID.
Prior(s) == From[s] < To[s]

\* What the rule needs: a session dialed by the smaller Peer ID does not
\* break, there is no second one in the same direction, and no table is full.
\* The sessions in the other direction may break.
Undisturbed ==
    /\ \A s \in Session : Prior(s) => s \notin Unreliable
    /\ \A s, r \in Session :
         Prior(s) /\ From[r] = From[s] /\ To[r] = To[s] => r = s
    /\ MaxPeers = 0 \/ Cardinality(Node) <= MaxPeers

\* s can still be adopted, or has been, and nobody is shutting down.
Standing(s) ==
    /\ life[From[s]] = "running" /\ life[To[s]] = "running"
    /\ task[In(s)] # "done" \/ s \in welcomed

\* Nobody rejects or replaces the preferred direction, CloseAll closes only
\* connections of its own node, and so neither end of a session of the
\* smaller Peer ID is ever closed.
Winning ==
    \A c \in Conn : Prior(c[1]) /\ Standing(c[1]) => ~closed[c]

RuleInv ==
    /\ \A c \in Conn : task[c] = "reject" => ~Prior(c[1])
    /\ \A c \in Conn : loser[c] \in Conn => ~Prior(loser[c][1])
    /\ \A n \in Node : \A c \in doomed[n] : Owner(c) = n /\ life[n] # "running"
    /\ Winning

\* Both ends of such a session have the preferred direction, no other has.
LEMMA PriorPreferred ==
    ASSUME NEW c \in Conn, Owner(c) # Remote(c)
    PROVE  Preferred(c) <=> Prior(c[1])
<1>1. CASE Inbound(c)
  BY <1>1, NodeAssumption, ConnFacts DEF Preferred, Prior, Owner, Remote
<1>2. CASE ~Inbound(c)
  BY <1>2, NodeAssumption, ConnFacts DEF Preferred, Prior, Owner, Remote
<1>3. QED
  BY <1>1, <1>2

\* Nothing brings a session back.
LEMMA StandingBefore ==
    ASSUME IInv, [Next]_vars, NEW s \in Session, Standing(s)'
    PROVE  Standing(s)
<1> USE EndFacts
<1>1. \A n \in Node : life'[n] = "running" => life[n] = "running"
  BY IInv
  DEF IInv, Types, Next, vars, TaskStep, ReaderStep, Dial, Accept, ReadHello,
      ReadWelcome, HandshakeFail, adopt, Reject, CloseLoser, Start, Hook,
      Close, ReadErr, unregister, OnDown, Cancel, CloseAll, CloseNext
<1>2. \A c \in Conn : task[c] = "done" => task'[c] = "done"
  <2>1. ASSUME NEW c \in Conn, adopt(c)
        PROVE  \A d \in Conn : task[d] = "done" => task'[d] = "done"
    BY IInv, <2>1
    DEF IInv, Types, adopt, AdoptTooMany, AdoptNew, AdoptReplace,
        AdoptDuplicate, GiveUp
  <2>2. ASSUME NEW r \in Session,
               Dial(r) \/ Accept(r) \/ ReadHello(r) \/ ReadWelcome(r)
        PROVE  \A d \in Conn : task[d] = "done" => task'[d] = "done"
    BY IInv, <2>2
    DEF IInv, Types, Dial, Accept, ReadHello, ReadWelcome, Identified, GiveUp
  <2>3. ASSUME NEW c \in Conn,
               \/ HandshakeFail(c) \/ Reject(c) \/ CloseLoser(c)
               \/ Start(c) \/ Hook(c)
        PROVE  \A d \in Conn : task[d] = "done" => task'[d] = "done"
    BY IInv, <2>3
    DEF IInv, Types, HandshakeFail, Reject, GiveUp, CloseLoser, Start, Hook
  <2>4. \/ \E c \in Conn : \/ adopt(c) \/ HandshakeFail(c) \/ Reject(c)
                            \/ CloseLoser(c) \/ Start(c) \/ Hook(c)
        \/ \E r \in Session :
              Dial(r) \/ Accept(r) \/ ReadHello(r) \/ ReadWelcome(r)
        \/ UNCHANGED task
    BY ConnFacts
    DEF Next, vars, TaskStep, ReaderStep, ReadErr, unregister, OnDown, Close,
        Cancel, CloseAll, CloseNext
  <2>5. QED
    BY <2>1, <2>2, <2>3, <2>4
<1>3. s \in welcomed' => s \in welcomed \/ task[In(s)] # "done"
  BY IInv, ConnFacts
  DEF IInv, Next, vars, TaskStep, ReaderStep, Dial, Accept, ReadHello,
      ReadWelcome, HandshakeFail, adopt, Reject, CloseLoser, Start, Hook,
      Close, ReadErr, unregister, OnDown, Cancel, CloseAll, CloseNext
<1>4. QED
  BY <1>1, <1>2, <1>3 DEF Standing

\* A winner in the table is the connection itself: there is no other one in
\* its direction.
LEMMA WinnerNotRejected ==
    ASSUME Undisturbed, IInv, NEW c \in Conn, task[c] = "adopt",
           Existing(c) # NoConn,
           Inbound(c) = Inbound(Existing(c)) \/ ~Preferred(c)
    PROVE  ~Prior(c[1])
<1> DEFINE d == Existing(c)
<1>1. Owner(c) \in Node /\ Remote(c) \in Node /\ Owner(c) # Remote(c)
  BY IInv, ConnFacts DEF IInv, Ends
<1>2. /\ d \in Conn /\ Owner(d) = Owner(c) /\ Remote(d) = Remote(c)
      /\ Guarded(d)
  BY IInv, <1>1 DEF IInv, Types, TableSound, Existing
<1>3. SUFFICES ASSUME Prior(c[1]) PROVE FALSE
  OBVIOUS
<1>4. Inbound(c) = Inbound(d)
  BY <1>1, <1>3, PriorPreferred
<1>5. From[c[1]] = From[d[1]] /\ To[c[1]] = To[d[1]]
  BY <1>2, <1>4, ConnFacts DEF Owner, Remote
<1>6. c[1] = d[1]
  BY <1>2, <1>3, <1>5, Undisturbed, ConnFacts DEF Undisturbed
<1>7. c = d
  BY <1>2, <1>4, <1>6, ConnFacts
<1>8. reader[c] = "none"
  BY IInv DEF IInv, Phases
<1>9. QED
  BY <1>2, <1>7, <1>8 DEF Guarded

\* There is always room for one more peer.
LEMMA AlwaysRoom ==
    ASSUME Undisturbed, NEW n \in Node, NEW p \in Node, conns[n][p] = NoConn
    PROVE  ~Full(n)
<1>1. CASE MaxPeers = 0
  BY <1>1 DEF Full
<1>2. CASE Cardinality(Node) <= MaxPeers
  <2>1. Peers(n) \subseteq Node /\ Peers(n) # Node
    BY DEF Peers
  <2>2. /\ Cardinality(Peers(n)) < Cardinality(Node)
        /\ Cardinality(Node) \in Nat
    BY <2>1, NodeAssumption, FS_Subset, FS_CardinalityType
  <2>3. QED
    BY <1>2, <2>2, PeersFinite, BoundAssumption DEF Full
<1>3. QED
  BY <1>1, <1>2 DEF Undisturbed

\* No step closes an end of a session that is still standing.
LEMMA WinningNext ==
    ASSUME Undisturbed, IInv, RuleInv, [Next]_vars
    PROVE  Winning'
<1> SUFFICES ASSUME NEW c \in Conn, Prior(c[1]), Standing(c[1])'
             PROVE  ~closed'[c]
  BY DEF Winning
<1>1. /\ c[1] \in Session /\ Mate(c) \in Conn /\ Mate(c)[1] = c[1]
      /\ c = In(c[1]) \/ c = Out(c[1])
      /\ Owner(c) = From[c[1]] \/ Owner(c) = To[c[1]]
      /\ Remote(c) = From[c[1]] \/ Remote(c) = To[c[1]]
      /\ From[c[1]] \in Node /\ To[c[1]] \in Node
      /\ Inbound(c) \/ Mate(c) = In(c[1])
      /\ Inbound(c) => c = In(c[1])
  BY ConnFacts, EndFacts DEF Owner, Remote
<1>2. Standing(c[1])
  BY IInv, <1>1, StandingBefore
<1>3. ~closed[c] /\ ~closed[Mate(c)]
  BY RuleInv, <1>1, <1>2 DEF RuleInv, Winning
<1>4. c[1] \notin Unreliable /\ From[c[1]] # To[c[1]]
  <2>1. From[c[1]] \in Nat /\ To[c[1]] \in Nat
    BY <1>1, NodeAssumption
  <2>2. From[c[1]] # To[c[1]]
    BY <2>1 DEF Prior
  <2>3. c[1] \notin Unreliable
    BY Undisturbed, <1>1 DEF Undisturbed
  <2>4. QED
    BY <2>2, <2>3
<1>5. /\ life[From[c[1]]] = "running" /\ life[To[c[1]]] = "running"
      /\ task'[In(c[1])] # "done" \/ c[1] \in welcomed'
  BY <1>2 DEF Standing
<1>6. ASSUME NEW d \in Conn, HandshakeFail(d)
      PROVE  ~closed'[c]
  <2>1. closed' = [closed EXCEPT ![d] = TRUE]
    BY <1>6 DEF HandshakeFail, GiveUp
  <2>2. d # c
    BY <1>1, <1>3, <1>4, <1>5, <1>6
    DEF HandshakeFail, Abandoned, Listening, Remote
  <2>3. QED
    BY IInv, <1>3, <2>1, <2>2 DEF IInv, Types
<1>7. ASSUME NEW s \in Session, Accept(s)
      PROVE  ~closed'[c]
  <2>1. CASE UNCHANGED closed
    BY <1>3, <2>1
  <2>2. CASE closed' = [closed EXCEPT ![In(s)] = TRUE] /\ task'[In(s)] = "done"
    <3>1. task[In(s)] = "idle" /\ welcomed' = welcomed
      BY <1>7 DEF Accept
    <3>2. s \notin welcomed
      BY IInv, <3>1, EndFacts DEF IInv, Ends
    <3>3. c # In(s)
      BY <1>5, <2>2, <3>1, <3>2, EndFacts
    <3>4. QED
      BY IInv, <1>3, <2>2, <3>3 DEF IInv, Types
  <2>3. QED
    BY IInv, <1>7, <2>1, <2>2, EndFacts DEF IInv, Types, Accept
<1>8. ASSUME NEW d \in Conn, Identified(d)
      PROVE  ~closed'[c]
  <2>1. CASE Remote(d) = Owner(d)
    <3>1. d # c
      BY <1>4, <2>1 DEF Owner, Remote
    <3>2. QED
      BY IInv, <1>3, <1>8, <2>1, <3>1 DEF IInv, Types, Identified, GiveUp
  <2>2. CASE Remote(d) # Owner(d)
    BY <1>3, <1>8, <2>2 DEF Identified
  <2>3. QED
    BY <2>1, <2>2
<1>9. ASSUME NEW d \in Conn, adopt(d)
      PROVE  ~closed'[c]
  <2>1. ~AdoptTooMany(d)
    BY Undisturbed, AlwaysRoom, ConnFacts DEF AdoptTooMany, Existing
  <2>2. QED
    BY <1>3, <1>9, <2>1 DEF adopt, AdoptNew, AdoptReplace, AdoptDuplicate
<1>10. ASSUME NEW d \in Conn, Reject(d)
       PROVE  ~closed'[c]
  <2>1. d # c
    BY RuleInv, <1>10 DEF RuleInv, Reject
  <2>2. QED
    BY IInv, <1>3, <1>10, <2>1 DEF IInv, Types, Reject, GiveUp
<1>11. ASSUME NEW d \in Conn, CloseLoser(d)
       PROVE  ~closed'[c]
  <2>1. loser[d] \in Conn
    BY IInv, <1>11 DEF IInv, Phases, CloseLoser
  <2>2. loser[d] # c
    BY RuleInv, <2>1 DEF RuleInv
  <2>3. QED
    BY IInv, <1>3, <1>11, <2>1, <2>2 DEF IInv, Types, CloseLoser
<1>12. ASSUME NEW d \in Conn, ReadErr(d) \/ Close(d)
       PROVE  ~closed'[c]
  <2>1. d # c
    BY <1>3, <1>4, <1>12 DEF ReadErr, Close
  <2>2. QED
    BY IInv, <1>3, <1>12, <2>1 DEF IInv, Types, ReadErr, Close
<1>13. ASSUME NEW n \in Node, CloseNext(n)
       PROVE  ~closed'[c]
  <2>1. CASE UNCHANGED closed
    BY <1>3, <2>1
  <2>2. ASSUME NEW d \in doomed[n], closed' = [closed EXCEPT ![d] = TRUE]
        PROVE  ~closed'[c]
    <3>1. d # c
      BY RuleInv, <1>1, <1>5, <2>2 DEF RuleInv
    <3>2. QED
      BY IInv, <1>3, <2>2, <3>1 DEF IInv, Types
  <2>3. QED
    BY <1>13, <2>1, <2>2 DEF CloseNext
<1>14. \/ \E d \in Conn : \/ HandshakeFail(d) \/ Identified(d) \/ adopt(d)
                           \/ Reject(d) \/ CloseLoser(d) \/ ReadErr(d)
                           \/ Close(d)
       \/ \E s \in Session : Accept(s)
       \/ \E n \in Node : CloseNext(n)
       \/ UNCHANGED closed
  BY ConnFacts, EndFacts
  DEF Next, vars, TaskStep, ReaderStep, Dial, ReadHello, ReadWelcome, Start,
      Hook, unregister, OnDown, Cancel, CloseAll
<1>15. QED
  BY <1>3, <1>6, <1>7, <1>8, <1>9, <1>10, <1>11, <1>12, <1>13, <1>14

\* Who is rejected, who is replaced and who is closed by CloseAll.
LEMMA RuleNext ==
    ASSUME Undisturbed, IInv, RuleInv, [Next]_vars
    PROVE  RuleInv'
<1>1. \A c \in Conn : task'[c] = "reject" => ~Prior(c[1])
  <2>1. ASSUME NEW c \in Conn, adopt(c)
        PROVE  \A d \in Conn : task'[d] = "reject" => ~Prior(d[1])
    <3>1. CASE AdoptDuplicate(c)
      <4>1. ~Prior(c[1])
        BY Undisturbed, IInv, <2>1, <3>1, WinnerNotRejected
        DEF adopt, AdoptDuplicate
      <4>2. QED
        BY IInv, RuleInv, <3>1, <4>1 DEF IInv, Types, RuleInv, AdoptDuplicate
    <3>2. CASE AdoptTooMany(c) \/ AdoptNew(c) \/ AdoptReplace(c)
      BY IInv, RuleInv, <3>2
      DEF IInv, Types, RuleInv, AdoptTooMany, AdoptNew, AdoptReplace, GiveUp
    <3>3. QED
      BY <2>1, <3>1, <3>2 DEF adopt
  <2>2. ASSUME NEW s \in Session,
               Dial(s) \/ Accept(s) \/ ReadHello(s) \/ ReadWelcome(s)
        PROVE  \A d \in Conn : task'[d] = "reject" => ~Prior(d[1])
    BY IInv, RuleInv, <2>2
    DEF IInv, Types, RuleInv, Dial, Accept, ReadHello, ReadWelcome,
        Identified, GiveUp
  <2>3. ASSUME NEW c \in Conn,
               \/ HandshakeFail(c) \/ Reject(c) \/ CloseLoser(c)
               \/ Start(c) \/ Hook(c)
        PROVE  \A d \in Conn : task'[d] = "reject" => ~Prior(d[1])
    BY IInv, RuleInv, <2>3
    DEF IInv, Types, RuleInv, HandshakeFail, Reject, GiveUp, CloseLoser,
        Start, Hook
  <2>4. CASE UNCHANGED task
    BY RuleInv, <2>4 DEF RuleInv
  <2>5. \/ \E c \in Conn : \/ adopt(c) \/ HandshakeFail(c) \/ Reject(c)
                            \/ CloseLoser(c) \/ Start(c) \/ Hook(c)
        \/ \E s \in Session :
              Dial(s) \/ Accept(s) \/ ReadHello(s) \/ ReadWelcome(s)
        \/ UNCHANGED task
    BY ConnFacts
    DEF Next, vars, TaskStep, ReaderStep, ReadErr, unregister, OnDown, Close,
        Cancel, CloseAll, CloseNext
  <2>6. QED
    BY <2>1, <2>2, <2>3, <2>4, <2>5
<1>2. \A c \in Conn : loser'[c] \in Conn => ~Prior(loser'[c][1])
  <2>1. ASSUME NEW c \in Conn, adopt(c), AdoptReplace(c)
        PROVE  \A d \in Conn : loser'[d] \in Conn => ~Prior(loser'[d][1])
    <3>1. Owner(c) \in Node /\ Remote(c) \in Node /\ Owner(c) # Remote(c)
      BY IInv, <2>1, ConnFacts DEF IInv, Ends, adopt
    <3>2. /\ Existing(c) \in Conn /\ Owner(Existing(c)) = Owner(c)
          /\ Remote(Existing(c)) = Remote(c)
      BY IInv, <2>1, <3>1
      DEF IInv, Types, TableSound, Existing, AdoptReplace
    <3>3. ~Preferred(Existing(c))
      BY <2>1, <3>1, <3>2, ConnFacts DEF AdoptReplace, Preferred
    <3>4. ~Prior(Existing(c)[1])
      BY <3>1, <3>2, <3>3, PriorPreferred
    <3>5. \A d \in Conn : loser'[d] = IF d = c THEN Existing(c) ELSE loser[d]
      BY IInv, <2>1 DEF IInv, Types, AdoptReplace
    <3>6. QED
      BY RuleInv, <3>4, <3>5 DEF RuleInv
  <2>2. CASE UNCHANGED loser
    BY RuleInv, <2>2 DEF RuleInv
  <2>3. (\E c \in Conn : adopt(c) /\ AdoptReplace(c)) \/ UNCHANGED loser
    BY DEF Next, vars, TaskStep, ReaderStep, Dial, Accept, ReadHello,
       ReadWelcome, HandshakeFail, adopt, AdoptTooMany, AdoptNew,
       AdoptDuplicate, Reject, CloseLoser, Start, Hook, Close, ReadErr,
       unregister, OnDown, Cancel, CloseAll, CloseNext
  <2>4. QED
    BY <2>1, <2>2, <2>3
<1>3. \A n \in Node : \A c \in doomed'[n] :
        Owner(c) = n /\ life'[n] # "running"
  <2>1. ASSUME NEW m \in Node, Cancel(m) \/ CloseNext(m)
        PROVE  \A n \in Node : \A c \in doomed'[n] :
                 Owner(c) = n /\ life'[n] # "running"
    BY IInv, RuleInv, <2>1 DEF IInv, Types, RuleInv, Cancel, CloseNext
  <2>2. ASSUME NEW m \in Node, CloseAll(m)
        PROVE  \A n \in Node : \A c \in doomed'[n] :
                 Owner(c) = n /\ life'[n] # "running"
    <3>1. \A p \in Peers(m) : Owner(conns[m][p]) = m
      BY IInv DEF IInv, TableSound, Peers
    <3>2. QED
      BY IInv, RuleInv, <2>2, <3>1 DEF IInv, Types, RuleInv, CloseAll
  <2>3. CASE UNCHANGED <<life, doomed>>
    BY RuleInv, <2>3 DEF RuleInv
  <2>4. (\E n \in Node : Cancel(n) \/ CloseAll(n) \/ CloseNext(n))
        \/ UNCHANGED <<life, doomed>>
    BY DEF Next, vars, TaskStep, ReaderStep, Dial, Accept, ReadHello,
       ReadWelcome, HandshakeFail, adopt, Reject, CloseLoser, Start, Hook,
       Close, ReadErr, unregister, OnDown
  <2>5. QED
    BY <2>1, <2>2, <2>3, <2>4
<1>4. QED
  BY Undisturbed, IInv, RuleInv, <1>1, <1>2, <1>3, WinningNext DEF RuleInv

\* Neither end of a welcomed session of the smaller Peer ID was closed, so
\* once nothing is under way both are in their tables.
LEMMA RuleSettled ==
    ASSUME IInv, RuleInv
    PROVE  DuplicateRule
<1> SUFFICES ASSUME Settled, NEW s \in Session, Prior(s), s \in welcomed,
                    life[From[s]] = "running", life[To[s]] = "running"
             PROVE  Registered(Out(s)) /\ Registered(In(s))
  BY EndFacts DEF DuplicateRule, Prior, Registered
<1> USE EndFacts
<1>1. ~closed[Out(s)] /\ ~closed[In(s)]
  BY RuleInv DEF RuleInv, Winning, Standing
<1>2. task[In(s)] = "done" /\ task[Out(s)] = "done"
  BY IInv, Settled DEF IInv, Ends, Settled
<1>3. reader[In(s)] = "reading" /\ reader[Out(s)] = "reading"
  BY IInv, Settled, <1>1, <1>2 DEF IInv, Phases, Settled
<1>4. \A d \in Conn : task[d] # "swap"
  BY Settled, ConnFacts DEF Settled
<1>5. QED
  BY IInv, <1>1, <1>3, <1>4 DEF IInv, Kept, Adopted

\* When two nodes dial each other both end up with the session dialed by the
\* smaller Peer ID, whichever handshake reached adopt first at which end, as
\* long as that session does not break and there is room for it.
THEOREM SmallerDialerWins ==
    ASSUME Undisturbed
    PROVE  Spec => []DuplicateRule
<1>1. Init => RuleInv
  BY EndFacts, ConnFacts, NoConnAssumption DEF Init, RuleInv, Winning
<1>2. IInv /\ RuleInv /\ [Next]_vars => RuleInv'
  BY Undisturbed, RuleNext
<1>3. QED
  BY <1>1, <1>2, Invariance, RuleSettled, PTL DEF Spec
============================================================================
