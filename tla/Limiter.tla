------------------------------- MODULE Limiter ------------------------------
(***************************************************************************)
(* The flood limiter (internal/limiter/limiter.go): at most Limit frames   *)
(* of a sender per Span.  onPeerMessage calls Allow from the reader of     *)
(* every connection, with the sender as the key, for each signed and fresh *)
(* frame, copies of one message included (internal/node/handlers.go).      *)
(*                                                                         *)
(* Allow reads the clock before it takes the lock, so that the stamps in a *)
(* window need not be in order; Lag bounds how long a goroutine may stand  *)
(* between the two.  A stamp is kept as its age, and ages past Old are not *)
(* told apart, so that the model runs for ever.                            *)
(***************************************************************************)
EXTENDS Integers, Sequences, FiniteSets, SequencesExt

CONSTANTS
    Key,      \* senders
    Reader,   \* goroutines that call Allow
    Limit, Span, MaxKeys,
    Lag       \* bound on the wait for the lock

Old == Span + Lag + 1

VARIABLES
    call,     \* call[r]: <<>>, or <<key, age>> of an Allow that waits
    hits,     \* hits[k]: the window of k, <<>> when k is not in the map
    passed    \* history: passed[k], when frames of k were let through, in the
              \* last Span - Lag and since k was last thrown out

vars == <<call, hits, passed>>

\* The senders in the map.
Keys == {k \in Key : hits[k] # <<>>}

TypeOK ==
    /\ Cardinality(Keys) <= MaxKeys
    /\ call \in [Reader -> {<<>>} \cup (Key \X (0..Lag))]
    /\ \A k \in Key : /\ hits[k] \in Seq(0..Old) /\ Len(hits[k]) <= Limit
                      /\ passed[k] \in Seq(0..Span - Lag)

Init ==
    /\ call = [r \in Reader |-> <<>>]
    /\ hits = [k \in Key |-> <<>>]
    /\ passed = [k \in Key |-> <<>>]

\* q without its leading stamps of more than age.
Since(q, age) ==
    LET first == SelectInSeq(q, LAMBDA a : a <= age)
    IN  IF first = 0 THEN <<>> ELSE SubSeq(q, first, Len(q))

Older(q) == [i \in DOMAIN q |-> IF q[i] < Old THEN q[i] + 1 ELSE Old]

Elapse ==
    /\ \A r \in Reader : call[r] # <<>> => call[r][2] < Lag
    /\ call' = [r \in Reader |-> IF call[r] = <<>> THEN <<>>
                                 ELSE <<call[r][1], call[r][2] + 1>>]
    /\ hits' = [k \in Key |-> Older(hits[k])]
    /\ passed' = [k \in Key |-> Since(Older(passed[k]), Span - Lag)]

\* Allow reads the clock.
Enter(r, k) ==
    /\ call[r] = <<>>
    /\ call' = [call EXCEPT ![r] = <<k, 0>>]
    /\ UNCHANGED <<hits, passed>>

\* Mutant: a stamp leaves the window one instant early.
PrunedEarly(q, now) == Since(q, now + Span - 1)

\* The leading stamps more than Span before now, a stamp itself, are cut off.
Pruned(q, now) == Since(q, now + Span)

\* dropOldestLocked: a key whose first stamp is the oldest.
dropOldest(ks) ==
    {{k} : k \in {x \in ks : \A y \in ks : hits[x][1] >= hits[y][1]}}

\* Allow with the lock, when the frame passes ...
Allowed(r) ==
    LET k   == call[r][1]
        now == call[r][2]
        q   == Pruned(hits[k], now)
    IN  /\ Len(q) < Limit
        /\ \E gone \in IF hits[k] = <<>> /\ Cardinality(Keys) >= MaxKeys
                       THEN dropOldest(Keys) ELSE {{}} :
             /\ hits' = [x \in Key |-> IF x = k THEN Append(q, now)
                                       ELSE IF x \in gone THEN <<>> ELSE hits[x]]
             /\ passed' = [x \in Key |-> IF x = k THEN Append(passed[k], 0)
                                         ELSE IF x \in gone THEN <<>>
                                         ELSE passed[x]]
        /\ call' = [call EXCEPT ![r] = <<>>]

\* ... and when it does not.
Refused(r) ==
    LET q == Pruned(hits[call[r][1]], call[r][2])
    IN  /\ Len(q) >= Limit
        /\ hits' = [hits EXCEPT ![call[r][1]] = q]
        /\ call' = [call EXCEPT ![r] = <<>>]
        /\ UNCHANGED passed

Next ==
    \/ Elapse
    \/ \E r \in Reader :
         \/ \E k \in Key : Enter(r, k)
         \/ call[r] # <<>> /\ (Allowed(r) \/ Refused(r))

----------------------------------------------------------------------------

\* No sender gets more than Limit frames through in any stretch of Span less
\* the time a reader may wait for the lock, whichever connections they came by
\* and however stale the stamps, until its window is thrown out.
WindowBound == \A k \in Key : Len(passed[k]) <= Limit
=============================================================================
