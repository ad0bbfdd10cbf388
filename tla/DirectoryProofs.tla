--------------------------- MODULE DirectoryProofs ---------------------------
(***************************************************************************)
(* The dirty flag can be trusted, an alias names one peer and the file     *)
(* never loses a peer, for any peers, names and number of faults.          *)
(***************************************************************************)
EXTENDS Directory, TLAPS

----------------------------------------------------------------------------
(* The inductive invariant.                                                *)

\* No two peers of table t have an alias that differs in case only.
Distinct(t) ==
    \A p, q \in DOMAIN t :
        /\ t[p].alias # NoAlias /\ t[q].alias # NoAlias
        /\ Fold[t[p].alias] = Fold[t[q].alias]
        => p = q

\* Table t has every peer of table f, and every address.
Covers(t, f) ==
    \A p \in DOMAIN f : p \in DOMAIN t /\ (f[p].addr => t[p].addr)

\* The tables that memory, a save or the file may hold.
Tables == {t \in Table : Distinct(t)}

\* Saver s has the lock and a copy to write.
Saving(s) == pc[s] \in {"write", "fill", "rename"}

Types ==
    /\ life \in {"running", "closing", "down"}
    /\ dirty \in BOOLEAN
    /\ pc \in [Saver -> {"idle", "lock", "write", "fill", "rename"}]
    /\ faults \in 0..MaxFaults
    /\ byID \in Tables
    /\ recs \in [Saver -> Tables]
    /\ tmp \in Tables \cup {NoFile, Torn}
    /\ file \in Tables \cup {NoFile, Torn}

\* saveMu: one saver at a time, none without a process, and what it renames is
\* what it copied.
OneSaver ==
    /\ \A s, r \in Saver : Saving(s) /\ Saving(r) => s = r
    /\ life = "down" => \A s \in Saver : pc[s] = "idle"
    /\ \A s \in Saver : pc[s] = "rename" => tmp = recs[s]

\* The flag is down only if the copy being written, or else the file, is the
\* table.
Fresh ==
    ~dirty =>
        /\ \A s \in Saver : Saving(s) => recs[s] = byID
        /\ life # "down" /\ SaveMuFree =>
             file = byID \/ (byID = Empty /\ file = NoFile) \/ file = Torn

\* What is in the file is in the copy being written, and that in the table.
Growing ==
    /\ life # "down" /\ file \in Tables => Covers(byID, file)
    /\ \A s \in Saver : Saving(s) =>
         /\ Covers(byID, recs[s])
         /\ file \in Tables => Covers(recs[s], file)

IInv == Types /\ OneSaver /\ Fresh /\ Growing

----------------------------------------------------------------------------
(* Tables.                                                                 *)

\* A table maps some peers to records.
LEMMA TableFacts ==
    ASSUME NEW t \in Table
    PROVE  /\ DOMAIN t \subseteq Peer
           /\ \A p \in DOMAIN t : t[p] \in Record
  BY DEF Table

\* Records for some of the peers make a table.
LEMMA TableIntro ==
    ASSUME NEW S \in SUBSET Peer, NEW t \in [S -> Record]
    PROVE  t \in Table
  BY DEF Table

\* The empty table.
LEMMA EmptyTable == Empty \in Tables /\ DOMAIN Empty = {}
<1>1. DOMAIN Empty = {} /\ Empty \in [{} -> Record]
  BY DEF Empty
<1>2. Empty \in Table
  BY <1>1, TableIntro
<1>3. QED
  BY <1>1, <1>2 DEF Tables, Distinct

\* A file that is not missing and can be read holds a table.
LEMMA FileFacts ==
    ASSUME NEW f \in Tables \cup {NoFile, Torn}
    PROVE  f \in Tables <=> f \notin {NoFile, Torn}
  BY FileAssumption DEF Tables

\* Covers is transitive.
LEMMA CoversTransitive ==
    ASSUME NEW t, NEW u, NEW f, Covers(t, u), Covers(u, f)
    PROVE  Covers(t, f)
  BY DEF Covers

\* Covers is reflexive.
LEMMA CoversItself == \A t : Covers(t, t)
  BY DEF Covers

\* A record for p with alias w and an address if a is true.
LEMMA Changed ==
    ASSUME NEW p \in Peer, NEW w \in Valid \cup {NoAlias}, NEW a \in BOOLEAN,
           byID \in Tables, NEW t,
           t \in [Known \cup {p} -> Record],
           \A q \in Known \ {p} : t[q] = byID[q],
           t[p].alias = w, t[p].addr = a,
           p \in Known /\ byID[p].addr => a,
           w # NoAlias => ByAlias(w) \subseteq {p}
    PROVE  t \in Tables /\ Covers(t, byID)
<1>1. byID \in Table /\ Known \subseteq Peer
  BY TableFacts DEF Tables, Known
<1>2. t \in Table
  BY <1>1, TableIntro
<1>3. Covers(t, byID)
  BY DEF Covers, Known
<1>4. ASSUME NEW q \in DOMAIN t, NEW r \in DOMAIN t,
             t[q].alias # NoAlias, t[r].alias # NoAlias,
             Fold[t[q].alias] = Fold[t[r].alias]
      PROVE  q = r
  <2>1. CASE q # p /\ r # p
    BY <1>4, <2>1 DEF Tables, Distinct, Known
  <2>2. CASE q = p /\ r # p
    BY <1>4, <2>2 DEF ByAlias
  <2>3. CASE q # p /\ r = p
    BY <1>4, <2>3 DEF ByAlias
  <2>4. QED
    BY <2>1, <2>2, <2>3
<1>5. QED
  BY <1>2, <1>3, <1>4 DEF Tables, Distinct

\* ensureLocked adds at most an empty record.
LEMMA EnsuredFacts ==
    ASSUME NEW p \in Peer, byID \in Tables
    PROVE  /\ Ensured(p) \in [Known \cup {p} -> Record]
           /\ \A q \in Known : Ensured(p)[q] = byID[q]
           /\ p \notin Known =>
                Ensured(p)[p].alias = NoAlias /\ Ensured(p)[p].addr = FALSE
<1>1. byID \in Table /\ \A q \in Known : byID[q] \in Record
  BY TableFacts DEF Tables, Known
<1>2. [alias |-> NoAlias, addr |-> FALSE] \in Record
  BY DEF Record
<1>3. QED
  BY <1>1, <1>2 DEF Ensured

\* A record with another address.
LEMMA RecordAddr ==
    ASSUME NEW r \in Record, NEW a \in BOOLEAN
    PROVE  /\ [r EXCEPT !.addr = @ \/ a] \in Record
           /\ [r EXCEPT !.addr = @ \/ a].alias = r.alias
           /\ [r EXCEPT !.addr = @ \/ a].addr = (r.addr \/ a)
  BY DEF Record

\* What Observe makes of the table.
LEMMA ObserveTable ==
    ASSUME byID \in Tables, NEW p \in Peer, NEW a \in BOOLEAN
    PROVE  LET t == [Ensured(p) EXCEPT ![p].addr = @ \/ a]
           IN  t \in Tables /\ Covers(t, byID)
<1> DEFINE e == Ensured(p)
           t == [e EXCEPT ![p].addr = @ \/ a]
<1>1. /\ e \in [Known \cup {p} -> Record]
      /\ \A q \in Known : e[q] = byID[q]
      /\ p \notin Known => e[p].alias = NoAlias /\ e[p].addr = FALSE
  BY EnsuredFacts
<1> HIDE DEF e
<1>2. e[p] \in Record
  BY <1>1
<1>3. t = [e EXCEPT ![p] = [e[p] EXCEPT !.addr = @ \/ a]]
  OBVIOUS
<1>4. /\ t \in [Known \cup {p} -> Record]
      /\ \A q \in Known \ {p} : t[q] = byID[q]
      /\ t[p] = [e[p] EXCEPT !.addr = @ \/ a]
  BY <1>1, <1>2, <1>3, RecordAddr
<1>5. t[p].alias = e[p].alias /\ t[p].addr = (e[p].addr \/ a)
  BY <1>2, <1>4, RecordAddr
<1>6. e[p].alias \in Valid \cup {NoAlias} /\ e[p].addr \in BOOLEAN
  BY <1>2 DEF Record
<1>7. e[p].alias # NoAlias => ByAlias(e[p].alias) \subseteq {p}
  BY <1>1 DEF ByAlias, Tables, Distinct, Known
<1>8. p \in Known /\ byID[p].addr => (e[p].addr \/ a)
  BY <1>1
<1> HIDE DEF t
<1>9. t \in Tables /\ Covers(t, byID)
  <2> DEFINE w == e[p].alias
             b == (e[p].addr \/ a)
  <2>1. w \in Valid \cup {NoAlias} /\ b \in BOOLEAN
    BY <1>6
  <2>2. t[p].alias = w /\ t[p].addr = b
    BY <1>5
  <2>3. w # NoAlias => ByAlias(w) \subseteq {p}
    BY <1>7
  <2>4. p \in Known /\ byID[p].addr => b
    BY <1>8
  <2> HIDE DEF w, b
  <2>5. QED
    BY <1>4, <2>1, <2>2, <2>3, <2>4, Changed
<1>10. QED
  BY <1>9 DEF t, e

\* What setAlias makes of it, for a name that Accepted lets through.
LEMMA SetAliasTable ==
    ASSUME byID \in Tables, NEW p \in Peer, NEW w, Accepted(p, w),
           NEW a \in BOOLEAN
    PROVE  LET t == [Ensured(p) EXCEPT ![p].alias = w, ![p].addr = @ \/ a]
           IN  t \in Tables /\ Covers(t, byID)
<1> DEFINE e == Ensured(p)
           t == [e EXCEPT ![p].alias = w, ![p].addr = @ \/ a]
           r == [e[p] EXCEPT !.alias = w]
<1>1. /\ e \in [Known \cup {p} -> Record]
      /\ \A q \in Known : e[q] = byID[q]
      /\ p \notin Known => e[p].alias = NoAlias /\ e[p].addr = FALSE
  BY EnsuredFacts
<1> HIDE DEF e
<1>2. w \in Valid /\ ByAlias(w) \subseteq {p}
  BY DEF Accepted
<1>3. r \in Record /\ r.alias = w /\ r.addr = e[p].addr
  BY <1>1, <1>2 DEF Record
<1>4. t = [e EXCEPT ![p] = [r EXCEPT !.addr = @ \/ a]]
  BY <1>1
<1> HIDE DEF r
<1>5. /\ t \in [Known \cup {p} -> Record]
      /\ \A q \in Known \ {p} : t[q] = byID[q]
      /\ t[p] = [r EXCEPT !.addr = @ \/ a]
  BY <1>1, <1>3, <1>4, RecordAddr
<1>6. t[p].alias = w /\ t[p].addr = (e[p].addr \/ a)
  BY <1>3, <1>5, RecordAddr
<1>7. p \in Known /\ byID[p].addr => (e[p].addr \/ a)
  BY <1>1
<1> HIDE DEF t
<1>8. t \in Tables /\ Covers(t, byID)
  <2> DEFINE b == (e[p].addr \/ a)
  <2>1. b \in BOOLEAN /\ t[p].addr = b
    BY <1>6
  <2>2. p \in Known /\ byID[p].addr => b
    BY <1>7
  <2> HIDE DEF b
  <2>3. QED
    BY <1>2, <1>5, <1>6, <2>1, <2>2, Changed
<1>9. QED
  BY <1>8 DEF t, e

\* What clearAlias makes of it.
LEMMA ClearAliasTable ==
    ASSUME byID \in Tables, NEW p \in Known
    PROVE  LET t == [byID EXCEPT ![p].alias = NoAlias]
           IN  t \in Tables /\ Covers(t, byID)
<1> DEFINE t == [byID EXCEPT ![p].alias = NoAlias]
<1>1. byID \in Table /\ p \in Peer
  BY TableFacts DEF Tables, Known
<1>2. byID \in [Known -> Record] /\ byID[p] \in Record
  BY <1>1, TableFacts DEF Known, Table
<1>3. Known \cup {p} = Known
  OBVIOUS
<1>4. /\ t \in [Known \cup {p} -> Record]
      /\ \A q \in Known \ {p} : t[q] = byID[q]
      /\ t[p].alias = NoAlias /\ t[p].addr = byID[p].addr
      /\ byID[p].addr \in BOOLEAN
  BY <1>2, <1>3 DEF Record
<1> HIDE DEF t
<1>5. t \in Tables /\ Covers(t, byID)
  BY <1>1, <1>4, Changed
<1>6. QED
  BY <1>5 DEF t

----------------------------------------------------------------------------
(* Preservation.                                                           *)

\* The table grows, and the flag goes up.
LEMMA GrowStep ==
    ASSUME IInv, byID' \in Tables, Covers(byID', byID), dirty' = TRUE,
           life # "down",
           UNCHANGED <<life, recs, tmp, file, faults>>,
           UNCHANGED pc \/ (pc["main"] = "idle" /\ pc' = [pc EXCEPT !["main"] = "lock"])
    PROVE  IInv'
<1>1. pc' \in [Saver -> {"idle", "lock", "write", "fill", "rename"}]
  BY DEF IInv, Types
<1>2. \A s \in Saver : /\ Saving(s)' <=> Saving(s)
                       /\ pc'[s] = "rename" <=> pc[s] = "rename"
  BY DEF IInv, Types, Saving
<1>3. Types'
  BY <1>1 DEF IInv, Types
<1>4. OneSaver' /\ Fresh'
  BY <1>2 DEF IInv, OneSaver, Fresh
<1>5. Growing'
  BY <1>2, CoversTransitive DEF IInv, Growing
<1>6. QED
  BY <1>3, <1>4, <1>5 DEF IInv

\* Observe preserves IInv.
LEMMA ObserveStep ==
    ASSUME IInv, NEW p \in Peer, NEW a \in BOOLEAN, Observe(p, a)
    PROVE  IInv'
<1>1. byID' \in Tables /\ Covers(byID', byID)
  BY ObserveTable DEF IInv, Types, Observe
<1>2. QED
  BY <1>1, GrowStep DEF Observe

\* A text stands for peers.
LEMMA LookupFacts ==
    ASSUME NEW t \in Peer \cup Word, byID \in Tables
    PROVE  Lookup(t) \subseteq Known /\ Resolve(t) \subseteq Peer
<1>1. Known \subseteq Peer
  BY TableFacts DEF Tables, Known
<1>2. Lookup(t) \subseteq Known
  BY DEF Lookup, ByAlias
<1>3. QED
  BY <1>1, <1>2, WordAssumption DEF Resolve

\* The commands that change an alias preserve IInv.
LEMMA CommandStep ==
    ASSUME IInv, NEW t \in Peer \cup Word,
           clearAlias(t) \/ \E w \in Word : setAlias(t, w)
    PROVE  IInv'
<1>1. byID \in Tables
  BY DEF IInv, Types
<1>2. CASE clearAlias(t)
  <2>1. PICK p \in Lookup(t) : Command([byID EXCEPT ![p].alias = NoAlias])
    BY <1>2 DEF clearAlias
  <2>2. p \in Known
    BY <1>1, LookupFacts
  <2>3. byID' \in Tables /\ Covers(byID', byID)
    BY <1>1, <2>1, <2>2, ClearAliasTable DEF Command
  <2>4. QED
    BY <2>1, <2>3, GrowStep DEF Command
<1>3. ASSUME NEW w \in Word, setAlias(t, w)
      PROVE  IInv'
  <2>1. PICK p \in Resolve(t), found \in BOOLEAN :
          /\ Accepted(p, w)
          /\ Command([Ensured(p) EXCEPT ![p].alias = w,
                        ![p].addr = @ \/ (found /\ Lookup(t) = {})])
    BY <1>3 DEF setAlias
  <2>2. p \in Peer /\ (found /\ Lookup(t) = {}) \in BOOLEAN
    BY <1>1, LookupFacts
  <2>3. byID' \in Tables /\ Covers(byID', byID)
    BY <1>1, <2>1, <2>2, SetAliasTable DEF Command
  <2>4. QED
    BY <2>1, <2>3, GrowStep DEF Command
<1>4. QED
  BY <1>2, <1>3

\* A saver that waits for the lock.
LEMMA WaitStep ==
    ASSUME IInv, NEW s \in Saver, pc[s] = "idle", Step(s, "lock"),
           life = "running", life' \in {"running", "closing"},
           UNCHANGED <<byID, dirty, recs, tmp, file, faults>>
    PROVE  IInv'
<1>1. pc' \in [Saver -> {"idle", "lock", "write", "fill", "rename"}]
  BY DEF IInv, Types, Step
<1>2. /\ \A r \in Saver : /\ Saving(r)' <=> Saving(r)
                          /\ pc'[r] = "rename" <=> pc[r] = "rename"
      /\ SaveMuFree' <=> SaveMuFree
  BY DEF IInv, Types, Saving, Step, SaveMuFree
<1>3. Types' /\ OneSaver'
  BY <1>1, <1>2 DEF IInv, Types, OneSaver
<1>4. Fresh' /\ Growing'
  BY <1>2 DEF IInv, Fresh, Growing
<1>5. QED
  BY <1>3, <1>4 DEF IInv

\* A saver with the lock is alone with it.
LEMMA LockFacts ==
    ASSUME IInv
    PROVE  /\ SaveMuFree <=> \A s \in Saver : ~Saving(s)
           /\ \A s \in Saver : pc[s] # "idle" => life # "down"
  BY DEF IInv, Types, OneSaver, SaveMuFree, Saving

\* Copy preserves IInv.
LEMMA CopyStep ==
    ASSUME IInv, NEW s \in Saver, Copy(s)
    PROVE  IInv'
<1>1. /\ life # "down" /\ \A r \in Saver : ~Saving(r)
      /\ pc' \in [Saver -> {"idle", "lock", "write", "fill", "rename"}]
      /\ \A r \in Saver \ {s} : pc'[r] = pc[r]
      /\ pc'[s] = IF dirty THEN "write" ELSE "idle"
  BY LockFacts DEF Copy, IInv, Types, Step
<1>2. /\ recs' \in [Saver -> Tables]
      /\ dirty => recs'[s] = byID
  BY DEF Copy, IInv, Types
<1>3. \A r \in Saver : Saving(r)' <=> r = s /\ dirty
  BY <1>1 DEF Saving
<1>4. \A r \in Saver : pc'[r] # "rename"
  BY <1>1 DEF Saving
<1>5. SaveMuFree' <=> ~dirty
  BY <1>1 DEF SaveMuFree, Copy
<1>6. Types' /\ OneSaver'
  BY <1>1, <1>2, <1>3, <1>4 DEF Copy, IInv, Types, OneSaver
<1>7. Fresh'
  BY <1>1, <1>2, <1>3, <1>5 DEF Copy, IInv, Types, Fresh
<1>8. Growing'
  BY <1>1, <1>2, <1>3, CoversItself DEF Copy, IInv, Growing
<1>9. QED
  BY <1>6, <1>7, <1>8 DEF IInv

\* A saver that goes on with its copy.
LEMMA WriteStep ==
    ASSUME IInv, NEW s \in Saver, Truncate(s) \/ Fill(s)
    PROVE  IInv'
<1>1. /\ Saving(s)
      /\ pc' \in [Saver -> {"idle", "lock", "write", "fill", "rename"}]
      /\ \A r \in Saver \ {s} : pc'[r] = pc[r]
      /\ pc'[s] = "fill" \/ (pc'[s] = "rename" /\ tmp' = recs[s])
      /\ tmp' \in Tables \cup {NoFile, Torn}
      /\ UNCHANGED <<life, byID, dirty, recs, file, faults>>
  BY DEF Truncate, Fill, IInv, Types, Step, Saving
<1>2. \A r \in Saver : Saving(r)' <=> Saving(r)
  BY <1>1 DEF Saving
<1>3. ~SaveMuFree /\ ~SaveMuFree'
  BY <1>1 DEF SaveMuFree, Saving
<1>4. \A r \in Saver : pc'[r] = "rename" => r = s
  BY <1>1 DEF IInv, OneSaver, Saving
<1>5. Types' /\ OneSaver'
  BY <1>1, <1>2, <1>4, LockFacts DEF IInv, Types, OneSaver, Saving
<1>6. Fresh' /\ Growing'
  BY <1>1, <1>2, <1>3 DEF IInv, Fresh, Growing
<1>7. QED
  BY <1>5, <1>6 DEF IInv

\* The saver returns: the file is what it was, or its copy.
LEMMA ReturnStep ==
    ASSUME IInv, NEW s \in Saver, Rename(s) \/ SaveError(s)
    PROVE  IInv'
<1>1. /\ Saving(s) /\ life # "down"
      /\ pc' \in [Saver -> {"idle", "lock", "write", "fill", "rename"}]
      /\ \A r \in Saver \ {s} : pc'[r] = pc[r]
      /\ pc'[s] = "idle"
      /\ UNCHANGED <<life, byID>>
  BY LockFacts DEF Rename, SaveError, IInv, Types, Step, Saving
<1>2. \A r \in Saver : ~Saving(r)' /\ pc'[r] # "rename"
  BY <1>1 DEF IInv, OneSaver, Saving
<1>3. recs' \in [Saver -> Tables] /\ recs[s] \in Tables
  BY EmptyTable DEF Rename, SaveError, IInv, Types
<1>4. CASE Rename(s)
  <2>1. file' = recs[s] /\ tmp' = NoFile /\ UNCHANGED <<dirty, faults>>
    BY <1>4 DEF Rename, IInv, OneSaver
  <2>2. Types' /\ OneSaver'
    BY <1>1, <1>2, <1>3, <2>1 DEF IInv, Types, OneSaver
  <2>3. Fresh' /\ Growing'
    BY <1>1, <1>2, <2>1 DEF IInv, Fresh, Growing
  <2>4. QED
    BY <2>2, <2>3 DEF IInv
<1>5. CASE SaveError(s)
  <2>1. /\ dirty' = TRUE /\ UNCHANGED <<tmp, file>>
        /\ faults' \in 0..MaxFaults
    BY <1>5, WordAssumption DEF SaveError, IInv, Types
  <2>2. Types' /\ OneSaver'
    BY <1>1, <1>2, <1>3, <2>1 DEF IInv, Types, OneSaver
  <2>3. Fresh' /\ Growing'
    BY <1>1, <1>2, <2>1 DEF IInv, Fresh, Growing
  <2>4. QED
    BY <2>2, <2>3 DEF IInv
<1>6. QED
  BY <1>4, <1>5

\* Start preserves IInv.
LEMMA StartStep ==
    ASSUME IInv, Start
    PROVE  IInv'
<1>1. \A s \in Saver : pc'[s] = "idle" /\ ~Saving(s)'
  BY DEF Start, IInv, OneSaver, Saving
<1>2. /\ file \in Tables <=> file \notin {NoFile, Torn}
      /\ byID' = IF file \in {NoFile, Torn} THEN Empty ELSE file
  BY FileFacts DEF Start, Load, IInv, Types
<1>3. byID' \in Tables
  BY <1>2, EmptyTable
<1>4. Types' /\ OneSaver'
  BY <1>1, <1>3 DEF Start, IInv, Types, OneSaver
<1>5. Fresh'
  BY <1>1, <1>2 DEF Start, Fresh
<1>6. Growing'
  BY <1>1, <1>2, CoversItself DEF Start, Growing
<1>7. QED
  BY <1>4, <1>5, <1>6 DEF IInv

\* The end of the process preserves IInv.
LEMMA GoneStep ==
    ASSUME IInv, Gone, faults' \in 0..MaxFaults
    PROVE  IInv'
<1>1. \A s \in Saver : pc'[s] = "idle" /\ ~Saving(s)'
  BY DEF Gone, Saving
<1>2. Types' /\ OneSaver'
  BY <1>1, EmptyTable DEF Gone, IInv, Types, OneSaver
<1>3. Fresh' /\ Growing'
  BY <1>1 DEF Gone, Fresh, Growing
<1>4. QED
  BY <1>2, <1>3 DEF IInv

\* Damage to the file preserves IInv.
LEMMA DamageStep ==
    ASSUME IInv, Damage
    PROVE  IInv'
<1>1. /\ file' = Torn /\ file' \notin Tables
      /\ UNCHANGED <<life, byID, dirty, pc, recs, tmp>>
      /\ faults' \in 0..MaxFaults
  BY WordAssumption, FileAssumption DEF Damage, IInv, Types, Tables
<1>2. Types' /\ OneSaver'
  BY <1>1 DEF IInv, Types, OneSaver, Saving
<1>3. Fresh' /\ Growing'
  BY <1>1 DEF IInv, Fresh, Growing, Saving, SaveMuFree
<1>4. QED
  BY <1>2, <1>3 DEF IInv

----------------------------------------------------------------------------
(* The invariant.                                                          *)

\* Init satisfies IInv.
LEMMA IInvInit == Init => IInv
<1> SUFFICES ASSUME Init PROVE IInv
  OBVIOUS
<1>1. Types
  <2>1. Empty \in Tables /\ 0 \in 0..MaxFaults
    BY WordAssumption, EmptyTable
  <2>2. /\ pc \in [Saver -> {"idle", "lock", "write", "fill", "rename"}]
        /\ recs \in [Saver -> Tables]
    BY <2>1 DEF Init
  <2>3. QED
    BY <2>1, <2>2 DEF Init, Types
<1>2. OneSaver /\ Fresh /\ Growing
  BY DEF Init, OneSaver, Fresh, Growing, Saving
<1>3. QED
  BY <1>1, <1>2 DEF IInv

\* Every step preserves it.
LEMMA IInvNext == IInv /\ [Next]_vars => IInv'
<1> SUFFICES ASSUME IInv, [Next]_vars
             PROVE  IInv'
  OBVIOUS
<1>1. ASSUME NEW p \in Peer, NEW a \in BOOLEAN, Observe(p, a)
      PROVE  IInv'
  BY <1>1, ObserveStep
<1>2. ASSUME NEW t \in Peer \cup Word,
             clearAlias(t) \/ \E w \in Word : setAlias(t, w)
      PROVE  IInv'
  BY <1>2, CommandStep
<1>3. ASSUME NEW s \in Saver, SaveStep(s) \/ SaveError(s)
      PROVE  IInv'
  BY <1>3, CopyStep, WriteStep, ReturnStep DEF SaveStep
<1>4. CASE Tick
  BY <1>4, WaitStep DEF Tick, Saver
<1>5. CASE Start
  BY <1>5, StartStep
<1>6. CASE Close
  BY <1>6, WaitStep DEF Close, Saver
<1>7. CASE Exit
  BY <1>7, GoneStep DEF Exit, IInv, Types
<1>8. CASE Crash
  <2>1. faults' \in 0..MaxFaults
    BY <1>8, WordAssumption DEF Crash, IInv, Types
  <2>2. QED
    BY <1>8, <2>1, GoneStep DEF Crash
<1>9. CASE Damage
  BY <1>9, DamageStep
<1>10. CASE UNCHANGED vars
  BY <1>10 DEF vars, IInv, Types, OneSaver, Fresh, Growing, Saving, SaveMuFree
<1>11. QED
  BY <1>1, <1>2, <1>3, <1>4, <1>5, <1>6, <1>7, <1>8, <1>9, <1>10 DEF Next

\* IInv holds in every state the directory and its file reach.
THEOREM Invariance == Spec => []IInv
  BY IInvInit, IInvNext, PTL DEF Spec

----------------------------------------------------------------------------
(* What the directory promises.                                            *)

\* Every variable keeps its type: memory, the savers' copies and both files
\* hold tables.
THEOREM TypeCorrect == Spec => []TypeOK
<1>1. IInv => TypeOK
  BY DEF IInv, Types, TypeOK, Tables
<1>2. QED
  BY <1>1, Invariance, PTL

\* When the dirty flag is down and no save is under way, peers.json holds the
\* table, after any failed, overlapping or interrupted Save.
THEOREM DirtyIsTrue == Spec => []CleanMeansSaved
<1>1. IInv => CleanMeansSaved
  BY DEF IInv, Fresh, CleanMeansSaved
<1>2. QED
  BY <1>1, Invariance, PTL

\* An alias that setAlias has accepted stands for its peer and no other in
\* lookupLocked, whatever peers become known and however often the table is
\* saved and loaded.
THEOREM OneNamePerPeer == Spec => []AliasNamesOne
<1>1. ASSUME IInv, NEW p \in Known, byID[p].alias # NoAlias
      PROVE  Lookup(byID[p].alias) = {p}
  <2> DEFINE w == byID[p].alias
  <2>1. byID \in Table /\ Distinct(byID)
    BY <1>1 DEF IInv, Types, Tables
  <2>2. w \in Valid /\ w \notin Peer
    BY <1>1, <2>1, TableFacts, WordAssumption DEF Known, Record
  <2>3. ByAlias(w) = {p}
    BY <1>1, <2>1 DEF ByAlias, Distinct, Known
  <2>4. QED
    BY <2>2, <2>3 DEF Lookup
<1>2. IInv => AliasNamesOne
  BY <1>1 DEF AliasNamesOne
<1>3. QED
  BY <1>2, Invariance, PTL

\* Only Damage makes a readable peers.json unreadable or takes a peer or an
\* address out of it: not a save, whole, failed or cut off by a crash.
THEOREM NothingForgotten == Spec => FileKeepsPeers
<1>1. ASSUME IInv, [Next]_vars, Readable(file), ~Damage
      PROVE  Readable(file') /\ Covers(file', file)
  <2>1. CASE UNCHANGED file
    BY <1>1, <2>1, CoversItself
  <2>2. CASE \E s \in Saver : Rename(s)
    <3>1. PICK s \in Saver : Rename(s)
      BY <2>2
    <3>2. file' = recs[s] /\ Saving(s)
      BY <1>1, <3>1 DEF IInv, OneSaver, Saving, Rename
    <3>3. file \in Tables /\ file' \in Tables
      BY <1>1, <3>2, FileFacts DEF IInv, Types, Readable
    <3>4. Covers(file', file)
      BY <1>1, <3>2, <3>3 DEF IInv, Growing
    <3>5. QED
      BY <3>3, <3>4, FileFacts DEF Readable
  <2>3. QED
    BY <1>1, <2>1, <2>2
    DEF Next, vars, Observe, clearAlias, setAlias, Command, SaveStep, Copy,
        Truncate, Fill, SaveError, Tick, Start, Close, Exit, Crash, Gone
<1>2. IInv /\ [Next]_vars =>
        [Readable(file) /\ ~Damage =>
           /\ Readable(file')
           /\ \A p \in DOMAIN file :
                p \in DOMAIN file' /\ (file[p].addr => file'[p].addr)]_vars
  BY <1>1 DEF Covers
<1>3. QED
  BY <1>2, Invariance, PTL DEF Spec, FileKeepsPeers

==============================================================================
