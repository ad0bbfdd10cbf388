----------------------------- MODULE Directory -----------------------------
(***************************************************************************)
(* The directory of known peers and local aliases, and peers.json, the     *)
(* file behind it (internal/directory/directory.go, with the callers in    *)
(* internal/node: hooks that observe peers, /alias and /unalias,           *)
(* dirSaveLoop, Start and Close).                                          *)
(*                                                                         *)
(* Two goroutines save: "loop", which is dirSaveLoop, and "main", which    *)
(* runs the terminal's commands and, at the end, Close.  Save holds saveMu *)
(* throughout, and mu only while it copies the table.  The process may     *)
(* crash at any step; a write may fail.                                    *)
(*                                                                         *)
(* Abstractions: a record is its alias and whether an address is known;    *)
(* nicknames, keys and times are left out.  What a user types is a text,   *)
(* with its lower-case form and the peers whose ID it begins.              *)
(***************************************************************************)
EXTENDS Naturals

CONSTANTS
    Peer,       \* full Peer IDs
    Word,       \* other texts: aliases, prefixes of Peer IDs
    Fold,       \* Fold[w]: w in lower case (strings.EqualFold)
    Prefixed,   \* Prefixed[w]: the peers whose ID begins with w, if w has at
                \* least four characters
    Valid,      \* the words ValidAlias accepts
    MaxFaults,  \* bound on crashes, failed writes and damage to the file
    NoAlias,    \* the empty alias
    NoFile,     \* a file that does not exist
    Torn        \* a file that cannot be parsed

ASSUME WordAssumption ==
    /\ Peer \cap Word = {} /\ NoAlias \notin Word
    /\ Fold \in [Word -> Word]
    /\ Prefixed \in [Word -> SUBSET Peer]
    /\ Valid \subseteq Word
    /\ MaxFaults \in Nat

Saver  == {"loop", "main"}
Record == [alias : Valid \cup {NoAlias}, addr : BOOLEAN]
Table  == UNION {[S -> Record] : S \in SUBSET Peer}
Empty  == [p \in {} |-> [alias |-> NoAlias, addr |-> FALSE]]

ASSUME FileAssumption == NoFile \notin Table /\ Torn \notin Table

VARIABLES
    life,    \* the process: "running", "closing" or "down"
    byID,    \* Directory.byID
    dirty,   \* Directory.dirty
    pc,      \* pc[s]: where saver s stands in Save
    recs,    \* recs[s]: the copy its Save works on
    tmp,     \* peers.json.tmp: what was last written to it
    file,    \* peers.json
    faults   \* the faults so far

vars == <<life, byID, dirty, pc, recs, tmp, file, faults>>

TypeOK ==
    /\ life \in {"running", "closing", "down"}
    /\ byID \in Table
    /\ dirty \in BOOLEAN
    /\ pc \in [Saver -> {"idle", "lock", "write", "fill", "rename"}]
    /\ recs \in [Saver -> Table]
    /\ tmp \in Table \cup {NoFile, Torn}
    /\ file \in Table \cup {NoFile, Torn}
    /\ faults \in 0..MaxFaults

Init ==
    /\ life = "down"
    /\ byID = Empty
    /\ dirty = FALSE
    /\ pc = [s \in Saver |-> "idle"]
    /\ recs = [s \in Saver |-> Empty]
    /\ tmp = NoFile
    /\ file = NoFile
    /\ faults = 0

Known == DOMAIN byID

----------------------------------------------------------------------------
(* Records and lookup.                                                     *)

\* ensureLocked: the table with a record for p.
Ensured(p) ==
    [q \in Known \cup {p} |-> IF q \in Known THEN byID[q]
                              ELSE [alias |-> NoAlias, addr |-> FALSE]]

\* idByAliasLocked: whoever it may return, by the order of the map.
ByAlias(w) ==
    {p \in Known : byID[p].alias # NoAlias /\ Fold[byID[p].alias] = Fold[w]}

\* Mutant: a prefix of a Peer ID goes before an alias.
LookupPrefixFirst(t) ==
    IF t \in Peer THEN {t} \cap Known
    ELSE LET found == Prefixed[t] \cap Known
         IN  IF \E p \in found : found = {p} THEN found ELSE ByAlias(t)

\* lookupLocked: the peers text t may stand for, none when it is unknown or
\* an ambiguous prefix.
Lookup(t) ==
    IF t \in Peer THEN {t} \cap Known
    ELSE IF ByAlias(t) # {} THEN ByAlias(t)
    ELSE LET found == Prefixed[t] \cap Known
         IN  IF \E p \in found : found = {p} THEN found ELSE {}

\* Observe, from a hook (with an address) or from applyNick (without one).
Observe(p, addr) ==
    /\ life # "down"
    /\ byID' = [Ensured(p) EXCEPT ![p].addr = @ \/ addr]
    /\ dirty' = TRUE
    /\ UNCHANGED <<life, pc, recs, tmp, file, faults>>

\* The terminal runs a command that ends in Save.
Command(table) ==
    /\ life = "running"
    /\ pc["main"] = "idle"
    /\ byID' = table
    /\ dirty' = TRUE
    /\ pc' = [pc EXCEPT !["main"] = "lock"]
    /\ UNCHANGED <<life, recs, tmp, file, faults>>

\* The peer that setAlias finds for t: a known one, or else a connected one,
\* which is then observed.
Resolve(t) == IF Lookup(t) # {} THEN Lookup(t)
              ELSE IF t \in Peer THEN {t} ELSE Prefixed[t]

\* Mutant: any name will do.
AcceptedAny(p, w) == ByAlias(w) \subseteq {p}

\* SetAlias refuses a name that is not valid, or that another peer has, whatever
\* its case.
Accepted(p, w) == w \in Valid /\ ByAlias(w) \subseteq {p}

\* setAlias: the address of a peer that had to be observed first is found, or
\* not.
setAlias(t, w) ==
    \E p \in Resolve(t), found \in BOOLEAN :
        /\ Accepted(p, w)
        /\ Command([Ensured(p) EXCEPT ![p].alias = w,
                                      ![p].addr = @ \/ (found /\ Lookup(t) = {})])

\* clearAlias: an error unless t names a peer with an alias.
clearAlias(t) ==
    \E p \in Lookup(t) :
        /\ byID[p].alias # NoAlias
        /\ Command([byID EXCEPT ![p].alias = NoAlias])

----------------------------------------------------------------------------
(* Save.                                                                   *)

SaveMuFree == \A s \in Saver : pc[s] \in {"idle", "lock"}

Step(s, next) == pc' = [pc EXCEPT ![s] = next]

\* Mutant: dirSaveLoop returns after the first error.
TickUntilError ==
    /\ life = "running"
    /\ faults = 0
    /\ pc["loop"] = "idle"
    /\ Step("loop", "lock")
    /\ UNCHANGED <<life, byID, dirty, recs, tmp, file, faults>>

\* dirSaveLoop's tick.
Tick ==
    /\ life = "running"
    /\ pc["loop"] = "idle"
    /\ Step("loop", "lock")
    /\ UNCHANGED <<life, byID, dirty, recs, tmp, file, faults>>

\* Mutant: no saveMu.
CopyUnlocked(s) ==
    /\ pc[s] = "lock"
    /\ dirty' = FALSE
    /\ IF dirty
       THEN Step(s, "write") /\ recs' = [recs EXCEPT ![s] = byID]
       ELSE Step(s, "idle") /\ UNCHANGED recs
    /\ UNCHANGED <<life, byID, tmp, file, faults>>

\* saveMu.Lock, and under mu the copy of the table, if it is dirty.
Copy(s) ==
    /\ pc[s] = "lock"
    /\ SaveMuFree
    /\ dirty' = FALSE
    /\ IF dirty
       THEN Step(s, "write") /\ recs' = [recs EXCEPT ![s] = byID]
       ELSE Step(s, "idle") /\ UNCHANGED recs
    /\ UNCHANGED <<life, byID, tmp, file, faults>>

\* Mutant: peers.json itself is written.
TruncateInPlace(s) ==
    /\ pc[s] = "write"
    /\ file' = Torn
    /\ Step(s, "fill")
    /\ UNCHANGED <<life, byID, dirty, recs, tmp, faults>>

\* os.WriteFile: the file is truncated, then filled.
Truncate(s) ==
    /\ pc[s] = "write"
    /\ tmp' = Torn
    /\ Step(s, "fill")
    /\ UNCHANGED <<life, byID, dirty, recs, file, faults>>

Fill(s) ==
    /\ pc[s] = "fill"
    /\ tmp' = recs[s]
    /\ Step(s, "rename")
    /\ UNCHANGED <<life, byID, dirty, recs, file, faults>>

\* os.Rename, and the return of Save.
Rename(s) ==
    /\ pc[s] = "rename"
    /\ file' = tmp
    /\ tmp' = NoFile
    /\ recs' = [recs EXCEPT ![s] = Empty]
    /\ Step(s, "idle")
    /\ UNCHANGED <<life, byID, dirty, faults>>

\* Mutant: a failed save is not tried again.
SaveErrorForgotten(s) ==
    /\ pc[s] \in {"write", "fill", "rename"}
    /\ faults < MaxFaults
    /\ faults' = faults + 1
    /\ recs' = [recs EXCEPT ![s] = Empty]
    /\ Step(s, "idle")
    /\ UNCHANGED <<life, byID, dirty, tmp, file>>

\* MkdirAll, WriteFile or Rename fails: markDirty.
SaveError(s) ==
    /\ pc[s] \in {"write", "fill", "rename"}
    /\ faults < MaxFaults
    /\ faults' = faults + 1
    /\ dirty' = TRUE
    /\ recs' = [recs EXCEPT ![s] = Empty]
    /\ Step(s, "idle")
    /\ UNCHANGED <<life, byID, tmp, file>>

SaveStep(s) == Copy(s) \/ Truncate(s) \/ Fill(s) \/ Rename(s)

----------------------------------------------------------------------------
(* The process.                                                            *)

\* Load, and the empty directory that takes its place when the file cannot be
\* parsed.
Load == IF file \in {NoFile, Torn} THEN Empty ELSE file

Start ==
    /\ life = "down"
    /\ life' = "running"
    /\ byID' = Load
    /\ dirty' = FALSE
    /\ UNCHANGED <<pc, recs, tmp, file, faults>>

\* Close, once no command is running, calls Save ...
Close ==
    /\ life = "running"
    /\ pc["main"] = "idle"
    /\ life' = "closing"
    /\ Step("main", "lock")
    /\ UNCHANGED <<byID, dirty, recs, tmp, file, faults>>

\* The process is gone, and with it the memory and every goroutine.
Gone ==
    /\ life' = "down"
    /\ byID' = Empty
    /\ dirty' = FALSE
    /\ pc' = [s \in Saver |-> "idle"]
    /\ recs' = [s \in Saver |-> Empty]
    /\ UNCHANGED <<tmp, file>>

\* ... and when Save has returned main does, wherever dirSaveLoop stands.
Exit ==
    /\ life = "closing"
    /\ pc["main"] = "idle"
    /\ Gone
    /\ UNCHANGED faults

Crash ==
    /\ life # "down"
    /\ faults < MaxFaults
    /\ faults' = faults + 1
    /\ Gone

\* Somebody edits the file by hand, or the disk fails.
Damage ==
    /\ file # NoFile
    /\ faults < MaxFaults
    /\ faults' = faults + 1
    /\ file' = Torn
    /\ UNCHANGED <<life, byID, dirty, pc, recs, tmp>>

Next ==
    \/ \E p \in Peer, addr \in BOOLEAN : Observe(p, addr)
    \/ \E t \in Peer \cup Word : clearAlias(t) \/ \E w \in Word : setAlias(t, w)
    \/ \E s \in Saver : SaveStep(s) \/ SaveError(s)
    \/ Tick \/ Start \/ Close \/ Exit \/ Crash \/ Damage

Spec == Init /\ [][Next]_vars

\* The ticker ticks and a save that was begun goes on.
Fairness == WF_vars(Tick) /\ \A s \in Saver : WF_vars(SaveStep(s))

FairSpec == Spec /\ Fairness

----------------------------------------------------------------------------
(* What the directory promises.                                            *)

Readable(f) == f \notin {NoFile, Torn}

\* The dirty flag can be trusted: when it is down and no save is under way,
\* peers.json holds the table, so that neither the loop nor Close skips a save
\* that is needed, also after a save that failed half-way or that ran while
\* the table changed.  A file that could not be read is the one exception.
CleanMeansSaved ==
    life # "down" /\ ~dirty /\ SaveMuFree =>
        file = byID \/ (byID = Empty /\ file = NoFile) \/ file = Torn

\* An alias names the peer it was given to and no other in Directory.Lookup: no
\* second peer gets it in other letters, and no peer met later whose ID begins
\* with it takes it over, also after the table was saved, lost in a crash and
\* loaded.  (Node.SendDirect looks among the connected peers before it asks.)
AliasNamesOne ==
    \A p \in Known : byID[p].alias # NoAlias => Lookup(byID[p].alias) = {p}

\* A readable peers.json stays readable and what is in it stays there, but for
\* a hand or a disk that damages it: no save, whether it overlaps another, fails
\* or dies in a crash half-way, tears it or brings back an older table, so that
\* a peer is never forgotten nor its address lost.
FileKeepsPeers ==
    [][Readable(file) /\ ~Damage =>
         /\ Readable(file')
         /\ \A p \in DOMAIN file :
              p \in DOMAIN file' /\ (file[p].addr => file'[p].addr)]_vars

\* Every change reaches the file by itself, a few seconds later, unless the
\* process goes down first.
EventuallySaved ==
    life = "running" /\ dirty ~> life # "running" \/ file = byID
============================================================================
