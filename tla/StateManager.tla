---------------------------- MODULE StateManager ----------------------------
(***************************************************************************)
(* The versioned state manager (infrastructure/state_manager/manager.py).  *)
(* Every method is one section under _global_lock.  Writers read an entry  *)
(* with get and write it back later with the version they read; snapshots  *)
(* are taken, kept and restored; entries expire and are purged.            *)
(***************************************************************************)
EXTENDS Integers, FiniteSets

CONSTANTS
  StateKeys,   \* keys of one namespace
  Writers,     \* tasks that read an entry and write it back
  MaxVersion   \* bound: no write beyond this sequence number

ASSUME StateAssumption == MaxVersion \in Nat \ {0}

VARIABLES
  entries,     \* _entries: version, status, whether a TTL has run out, and
               \* the write that made it (a history value, unique)
  sequence,    \* _sequence
  snapshotOf,  \* a snapshot someone keeps: entries and sequence
  read,        \* the entry each writer read
  writes,      \* history: numbers the writes
  blind,       \* history: a compare-and-set replaced what its writer never read
  forgot       \* history: a purge or a replacing restore dropped versions

stateVars == <<entries, sequence, snapshotOf, read, writes, blind, forgot>>

Absent == [version |-> 0, status |-> "absent", due |-> FALSE, write |-> 0]
Statuses == {"absent", "active", "expired", "deleted"}
Entry(version, status, write) ==
  [version |-> version, status |-> status, due |-> FALSE, write |-> write]

StateTypeOK ==
  LET Entries == [version : Nat, status : Statuses, due : BOOLEAN, write : Nat] IN
  /\ entries \in [StateKeys -> Entries]
  /\ sequence \in Nat
  /\ snapshotOf \in [entries : [StateKeys -> Entries], sequence : Nat]
  /\ read \in [Writers -> [key : StateKeys, entry : Entries]]
  /\ writes \in Nat
  /\ blind \in BOOLEAN /\ forgot \in BOOLEAN
  /\ \A k \in StateKeys : entries[k].status = "absent" <=> entries[k].version = 0

StateInit ==
  /\ entries = [k \in StateKeys |-> Absent]
  /\ sequence = 0
  /\ snapshotOf = [entries |-> entries, sequence |-> 0]
  /\ read \in [Writers -> [key : StateKeys, entry : {Absent}]]
  /\ writes = 0
  /\ blind = FALSE /\ forgot = FALSE

(* _expire_if_needed: only an active entry expires.                        *)
Expired(e) == e.status = "active" /\ e.due

(* _materialize_expiry: the expiry is a write of its own, one version up.  *)
Materialized(e) == IF Expired(e) THEN Entry(e.version + 1, "expired", e.write) ELSE e

Bumps(e) == IF Expired(e) THEN 1 ELSE 0

(* Time passes the entry's expires_at.                                     *)
TtlRunsOut(k) ==
  /\ entries[k].status = "active" /\ ~entries[k].due
  /\ entries' = [entries EXCEPT ![k].due = TRUE]
  /\ UNCHANGED <<sequence, snapshotOf, read, writes, blind, forgot>>

(* get hides an expired or deleted entry unless it is asked to include it. *)
Get(w, k, included) ==
  /\ sequence < MaxVersion
  /\ entries' = [entries EXCEPT ![k] = Materialized(@)]
  /\ sequence' = sequence + Bumps(entries[k])
  /\ read' = [read EXCEPT ![w] = [key |-> k, entry |->
       IF entries'[k].status \in included THEN entries'[k] ELSE Absent]]
  /\ UNCHANGED <<snapshotOf, writes, blind, forgot>>

(* set without an expected version.                                        *)
Store(k) ==
  LET current == Materialized(entries[k]) IN
  /\ sequence < MaxVersion
  /\ entries' = [entries EXCEPT ![k] = Entry(current.version + 1, "active", writes + 1)]
  /\ sequence' = sequence + Bumps(entries[k]) + 1
  /\ writes' = writes + 1
  /\ UNCHANGED <<snapshotOf, read, blind, forgot>>

\* Mutant: a version newer than the expected one will do.
VersionMatchesNewer(current, expected) == current.version >= expected

VersionMatches(current, expected) == current.version = expected

(* set, update and delete with the version the writer read.  update wants  *)
(* an active entry, delete an entry; set takes what it finds, an absent    *)
(* entry at version 0 included.                                            *)
CompareAndSet(w, status, wanted) ==
  LET k == read[w].key
      seen == read[w].entry
      current == Materialized(entries[k]) IN
  /\ sequence < MaxVersion
  /\ current.status \in wanted
  /\ VersionMatches(current, seen.version)
  /\ entries' = [entries EXCEPT ![k] =
       Entry(current.version + 1, status, writes + 1)]
  /\ sequence' = sequence + Bumps(entries[k]) + 1
  /\ writes' = writes + 1
  /\ blind' = (blind \/ current.write # seen.write)
  /\ UNCHANGED <<snapshotOf, read, forgot>>

SetIfVersion(w) == CompareAndSet(w, "active", Statuses)
Update(w) == CompareAndSet(w, "active", {"active"})
Delete(w) == CompareAndSet(w, "deleted", Statuses \ {"absent"})

(* A refused compare-and-set has materialized the expiry all the same.     *)
Conflict(w) ==
  LET k == read[w].key IN
  /\ sequence < MaxVersion
  /\ ~VersionMatches(Materialized(entries[k]), read[w].entry.version)
  /\ entries' = [entries EXCEPT ![k] = Materialized(@)]
  /\ sequence' = sequence + Bumps(entries[k])
  /\ UNCHANGED <<snapshotOf, read, writes, blind, forgot>>

(* snapshot, list_namespace: every entry's expiry is materialized first;   *)
(* what an include flag leaves out stays out of the snapshot.              *)
Snapshot(included) ==
  /\ sequence < MaxVersion
  /\ entries' = [k \in StateKeys |-> Materialized(entries[k])]
  /\ sequence' = sequence + Cardinality({k \in StateKeys : Expired(entries[k])})
  /\ snapshotOf' = [sequence |-> sequence', entries |->
       [k \in StateKeys |-> IF entries'[k].status \in included THEN entries'[k] ELSE Absent]]
  /\ UNCHANGED <<read, writes, blind, forgot>>

Later(a, b) == IF a > b THEN a ELSE b

(* restore keeps an entry whose version is no older than the snapshot's.   *)
Keeps(current, saved) == current.version >= saved.version

Restore(replaceExisting) ==
  /\ sequence < MaxVersion
  /\ entries' = [k \in StateKeys |->
       LET saved == snapshotOf.entries[k] IN
       IF replaceExisting THEN saved
       ELSE IF Keeps(entries[k], saved) THEN entries[k] ELSE saved]
  /\ sequence' = Later(sequence, snapshotOf.sequence) + 1
  /\ forgot' = (forgot \/ replaceExisting)
  /\ UNCHANGED <<snapshotOf, read, writes, blind>>

(* purge_expired forgets the entry with its version.                       *)
Purge ==
  LET gone == {k \in StateKeys : Expired(entries[k]) \/ entries[k].status = "expired"} IN
  /\ gone # {} /\ sequence < MaxVersion
  /\ entries' = [k \in StateKeys |-> IF k \in gone THEN Absent ELSE entries[k]]
  /\ sequence' = sequence + 1
  /\ forgot' = TRUE
  /\ UNCHANGED <<snapshotOf, read, writes, blind>>

Includes == {Statuses, {"absent", "active"}}

StateNext ==
  \/ \E k \in StateKeys : TtlRunsOut(k) \/ Store(k)
  \/ \E w \in Writers :
       \/ \E k \in StateKeys, included \in Includes : Get(w, k, included)
       \/ SetIfVersion(w) \/ Update(w) \/ Delete(w) \/ Conflict(w)
  \/ \E included \in Includes : Snapshot(included)
  \/ \E replaceExisting \in BOOLEAN : Restore(replaceExisting)
  \/ Purge

(* A compare-and-set that succeeds replaces the write its writer read, as  *)
(* long as no purge or replacing restore resets versions: expiries,        *)
(* deletes, snapshots and merging restores never bring a version back      *)
(* (set, _materialize_expiry, restore).                                    *)
NoBlindWrite == blind => forgot

(* The sequence number never goes back, and a step that changes an entry   *)
(* raises it, a restore of an older snapshot included.  A TTL that runs    *)
(* out is no write.                                                        *)
SequenceCounts ==
  [][/\ sequence' >= sequence
     /\ \A k \in StateKeys :
          [entries'[k] EXCEPT !.due = FALSE] # [entries[k] EXCEPT !.due = FALSE]
            => sequence' > sequence]_stateVars

(* A version is forgotten only by a purge or a replacing restore: without  *)
(* them no entry's version goes back.                                      *)
VersionsGrow ==
  [][~forgot' => \A k \in StateKeys : entries'[k].version >= entries[k].version]_stateVars
=============================================================================
