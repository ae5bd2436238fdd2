--------------------------- MODULE DurableStores ---------------------------
(* The durable adapters over the document store that several processes share *)
(* (src/monatise/application/persistence.py): the audit stream, its forks    *)
(* and their restoration; the event store and its index; the state manager   *)
(* and task scheduler, whose writes are repeated in the store.  A rolling    *)
(* deployment overlaps two processes.  The three share no data, and no step  *)
(* touches two of them.                                                      *)
(*                                                                           *)
(* An integrity hash is a number nobody chooses: hashes are unique and their *)
(* order says nothing of when a row was signed.                              *)
EXTENDS Integers, FiniteSets, Sequences

CONSTANTS
  Replicas,      \* processes that append to the stream
  Hashes,        \* integrity hashes, so bound: rows signed
  Window,        \* startup_window
  LoadAttempts,  \* _LOAD_RETRY_ATTEMPTS
  MaxStarts,     \* bound: starts of a process
  MaxStoreFaults,\* bound: appends the store refuses
  EventKeys,     \* idempotency keys of the events appended
  MaxAppends,    \* bound: appends to the event store
  Savers,        \* tasks that change what one process keeps in memory
  MaxChanges     \* bound: changes made in memory

VARIABLES
  stream,      \* the rows of the audit stream, in insertion order
  replica,     \* the processes: loaded or not, the head of their chain
  starts,
  storeFaults,
  settled      \* history: rows that were the restorable head, their writer alone

auditStreamVars == <<stream, replica, starts, storeFaults, settled>>

NoRow == [hash |-> 0, number |-> 0, parent |-> 0]
Down == [up |-> FALSE, loaded |-> FALSE, head |-> NoRow, signed |-> NoRow, attempt |-> 1]

StreamInit ==
  /\ stream = <<>> /\ replica = [r \in Replicas |-> Down]
  /\ starts = 0 /\ storeFaults = 0 /\ settled = {}

-----------------------------------------------------------------------------
(* Restoration.  A row's ancestors are found by their hashes.                *)
Rows(s) == {s[i] : i \in DOMAIN s}
Parents(rows, row) == {p \in rows : p.hash = row.parent}

Chain(rows, row) ==
  LET back[n \in 0 .. row.number] ==   \* the ancestor n rows back, while there is one
        IF n = 0 THEN {row} ELSE UNION {Parents(rows, p) : p \in back[n - 1]}
  IN UNION {back[n] : n \in 0 .. row.number}

(* _canonical_chain: chains that reach the root, the highest one.            *)
Rooted(rows, row) == \E first \in Chain(rows, row) : first.number = 1 /\ first.parent = 0
Highest(rows) == {r \in rows : \A other \in rows : other.number <= r.number}
CanonicalHeads(rows) == Highest({r \in rows : Rooted(rows, r)})

(* _canonical_recent_chain: chains of the window, the longest one.           *)
Endpoints(rows) == {r \in rows : \A other \in rows : other.parent # r.hash}
RecentHeads(rows) ==
  LET length(r) == Cardinality(Chain(rows, r))
  IN Highest({r \in Endpoints(rows) : \A o \in Endpoints(rows) : length(o) <= length(r)})

StartupRows == IF Len(stream) <= Window THEN Rows(stream)
               ELSE Rows(SubSeq(stream, Len(stream) - Window + 1, Len(stream)))
Heads == IF Len(stream) < Window THEN CanonicalHeads(StartupRows) ELSE RecentHeads(StartupRows)

(* force_resolve: every process picks the same endpoint of equal ones.       *)
Forced(heads) == {r \in heads : \A other \in heads : r.hash <= other.hash}
Restorable == Rows(stream) # {} => Heads # {}
RestoredHead == IF stream = <<>> THEN NoRow ELSE CHOOSE r \in Forced(Heads) : TRUE

-----------------------------------------------------------------------------
StartReplica(r) ==
  /\ ~replica[r].up /\ starts < MaxStarts /\ starts' = starts + 1
  /\ replica' = [replica EXCEPT ![r] = [Down EXCEPT !.up = TRUE]]
  /\ UNCHANGED <<stream, storeFaults, settled>>

StopReplica(r) ==
  /\ replica[r].up /\ replica' = [replica EXCEPT ![r] = Down]
  /\ UNCHANGED <<stream, starts, storeFaults, settled>>

(* _ensure_loaded: two endpoints may be a deployment's fork that one side is *)
(* about to extend; the last attempt picks one.                              *)
WaitForFork(r) ==
  /\ replica[r].up /\ ~replica[r].loaded /\ replica[r].attempt < LoadAttempts
  /\ stream # <<>> /\ Cardinality(Heads) > 1
  /\ replica' = [replica EXCEPT ![r].attempt = @ + 1]
  /\ UNCHANGED <<stream, starts, storeFaults, settled>>

\* Mutant: the endpoints of a fork are taken as they come.
LoadAnyRow(r) ==
  /\ replica[r].up /\ ~replica[r].loaded /\ Restorable
  /\ \E head \in (IF stream = <<>> THEN {NoRow} ELSE Rows(stream)) :
       replica' = [replica EXCEPT ![r].loaded = TRUE, ![r].head = head]
  /\ UNCHANGED <<stream, starts, storeFaults, settled>>

LoadChain(r) ==
  /\ replica[r].up /\ ~replica[r].loaded /\ Restorable
  /\ Cardinality(Heads) <= 1 \/ replica[r].attempt = LoadAttempts
  /\ replica' = [replica EXCEPT ![r].loaded = TRUE, ![r].head = RestoredHead, ![r].attempt = 1]
  /\ UNCHANGED <<stream, starts, storeFaults, settled>>

Used == UNION {{row.hash, row.parent} : row \in Rows(stream)}
          \cup UNION {{replica[r].head.hash, replica[r].head.parent} : r \in Replicas}

(* append signs the record on the chain in memory, under the append lock.    *)
SignRow(r) ==
  /\ replica[r].loaded /\ replica[r].signed = NoRow
  /\ \E h \in Hashes \ Used :
       LET row == [hash |-> h, number |-> replica[r].head.number + 1,
                   parent |-> replica[r].head.hash]
       IN replica' = [replica EXCEPT ![r].signed = row, ![r].head = row]
  /\ UNCHANGED <<stream, starts, storeFaults, settled>>

OnlyOne(r) == \A other \in Replicas \ {r} : ~replica[other].up

StoreRow(r) ==
  LET row == replica[r].signed
  IN /\ row # NoRow
     /\ stream' = Append(stream, row)
     /\ replica' = [replica EXCEPT ![r].signed = NoRow]
     /\ settled' = IF OnlyOne(r) /\ Heads' # {} /\ RestoredHead' = row
                   THEN settled \cup {row} ELSE settled
     /\ UNCHANGED <<starts, storeFaults>>

(* The store refuses: append raises, and the chain in memory keeps the row.  *)
StoreRefuses(r) ==
  /\ replica[r].signed # NoRow /\ storeFaults < MaxStoreFaults /\ storeFaults' = storeFaults + 1
  /\ replica' = [replica EXCEPT ![r].signed = NoRow]
  /\ UNCHANGED <<stream, starts, settled>>

StreamNext ==
  \E r \in Replicas : \/ StartReplica(r) \/ StopReplica(r) \/ WaitForFork(r) \/ LoadChain(r)
                      \/ SignRow(r) \/ StoreRow(r) \/ StoreRefuses(r)

StreamSpec == StreamInit /\ [][StreamNext]_auditStreamVars

-----------------------------------------------------------------------------
StreamTypeOK ==
  /\ \A i, j \in DOMAIN stream : stream[i].hash = stream[j].hash => i = j
  /\ \A r \in Replicas : replica[r].loaded => replica[r].up

(* A record that was the head a restart would restore, stored while its      *)
(* writer was the only process, is an ancestor of whatever a later restart   *)
(* restores: overlapping deployments and their forks only orphan records     *)
(* written beside another process (persistence.py:447 "the other rows stay   *)
(* untouched as forensic evidence").  A row the store refused leaves orphans *)
(* behind, and these may win the window once it cuts the root off.           *)
SettledStays ==
  (Len(stream) < Window \/ storeFaults = 0) /\ Heads # {}
    => \A row \in settled : row \in Chain(Rows(stream), RestoredHead)

(* A stream whose first record was stored can be restored: no orphan, fork   *)
(* or missing row keeps a process from starting.                             *)
RootedRestores ==
  (\E row \in Rows(stream) : row.number = 1) => Heads # {}

-----------------------------------------------------------------------------
(* The event store: an append under the lock of its own process.             *)
VARIABLES
  event,      \* the events by the number of their append: key, stored
  claimedBy,  \* event_idempotency: the event of a key
  index,      \* event_indexes: the events a replay reads
  appending,  \* the append a process has under way
  kept,       \* history: events whose append returned True
  overlapped  \* history: two processes appended at the same time

eventStoreVars == <<event, claimedBy, index, appending, kept, overlapped>>

NoAppend == [step |-> "none", event |-> 0, listed |-> <<>>]

EventStoreInit ==
  /\ event = <<>> /\ claimedBy = [k \in EventKeys |-> 0] /\ index = <<>>
  /\ appending = [r \in Replicas |-> NoAppend] /\ kept = {} /\ overlapped = FALSE

Appending == {r \in Replicas : appending[r] # NoAppend}

(* contains_idempotency_key answers no, and the index is read.               *)
BeginAppend(r, k) ==
  /\ appending[r] = NoAppend /\ Len(event) < MaxAppends
  /\ claimedBy[k] = 0
  /\ event' = Append(event, [key |-> k, stored |-> FALSE])
  /\ appending' = [appending EXCEPT
       ![r] = [step |-> "event", event |-> Len(event'), listed |-> index]]
  /\ overlapped' = (overlapped \/ Appending # {})
  /\ UNCHANGED <<claimedBy, index, kept>>

PutEvent(r) ==
  /\ appending[r].step = "event"
  /\ event' = [event EXCEPT ![appending[r].event].stored = TRUE]
  /\ appending' = [appending EXCEPT ![r].step = "key"]
  /\ UNCHANGED <<claimedBy, index, kept, overlapped>>

PutKey(r) ==
  /\ appending[r].step = "key"
  /\ claimedBy' = [claimedBy EXCEPT ![event[appending[r].event].key] = appending[r].event]
  /\ appending' = [appending EXCEPT ![r].step = "index"]
  /\ UNCHANGED <<event, index, kept, overlapped>>

(* An unversioned put of the index read at the start.                        *)
PutIndex(r) ==
  /\ appending[r].step = "index"
  /\ index' = Append(appending[r].listed, appending[r].event)
  /\ appending' = [appending EXCEPT ![r] = NoAppend]
  /\ kept' = kept \cup {appending[r].event}
  /\ UNCHANGED <<event, claimedBy, overlapped>>

(* The process stops, or the store refuses a put and append raises.          *)
AppendStops(r) ==
  /\ appending[r] # NoAppend
  /\ appending' = [appending EXCEPT ![r] = NoAppend]
  /\ UNCHANGED <<event, claimedBy, index, kept, overlapped>>

EventStoreNext ==
  \E r \in Replicas :
    \/ \E k \in EventKeys : BeginAppend(r, k)
    \/ PutEvent(r) \/ PutKey(r) \/ PutIndex(r) \/ AppendStops(r)

(* A replay finds every event it lists and lists no event twice; a claimed   *)
(* key is never without its event; and while no two processes appended at    *)
(* once it lists every event whose append returned True, one of a key.       *)
ReplayIsSound ==
  /\ \A i, j \in DOMAIN index : event[index[i]].stored /\ (index[i] = index[j] => i = j)
  /\ \A k \in EventKeys : claimedBy[k] # 0 => event[claimedBy[k]].stored /\ event[claimedBy[k]].key = k
  /\ ~overlapped =>
       /\ kept \subseteq Rows(index)
       /\ \A e, f \in Rows(index) : event[e].key = event[f].key => e = f

-----------------------------------------------------------------------------
(* A write of the state manager or scheduler is made in memory, then memory  *)
(* is read back and put, unversioned.  What memory holds is named by the     *)
(* number of the change that made it.                                        *)
VARIABLES
  memory,    \* the last change memory holds
  document,  \* the change the stored document holds
  changes,   \* changes made
  save,      \* the savers' writes under way
  assured    \* history: the last change returned with no other under way

writeThroughVars == <<memory, document, changes, save, assured>>

NoSave == [step |-> "none", change |-> 0, copy |-> 0, alone |-> FALSE]

WriteThroughInit ==
  /\ memory = 0 /\ document = 0 /\ changes = 0 /\ assured = 0
  /\ save = [w \in Savers |-> NoSave]

Saving == {w \in Savers : save[w] # NoSave}

\* Mutant: memory is read back before the change is made.
ReadThenChange(w) ==
  /\ save[w] = NoSave /\ changes < MaxChanges /\ changes' = changes + 1 /\ memory' = changes'
  /\ save' = [v \in Savers |->
       IF v = w THEN [step |-> "put", change |-> changes', copy |-> memory,
                      alone |-> Saving = {}]
       ELSE [save[v] EXCEPT !.alone = FALSE]]
  /\ UNCHANGED <<document, assured>>

ChangeMemory(w) ==
  /\ save[w] = NoSave /\ changes < MaxChanges /\ changes' = changes + 1 /\ memory' = changes'
  /\ save' = [v \in Savers |->
       IF v = w THEN [step |-> "read", change |-> changes', copy |-> 0,
                      alone |-> Saving = {}]
       ELSE [save[v] EXCEPT !.alone = FALSE]]
  /\ UNCHANGED <<document, assured>>

(* _persist_snapshot takes its snapshot, _persist_state asks for the state.  *)
ReadBack(w) ==
  /\ save[w].step = "read"
  /\ save' = [save EXCEPT ![w].step = "put", ![w].copy = memory]
  /\ UNCHANGED <<memory, document, changes, assured>>

PutBack(w) ==
  /\ save[w].step = "put"
  /\ document' = save[w].copy
  /\ assured' = IF save[w].alone THEN save[w].change ELSE assured
  /\ save' = [save EXCEPT ![w] = NoSave]
  /\ UNCHANGED <<memory, changes>>

(* A restart restores memory from the document; the writes under way are     *)
(* lost with the process.                                                    *)
RestartStores ==
  /\ memory' = document /\ save' = [w \in Savers |-> NoSave]
  /\ UNCHANGED <<document, changes, assured>>

WriteThroughNext ==
  \/ \E w \in Savers : ChangeMemory(w) \/ ReadBack(w) \/ PutBack(w)
  \/ RestartStores

(* What a write left behind that returned with no other under way is never   *)
(* lost, neither to a restart nor to the writes that race after it.  A write *)
(* that another one overlapped may be: the slower put is the older snapshot. *)
AssuredIsDurable == document >= assured /\ memory >= assured
=============================================================================
