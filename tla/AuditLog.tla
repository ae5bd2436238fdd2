------------------------------ MODULE AuditLog ------------------------------
(***************************************************************************)
(* The hash-chained audit repository (audit_database/repository.py).       *)
(* Every method is one section under its lock.  A hash is the very record  *)
(* it was computed from, so two hashes agree when the records do.  The     *)
(* stored records may be edited behind the repository's back: once, by     *)
(* anything short of rehashing every record from the edit on.              *)
(***************************************************************************)
EXTENDS Integers, Sequences, SequencesExt

CONSTANTS
  RecordIds,
  Bodies,      \* what a record says
  MaxRecords   \* bound: records appended

ASSUME AuditAssumption == MaxRecords \in Nat

VARIABLES
  records,     \* _records
  ids,         \* _record_ids
  base,        \* _base_sequence and _base_hash
  number,      \* _sequence
  edited       \* history: was a stored record edited?

auditVars == <<records, ids, base, number, edited>>

NoHash == <<>>
HashRecord(r) == <<r.id, r.number, r.body, r.previous>>
Record(id, n, body, previous) ==
  LET r == [id |-> id, number |-> n, body |-> body, previous |-> previous, hash |-> NoHash]
  IN [r EXCEPT !.hash = HashRecord(r)]

AuditInit ==
  /\ records = <<>>
  /\ ids = {}
  /\ base = [number |-> 0, hash |-> NoHash]
  /\ number = 0
  /\ edited = FALSE

ChainHead == IF records = <<>> THEN base.hash ELSE Last(records).hash

AppendRecord(id, body) ==
  /\ number < MaxRecords
  /\ id \notin ids
  /\ records' = Append(records, Record(id, number + 1, body, ChainHead))
  /\ ids' = ids \cup {id}
  /\ number' = number + 1
  /\ UNCHANGED <<base, edited>>

(* A repository opened where another one ended: base_sequence, base_hash.  *)
Reopen ==
  /\ ~edited /\ records # <<>>
  /\ base' = [number |-> number, hash |-> ChainHead]
  /\ records' = <<>> /\ ids' = {}
  /\ UNCHANGED <<number, edited>>

(* Edits: a body changed with or without its hash, a record dropped, two   *)
(* records swapped, one repeated.  A rehash of the last record would leave *)
(* a chain no check of this repository tells from a true one.              *)
Changed(i, body, rehash) ==
  LET r == records[i] IN
  [records EXCEPT ![i] =
     IF rehash THEN Record(r.id, r.number, body, r.previous) ELSE [r EXCEPT !.body = body]]

Edit ==
  /\ ~edited
  /\ \E i \in DOMAIN records :
       \/ \E body \in Bodies \ {records[i].body}, rehash \in BOOLEAN :
            /\ rehash => i < Len(records)
            /\ records' = Changed(i, body, rehash)
       \/ records' = RemoveAt(records, i)
       \/ \E j \in DOMAIN records :
            /\ i < j
            /\ records' = [records EXCEPT ![i] = records[j], ![j] = records[i]]
       \/ records' = InsertAt(records, i, records[i])
  /\ edited' = TRUE
  /\ UNCHANGED <<ids, base, number>>

PreviousOf(i) == IF i = 1 THEN base.hash ELSE records[i - 1].hash

(* verify_integrity finds no error.                                        *)
Verifies ==
  /\ \A i \in DOMAIN records :
       /\ records[i].number = base.number + i
       /\ records[i].previous = PreviousOf(i)
       /\ records[i].hash = HashRecord(records[i])
  /\ \A i, j \in DOMAIN records : records[i].id = records[j].id => i = j
  /\ number = base.number + Len(records)

AuditNext ==
  \/ \E id \in RecordIds, body \in Bodies : AppendRecord(id, body)
  \/ Reopen \/ Edit

(* Integrity holds exactly while nobody edited: records appended, chains   *)
(* continued and appends made after an edit never raise a false alarm, and *)
(* no later append covers an edit (append, verify_integrity).              *)
EditsAreDetected == Verifies <=> ~edited
=============================================================================
