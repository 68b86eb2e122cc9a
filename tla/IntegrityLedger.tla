--------------------------- MODULE IntegrityLedger ---------------------------
(***************************************************************************)
(* The integrity ledger (core/immutability.py and its receivers in         *)
(* core/signals.py): every save of an audit log, payment, application or   *)
(* document is followed by seal, which appends a row hashed over the       *)
(* record's fields and the hash of "the last" row.  Rows have random UUIDs *)
(* as keys, and first, last and next mean the order of these keys.         *)
(* Writers run at the same time; some writes are not sealed at all.        *)
(***************************************************************************)
EXTENDS Naturals, FiniteSets, FiniteSetsExt

CONSTANTS Record,    \* records of the sealed types
          Value,     \* what the sealed fields of a record can hold
          Writer,    \* requests and tasks that save records
          RowId,     \* the keys a ledger row can get, in their order
          Edited,    \* a payload no save has written
          Gone,      \* the fields of a record that was deleted
  None

ASSUME LedgerAssumption == /\ RowId \subseteq Nat \ {0}
                           /\ IsFiniteSet(RowId)
                           /\ None \notin Writer \cup Record \cup Value
                           /\ {Edited, Gone} \cap Value = {}
                           /\ Gone # None

VARIABLES
  record,   \* record[r]: the stored fields of r, or None before it is created, or Gone
  ledger,   \* ledger[i]: the row with key i, for the keys that are taken
  job,      \* job[w]: the seal w works on and how far it is, or None
  sealed    \* history: the pairs of record and fields whose seal has returned

vars == <<record, ledger, job, sealed>>

\* SHA-256 does not collide: a hash is told apart by what it is computed from.
ComputeHash(r, fields, prev) == <<r, fields, prev>>

NoHash == <<>>   \* prev_hash of the first row: the empty string

Row(r, fields, prev) ==
  [record |-> r, payload |-> fields, prev |-> prev, hash |-> ComputeHash(r, fields, prev)]

Rows == DOMAIN ledger
Insert(i, row) == [j \in Rows \cup {i} |-> IF j = i THEN row ELSE ledger[j]]

Init == /\ record = [r \in Record |-> None]
        /\ ledger = [i \in {} |-> None]
        /\ job = [w \in Writer |-> None]
        /\ sealed = {}

-----------------------------------------------------------------------------
(* Saving and sealing *)

\* What seal reads: the hash of the last row, and the last row of the record, which
\* it keeps when it says the same already.
LastHash == IF Rows = {} THEN NoHash ELSE ledger[Max(Rows)].hash

\* Mutant: a record that has a row is never sealed again.
SealedOnce(r, fields) == \E i \in Rows : ledger[i].record = r

AlreadySealed(r, fields) ==
  LET own == {i \in Rows : ledger[i].record = r}
  IN  own # {} /\ LET last == ledger[Max(own)]
                  IN  ComputeHash(r, fields, last.prev) = last.hash

Seal(pc, r, fields, prev) == [pc |-> pc, record |-> r, fields |-> fields, prev |-> prev]

\* save() commits, then the post_save receiver calls seal with the fields of the
\* instance: of columns outside update_fields, the row may hold others by now.
SaveRecord(w, r, stored, fields) ==
  /\ job[w] = None
  /\ record[r] # Gone
  /\ record' = [record EXCEPT ![r] = stored]
  /\ job' = [job EXCEPT ![w] = Seal("saved", r, fields, NoHash)]
  /\ UNCHANGED <<ledger, sealed>>

InSeal(w, pc) == job[w] # None /\ job[w].pc = pc

\* The first query.
ReadLastHash(w) ==
  /\ InSeal(w, "saved")
  /\ job' = [job EXCEPT ![w] = Seal("linked", job[w].record, job[w].fields, LastHash)]
  /\ UNCHANGED <<record, ledger, sealed>>

\* The second query, and the early return.
ReadLastForRecord(w) ==
  /\ InSeal(w, "linked")
  /\ IF AlreadySealed(job[w].record, job[w].fields)
     THEN /\ sealed' = sealed \cup {<<job[w].record, job[w].fields>>}
          /\ job' = [job EXCEPT ![w] = None]
     ELSE /\ job' = [job EXCEPT ![w] =
                       Seal("append", job[w].record, job[w].fields, job[w].prev)]
          /\ UNCHANGED sealed
  /\ UNCHANGED <<record, ledger>>

\* Mutant: the row is written under a key that is taken.
AppendAtFirst(w) ==
  /\ InSeal(w, "append")
  /\ ledger' = Insert(Min(RowId), Row(job[w].record, job[w].fields, job[w].prev))
  /\ sealed' = sealed \cup {<<job[w].record, job[w].fields>>}
  /\ job' = [job EXCEPT ![w] = None]
  /\ UNCHANGED record

\* objects.create: a new row under a random key.
AppendRow(w) ==
  /\ InSeal(w, "append")
  /\ \E i \in RowId \ Rows :
       ledger' = Insert(i, Row(job[w].record, job[w].fields, job[w].prev))
  /\ sealed' = sealed \cup {<<job[w].record, job[w].fields>>}
  /\ job' = [job EXCEPT ![w] = None]
  /\ UNCHANGED record

\* The worker dies after the save and before the row.
Crash(w) == /\ job[w] # None
            /\ job' = [job EXCEPT ![w] = None]
            /\ UNCHANGED <<record, ledger, sealed>>

\* QuerySet.update (expire_unpaid): no signal, no seal.
UpdateUnsealed(r, v) == /\ record[r] \notin {None, Gone}
                        /\ record' = [record EXCEPT ![r] = v]
                        /\ UNCHANGED <<ledger, job, sealed>>

\* delete_document and cascades: rows of the ledger stay.
DeleteRecord(r) == /\ record[r] \notin {None, Gone}
                   /\ record' = [record EXCEPT ![r] = Gone]
                   /\ UNCHANGED <<ledger, job, sealed>>

\* Somebody edits the payload of a row in the database, and not its hash.
EditRow(i) == /\ i \in Rows
              /\ ledger' = [ledger EXCEPT ![i].payload = Edited]
              /\ UNCHANGED <<record, job, sealed>>

Next == \/ \E w \in Writer :
             \/ \E r \in Record, stored, fields \in Value : SaveRecord(w, r, stored, fields)
             \/ ReadLastHash(w) \/ ReadLastForRecord(w) \/ AppendRow(w) \/ Crash(w)
        \/ \E r \in Record, v \in Value : UpdateUnsealed(r, v)
        \/ \E r \in Record : DeleteRecord(r)
        \/ \E i \in RowId : EditRow(i)

Spec == Init /\ [][Next]_vars

-----------------------------------------------------------------------------
(* The integrity page *)

\* What _payment_fields, _application_fields, _document_fields and _audit_fields
\* select of the row that is stored now.
SealedFields(r) == record[r]

\* Mutant: only the record's identity is compared.
VerifyRecordId(row, fields) == row.hash[1] = row.record

VerifyRecord(row, fields) == ComputeHash(row.record, fields, row.prev) = row.hash

\* latest_by_record: the row of the record with the greatest key.
IsLatest(i) == \A j \in Rows : ledger[j].record = ledger[i].record => j <= i

\* hash mismatch (tampered)
Tampered(i) == ~VerifyRecord(ledger[i], ledger[i].payload)

\* Mutant: the latest row is compared with its own payload.
DivergesFromItself(i) == IsLatest(i) /\ ~VerifyRecord(ledger[i], ledger[i].payload)

\* no longer exists, or diverges from current record
Diverges(i) == IsLatest(i) /\ ~VerifyRecord(ledger[i], SealedFields(ledger[i].record))

\* verify_chain: each row names the hash of the row before it in key order.
Before(i) == {j \in Rows : j < i}
ChainBreak(i) ==
  ledger[i].prev # IF Before(i) = {} THEN NoHash ELSE ledger[Max(Before(i))].hash

Issues == {i \in Rows : Tampered(i) \/ Diverges(i) \/ ChainBreak(i)}

-----------------------------------------------------------------------------
(* Properties *)

TypeOK == /\ record \in [Record -> Value \cup {None, Gone}]
          /\ Rows \subseteq RowId
          /\ \A i \in Rows : /\ ledger[i].record \in Record
                             /\ ledger[i].payload \in Value \cup {Edited}
          /\ \A w \in Writer : job[w] # None => /\ job[w].pc \in {"saved", "linked", "append"}
                                                /\ job[w].record \in Record
                                                /\ job[w].fields \in Value
          /\ sealed \subseteq Record \X Value

\* Forks and shuffled keys do not cut a row off: whoever appends at the same
\* time, every row's prev_hash is empty or the hash of a row that is there, so
\* that each row leads back to the beginning of the ledger.
AncestryIsRooted ==
  \A i \in Rows : ledger[i].prev = NoHash \/ \E j \in Rows : ledger[j].hash = ledger[i].prev

\* The deduplication compares with the last row by key, which need not be the
\* newest, and yet no sealed state is missing from the ledger.
SealedStateHasRow ==
  \A s \in sealed : \E i \in Rows :
    ledger[i].record = s[1] /\ ledger[i].hash = ComputeHash(s[1], s[2], ledger[i].prev)

\* A row whose payload was edited is an issue on the integrity page.
EditedRowIsReported == \A i \in Rows : ledger[i].payload = Edited => i \in Issues

\* A record whose stored fields no row of the ledger carries (changed behind its
\* back) is an issue on the page, as soon as it has a row at all.
UnsealedChangeIsReported ==
  \A r \in Record :
    LET own == {i \in Rows : ledger[i].record = r}
    IN  own # {} /\ (\A i \in own : ledger[i].hash[2] # record[r]) => own \cap Issues # {}
=============================================================================
