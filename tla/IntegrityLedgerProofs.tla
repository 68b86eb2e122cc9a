------------------------ MODULE IntegrityLedgerProofs ------------------------
(***************************************************************************)
(* Proofs about IntegrityLedger, for any records, fields, writers and      *)
(* keys: rows keep their ancestors, sealed states their rows, and what was *)
(* changed behind the ledger's back is reported.                           *)
(***************************************************************************)
EXTENDS IntegrityLedger, Sequences, WellFoundedInduction, TLAPS

-----------------------------------------------------------------------------
(* The greatest of finitely many keys                                      *)

HasMax(f, n) == \E k \in 1..n : \A j \in 1..n : f[j] <= f[k]

\* Naturals listed in a sequence have a greatest: no shortest list has none.
LEMMA ListHasMax ==
  ASSUME NEW n \in Nat, n > 0, NEW f \in [1..n -> Nat]
  PROVE  HasMax(f, n)
<1> DEFINE Bad == {m \in Nat : m > 0 /\ \E g \in [1..m -> Nat] : ~HasMax(g, m)}
<1> SUFFICES ASSUME Bad # {} PROVE FALSE
  OBVIOUS
<1>1. PICK m \in Bad : \A k \in Bad : ~(<<k, m>> \in OpToRel(<, Nat))
  <2>1. Bad \subseteq Nat
    OBVIOUS
  <2> HIDE DEF Bad
  <2> QED BY <2>1, NatLessThanWellFounded, WFMin
<1>2. \A k \in Bad : ~(k < m)
  BY <1>1 DEF OpToRel
<1>3. PICK g \in [1..m -> Nat] : ~HasMax(g, m)
  BY <1>1
<1>4. CASE m = 1
  BY <1>3, <1>4 DEF HasMax
<1>5. CASE m # 1
  <2> DEFINE h == [j \in 1..(m-1) |-> g[j]]
  <2>0. m \in Nat /\ m > 0
    BY <1>1
  <2>1. m - 1 \in Nat /\ m - 1 > 0 /\ m - 1 < m /\ m \in 1..m /\ 1..(m-1) \subseteq 1..m
    BY <2>0, <1>5
  <2>2. h \in [1..(m-1) -> Nat]
    <3> HIDE DEF Bad
    <3> QED BY <1>3, <2>1
  <2>3. HasMax(h, m-1)
    <3>1. m - 1 \notin Bad
      BY <1>2, <2>1
    <3> HIDE DEF h
    <3> QED BY <2>1, <2>2, <3>1
  <2>4. PICK k \in 1..(m-1) : \A j \in 1..(m-1) : g[j] <= g[k]
    BY <2>1, <2>3 DEF HasMax
  <2>5. g[k] \in Nat /\ g[m] \in Nat /\ k \in 1..m
    BY <1>3, <2>1
  <2>6. \A j \in 1..m : j = m \/ j \in 1..(m-1)
    BY <2>0
  <2> HIDE DEF Bad
  <2>7. CASE g[k] <= g[m]
    <3>1. \A j \in 1..m : g[j] <= g[m]
      BY <1>3, <2>4, <2>5, <2>6, <2>7
    <3> QED BY <1>3, <2>1, <3>1 DEF HasMax
  <2>8. CASE g[m] <= g[k]
    <3>1. \A j \in 1..m : g[j] <= g[k]
      BY <2>4, <2>6, <2>8
    <3> QED BY <1>3, <2>5, <3>1 DEF HasMax
  <2> QED BY <2>5, <2>7, <2>8
<1> QED BY <1>4, <1>5

\* What order_by("-id").first() finds: one of the rows, and no key is greater.
LEMMA MaxOfKeys ==
  ASSUME NEW S, S \subseteq RowId, S # {}
  PROVE  Max(S) \in S /\ \A j \in S : j <= Max(S)
<1>1. PICK Q \in Seq(RowId) : \A i \in RowId : \E n \in 1..Len(Q) : Q[n] = i
  BY LedgerAssumption DEF IsFiniteSet
<1>2. PICK i \in S : TRUE
  OBVIOUS
<1>3. S \subseteq Nat /\ i \in RowId
  BY LedgerAssumption
<1> DEFINE n == Len(Q)
           f == [k \in 1..n |-> IF Q[k] \in S THEN Q[k] ELSE i]
<1>4. n \in Nat /\ n > 0 /\ f \in [1..n -> Nat]
  <2>1. n \in Nat /\ \E k \in 1..n : Q[k] = i
    BY <1>1, <1>3
  <2>2. i \in Nat /\ \A x \in S : x \in Nat
    BY <1>2, <1>3
  <2> HIDE DEF n
  <2>3. n > 0
    BY <2>1
  <2>4. f \in [1..n -> Nat]
    BY <2>2
  <2> QED BY <2>1, <2>3, <2>4
<1>5. PICK k \in 1..n : \A j \in 1..n : f[j] <= f[k]
  <2> HIDE DEF f, n
  <2> QED BY <1>4, ListHasMax DEF HasMax
<1>6. f[k] \in S /\ \A j \in S : j <= f[k]
  <2>1. \A j \in S : \E q \in 1..n : f[q] = j
    BY <1>1
  <2>2. f[k] \in S
    BY <1>2
  <2> HIDE DEF f, n
  <2> QED BY <1>5, <2>1, <2>2
<1>7. \E x \in S : \A y \in S : x >= y
  <2>1. \A y \in S : f[k] >= y
    <3> HIDE DEF f, n
    <3> QED BY <1>3, <1>6
  <2> HIDE DEF f, n
  <2> QED BY <1>6, <2>1
<1>8. Max(S) \in S /\ \A y \in S : Max(S) >= y
  BY <1>7, Zenon DEF Max
<1> QED BY <1>3, <1>8

-----------------------------------------------------------------------------
(* The invariant: rows are what seal wrote, but for their payload          *)

SealedRow(row) ==
  /\ row = [record |-> row.record, payload |-> row.payload, prev |-> row.prev, hash |-> row.hash]
  /\ row.record \in Record
  /\ row.payload \in Value \cup {Edited}
  /\ \E v \in Value : /\ row.hash = ComputeHash(row.record, v, row.prev)
                      /\ row.payload \in {v, Edited}

\* prev is empty or the hash of a row of rows.
Rooted(rows, prev) == prev = NoHash \/ \E j \in DOMAIN rows : rows[j].hash = prev

LedgerInv ==
  /\ TypeOK
  /\ DOMAIN job = Writer
  /\ \A i \in Rows : SealedRow(ledger[i]) /\ Rooted(ledger, ledger[i].prev)
  /\ \A w \in Writer : job[w] # None => Rooted(ledger, job[w].prev)
  /\ SealedStateHasRow

\* What no step takes back.
Kept == /\ Rows \subseteq Rows'
        /\ \A i \in Rows : /\ ledger'[i].record = ledger[i].record
                          /\ ledger'[i].prev = ledger[i].prev
                          /\ ledger'[i].hash = ledger[i].hash

LEMMA LedgerInit == Init => LedgerInv
<1> SUFFICES ASSUME Init PROVE LedgerInv
  OBVIOUS
<1>1. Rows = {} /\ sealed = {} /\ DOMAIN job = Writer /\ \A w \in Writer : job[w] = None
  BY DEF Init, Rows
<1>2. record \in [Record -> Value \cup {None, Gone}]
  BY DEF Init
<1> QED BY <1>1, <1>2 DEF LedgerInv, TypeOK, SealedStateHasRow

LEMMA RootedStays == ASSUME Kept, NEW prev, Rooted(ledger, prev) PROVE Rooted(ledger', prev)
BY DEF Kept, Rooted, Rows

LEMMA SealedStays ==
  ASSUME Kept, SealedStateHasRow, NEW s \in sealed
  PROVE  \E i \in Rows' : ledger'[i].record = s[1]
                        /\ ledger'[i].hash = ComputeHash(s[1], s[2], ledger'[i].prev)
BY DEF Kept, SealedStateHasRow

\* The hash of the last row is the hash of a row.
LEMMA LastHashIsRooted == ASSUME TypeOK PROVE Rooted(ledger, LastHash)
<1>1. CASE Rows = {}
  BY <1>1 DEF LastHash, Rooted
<1>2. CASE Rows # {}
  <2>1. Max(Rows) \in Rows
    BY <1>2, MaxOfKeys DEF TypeOK
  <2> QED BY <1>2, <2>1 DEF LastHash, Rooted, Rows
<1> QED BY <1>1, <1>2

\* Where the deduplication keeps a row, the ledger has the state it was asked for.
LEMMA DuplicateHasRow ==
  ASSUME TypeOK, NEW r, NEW v, AlreadySealed(r, v)
  PROVE  \E i \in Rows : ledger[i].record = r /\ ledger[i].hash = ComputeHash(r, v, ledger[i].prev)
<1> DEFINE own == {i \in Rows : ledger[i].record = r}
<1>1. own # {} /\ own \subseteq RowId
  BY DEF AlreadySealed, TypeOK
<1>2. Max(own) \in own
  <2> HIDE DEF own
  <2> QED BY <1>1, MaxOfKeys
<1>3. ComputeHash(r, v, ledger[Max(own)].prev) = ledger[Max(own)].hash
  BY DEF AlreadySealed
<1> QED BY <1>2, <1>3

\* A row more, for a job that is rooted.
LEMMA AppendStep ==
  ASSUME LedgerInv, NEW w \in Writer, AppendRow(w)
  PROVE  LedgerInv'
<1>0. PICK r, v, p : r = job[w].record /\ v = job[w].fields /\ p = job[w].prev
  OBVIOUS
<1>1. job[w] # None /\ r \in Record /\ v \in Value /\ Rooted(ledger, p)
  BY <1>0 DEF AppendRow, InSeal, LedgerInv, TypeOK
<1>2. PICK i \in RowId \ Rows : ledger' = Insert(i, Row(r, v, p))
  BY <1>0 DEF AppendRow
<1>3. /\ sealed' = sealed \cup {<<r, v>>}
      /\ job' = [job EXCEPT ![w] = None]
      /\ record' = record
  BY <1>0 DEF AppendRow
<1>4. /\ Rows' = Rows \cup {i} /\ ledger'[i] = Row(r, v, p)
      /\ \A j \in Rows : ledger'[j] = ledger[j]
  BY <1>2 DEF Insert, Rows
<1>5. Kept
  BY <1>4 DEF Kept
<1>6. SealedRow(ledger'[i]) /\ ledger'[i].prev = p /\ ledger'[i].record = r
      /\ ledger'[i].hash = ComputeHash(r, v, p)
  BY <1>1, <1>4 DEF Row, SealedRow
<1>7. \A j \in Rows' : SealedRow(ledger'[j]) /\ Rooted(ledger', ledger'[j].prev)
  <2>1. Rooted(ledger', p)
    BY <1>1, <1>5, RootedStays
  <2>2. \A j \in Rows : SealedRow(ledger'[j]) /\ Rooted(ledger', ledger'[j].prev)
    BY <1>4, <1>5, RootedStays DEF LedgerInv
  <2> QED BY <1>4, <1>6, <2>1, <2>2
<1>8. \A x \in Writer : job'[x] # None => job'[x] = job[x] /\ job[x] # None
  BY <1>3 DEF LedgerInv
<1>9. \A x \in Writer : job'[x] # None => Rooted(ledger', job'[x].prev)
  BY <1>5, <1>8, RootedStays DEF LedgerInv
<1>10. SealedStateHasRow'
  <2> SUFFICES ASSUME NEW s \in sealed'
               PROVE  \E j \in Rows' : ledger'[j].record = s[1]
                        /\ ledger'[j].hash = ComputeHash(s[1], s[2], ledger'[j].prev)
    BY DEF SealedStateHasRow
  <2>1. CASE s \in sealed
    BY <1>5, <2>1, SealedStays DEF LedgerInv
  <2>2. CASE s = <<r, v>>
    BY <1>4, <1>6, <2>2
  <2> QED BY <1>3, <2>1, <2>2
<1>11. TypeOK'
  <2>1. /\ record' \in [Record -> Value \cup {None, Gone}] /\ sealed' \subseteq Record \X Value
        /\ Rows' \subseteq RowId
    BY <1>1, <1>2, <1>3, <1>4 DEF LedgerInv, TypeOK
  <2>2. \A j \in Rows' : ledger'[j].record \in Record /\ ledger'[j].payload \in Value \cup {Edited}
    BY <1>7 DEF SealedRow
  <2>3. \A x \in Writer : job'[x] # None => /\ job'[x].pc \in {"saved", "linked", "append"}
                                            /\ job'[x].record \in Record
                                            /\ job'[x].fields \in Value
    BY <1>8 DEF LedgerInv, TypeOK
  <2> QED BY <2>1, <2>2, <2>3 DEF TypeOK
<1>12. DOMAIN job' = Writer
  BY <1>3 DEF LedgerInv
<1> QED BY <1>7, <1>9, <1>10, <1>11, <1>12 DEF LedgerInv

\* A seal that goes on, with a hash that is rooted.
LEMMA SealGoesOn ==
  ASSUME LedgerInv, UNCHANGED <<ledger, sealed>>,
         record' \in [Record -> Value \cup {None, Gone}],
         NEW w \in Writer, NEW pc \in {"saved", "linked", "append"},
         NEW r \in Record, NEW v \in Value, NEW p, Rooted(ledger, p),
         job' = [job EXCEPT ![w] = Seal(pc, r, v, p)]
  PROVE  LedgerInv'
<1>1. \A x \in Writer : job'[x] # None => /\ Rooted(ledger, job'[x].prev)
                                          /\ job'[x].pc \in {"saved", "linked", "append"}
                                          /\ job'[x].record \in Record
                                          /\ job'[x].fields \in Value
  BY DEF Seal, LedgerInv, TypeOK
<1>2. SealedStateHasRow' /\ Rows' = Rows
  BY DEF LedgerInv, SealedStateHasRow, Rows
<1>3. DOMAIN job' = Writer
  BY DEF LedgerInv
<1> QED BY <1>1, <1>2, <1>3 DEF LedgerInv, TypeOK

LEMMA SaveStep ==
  ASSUME LedgerInv, NEW w \in Writer, NEW r \in Record, NEW stored \in Value,
         NEW fields \in Value, SaveRecord(w, r, stored, fields)
  PROVE  LedgerInv'
<1>1. record' \in [Record -> Value \cup {None, Gone}] /\ UNCHANGED <<ledger, sealed>>
  BY DEF SaveRecord, LedgerInv, TypeOK
<1>2. job' = [job EXCEPT ![w] = Seal("saved", r, fields, NoHash)]
  BY DEF SaveRecord
<1>3. PICK p : p = NoHash
  OBVIOUS
<1>4. Rooted(ledger, p)
  BY <1>3 DEF Rooted
<1> QED BY <1>1, <1>2, <1>3, <1>4, SealGoesOn

LEMMA ReadLastHashStep ==
  ASSUME LedgerInv, NEW w \in Writer, ReadLastHash(w)
  PROVE  LedgerInv'
<1>1. PICK r, v, p : r = job[w].record /\ v = job[w].fields /\ p = LastHash
  OBVIOUS
<1>2. /\ UNCHANGED <<record, ledger, sealed>>
      /\ job' = [job EXCEPT ![w] = Seal("linked", r, v, p)]
  BY <1>1 DEF ReadLastHash
<1>3. r \in Record /\ v \in Value /\ record' \in [Record -> Value \cup {None, Gone}]
  BY <1>1, <1>2 DEF ReadLastHash, InSeal, LedgerInv, TypeOK
<1>4. Rooted(ledger, p)
  BY <1>1, LastHashIsRooted DEF LedgerInv
<1> QED BY <1>2, <1>3, <1>4, SealGoesOn

LEMMA ReadLastForRecordStep ==
  ASSUME LedgerInv, NEW w \in Writer, ReadLastForRecord(w)
  PROVE  LedgerInv'
<1>1. PICK r, v, p : r = job[w].record /\ v = job[w].fields /\ p = job[w].prev
  OBVIOUS
<1>2. /\ UNCHANGED <<record, ledger>> /\ Rows' = Rows
      /\ r \in Record /\ v \in Value /\ Rooted(ledger, p)
      /\ record' \in [Record -> Value \cup {None, Gone}]
  BY <1>1 DEF ReadLastForRecord, InSeal, LedgerInv, TypeOK, Rows
<1>3. CASE AlreadySealed(r, v)
  <2>1. sealed' = sealed \cup {<<r, v>>} /\ job' = [job EXCEPT ![w] = None]
    BY <1>1, <1>3 DEF ReadLastForRecord
  <2>2. SealedStateHasRow'
    <3>1. \E i \in Rows : ledger[i].record = r /\ ledger[i].hash = ComputeHash(r, v, ledger[i].prev)
      BY <1>3, DuplicateHasRow DEF LedgerInv
    <3> QED BY <1>2, <2>1, <3>1 DEF LedgerInv, SealedStateHasRow
  <2>3. DOMAIN job' = Writer /\ \A x \in Writer : job'[x] # None => job'[x] = job[x]
    BY <2>1 DEF LedgerInv
  <2>4. TypeOK'
    BY <1>2, <2>1, <2>3 DEF LedgerInv, TypeOK
  <2> QED BY <1>2, <2>2, <2>3, <2>4 DEF LedgerInv
<1>4. CASE ~AlreadySealed(r, v)
  <2>1. sealed' = sealed /\ job' = [job EXCEPT ![w] = Seal("append", r, v, p)]
    BY <1>1, <1>4 DEF ReadLastForRecord
  <2> QED BY <1>2, <2>1, SealGoesOn
<1> QED BY <1>3, <1>4

LEMMA EditStep ==
  ASSUME LedgerInv, NEW i, EditRow(i)
  PROVE  LedgerInv'
<1>1. /\ i \in Rows /\ ledger' = [ledger EXCEPT ![i].payload = Edited]
      /\ UNCHANGED <<record, job, sealed>>
  BY DEF EditRow
<1>2. SealedRow(ledger[i])
  BY <1>1 DEF LedgerInv
<1>3. /\ Rows' = Rows
      /\ ledger'[i] = [ledger[i] EXCEPT !.payload = Edited]
      /\ \A j \in Rows : j # i => ledger'[j] = ledger[j]
  BY <1>1 DEF Rows
<1>4. /\ ledger'[i].record = ledger[i].record /\ ledger'[i].prev = ledger[i].prev
      /\ ledger'[i].hash = ledger[i].hash /\ ledger'[i].payload = Edited
      /\ SealedRow(ledger'[i])
  <2>1. PICK r, q, p, h : ledger[i] = [record |-> r, payload |-> q, prev |-> p, hash |-> h]
    BY <1>2 DEF SealedRow
  <2>2. ledger'[i] = [record |-> r, payload |-> Edited, prev |-> p, hash |-> h]
    BY <1>3, <2>1
  <2>3. r \in Record /\ \E v \in Value : h = ComputeHash(r, v, p)
    BY <1>2, <2>1 DEF SealedRow
  <2> QED BY <2>1, <2>2, <2>3 DEF SealedRow
<1>5. Kept
  BY <1>3, <1>4 DEF Kept
<1>6. \A j \in Rows' : SealedRow(ledger'[j]) /\ Rooted(ledger', ledger'[j].prev)
  BY <1>3, <1>4, <1>5, RootedStays DEF LedgerInv
<1>7. \A x \in Writer : job'[x] # None => Rooted(ledger', job'[x].prev)
  BY <1>1, <1>5, RootedStays DEF LedgerInv
<1>8. SealedStateHasRow'
  BY <1>1, <1>5, SealedStays DEF LedgerInv, SealedStateHasRow
<1>9. TypeOK'
  <2>1. \A j \in Rows' : ledger'[j].record \in Record /\ ledger'[j].payload \in Value \cup {Edited}
    BY <1>6 DEF SealedRow
  <2> QED BY <1>1, <1>3, <2>1 DEF LedgerInv, TypeOK
<1> QED BY <1>1, <1>6, <1>7, <1>8, <1>9 DEF LedgerInv

LEMMA LedgerStep == LedgerInv /\ [Next]_vars => LedgerInv'
<1> SUFFICES ASSUME LedgerInv, [Next]_vars PROVE LedgerInv'
  OBVIOUS
<1>1. ASSUME UNCHANGED <<ledger, sealed>>, record' \in [Record -> Value \cup {None, Gone}],
             \A x \in Writer : job'[x] # None => job'[x] = job[x], DOMAIN job' = Writer
      PROVE  LedgerInv'
  <2>1. SealedStateHasRow' /\ Rows' = Rows
    BY <1>1 DEF LedgerInv, SealedStateHasRow, Rows
  <2> QED BY <1>1, <2>1 DEF LedgerInv, TypeOK
<1>2. CASE UNCHANGED vars
  BY <1>1, <1>2 DEF vars, LedgerInv, TypeOK
<1>3. ASSUME NEW w \in Writer, Crash(w) PROVE LedgerInv'
  BY <1>1, <1>3 DEF Crash, LedgerInv, TypeOK
<1>4. ASSUME NEW r \in Record, NEW v \in Value, UpdateUnsealed(r, v) PROVE LedgerInv'
  BY <1>1, <1>4 DEF UpdateUnsealed, LedgerInv, TypeOK
<1>5. ASSUME NEW r \in Record, DeleteRecord(r) PROVE LedgerInv'
  BY <1>1, <1>5 DEF DeleteRecord, LedgerInv, TypeOK
<1> QED
  BY <1>2, <1>3, <1>4, <1>5, SaveStep, ReadLastHashStep, ReadLastForRecordStep, AppendStep,
     EditStep
  DEF Next

-----------------------------------------------------------------------------
(* Theorems                                                                *)

\* Records, rows and seals under way always hold values of the kinds the code
\* writes.
THEOREM LedgerTypeCorrect == Spec => []TypeOK
<1>1. LedgerInv => TypeOK
  BY DEF LedgerInv
<1> QED BY <1>1, LedgerInit, LedgerStep, PTL DEF Spec

\* Whoever appends at the same time under whatever keys, each row's prev_hash is
\* empty or the hash of a row that is there.
THEOREM RowsKeepTheirAncestors == Spec => []AncestryIsRooted
<1>1. LedgerInv => AncestryIsRooted
  BY DEF LedgerInv, Rooted, AncestryIsRooted, Rows
<1> QED BY <1>1, LedgerInit, LedgerStep, PTL DEF Spec

\* The deduplication by the last key loses no state whose seal has returned.
THEOREM SealedStatesHaveRows == Spec => []SealedStateHasRow
<1>1. LedgerInv => SealedStateHasRow
  BY DEF LedgerInv
<1> QED BY <1>1, LedgerInit, LedgerStep, PTL DEF Spec

\* The integrity page reports every row whose payload was edited.
THEOREM EditsAreReported == Spec => []EditedRowIsReported
<1>1. LedgerInv => EditedRowIsReported
  <2> SUFFICES ASSUME LedgerInv, NEW i \in Rows, ledger[i].payload = Edited
               PROVE  i \in Issues
    BY DEF EditedRowIsReported
  <2>1. PICK v \in Value : ledger[i].hash = <<ledger[i].record, v, ledger[i].prev>>
    BY DEF LedgerInv, SealedRow, ComputeHash
  <2>2. v # Edited
    BY LedgerAssumption
  <2>3. Tampered(i)
    BY <2>1, <2>2 DEF Tampered, VerifyRecord, ComputeHash
  <2> QED BY <2>3 DEF Issues
<1> QED BY <1>1, LedgerInit, LedgerStep, PTL DEF Spec

\* The integrity page reports a record that was changed behind the ledger's back:
\* the last of its rows by key, which exists, carries other fields.
THEOREM UnsealedChangesAreReported == Spec => []UnsealedChangeIsReported
<1>1. LedgerInv => UnsealedChangeIsReported
  <2> SUFFICES ASSUME LedgerInv, NEW r \in Record,
                      NEW own, own = {i \in Rows : ledger[i].record = r}, own # {},
                      \A i \in own : ledger[i].hash[2] # record[r]
               PROVE  own \cap Issues # {}
    BY DEF UnsealedChangeIsReported
  <2>1. Max(own) \in own /\ \A j \in own : j <= Max(own)
    BY MaxOfKeys DEF LedgerInv, TypeOK
  <2>2. PICK i \in own : \A j \in own : j <= i
    BY <2>1
  <2>3. IsLatest(i)
    BY <2>2 DEF IsLatest
  <2>4. ~VerifyRecord(ledger[i], record[r])
    BY <2>2 DEF VerifyRecord, ComputeHash
  <2>5. i \in Issues
    BY <2>2, <2>3, <2>4 DEF Issues, Diverges, SealedFields
  <2> QED BY <2>2, <2>5
<1> QED BY <1>1, LedgerInit, LedgerStep, PTL DEF Spec
=============================================================================
