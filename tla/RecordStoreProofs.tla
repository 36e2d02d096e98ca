------------------------- MODULE RecordStoreProofs --------------------------
(***************************************************************************)
(* Proofs about RecordStore for every capacity of the table and every set  *)
(* of raw records.                                                         *)
(***************************************************************************)
EXTENDS RecordStore, FiniteSetTheorems, TLAPS

(***************************************************************************)
(* The inductive invariant of Spec.  CountMatchesIndex needs               *)
(* IndexTerminated: only because no stale entry lies behind the first 0xFF *)
(* does appending one entry add exactly one record to the list.            *)
(***************************************************************************)
IndexInv == TypeOK /\ CountMatchesIndex /\ IndexTerminated /\ SeparatorIntact

LEMMA MaxNumRecordsType == MaxNumRecords \in Nat /\ 1 <= MaxNumRecords /\ MaxNumRecords <= 250
BY RecordStoreAssumption, SMT

(* An index has at most one number of records.                             *)
LEMMA NumRecordsUnique ==
  ASSUME NEW index, NEW m, NEW n, IsNumRecords(index, m), IsNumRecords(index, n)
  PROVE  m = n
<1>1. m \in 0..MaxNumRecords /\ n \in 0..MaxNumRecords
  BY DEF IsNumRecords
<1>2. ~ m < n
  BY <1>1, MaxNumRecordsType, SMT DEF IsNumRecords
<1>3. ~ n < m
  BY <1>1, MaxNumRecordsType, SMT DEF IsNumRecords
<1> QED BY <1>1, <1>2, <1>3, MaxNumRecordsType, SMT

LEMMA InitIndexInv == Init => IndexInv
<1> SUFFICES ASSUME Init PROVE IndexInv
  OBVIOUS
<1>0. \A r \in 0..MaxNumRecords :
        recordIndex[r] = IF r = Separator THEN 0 ELSE NO_RECORD_INDEX
  BY DEF Init
<1>1. /\ \A r \in Slots : recordIndex[r] = NO_RECORD_INDEX
      /\ recordIndex[Separator] = 0
  BY <1>0, MaxNumRecordsType, SMT DEF Slots, Separator
<1>2. recordIndex \in [0..MaxNumRecords -> Slots \union {NO_RECORD_INDEX}]
  <2>1. 0 \in Slots
    BY MaxNumRecordsType, SMT DEF Slots
  <2> QED BY <2>1 DEF Init
<1>3. recordData \in [Slots -> RawRecords]
  BY RecordStoreAssumption DEF Init
<1>4. numRecords \in 0..MaxNumRecords /\ returned \in 0..255
  <2>1. numRecords = 0 /\ returned = 0
    BY DEF Init
  <2> QED BY <2>1, MaxNumRecordsType, SMT
<1>5. TypeOK
  BY <1>2, <1>3, <1>4, RecordStoreAssumption DEF TypeOK, Init
<1>6. IsNumRecords(recordIndex, numRecords)
  <2>1. numRecords = 0
    BY DEF Init
  <2> QED BY <1>1, <2>1, MaxNumRecordsType, SMT DEF IsNumRecords, Slots
<1> QED BY <1>1, <1>5, <1>6
           DEF IndexInv, CountMatchesIndex, IndexTerminated, SeparatorIntact

(* The entries of an index of n entries after an insertion at p.           *)
LEMMA InsertedType ==
  ASSUME NEW index \in [0..MaxNumRecords -> Slots \union {NO_RECORD_INDEX}],
         NEW n \in 0..MaxNumRecords, n < MaxNumRecords,
         NEW p \in 0..n, NEW slot \in Slots
  PROVE  Inserted(index, p, slot, n) \in [0..MaxNumRecords -> Slots \union {NO_RECORD_INDEX}]
<1>1. p \in 0..MaxNumRecords /\ \A r \in (p + 1)..n : r - 1 \in 0..MaxNumRecords
  BY MaxNumRecordsType, SMT
<1>2. ShiftedUp(index, p, n) \in [0..MaxNumRecords -> Slots \union {NO_RECORD_INDEX}]
  BY <1>1 DEF ShiftedUp
<1> QED BY <1>2 DEF Inserted

LEMMA InsertedHere ==
  ASSUME NEW index \in [0..MaxNumRecords -> Slots \union {NO_RECORD_INDEX}],
         NEW n \in 0..MaxNumRecords, n < MaxNumRecords,
         NEW p \in 0..n, NEW slot \in Slots
  PROVE  Inserted(index, p, slot, n)[p] = slot
<1>1. p \in 0..MaxNumRecords
  BY MaxNumRecordsType, SMT
<1> QED BY <1>1 DEF Inserted, ShiftedUp

LEMMA InsertedAbove ==
  ASSUME NEW index \in [0..MaxNumRecords -> Slots \union {NO_RECORD_INDEX}],
         NEW n \in 0..MaxNumRecords, n < MaxNumRecords,
         NEW p \in 0..n, NEW slot \in Slots, NEW r \in (p + 1)..n
  PROVE  Inserted(index, p, slot, n)[r] = index[r - 1]
<1>1. r \in 0..MaxNumRecords /\ r # p
  BY MaxNumRecordsType, SMT
<1> QED BY <1>1 DEF Inserted, ShiftedUp

LEMMA InsertedElsewhere ==
  ASSUME NEW index \in [0..MaxNumRecords -> Slots \union {NO_RECORD_INDEX}],
         NEW n \in 0..MaxNumRecords, n < MaxNumRecords,
         NEW p \in 0..n, NEW slot \in Slots,
         NEW r \in (0..MaxNumRecords) \ (p..n)
  PROVE  Inserted(index, p, slot, n)[r] = index[r]
<1>1. r \in 0..MaxNumRecords /\ r # p /\ r \notin (p + 1)..n
  BY MaxNumRecordsType, SMT
<1> QED BY <1>1 DEF Inserted, ShiftedUp

(* It holds one record more, and still nothing behind its first 0xFF.      *)
LEMMA InsertedIndex ==
  ASSUME NEW index \in [0..MaxNumRecords -> Slots \union {NO_RECORD_INDEX}],
         NEW n \in 0..MaxNumRecords, IsNumRecords(index, n), n < MaxNumRecords,
         \A r, s \in Slots : r <= s /\ index[r] = NO_RECORD_INDEX => index[s] = NO_RECORD_INDEX,
         NEW p \in 0..n, NEW slot \in Slots
  PROVE  LET new == Inserted(index, p, slot, n) IN
         /\ new[Separator] = index[Separator]
         /\ IsNumRecords(new, n + 1)
         /\ \A r, s \in Slots : r <= s /\ new[r] = NO_RECORD_INDEX => new[s] = NO_RECORD_INDEX
<1> DEFINE new == Inserted(index, p, slot, n)
<1>1. n + 1 \in 0..MaxNumRecords
  BY MaxNumRecordsType, SMT DEF IsNumRecords
<1>2. /\ new[p] = slot
      /\ \A r \in (p + 1)..n : new[r] = index[r - 1]
      /\ \A r \in (0..MaxNumRecords) \ (p..n) : new[r] = index[r]
  <2>1. new[p] = slot
    BY InsertedHere
  <2>2. \A r \in (p + 1)..n : new[r] = index[r - 1]
    BY InsertedAbove
  <2>3. \A r \in (0..MaxNumRecords) \ (p..n) : new[r] = index[r]
    BY InsertedElsewhere
  <2> QED BY <2>1, <2>2, <2>3
<1> HIDE DEF new
<1>3. new[Separator] = index[Separator]
  BY <1>1, <1>2, MaxNumRecordsType, SMT DEF Separator
<1>4. \A s \in Slots : n <= s => index[s] = NO_RECORD_INDEX
  BY <1>1, MaxNumRecordsType, SMT DEF IsNumRecords, Slots
<1>5. \A r \in 0..n : new[r] # NO_RECORD_INDEX
  <2> SUFFICES ASSUME NEW r \in 0..n PROVE new[r] # NO_RECORD_INDEX
    OBVIOUS
  <2>1. slot # NO_RECORD_INDEX
    BY MaxNumRecordsType, SMT DEF Slots, NO_RECORD_INDEX
  <2>2. CASE r < p
    BY <1>1, <1>2, <2>2, MaxNumRecordsType, SMT DEF IsNumRecords
  <2>3. CASE r > p
    BY <1>1, <1>2, <2>3, MaxNumRecordsType, SMT DEF IsNumRecords
  <2> QED BY <1>1, <1>2, <2>1, <2>2, <2>3, MaxNumRecordsType, SMT
<1>6. \A s \in Slots : n < s => new[s] = NO_RECORD_INDEX
  BY <1>1, <1>2, <1>4, MaxNumRecordsType, SMT DEF Slots
<1>7. IsNumRecords(new, n + 1)
  BY <1>1, <1>5, <1>6, MaxNumRecordsType, SMT DEF IsNumRecords, Slots
<1>8. \A r, s \in Slots : r <= s /\ new[r] = NO_RECORD_INDEX => new[s] = NO_RECORD_INDEX
  BY <1>1, <1>5, <1>6, MaxNumRecordsType, SMT DEF Slots
<1> QED BY <1>3, <1>7, <1>8 DEF new

(* What the deletion of entry d makes of an index of n entries.            *)
LEMMA DeletedIndex ==
  ASSUME NEW index \in [0..MaxNumRecords -> Slots \union {NO_RECORD_INDEX}],
         NEW n, IsNumRecords(index, n),
         \A r, s \in Slots : r <= s /\ index[r] = NO_RECORD_INDEX => index[s] = NO_RECORD_INDEX,
         NEW d \in 0..(n - 1)
  PROVE  LET new == ShiftedDown(index, d, n) IN
         /\ new \in [0..MaxNumRecords -> Slots \union {NO_RECORD_INDEX}]
         /\ \A r \in 0..(n - 2) : new[r] = IF r < d THEN index[r] ELSE index[r + 1]
         /\ new[Separator] = index[Separator]
         /\ IsNumRecords(new, n - 1)
         /\ \A r, s \in Slots : r <= s /\ new[r] = NO_RECORD_INDEX => new[s] = NO_RECORD_INDEX
<1> DEFINE new == ShiftedDown(index, d, n)
<1>1. n \in Nat /\ n - 1 \in 0..MaxNumRecords /\ n <= MaxNumRecords
  BY MaxNumRecordsType, SMT DEF IsNumRecords
<1>2. \A r \in 0..MaxNumRecords :
        new[r] = IF r \notin d..(n - 1) THEN index[r]
                 ELSE IF r >= MaxNumRecords - 1 THEN NO_RECORD_INDEX
                 ELSE index[r + 1]
  BY DEF ShiftedDown
<1>3. new \in [0..MaxNumRecords -> Slots \union {NO_RECORD_INDEX}]
  BY <1>1, MaxNumRecordsType, SMT DEF ShiftedDown
<1>4. new[Separator] = index[Separator]
  BY <1>1, <1>2, MaxNumRecordsType, SMT DEF Separator
<1>5. \A s \in Slots : n <= s => index[s] = NO_RECORD_INDEX
  BY <1>1, MaxNumRecordsType, SMT DEF IsNumRecords, Slots
<1>6. \A r \in 0..(n - 2) : new[r] = IF r < d THEN index[r] ELSE index[r + 1]
  BY <1>1, <1>2, MaxNumRecordsType, SMT
<1>7. \A r \in 0..(n - 2) : new[r] # NO_RECORD_INDEX
  BY <1>1, <1>6, MaxNumRecordsType, SMT DEF IsNumRecords
<1>8. \A s \in Slots : n - 1 <= s => new[s] = NO_RECORD_INDEX
  BY <1>1, <1>2, <1>5, MaxNumRecordsType, SMT DEF Slots
<1>9. IsNumRecords(new, n - 1)
  BY <1>1, <1>7, <1>8, MaxNumRecordsType, SMT DEF IsNumRecords, Slots
<1>10. \A r, s \in Slots : r <= s /\ new[r] = NO_RECORD_INDEX => new[s] = NO_RECORD_INDEX
  BY <1>1, <1>7, <1>8, MaxNumRecordsType, SMT DEF Slots
<1> QED BY <1>3, <1>4, <1>6, <1>9, <1>10

(* Every call preserves the invariant.                                     *)
LEMMA IndexInvStep == IndexInv /\ [Next]_vars => IndexInv'
<1> SUFFICES ASSUME IndexInv, [Next]_vars PROVE IndexInv'
  OBVIOUS
<1> USE DEF IndexInv
<1>0. /\ recordIndex \in [0..MaxNumRecords -> Slots \union {NO_RECORD_INDEX}]
      /\ recordData \in [Slots -> RawRecords]
      /\ numRecords \in 0..MaxNumRecords
      /\ recordInUse \subseteq Slots
  BY DEF TypeOK
<1>1. ASSUME NEW position \in 0..numRecords, status = "open", InsertRecordAt(position)
      PROVE  IndexInv'
  <2>1. CASE InsertRejected
    BY <2>1 DEF InsertRejected, eeVars, ramVars, MAX_NUM_RECORDS_REACHED, TypeOK,
                CountMatchesIndex, IndexTerminated, SeparatorIntact
  <2>2. CASE InsertHalts
    BY <2>2, <1>1 DEF InsertHalts, eeVars, ramVars, TypeOK,
                CountMatchesIndex, IndexTerminated, SeparatorIntact
  <2>3. ASSUME NEW slot \in Slots, InsertInSlot(position, slot)
        PROVE  IndexInv'
    <3>1. numRecords < MaxNumRecords /\ IsNumRecords(recordIndex, numRecords)
      BY <2>3, <1>1 DEF InsertInSlot, CountMatchesIndex
    <3>2. /\ recordIndex' \in [0..MaxNumRecords -> Slots \union {NO_RECORD_INDEX}]
          /\ recordIndex'[Separator] = recordIndex[Separator]
          /\ IsNumRecords(recordIndex', numRecords + 1)
          /\ \A r, s \in Slots : r <= s /\ recordIndex'[r] = NO_RECORD_INDEX
                                => recordIndex'[s] = NO_RECORD_INDEX
      <4>1. recordIndex' = Inserted(recordIndex, position, slot, numRecords)
        BY <2>3 DEF InsertInSlot
      <4>2. \A r, s \in Slots : r <= s /\ recordIndex[r] = NO_RECORD_INDEX
                             => recordIndex[s] = NO_RECORD_INDEX
        BY DEF IndexTerminated
      <4> HIDE DEF IndexInv
      <4>3. recordIndex' \in [0..MaxNumRecords -> Slots \union {NO_RECORD_INDEX}]
        BY <1>0, <3>1, <4>1, InsertedType
      <4> HIDE DEF Inserted
      <4>4. LET new == Inserted(recordIndex, position, slot, numRecords) IN
            /\ new[Separator] = recordIndex[Separator]
            /\ IsNumRecords(new, numRecords + 1)
            /\ \A r, s \in Slots : r <= s /\ new[r] = NO_RECORD_INDEX
                                  => new[s] = NO_RECORD_INDEX
        BY <1>0, <3>1, <4>2, InsertedIndex, ZenonT(60)
      <4> QED BY <4>1, <4>3, <4>4
    <3>3. TypeOK'
      <4>1. numRecords + 1 \in 0..MaxNumRecords /\ position \in 0..255
        BY <1>0, <3>1, MaxNumRecordsType, SMT
      <4> QED BY <1>0, <2>3, <3>2, <4>1 DEF InsertInSlot, TypeOK
    <3> QED BY <2>3, <3>2, <3>3
            DEF InsertInSlot, CountMatchesIndex, IndexTerminated, SeparatorIntact
  <2> QED BY <1>1, <2>1, <2>2, <2>3 DEF InsertRecordAt
<1>2. CASE AppendRecord
  <2>1. numRecords \in 0..numRecords
    BY <1>0, MaxNumRecordsType, SMT
  <2> QED BY <1>1, <1>2, <2>1 DEF AppendRecord
<1>3. ASSUME NEW recordId \in Slots, InsertRecordAfter(recordId)
      PROVE  IndexInv'
  <2>1. recordId + 1 \in 0..numRecords
    BY <1>0, <1>3, MaxNumRecordsType, SMT DEF InsertRecordAfter, Slots
  <2> QED BY <1>1, <1>3, <2>1 DEF InsertRecordAfter
<1>4. ASSUME NEW recordId \in Slots, DeleteRecord(recordId)
      PROVE  IndexInv'
  <2>1. IsNumRecords(recordIndex, numRecords)
    BY <1>4 DEF DeleteRecord, CountMatchesIndex
  <2>2. recordId \in 0..(numRecords - 1) /\ numRecords - 1 \in 0..MaxNumRecords
    BY <1>0, <1>4, MaxNumRecordsType, SMT DEF DeleteRecord, Slots
  <2>3. /\ recordIndex' \in [0..MaxNumRecords -> Slots \union {NO_RECORD_INDEX}]
        /\ recordIndex'[Separator] = recordIndex[Separator]
        /\ IsNumRecords(recordIndex', numRecords - 1)
        /\ \A r, s \in Slots : r <= s /\ recordIndex'[r] = NO_RECORD_INDEX
                              => recordIndex'[s] = NO_RECORD_INDEX
    <3>1. recordIndex' = ShiftedDown(recordIndex, recordId, numRecords)
      BY <1>4 DEF DeleteRecord
    <3>2. \A r, s \in Slots : r <= s /\ recordIndex[r] = NO_RECORD_INDEX
                           => recordIndex[s] = NO_RECORD_INDEX
      BY DEF IndexTerminated
    <3> QED BY ONLY <1>0, <2>1, <2>2, <3>1, <3>2, DeletedIndex, ZenonT(60)
  <2>4. TypeOK'
    BY <1>0, <1>4, <2>2, <2>3 DEF DeleteRecord, TypeOK
  <2> QED BY <1>4, <2>3, <2>4
          DEF DeleteRecord, CountMatchesIndex, IndexTerminated, SeparatorIntact
<1>5. CASE DeleteAllRecords
  <2>1. /\ recordIndex' = [r \in 0..MaxNumRecords |->
                            IF r = Separator THEN recordIndex[r] ELSE NO_RECORD_INDEX]
        /\ numRecords' = 0
        /\ returned' = numRecords
        /\ recordInUse' = recordInUse \ Slots
        /\ UNCHANGED <<recordData, recordDataBuffer, status>>
    BY <1>5 DEF DeleteAllRecords
  <2>2. /\ \A r \in Slots : recordIndex'[r] = NO_RECORD_INDEX
        /\ recordIndex'[Separator] = recordIndex[Separator]
    BY <2>1, MaxNumRecordsType, SMT DEF Slots, Separator
  <2>3. recordIndex' \in [0..MaxNumRecords -> Slots \union {NO_RECORD_INDEX}]
    BY <1>0, <2>1
  <2>4. IsNumRecords(recordIndex', 0)
    BY <2>2, MaxNumRecordsType, SMT DEF IsNumRecords, Slots
  <2>5. TypeOK'
    <3>1. 0 \in 0..MaxNumRecords /\ numRecords \in 0..255
      BY <1>0, MaxNumRecordsType, SMT
    <3> QED BY <1>0, <2>1, <2>3, <3>1 DEF TypeOK
  <2> QED BY <2>1, <2>2, <2>4, <2>5
          DEF CountMatchesIndex, IndexTerminated, SeparatorIntact
<1>6. ASSUME NEW recordId \in Slots, NEW rawRecord \in RawRecords,
             SetRawRecord(recordId, rawRecord)
      PROVE  IndexInv'
  BY <1>6 DEF SetRawRecord, ramVars, TypeOK,
              CountMatchesIndex, IndexTerminated, SeparatorIntact
<1>7. ASSUME NEW recordId \in Slots, GetRawRecord(recordId)
      PROVE  IndexInv'
  <2>1. recordData[recordIndex[recordId]] \in RawRecords
    <3>1. IsNumRecords(recordIndex, numRecords) /\ recordId \in 0..(numRecords - 1)
      BY <1>0, <1>7, MaxNumRecordsType, SMT DEF GetRawRecord, CountMatchesIndex, Slots
    <3>2. recordId \in 0..MaxNumRecords
      BY MaxNumRecordsType, SMT DEF Slots
    <3>3. recordIndex[recordId] \in Slots
      BY <1>0, <3>1, <3>2 DEF IsNumRecords
    <3> QED BY <1>0, <3>3
  <2> QED BY <1>7, <2>1 DEF GetRawRecord, eeVars, TypeOK,
              CountMatchesIndex, IndexTerminated, SeparatorIntact
<1>8. CASE Close
  <2>1. 0 \in 0..MaxNumRecords /\ 0 \in 0..255
    BY MaxNumRecordsType, SMT
  <2> QED BY <1>8, <2>1, RecordStoreAssumption
          DEF Close, eeVars, TypeOK, CountMatchesIndex, IndexTerminated, SeparatorIntact
<1>9. CASE Open
  <2>1. PICK n \in 0..MaxNumRecords :
          /\ IsNumRecords(recordIndex, n)
          /\ numRecords' = n
          /\ recordInUse' = SlotsOf(recordIndex, n)
    BY <1>9 DEF Open
  <2>2. SlotsOf(recordIndex, n) \subseteq Slots
    <3>1. \A r \in 0..(n - 1) : r \in 0..MaxNumRecords
      BY MaxNumRecordsType, SMT
    <3> QED BY <1>0, <2>1, <3>1 DEF SlotsOf, IsNumRecords
  <2> QED BY <1>9, <2>1, <2>2
          DEF Open, eeVars, TypeOK, CountMatchesIndex, IndexTerminated, SeparatorIntact
<1>10. CASE UNCHANGED vars
  BY <1>10 DEF vars, TypeOK, CountMatchesIndex, IndexTerminated, SeparatorIntact, IsNumRecords
<1> QED BY <1>2, <1>3, <1>4, <1>5, <1>6, <1>7, <1>8, <1>9, <1>10
        DEF Next, NextNoDelete

(* Every reachable state satisfies the inductive invariant: the count in   *)
(* RAM is the one stored, the index has no stale entries and its separator *)
(* survives, whatever calls are made in whatever order.                    *)
THEOREM IndexInvariant == Spec => []IndexInv
<1>1. Init => IndexInv
  BY InitIndexInv
<1>2. IndexInv /\ [Next]_vars => IndexInv'
  BY IndexInvStep
<1> QED BY <1>1, <1>2, PTL DEF Spec

(* The values of RAM and EEPROM stay within their types.                   *)
THEOREM TypeCorrect == Spec => []TypeOK
BY IndexInvariant, PTL DEF IndexInv

(* Reopening the store counts as many records as the RAM counted.          *)
THEOREM CountCorrect == Spec => []CountMatchesIndex
BY IndexInvariant, PTL DEF IndexInv

(* No entry lies behind the first 0xFF of the index, and the separator     *)
(* byte behind the index is never overwritten.                             *)
THEOREM IndexWellFormed == Spec => [](IndexTerminated /\ SeparatorIntact)
BY IndexInvariant, PTL DEF IndexInv

-----------------------------------------------------------------------------
(***************************************************************************)
(* SpecOwnSlot: the bitmap is exact, so no slot is shared and insertion    *)
(* never finds the bitmap full while the table is not.  The three parts    *)
(* need each other: a free bit stands for a slot that no record occupies   *)
(* only if the bitmap is exact, and it stays exact across a deletion only  *)
(* if no other record shares the slot.                                     *)
(***************************************************************************)
OwnSlotInv == IndexInv /\ BitmapExact /\ NoSharedSlot /\ NeverHalted

LEMMA IntervalSize ==
  ASSUME NEW n \in Nat
  PROVE  IsFiniteSet(0..(n - 1)) /\ Cardinality(0..(n - 1)) = n
<1>1. 0 \in Int /\ n - 1 \in Int
  BY SMT
<1>2. /\ IsFiniteSet(0..(n - 1))
      /\ Cardinality(0..(n - 1)) = IF 0 > n - 1 THEN 0 ELSE (n - 1) - 0 + 1
  BY <1>1, FS_Interval, Zenon
<1> QED BY <1>2, SMT

(* n < MaxNumRecords entries leave a slot free: the assert of              *)
(* insertRecordAt() cannot fail while the bitmap is exact.                 *)
LEMMA FreeSlotExists ==
  ASSUME NEW index \in [0..MaxNumRecords -> Slots \union {NO_RECORD_INDEX}],
         NEW n \in 0..MaxNumRecords, IsNumRecords(index, n), n < MaxNumRecords
  PROVE  ~ Slots \subseteq SlotsOf(index, n)
<1> SUFFICES ASSUME Slots \subseteq SlotsOf(index, n) PROVE FALSE
  OBVIOUS
<1>1. \A s \in Slots : \E r \in 0..(n - 1) : index[r] = s
  BY DEF SlotsOf
<1> DEFINE holder == [s \in Slots |-> CHOOSE r \in 0..(n - 1) : index[r] = s]
<1>2. holder \in [Slots -> 0..(n - 1)] /\ \A s \in Slots : index[holder[s]] = s
  BY <1>1
<1>3. IsFiniteSet(Slots) /\ Cardinality(Slots) = MaxNumRecords
  BY IntervalSize, MaxNumRecordsType DEF Slots
<1>4. IsFiniteSet(0..(n - 1)) /\ Cardinality(0..(n - 1)) = n
  <2>1. n \in Nat
    BY MaxNumRecordsType, SMT
  <2> QED BY <2>1, IntervalSize
<1>5. Cardinality(0..(n - 1)) < Cardinality(Slots)
  BY <1>3, <1>4, MaxNumRecordsType, SMT
<1>6. \E x, y \in Slots : x # y /\ holder[x] = holder[y]
  <2> HIDE DEF holder
  <2> QED BY <1>2, <1>3, <1>4, <1>5, FS_PigeonHole
<1> QED BY <1>2, <1>6

LEMMA SlotsOfOneMore ==
  ASSUME NEW index, NEW n \in Nat
  PROVE  SlotsOf(index, n + 1) = {index[r] : r \in 0..n}
<1>1. \A r : r \in 0..((n + 1) - 1) <=> r \in 0..n
  BY SMT
<1>2. \A x : x \in SlotsOf(index, n + 1) <=> \E r \in 0..((n + 1) - 1) : x = index[r]
  BY Zenon DEF SlotsOf
<1>3. \A x : x \in SlotsOf(index, n + 1) <=> x \in {index[r] : r \in 0..n}
  BY <1>1, <1>2, Zenon
<1> QED BY <1>3, Zenon

LEMMA InitOwnSlotInv == Init => OwnSlotInv
<1> SUFFICES ASSUME Init PROVE OwnSlotInv
  OBVIOUS
<1>1. IndexInv
  BY InitIndexInv
<1>2. BitmapExact
  <2>1. recordInUse = {} /\ numRecords = 0
    BY DEF Init
  <2>2. 0..(0 - 1) = {}
    BY SMT
  <2> QED BY <2>1, <2>2 DEF BitmapExact, SlotsOf
<1>3. NoSharedSlot
  BY MaxNumRecordsType, SMT DEF Init, NoSharedSlot, Slots, Separator
<1>4. NeverHalted
  BY DEF Init, NeverHalted
<1> QED BY <1>1, <1>2, <1>3, <1>4 DEF OwnSlotInv

LEMMA OwnSlotInvStep == OwnSlotInv /\ [NextOwnSlot]_vars => OwnSlotInv'
<1> SUFFICES ASSUME OwnSlotInv, [NextOwnSlot]_vars PROVE OwnSlotInv'
  OBVIOUS
<1>0. IndexInv /\ BitmapExact /\ NoSharedSlot /\ NeverHalted
  BY DEF OwnSlotInv
<1>t. /\ recordIndex \in [0..MaxNumRecords -> Slots \union {NO_RECORD_INDEX}]
      /\ numRecords \in 0..MaxNumRecords
      /\ recordInUse \subseteq Slots
  BY <1>0 DEF IndexInv, TypeOK
<1>i. IndexInv'
  <2>1. [Next]_vars
    BY DEF NextOwnSlot, Next, DeleteOwnSlot
  <2> QED BY <1>0, <2>1, IndexInvStep
<1> SUFFICES BitmapExact' /\ NoSharedSlot' /\ NeverHalted'
  BY <1>i DEF OwnSlotInv
<1>n. status = "open" => /\ IsNumRecords(recordIndex, numRecords)
                         /\ recordInUse = SlotsOf(recordIndex, numRecords)
  BY <1>0 DEF IndexInv, CountMatchesIndex, BitmapExact
<1>1. ASSUME NEW position \in 0..numRecords, status = "open", InsertRecordAt(position)
      PROVE  BitmapExact' /\ NoSharedSlot' /\ NeverHalted'
  <2>1. CASE InsertRejected
    BY <1>0, <2>1 DEF InsertRejected, eeVars, ramVars, BitmapExact, NoSharedSlot, NeverHalted
  <2>2. ~ InsertHalts
    BY <1>1, <1>n, <1>t, FreeSlotExists DEF InsertHalts
  <2>3. ASSUME NEW slot \in Slots, InsertInSlot(position, slot)
        PROVE  BitmapExact' /\ NoSharedSlot' /\ NeverHalted'
    <3> DEFINE new == Inserted(recordIndex, position, slot, numRecords)
    <3>1. /\ numRecords < MaxNumRecords
          /\ slot \notin SlotsOf(recordIndex, numRecords)
          /\ recordIndex' = new
          /\ recordInUse' = SlotsOf(recordIndex, numRecords) \union {slot}
          /\ numRecords' = numRecords + 1
          /\ status' = status
      BY <1>1, <1>n, <2>3 DEF InsertInSlot, IsNextFreeRecord
    <3>2. new[position] = slot
      BY <1>t, <3>1, InsertedHere
    <3>3. \A r \in (position + 1)..numRecords : new[r] = recordIndex[r - 1]
      BY <1>t, <3>1, InsertedAbove
    <3>4. \A r \in (0..MaxNumRecords) \ (position..numRecords) : new[r] = recordIndex[r]
      BY <1>t, <3>1, InsertedElsewhere, ZenonT(60)
    <3> HIDE DEF new
    <3>5. SlotsOf(new, numRecords + 1) = SlotsOf(recordIndex, numRecords) \union {slot}
      <4>0. SlotsOf(new, numRecords + 1) = {new[r] : r \in 0..numRecords}
        <5>1. numRecords \in Nat
          BY <1>t, MaxNumRecordsType, SMT
        <5> QED BY <5>1, SlotsOfOneMore
      <4>1. ASSUME NEW x \in SlotsOf(new, numRecords + 1)
            PROVE  x \in SlotsOf(recordIndex, numRecords) \union {slot}
        <5>1. PICK r \in 0..numRecords : x = new[r]
          BY <4>0, <4>1
        <5>2. CASE r < position
          <6>1. r \in 0..(numRecords - 1) /\ r \in (0..MaxNumRecords) \ (position..numRecords)
            BY <1>t, <5>2, MaxNumRecordsType, SMT
          <6> QED BY <3>4, <5>1, <6>1 DEF SlotsOf
        <5>3. CASE r > position
          <6>1. r - 1 \in 0..(numRecords - 1) /\ r \in (position + 1)..numRecords
            BY <1>t, <5>3, MaxNumRecordsType, SMT
          <6> QED BY <3>3, <5>1, <6>1 DEF SlotsOf
        <5>4. CASE r = position
          BY <3>2, <5>1, <5>4
        <5> QED BY <1>t, <5>2, <5>3, <5>4, MaxNumRecordsType, SMT
      <4>2. slot \in SlotsOf(new, numRecords + 1)
        BY <3>2, <4>0
      <4>3. ASSUME NEW x \in SlotsOf(recordIndex, numRecords)
            PROVE  x \in SlotsOf(new, numRecords + 1)
        <5>1. PICK r \in 0..(numRecords - 1) : x = recordIndex[r]
          BY <4>3 DEF SlotsOf
        <5>2. CASE r < position
          <6>1. r \in 0..numRecords /\ r \in (0..MaxNumRecords) \ (position..numRecords)
            BY <1>t, <5>2, MaxNumRecordsType, SMT
          <6> QED BY <3>4, <4>0, <5>1, <6>1
        <5>3. CASE r >= position
          <6>1. r + 1 \in 0..numRecords /\ r + 1 \in (position + 1)..numRecords
            BY <1>t, <5>3, MaxNumRecordsType, SMT
          <6>2. r + 1 - 1 = r
            BY <1>t, MaxNumRecordsType, SMT
          <6>3. new[r + 1] = recordIndex[r]
            BY <3>3, <6>1, <6>2
          <6> QED BY <4>0, <5>1, <6>1, <6>3
        <5> QED BY <1>t, <5>2, <5>3, MaxNumRecordsType, SMT
      <4> QED BY <4>1, <4>2, <4>3
    <3>6. \A r \in 0..(numRecords - 1) : recordIndex[r] # slot
      BY <3>1 DEF SlotsOf
    <3>7. \A r, s \in Slots :
            r # s /\ new[r] = new[s] => new[r] = NO_RECORD_INDEX
      <4>1. \A r, s \in Slots : r # s /\ recordIndex[r] = recordIndex[s]
                               => recordIndex[r] = NO_RECORD_INDEX
        BY <1>0 DEF NoSharedSlot
      <4>2. \A r \in Slots : r # position =>
              \E q \in Slots : /\ new[r] = recordIndex[q]
                               /\ q = IF r \in (position + 1)..numRecords THEN r - 1 ELSE r
        BY <1>t, <3>1, <3>3, <3>4, MaxNumRecordsType, SMT DEF Slots
      <4>3. \A r \in Slots : r # position => new[r] # slot
        <5>1. \A q \in Slots : recordIndex[q] # slot
          <6>1. \A q \in Slots : numRecords <= q => recordIndex[q] = NO_RECORD_INDEX
            BY <1>0, <1>t, <1>n, <1>1, MaxNumRecordsType, SMT
               DEF IndexInv, IndexTerminated, IsNumRecords, Slots
          <6>2. slot # NO_RECORD_INDEX
            BY MaxNumRecordsType, SMT DEF Slots, NO_RECORD_INDEX
          <6> QED BY <1>t, <3>6, <6>1, <6>2, MaxNumRecordsType, SMT DEF Slots
        <5> QED BY <4>2, <5>1
      <4> SUFFICES ASSUME NEW r \in Slots, NEW s \in Slots, r # s, new[r] = new[s]
                   PROVE  new[r] = NO_RECORD_INDEX
        OBVIOUS
      <4>4. r # position /\ s # position
        BY <3>2, <4>3
      <4>5. PICK q \in Slots : /\ new[r] = recordIndex[q]
                               /\ q = IF r \in (position + 1)..numRecords THEN r - 1 ELSE r
        BY <4>2, <4>4
      <4>6. PICK w \in Slots : /\ new[s] = recordIndex[w]
                               /\ w = IF s \in (position + 1)..numRecords THEN s - 1 ELSE s
        BY <4>2, <4>4
      <4>7. q # w
        BY <1>t, <4>4, <4>5, <4>6, MaxNumRecordsType, SMT DEF Slots
      <4> QED BY <4>1, <4>5, <4>6, <4>7
    <3> QED BY <1>1, <3>1, <3>5, <3>7 DEF BitmapExact, NoSharedSlot, NeverHalted
  <2> QED BY <1>1, <2>1, <2>2, <2>3 DEF InsertRecordAt
<1>2. CASE AppendRecord
  <2>1. numRecords \in 0..numRecords
    BY <1>t, MaxNumRecordsType, SMT
  <2> QED BY <1>1, <1>2, <2>1 DEF AppendRecord
<1>3. ASSUME NEW recordId \in Slots, InsertRecordAfter(recordId)
      PROVE  BitmapExact' /\ NoSharedSlot' /\ NeverHalted'
  <2>1. recordId + 1 \in 0..numRecords
    BY <1>t, <1>3, MaxNumRecordsType, SMT DEF InsertRecordAfter, Slots
  <2> QED BY <1>1, <1>3, <2>1 DEF InsertRecordAfter
<1>4. ASSUME NEW recordId \in Slots, DeleteOwnSlot(recordId)
      PROVE  BitmapExact' /\ NoSharedSlot' /\ NeverHalted'
  <2> DEFINE new == ShiftedDown(recordIndex, recordId, numRecords)
  <2>1. /\ status = "open" /\ status' = status
        /\ recordIndex[recordId] = recordId
        /\ recordIndex' = new
        /\ recordInUse' = SlotsOf(recordIndex, numRecords) \ {recordId}
        /\ numRecords' = numRecords - 1
    BY <1>n, <1>4 DEF DeleteOwnSlot, DeleteRecord
  <2>2. recordId \in 0..(numRecords - 1)
    BY <1>t, <1>4, MaxNumRecordsType, SMT DEF DeleteOwnSlot, DeleteRecord, Slots
  <2>3. \A r \in 0..MaxNumRecords :
          new[r] = IF r \notin recordId..(numRecords - 1) THEN recordIndex[r]
                   ELSE IF r >= MaxNumRecords - 1 THEN NO_RECORD_INDEX
                   ELSE recordIndex[r + 1]
    BY DEF ShiftedDown
  <2> HIDE DEF new
  <2>4. \A s \in Slots : numRecords <= s => recordIndex[s] = NO_RECORD_INDEX
    BY <1>0, <1>t, <1>n, <2>1, MaxNumRecordsType, SMT
       DEF IndexInv, IndexTerminated, IsNumRecords, Slots
  <2>5. \A r \in Slots : r < recordId => new[r] = recordIndex[r]
    BY <1>t, <2>3, MaxNumRecordsType, SMT DEF Slots
  <2>6. \A r \in Slots : recordId <= r /\ r + 1 < numRecords => new[r] = recordIndex[r + 1]
    BY <1>t, <2>3, MaxNumRecordsType, SMT DEF Slots
  <2>7. \A r \in Slots : numRecords - 1 <= r => new[r] = NO_RECORD_INDEX
    BY <1>t, <2>2, <2>3, <2>4, MaxNumRecordsType, SMT DEF Slots
  <2>8. \A r, s \in Slots : r # s /\ recordIndex[r] = recordIndex[s]
                           => recordIndex[r] = NO_RECORD_INDEX
    BY <1>0 DEF NoSharedSlot
  <2>9. recordId # NO_RECORD_INDEX
    BY MaxNumRecordsType, SMT DEF Slots, NO_RECORD_INDEX
  <2>10. SlotsOf(new, numRecords - 1) = SlotsOf(recordIndex, numRecords) \ {recordId}
    <3>0. SlotsOf(new, numRecords - 1) = {new[r] : r \in 0..(numRecords - 2)}
      <4>1. numRecords - 1 - 1 = numRecords - 2
        BY <1>t, MaxNumRecordsType, SMT
      <4> QED BY <4>1 DEF SlotsOf
    <3>1. ASSUME NEW x \in SlotsOf(new, numRecords - 1)
          PROVE  x \in SlotsOf(recordIndex, numRecords) \ {recordId}
      <4>1. PICK r \in 0..(numRecords - 2) : x = new[r]
        BY <3>0, <3>1
      <4>2. PICK q \in 0..(numRecords - 1) : q # recordId /\ new[r] = recordIndex[q]
        <5>1. CASE r < recordId
          <6>1. r \in Slots /\ r \in 0..(numRecords - 1) /\ r # recordId
            BY <1>t, <5>1, MaxNumRecordsType, SMT DEF Slots
          <6> QED BY <2>5, <5>1, <6>1
        <5>2. CASE r >= recordId
          <6>1. /\ r \in Slots /\ r + 1 \in 0..(numRecords - 1) /\ r + 1 # recordId
                /\ recordId <= r /\ r + 1 < numRecords
            BY <1>t, <5>2, MaxNumRecordsType, SMT DEF Slots
          <6> QED BY <2>6, <6>1
        <5> QED BY <1>t, <5>1, <5>2, MaxNumRecordsType, SMT DEF Slots
      <4>3. q \in Slots
        BY <1>t, MaxNumRecordsType, SMT DEF Slots
      <4>4. recordIndex[q] # NO_RECORD_INDEX
        BY <1>n, <2>1 DEF IsNumRecords
      <4> QED BY <2>1, <2>8, <4>1, <4>2, <4>3, <4>4 DEF SlotsOf
    <3>2. ASSUME NEW x \in SlotsOf(recordIndex, numRecords), x # recordId
          PROVE  x \in SlotsOf(new, numRecords - 1)
      <4>1. PICK q \in 0..(numRecords - 1) : x = recordIndex[q]
        BY <3>2 DEF SlotsOf
      <4>2. q # recordId
        BY <2>1, <3>2, <4>1
      <4>3. CASE q < recordId
        <5>1. q \in Slots /\ q \in 0..(numRecords - 2)
          BY <1>t, <2>2, <4>3, MaxNumRecordsType, SMT DEF Slots
        <5> QED BY <2>5, <3>0, <4>1, <4>3, <5>1
      <4>4. CASE q > recordId
        <5>1. /\ q - 1 \in Slots /\ q - 1 \in 0..(numRecords - 2)
              /\ recordId <= q - 1 /\ q - 1 + 1 < numRecords /\ q - 1 + 1 = q
          BY <1>t, <2>2, <4>4, MaxNumRecordsType, SMT DEF Slots
        <5>2. new[q - 1] = recordIndex[q]
          BY <2>6, <5>1
        <5> QED BY <3>0, <4>1, <5>1, <5>2
      <4> QED BY <1>t, <4>2, <4>3, <4>4, MaxNumRecordsType, SMT DEF Slots
    <3> QED BY <3>1, <3>2
  <2>11. NoSharedSlot'
    <3> SUFFICES ASSUME NEW r \in Slots, NEW s \in Slots, r # s, new[r] = new[s]
                 PROVE  new[r] = NO_RECORD_INDEX
      BY <2>1 DEF NoSharedSlot
    <3>1. CASE numRecords - 1 <= r \/ numRecords - 1 <= s
      BY <2>7, <3>1
    <3>2. CASE r < numRecords - 1 /\ s < numRecords - 1
      <4> DEFINE from(x) == IF x < recordId THEN x ELSE x + 1
      <4>1. from(r) \in Slots /\ from(s) \in Slots /\ from(r) # from(s)
        BY <1>t, <3>2, MaxNumRecordsType, SMT DEF Slots
      <4>2. new[r] = recordIndex[from(r)] /\ new[s] = recordIndex[from(s)]
        BY <1>t, <2>5, <2>6, <3>2, MaxNumRecordsType, SMT DEF Slots
      <4> QED BY <2>8, <4>1, <4>2
    <3> QED BY <1>t, <3>1, <3>2, MaxNumRecordsType, SMT DEF Slots
  <2> QED BY <1>0, <2>1, <2>10, <2>11 DEF BitmapExact, NeverHalted
<1>5. CASE DeleteAllRecords
  <2>1. /\ recordInUse' = {} /\ numRecords' = 0 /\ status' = status
        /\ recordIndex' = [r \in 0..MaxNumRecords |->
                            IF r = Separator THEN recordIndex[r] ELSE NO_RECORD_INDEX]
    BY <1>t, <1>5 DEF DeleteAllRecords
  <2>2. \A r \in Slots : recordIndex'[r] = NO_RECORD_INDEX
    BY <2>1, MaxNumRecordsType, SMT DEF Slots, Separator
  <2>3. 0..(0 - 1) = {}
    BY SMT
  <2> QED BY <1>0, <2>1, <2>2, <2>3 DEF BitmapExact, NoSharedSlot, NeverHalted, SlotsOf
<1>6. ASSUME NEW recordId \in Slots, NEW rawRecord \in RawRecords,
             SetRawRecord(recordId, rawRecord)
      PROVE  BitmapExact' /\ NoSharedSlot' /\ NeverHalted'
  BY <1>0, <1>6 DEF SetRawRecord, ramVars, BitmapExact, NoSharedSlot, NeverHalted
<1>7. ASSUME NEW recordId \in Slots, GetRawRecord(recordId)
      PROVE  BitmapExact' /\ NoSharedSlot' /\ NeverHalted'
  BY <1>0, <1>7 DEF GetRawRecord, eeVars, BitmapExact, NoSharedSlot, NeverHalted
<1>8. CASE Close
  BY <1>0, <1>8 DEF Close, eeVars, BitmapExact, NoSharedSlot, NeverHalted
<1>9. CASE Open
  BY <1>0, <1>9 DEF Open, eeVars, BitmapExact, NoSharedSlot, NeverHalted
<1>10. CASE UNCHANGED vars
  BY <1>0, <1>10 DEF vars, BitmapExact, NoSharedSlot, NeverHalted, SlotsOf
<1> QED BY <1>2, <1>3, <1>4, <1>5, <1>6, <1>7, <1>8, <1>9, <1>10
        DEF NextOwnSlot, NextNoDelete

(* A table whose deletions hit only records in the slot of their own       *)
(* number keeps one slot per record and an exact bitmap, and insertion     *)
(* never fails its assert, for every capacity and every sequence of calls. *)
THEOREM OwnSlotInvariant == SpecOwnSlot => []OwnSlotInv
<1>1. Init => OwnSlotInv
  BY InitOwnSlotInv
<1>2. OwnSlotInv /\ [NextOwnSlot]_vars => OwnSlotInv'
  BY OwnSlotInvStep
<1> QED BY <1>1, <1>2, PTL DEF SpecOwnSlot

(* No two of its records ever lie in one slot.                             *)
THEOREM NoSlotShared == SpecOwnSlot => []NoSharedSlot
BY OwnSlotInvariant, PTL DEF OwnSlotInv

(* Its bitmap is what the next opening would rebuild.                      *)
THEOREM BitmapIsExact == SpecOwnSlot => []BitmapExact
BY OwnSlotInvariant, PTL DEF OwnSlotInv

(* insertRecordAt() always finds a free slot while the table is not full.  *)
THEOREM InsertionNeverHalts == SpecOwnSlot => []NeverHalted
BY OwnSlotInvariant, PTL DEF OwnSlotInv

-----------------------------------------------------------------------------
(***************************************************************************)
(* The record list that RecordStore.h describes is implemented.            *)
(***************************************************************************)
LEMMA SizeOfIndex ==
  ASSUME NEW index, NEW n, IsNumRecords(index, n)
  PROVE  SizeOf(index) = n
<1>1. n \in 0..MaxNumRecords
  BY DEF IsNumRecords
<1>2. IsNumRecords(index, SizeOf(index))
  BY <1>1 DEF SizeOf
<1> QED BY <1>2, NumRecordsUnique

(* The records of an index of n entries.                                   *)
LEMMA RecordsOfIndex ==
  ASSUME NEW index, NEW data, NEW n, IsNumRecords(index, n)
  PROVE  RecordsOf(index, data) = [r \in 0..(n - 1) |-> data[index[r]]]
<1>1. SizeOf(index) = n
  BY SizeOfIndex
<1> QED BY <1>1 DEF RecordsOf

(* Insertion at p into the index is insertion at p into the list, with the *)
(* old content of the slot as the content of the new record.               *)
LEMMA InsertedRecords ==
  ASSUME NEW index \in [0..MaxNumRecords -> Slots \union {NO_RECORD_INDEX}],
         NEW n \in 0..MaxNumRecords, n < MaxNumRecords, IsNumRecords(index, n),
         NEW p \in 0..n, NEW slot \in Slots, NEW data,
         IsNumRecords(Inserted(index, p, slot, n), n + 1)
  PROVE  RecordsOf(Inserted(index, p, slot, n), data) =
           [r \in 0..n |-> IF r < p THEN RecordsOf(index, data)[r]
                           ELSE IF r = p THEN data[slot]
                           ELSE RecordsOf(index, data)[r - 1]]
<1> DEFINE new == Inserted(index, p, slot, n)
<1>1. RecordsOf(index, data) = [r \in 0..(n - 1) |-> data[index[r]]]
  BY RecordsOfIndex
<1>2. RecordsOf(new, data) = [r \in 0..n |-> data[new[r]]]
  <2>1. RecordsOf(new, data) = [r \in 0..((n + 1) - 1) |-> data[new[r]]]
    BY RecordsOfIndex
  <2>2. (n + 1) - 1 = n
    BY MaxNumRecordsType, SMT
  <2> QED BY <2>1, <2>2
<1>3. ASSUME NEW r \in 0..n
      PROVE  data[new[r]] = IF r < p THEN RecordsOf(index, data)[r]
                            ELSE IF r = p THEN data[slot]
                            ELSE RecordsOf(index, data)[r - 1]
  <2>1. CASE r < p
    <3>1. r \in (0..MaxNumRecords) \ (p..n) /\ r \in 0..(n - 1)
      BY <2>1, MaxNumRecordsType, SMT
    <3>2. new[r] = index[r]
      BY <3>1, InsertedElsewhere
    <3>3. RecordsOf(index, data)[r] = data[index[r]]
      BY <1>1, <3>1
    <3> QED BY <2>1, <3>2, <3>3
  <2>2. CASE r = p
    <3>1. new[p] = slot /\ ~ p < p
      BY InsertedHere, MaxNumRecordsType, SMT
    <3> QED BY <2>2, <3>1
  <2>3. CASE r > p
    <3>1. r \in (p + 1)..n /\ r - 1 \in 0..(n - 1) /\ ~ r < p /\ r # p
      BY <2>3, MaxNumRecordsType, SMT
    <3>2. new[r] = index[r - 1]
      BY <3>1, InsertedAbove
    <3>3. RecordsOf(index, data)[r - 1] = data[index[r - 1]]
      BY <1>1, <3>1
    <3> QED BY <3>1, <3>2, <3>3
  <2> QED BY <2>1, <2>2, <2>3, MaxNumRecordsType, SMT
<1> HIDE DEF new
<1>4. RecordsOf(new, data) =
        [r \in 0..n |-> IF r < p THEN RecordsOf(index, data)[r]
                        ELSE IF r = p THEN data[slot]
                        ELSE RecordsOf(index, data)[r - 1]]
  BY <1>2, <1>3, Zenon
<1> QED BY <1>4 DEF new

(* Deletion of entry d from the index is deletion of d from the list.      *)
LEMMA DeletedRecords ==
  ASSUME NEW index \in [0..MaxNumRecords -> Slots \union {NO_RECORD_INDEX}],
         NEW n \in 0..MaxNumRecords, IsNumRecords(index, n),
         NEW d \in 0..(n - 1), NEW data,
         IsNumRecords(ShiftedDown(index, d, n), n - 1)
  PROVE  RecordsOf(ShiftedDown(index, d, n), data) =
           [r \in 0..(n - 2) |-> IF r < d THEN RecordsOf(index, data)[r]
                                 ELSE RecordsOf(index, data)[r + 1]]
<1> DEFINE new == ShiftedDown(index, d, n)
<1>1. RecordsOf(index, data) = [r \in 0..(n - 1) |-> data[index[r]]]
  BY RecordsOfIndex
<1>2. RecordsOf(new, data) = [r \in 0..(n - 2) |-> data[new[r]]]
  <2>1. RecordsOf(new, data) = [r \in 0..((n - 1) - 1) |-> data[new[r]]]
    BY RecordsOfIndex
  <2>2. (n - 1) - 1 = n - 2
    BY MaxNumRecordsType, SMT
  <2> QED BY <2>1, <2>2
<1>3. \A r \in 0..MaxNumRecords :
        new[r] = IF r \notin d..(n - 1) THEN index[r]
                 ELSE IF r >= MaxNumRecords - 1 THEN NO_RECORD_INDEX
                 ELSE index[r + 1]
  BY DEF ShiftedDown
<1> HIDE DEF new
<1>4. ASSUME NEW r \in 0..(n - 2)
      PROVE  data[new[r]] = IF r < d THEN RecordsOf(index, data)[r]
                            ELSE RecordsOf(index, data)[r + 1]
  <2>1. CASE r < d
    <3>1. new[r] = index[r] /\ r \in 0..(n - 1)
      BY <1>3, <2>1, MaxNumRecordsType, SMT
    <3>2. RecordsOf(index, data)[r] = data[index[r]]
      BY <1>1, <3>1
    <3> QED BY <2>1, <3>1, <3>2
  <2>2. CASE ~ r < d
    <3>1. new[r] = index[r + 1] /\ r + 1 \in 0..(n - 1)
      BY <1>3, <2>2, MaxNumRecordsType, SMT
    <3>2. RecordsOf(index, data)[r + 1] = data[index[r + 1]]
      BY <1>1, <3>1
    <3> QED BY <2>2, <3>1, <3>2
  <2> QED BY <2>1, <2>2
<1>5. RecordsOf(new, data) = [r \in 0..(n - 2) |-> IF r < d THEN RecordsOf(index, data)[r]
                                                   ELSE RecordsOf(index, data)[r + 1]]
  BY <1>2, <1>4, Zenon
<1> QED BY <1>5 DEF new

(* The abstract insertion that insertRecordAt() performs.                  *)
LEMMA InsertImplements ==
  ASSUME IndexInv, status = "open", NEW position \in 0..numRecords,
         NEW slot \in Slots, InsertInSlot(position, slot)
  PROVE  List!InsertAt(position)
<1>1. /\ recordIndex \in [0..MaxNumRecords -> Slots \union {NO_RECORD_INDEX}]
      /\ recordData \in [Slots -> RawRecords]
      /\ numRecords \in 0..MaxNumRecords
      /\ IsNumRecords(recordIndex, numRecords)
      /\ \A r, s \in Slots : r <= s /\ recordIndex[r] = NO_RECORD_INDEX
                            => recordIndex[s] = NO_RECORD_INDEX
  BY DEF IndexInv, TypeOK, CountMatchesIndex, IndexTerminated
<1>2. /\ numRecords < MaxNumRecords
      /\ recordIndex' = Inserted(recordIndex, position, slot, numRecords)
      /\ returned' = position
      /\ UNCHANGED <<recordData, recordDataBuffer, status>>
  BY DEF InsertInSlot
<1>3. IsNumRecords(Inserted(recordIndex, position, slot, numRecords), numRecords + 1)
  BY <1>1, <1>2, InsertedIndex
<1>4. SizeOf(recordIndex) = numRecords
  BY <1>1, SizeOfIndex
<1>5. SizeOf(recordIndex') = numRecords + 1
  BY <1>2, <1>3, SizeOfIndex
<1>6. RecordsOf(recordIndex', recordData') =
        [r \in 0..numRecords |-> IF r < position THEN RecordsOf(recordIndex, recordData)[r]
                                 ELSE IF r = position THEN recordData[slot]
                                 ELSE RecordsOf(recordIndex, recordData)[r - 1]]
  BY <1>1, <1>2, <1>3, InsertedRecords
<1>7. recordData[slot] \in RawRecords
  BY <1>1
<1> QED BY <1>2, <1>4, <1>5, <1>6, <1>7 DEF List!InsertAt

(* The abstract deletion that rs_deleteRecord() performs.                  *)
LEMMA DeleteImplements ==
  ASSUME IndexInv, NEW d \in Slots, DeleteRecord(d)
  PROVE  List!Delete(d)
<1>1. /\ recordIndex \in [0..MaxNumRecords -> Slots \union {NO_RECORD_INDEX}]
      /\ numRecords \in 0..MaxNumRecords
      /\ status = "open"
      /\ d < numRecords
      /\ recordIndex' = ShiftedDown(recordIndex, d, numRecords)
      /\ UNCHANGED <<recordData, recordDataBuffer, returned, status>>
  BY DEF IndexInv, TypeOK, DeleteRecord
<1>2. /\ IsNumRecords(recordIndex, numRecords)
      /\ \A r, s \in Slots : r <= s /\ recordIndex[r] = NO_RECORD_INDEX
                            => recordIndex[s] = NO_RECORD_INDEX
  BY <1>1 DEF IndexInv, CountMatchesIndex, IndexTerminated
<1>3. d \in 0..(numRecords - 1)
  BY <1>1, MaxNumRecordsType, SMT DEF Slots
<1>4. IsNumRecords(ShiftedDown(recordIndex, d, numRecords), numRecords - 1)
  BY <1>1, <1>2, <1>3, DeletedIndex
<1>5. SizeOf(recordIndex) = numRecords /\ SizeOf(recordIndex') = numRecords - 1
  BY <1>1, <1>2, <1>4, SizeOfIndex
<1>6. RecordsOf(recordIndex', recordData') =
        [r \in 0..(numRecords - 2) |-> IF r < d THEN RecordsOf(recordIndex, recordData)[r]
                                       ELSE RecordsOf(recordIndex, recordData)[r + 1]]
  BY <1>1, <1>2, <1>3, <1>4, DeletedRecords
<1> QED BY <1>1, <1>5, <1>6 DEF List!Delete

(* A call that finds the table full leaves the list alone.                 *)
LEMMA RejectImplements ==
  ASSUME IndexInv, status = "open", InsertRejected
  PROVE  List!Full
<1>1. numRecords = MaxNumRecords /\ IsNumRecords(recordIndex, numRecords)
  BY MaxNumRecordsType, SMT DEF IndexInv, TypeOK, CountMatchesIndex, InsertRejected
<1>2. SizeOf(recordIndex) = MaxNumRecords
  BY <1>1, SizeOfIndex
<1> QED BY <1>2 DEF List!Full, InsertRejected, eeVars, ramVars,
           MAX_NUM_RECORDS_REACHED, List!MAX_NUM_RECORDS_REACHED

(* Deletion and insertion keep every other record, whatever the bitmap     *)
(* says and whichever records share a slot.                                *)
THEOREM OtherRecordsKept == Spec => EditsKeepOtherRecords
<1>1. ASSUME IndexInv, [Next]_vars
      PROVE  [ /\ \A d \in Slots : DeleteRecord(d) => List!Delete(d)
               /\ \A r \in Slots : InsertRecordAfter(r) =>
                    List!InsertAfter(r) \/ List!Full \/ InsertHalts
               /\ AppendRecord => List!Append \/ List!Full \/ InsertHalts ]_vars
  <2>1. \A d \in Slots : DeleteRecord(d) => List!Delete(d)
    BY <1>1, DeleteImplements
  <2>2. status = "open" => SizeOf(recordIndex) = numRecords
    BY <1>1, SizeOfIndex DEF IndexInv, CountMatchesIndex
  <2>3. \A r \in Slots : InsertRecordAfter(r) =>
          List!InsertAfter(r) \/ List!Full \/ InsertHalts
    <3> SUFFICES ASSUME NEW r \in Slots, InsertRecordAfter(r)
                 PROVE  List!InsertAfter(r) \/ List!Full \/ InsertHalts
      OBVIOUS
    <3>1. r + 1 \in 0..numRecords /\ r < numRecords /\ status = "open"
      BY <1>1, MaxNumRecordsType, SMT DEF InsertRecordAfter, Slots, IndexInv, TypeOK
    <3>2. CASE InsertRejected
      BY <1>1, <3>1, <3>2, RejectImplements
    <3>3. ASSUME NEW slot \in Slots, InsertInSlot(r + 1, slot)
          PROVE  List!InsertAfter(r)
      <4>1. List!InsertAt(r + 1)
        BY <1>1, <3>1, <3>3, InsertImplements
      <4> QED BY <2>2, <3>1, <4>1 DEF List!InsertAfter
    <3> QED BY <3>2, <3>3 DEF InsertRecordAfter, InsertRecordAt
  <2>4. AppendRecord => List!Append \/ List!Full \/ InsertHalts
    <3> SUFFICES ASSUME AppendRecord
                 PROVE  List!Append \/ List!Full \/ InsertHalts
      OBVIOUS
    <3>1. numRecords \in 0..numRecords /\ status = "open"
      BY <1>1, MaxNumRecordsType, SMT DEF AppendRecord, IndexInv, TypeOK
    <3>2. CASE InsertRejected
      BY <1>1, <3>1, <3>2, RejectImplements
    <3>3. ASSUME NEW slot \in Slots, InsertInSlot(numRecords, slot)
          PROVE  List!Append
      <4>1. List!InsertAt(numRecords)
        BY <1>1, <3>1, <3>3, InsertImplements
      <4> QED BY <2>2, <3>1, <4>1 DEF List!Append
    <3> QED BY <3>2, <3>3 DEF AppendRecord, InsertRecordAt
  <2> QED BY <2>1, <2>3, <2>4
<1> QED BY <1>1, IndexInvariant, PTL DEF Spec, EditsKeepOtherRecords

LEMMA InitImplements == Init => List!Init
<1> SUFFICES ASSUME Init PROVE List!Init
  OBVIOUS
<1>1. IsNumRecords(recordIndex, 0)
  <2>1. IndexInv /\ numRecords = 0 /\ status = "open"
    BY InitIndexInv DEF Init
  <2> QED BY <2>1 DEF IndexInv, CountMatchesIndex
<1>2. SizeOf(recordIndex) = 0
  BY <1>1, SizeOfIndex
<1>3. RecordsOf(recordIndex, recordData) = [r \in {} |-> r]
  <2>1. RecordsOf(recordIndex, recordData) = [r \in 0..(0 - 1) |-> recordData[recordIndex[r]]]
    BY <1>1, RecordsOfIndex
  <2>2. 0..(0 - 1) = {}
    BY SMT
  <2> QED BY <2>1, <2>2
<1> QED BY <1>2, <1>3, RecordStoreAssumption DEF Init, List!Init

(* Every call of SpecOwnSlot is a call on the list, or changes nothing.    *)
LEMMA StepImplements ==
  OwnSlotInv /\ OwnSlotInv' /\ [NextOwnSlot]_vars => [List!Next]_(List!vars)
<1> SUFFICES ASSUME OwnSlotInv, OwnSlotInv', [NextOwnSlot]_vars
             PROVE  List!Next \/ UNCHANGED List!vars
  BY DEF List!vars
<1>0. IndexInv /\ NoSharedSlot /\ NeverHalted /\ NeverHalted'
  BY DEF OwnSlotInv
<1>1. /\ recordIndex \in [0..MaxNumRecords -> Slots \union {NO_RECORD_INDEX}]
      /\ recordData \in [Slots -> RawRecords]
      /\ numRecords \in 0..MaxNumRecords
  BY <1>0 DEF IndexInv, TypeOK
<1>2. status = "open" => /\ IsNumRecords(recordIndex, numRecords)
                         /\ SizeOf(recordIndex) = numRecords
                         /\ RecordsOf(recordIndex, recordData) =
                              [r \in 0..(numRecords - 1) |-> recordData[recordIndex[r]]]
  BY <1>0, SizeOfIndex, RecordsOfIndex DEF IndexInv, CountMatchesIndex
<1>3. Slots = 0..(MaxNumRecords - 1)
  BY DEF Slots
<1>4. ~ InsertHalts
  BY <1>0 DEF InsertHalts, NeverHalted
<1>5. CASE AppendRecord
  <2>1. numRecords \in 0..numRecords /\ status = "open"
    BY <1>1, <1>5, MaxNumRecordsType, SMT DEF AppendRecord
  <2>2. CASE InsertRejected
    BY <1>0, <2>1, <2>2, RejectImplements DEF List!Next
  <2>3. ASSUME NEW slot \in Slots, InsertInSlot(numRecords, slot)
        PROVE  List!Append
    <3>1. List!InsertAt(numRecords)
      BY <1>0, <2>1, <2>3, InsertImplements
    <3> QED BY <1>2, <2>1, <3>1 DEF List!Append
  <2> QED BY <1>4, <1>5, <2>2, <2>3 DEF AppendRecord, InsertRecordAt, List!Next
<1>6. ASSUME NEW r \in Slots, InsertRecordAfter(r)
      PROVE  List!Next
  <2>1. r + 1 \in 0..numRecords /\ r < numRecords /\ status = "open"
    BY <1>1, <1>6, MaxNumRecordsType, SMT DEF InsertRecordAfter, Slots
  <2>2. CASE InsertRejected
    BY <1>0, <2>1, <2>2, RejectImplements DEF List!Next
  <2>3. ASSUME NEW slot \in Slots, InsertInSlot(r + 1, slot)
        PROVE  List!InsertAfter(r)
    <3>1. List!InsertAt(r + 1)
      BY <1>0, <2>1, <2>3, InsertImplements
    <3> QED BY <1>2, <2>1, <3>1 DEF List!InsertAfter
  <2> QED BY <1>3, <1>4, <1>6, <2>2, <2>3 DEF InsertRecordAfter, InsertRecordAt, List!Next
<1>7. ASSUME NEW d \in Slots, DeleteOwnSlot(d)
      PROVE  List!Next
  <2>1. List!Delete(d)
    BY <1>0, <1>7, DeleteImplements DEF DeleteOwnSlot
  <2> QED BY <1>3, <2>1 DEF List!Next
<1>8. CASE DeleteAllRecords
  <2>1. /\ status = "open" /\ returned' = numRecords /\ numRecords' = 0
        /\ UNCHANGED <<recordData, recordDataBuffer, status>>
    BY <1>8 DEF DeleteAllRecords
  <2>2. IsNumRecords(recordIndex', 0)
    BY <2>1 DEF OwnSlotInv, IndexInv, CountMatchesIndex
  <2>3. SizeOf(recordIndex') = 0
    BY <2>2, SizeOfIndex
  <2>4. RecordsOf(recordIndex', recordData') = [r \in {} |-> r]
    <3>1. RecordsOf(recordIndex', recordData') =
            [r \in 0..(0 - 1) |-> recordData'[recordIndex'[r]]]
      BY <2>2, RecordsOfIndex
    <3>2. 0..(0 - 1) = {}
      BY SMT
    <3> QED BY <3>1, <3>2
  <2> QED BY <1>2, <2>1, <2>3, <2>4 DEF List!DeleteAll, List!Next
<1>9. ASSUME NEW s \in Slots, NEW c \in RawRecords, SetRawRecord(s, c)
      PROVE  List!Next
  <2>1. /\ status = "open" /\ s < numRecords
        /\ recordData' = [recordData EXCEPT ![recordIndex[s]] = c]
        /\ UNCHANGED <<recordIndex, recordDataBuffer, returned, status>>
    BY <1>9 DEF SetRawRecord, ramVars
  <2>2. s \in 0..(numRecords - 1)
    BY <1>1, <2>1, MaxNumRecordsType, SMT DEF Slots
  <2>3. \A r \in 0..(numRecords - 1) :
          /\ recordIndex[r] \in Slots
          /\ recordIndex[r] = recordIndex[s] => r = s
    <3>1. \A r \in 0..(numRecords - 1) : r \in Slots /\ r \in 0..MaxNumRecords
      BY <1>1, MaxNumRecordsType, SMT DEF Slots
    <3> QED BY <1>0, <1>1, <1>2, <2>1, <2>2, <3>1 DEF NoSharedSlot, IsNumRecords
  <2>4. RecordsOf(recordIndex', recordData') =
          [r \in 0..(numRecords - 1) |-> recordData'[recordIndex[r]]]
    <3>1. RecordsOf(recordIndex, recordData') =
            [r \in 0..(numRecords - 1) |-> recordData'[recordIndex[r]]]
      BY <1>2, <2>1 DEF RecordsOf
    <3>2. recordIndex' = recordIndex
      BY <2>1
    <3> QED BY <3>1, <3>2, Zenon
  <2>5. \A r \in 0..(numRecords - 1) :
          recordData'[recordIndex[r]] = IF r = s THEN c ELSE recordData[recordIndex[r]]
    BY <1>1, <2>1, <2>2, <2>3
  <2>6. RecordsOf(recordIndex', recordData') =
          [RecordsOf(recordIndex, recordData) EXCEPT ![s] = c]
    <3> DEFINE old == [r \in 0..(numRecords - 1) |-> recordData[recordIndex[r]]]
               new == [r \in 0..(numRecords - 1) |-> recordData'[recordIndex[r]]]
    <3>1. new = [old EXCEPT ![s] = c]
      BY <2>2, <2>5
    <3>2. RecordsOf(recordIndex, recordData) = old
      BY <1>2, <2>1
    <3> HIDE DEF old
    <3> QED BY <2>4, <3>1, <3>2
  <2>7. List!Set(s, c)
    BY <1>2, <2>1, <2>6 DEF List!Set
  <2> QED BY <1>3, <2>7 DEF List!Next
<1>10. ASSUME NEW g \in Slots, GetRawRecord(g)
       PROVE  List!Next
  <2>1. /\ status = "open" /\ g < numRecords
        /\ recordDataBuffer' = recordData[recordIndex[g]]
        /\ UNCHANGED <<recordIndex, recordData, returned, status>>
    BY <1>10 DEF GetRawRecord, eeVars
  <2>2. g \in 0..(numRecords - 1)
    BY <1>1, <2>1, MaxNumRecordsType, SMT DEF Slots
  <2>3. List!Get(g)
    BY <1>2, <2>1, <2>2 DEF List!Get
  <2> QED BY <1>3, <2>3 DEF List!Next
<1>11. CASE Close
  BY <1>0, <1>11, RecordStoreAssumption
     DEF Close, eeVars, NeverHalted, List!Close, List!Next
<1>12. CASE Open
  BY <1>12 DEF Open, eeVars, List!Open, List!Next
<1>13. CASE UNCHANGED vars
  BY <1>13 DEF vars, List!vars, SizeOf, RecordsOf
<1> QED BY <1>5, <1>6, <1>7, <1>8, <1>9, <1>10, <1>11, <1>12, <1>13
        DEF NextOwnSlot, NextNoDelete

(* SpecOwnSlot implements the record list of RecordStore.h.                *)
THEOREM RecordListImplemented == SpecOwnSlot => ImplementsRecordList
<1>1. Init => List!Init
  BY InitImplements
<1>2. OwnSlotInv /\ OwnSlotInv' /\ [NextOwnSlot]_vars => [List!Next]_(List!vars)
  BY StepImplements
<1> QED BY <1>1, <1>2, OwnSlotInvariant, PTL DEF SpecOwnSlot, ImplementsRecordList, List!Spec
=============================================================================
