---------------------------- MODULE RecordBuffer -----------------------------
(***************************************************************************)
(* One table of src/BitsOfData.c: the record buffer, which holds the       *)
(* decoded columns of the record used last and writes them back when       *)
(* another record is used, over the list of raw records that RecordStore.h *)
(* promises.  One action per BDB_* call; the calls are atomic, as nothing  *)
(* interrupts the library but the power.                                   *)
(*                                                                         *)
(* The table has records of one type, whose columns are integers of one    *)
(* range; no column refers to another table, and the table is not the      *)
(* parent table of its database.                                           *)
(***************************************************************************)
EXTENDS Integers, Sequences, SequencesExt, FiniteSetsExt

CONSTANTS
  MaxNumRecords,          \* BDB_tableT.maxNumRecords
  Columns,                \* the columns of a record
  MinValue, MaxValue,     \* the range of every column
  DefaultVal,             \* and its default
  NumBits,                \* bits it takes in a raw record
  Deltas,                 \* arguments of BDB_changeValue()
  ImportData              \* data given to BDB_importTable()

RawValues == 0..(2 ^ NumBits - 1)
RawRecords == [Columns -> RawValues]

ASSUME RecordBufferAssumption ==
  /\ MaxNumRecords \in 1..250
  /\ {MinValue, MaxValue, DefaultVal} \subseteq Nat
  /\ MinValue <= DefaultVal /\ DefaultVal <= MaxValue
  /\ NumBits \in Nat /\ 2 ^ NumBits > MaxValue - MinValue   \* getNumBitsOfColumn()
  /\ Deltas \subseteq Int
  /\ \A data \in ImportData :
       data \in Seq([Columns -> Int]) /\ Len(data) \in 1..MaxNumRecords

NO_RECORD_ID == 255

VARIABLES
  stored,       \* EE: the raw records of the table; record r is stored[r + 1]
  buffer,       \* RAM: RecordBuffers[tableId]
  status        \* "creating", "open", "closed", or "halted" by a failed assert

vars == <<stored, buffer, status>>

(* What rc_decodeRecord() can deliver, and what conforms to the schema.    *)
Decodable == [Columns -> MinValue..(MinValue + 2 ^ NumBits - 1)]
Valid     == [Columns -> MinValue..MaxValue]
Defaults  == [c \in Columns |-> DefaultVal]
Proposed  == [Columns -> MinValue..(MaxValue + 1)]    \* what callers may offer

NoBuffer == [recordId |-> NO_RECORD_ID, isModified |-> FALSE,
             columns |-> [c \in Columns |-> 0]]

TypeOK ==
  /\ stored \in Seq(RawRecords) /\ Len(stored) <= MaxNumRecords
  /\ \/ buffer = NoBuffer
     \/ /\ buffer.recordId \in 0..(MaxNumRecords - 1) \union {NO_RECORD_ID}
        /\ buffer.isModified \in BOOLEAN
        /\ buffer.columns \in Decodable \union Proposed
  /\ status \in {"creating", "open", "closed", "halted"}

(* rs_commitTables() has returned.                                         *)
Init ==
  /\ stored = <<>>
  /\ buffer = NoBuffer
  /\ status = "creating"

-----------------------------------------------------------------------------
(***************************************************************************)
(* The steps that calls are made of.  Each takes a table, [stored, buffer, *)
(* status], to a table; once an assert has failed none has any effect.     *)
(***************************************************************************)
Now == [stored |-> stored, buffer |-> buffer, status |-> status]

Becomes(table) ==
  /\ stored' = table.stored
  /\ buffer' = table.buffer
  /\ status' = table.status

Halted(table) == [table EXCEPT !.status = "halted"]

(* Columns take the low bits of their distance from MinValue.              *)
Encoded(columns) == [c \in Columns |-> (columns[c] - MinValue) % 2 ^ NumBits]
Decoded(raw)     == [c \in Columns |-> raw[c] + MinValue]

RecordExists(table, recordId) == recordId < Len(table.stored)

(* storeRecordBuffer(), with the assert of rs_setRawRecord().              *)
StoreRecordBuffer(table) ==
  IF ~RecordExists(table, table.buffer.recordId) THEN Halted(table)
  ELSE [table EXCEPT !.stored[table.buffer.recordId + 1] =
                        Encoded(table.buffer.columns)]

WriteRecordBufferIfDirty(table) ==
  IF table.buffer.isModified THEN StoreRecordBuffer(table) ELSE table

FillUnwritten(table, recordId) ==     \* mutant: a dirty buffer is dropped
  IF table.buffer.recordId = recordId THEN table
  ELSE IF ~RecordExists(table, recordId) THEN Halted(table)
  ELSE [table EXCEPT !.buffer = [recordId   |-> recordId,
                                 isModified |-> FALSE,
                                 columns    |-> Decoded(table.stored[recordId + 1])]]

(* fillRecordBuffer(), with the assert of rs_getRawRecord().               *)
FillRecordBuffer(table, recordId) ==
  LET written == WriteRecordBufferIfDirty(table) IN
  IF table.buffer.recordId = recordId THEN table
  ELSE IF written.status = "halted" \/ ~RecordExists(written, recordId)
  THEN Halted(written)
  ELSE [written EXCEPT !.buffer = [recordId   |-> recordId,
                                   isModified |-> FALSE,
                                   columns    |-> Decoded(written.stored[recordId + 1])]]

(* setColumnsToDefaultValue(): isModified stays as it is.                  *)
SetToDefault(table, recordId) ==
  LET written == WriteRecordBufferIfDirty(table) IN
  IF written.status = "halted" THEN written
  ELSE StoreRecordBuffer([written EXCEPT !.buffer.recordId = recordId,
                                         !.buffer.columns  = Defaults])

(* BDB_setRecord(): the buffer is lost when the data is not valid.         *)
SetRecordIn(table, recordId, data) ==
  LET written == WriteRecordBufferIfDirty(table)
      copied  == [recordId |-> recordId, isModified |-> TRUE, columns |-> data] IN
  IF written.status = "halted" THEN written
  ELSE IF data \in Valid THEN [written EXCEPT !.buffer = copied]
  ELSE [written EXCEPT !.buffer = [copied EXCEPT !.recordId = NO_RECORD_ID,
                                                 !.isModified = FALSE]]

(* setValue() on the record in the buffer.                                 *)
Modified(table, column, value) ==
  [table EXCEPT !.buffer.columns[column] = value, !.buffer.isModified = TRUE]

LimitValueBelow(value) ==                       \* mutant: no lower limit
  IF value > MaxValue THEN MaxValue ELSE value

(* mu_limitValue()                                                         *)
LimitValue(value) ==
  IF value < MinValue THEN MinValue ELSE IF value > MaxValue THEN MaxValue ELSE value

-----------------------------------------------------------------------------
(* createFirstRecordInEveryTable(); rs_appendRecord() promises no content. *)
CreateFirstRecord ==
  /\ status = "creating"
  /\ \E raw \in RawRecords :
       Becomes(SetToDefault([Now EXCEPT !.stored = <<raw>>, !.status = "open"], 0))

(* BDB_getRecord() and BDB_getValue(); any other call that only reads.     *)
GetRecord(recordId) ==
  /\ status = "open"
  /\ Becomes(FillRecordBuffer(Now, recordId))

SetRecord(recordId, data) ==
  /\ status = "open"
  /\ Becomes(SetRecordIn(Now, recordId, data))

(* BDB_setValue(): nothing is set when value is out of range.              *)
SetValue(recordId, column, value) ==
  /\ status = "open"
  /\ LET filled == FillRecordBuffer(Now, recordId) IN
       Becomes(IF filled.status = "halted" \/ value \notin MinValue..MaxValue
               THEN filled
               ELSE Modified(filled, column, value))

(* BDB_changeValue()                                                       *)
ChangeValue(recordId, column, delta) ==
  /\ status = "open"
  /\ LET filled   == FillRecordBuffer(Now, recordId)
         value    == filled.buffer.columns[column]
         newValue == LimitValue(value + delta)
     IN Becomes(IF filled.status = "halted" \/ newValue = value THEN filled
                ELSE Modified(filled, column, newValue))

(* BDB_insertRecordAfter(): the buffer is written back before the records  *)
(* behind recordId move, and once more after they have moved.              *)
InsertRecordAfter(recordId) ==
  /\ status = "open"
  /\ LET written == WriteRecordBufferIfDirty(Now) IN
       IF written.status = "halted" \/ Len(stored) >= MaxNumRecords
       THEN Becomes(written)
       ELSE \E raw \in RawRecords :
              Becomes(SetToDefault(
                [written EXCEPT !.stored = InsertAt(@, recordId + 2, raw)],
                recordId + 1))

(* BDB_deleteRecord(): the buffer is left alone.                           *)
DeleteRecord(recordId) ==
  /\ status = "open"
  /\ stored' = IF Len(stored) > 1 THEN RemoveAt(stored, recordId + 1) ELSE stored
  /\ UNCHANGED <<buffer, status>>

(* BDB_syncTable(); BDB_syncDbase() does the same for every table.         *)
SyncTable ==
  /\ status = "open"
  /\ Becomes(StoreRecordBuffer(Now))

ImportedUncleared(data, numRecords, raw) ==    \* mutant: buffer kept
  LET table[n \in 0..numRecords] ==
        IF n = 0 THEN [Now EXCEPT !.stored = <<>>]
        ELSE IF \E m \in 1..(n - 1) : data[m] \notin Valid THEN table[n - 1]
        ELSE SetRecordIn([table[n - 1] EXCEPT !.stored = Append(@, raw)], n - 1, data[n])
  IN table[numRecords]

(***************************************************************************)
(* The loop of BDB_importTable() appends a record before it looks at the   *)
(* data for it, and stops at the first that is not valid, whose record     *)
(* keeps the content it was appended with.                                 *)
(***************************************************************************)
Imported(data, numRecords, raw) ==
  LET table[n \in 0..numRecords] ==
        IF n = 0
        THEN [Now EXCEPT !.stored = <<>>,
                         !.buffer.recordId = NO_RECORD_ID,
                         !.buffer.isModified = FALSE]
        ELSE IF \E m \in 1..(n - 1) : data[m] \notin Valid THEN table[n - 1]
        ELSE SetRecordIn([table[n - 1] EXCEPT !.stored = Append(@, raw)], n - 1, data[n])
  IN table[numRecords]

ImportTable(data, numRecords) ==
  /\ status = "open"
  /\ \E raw \in RawRecords :
       Becomes(SetRecordIn(Imported(data, numRecords, raw), 0, data[1]))

(* BDB_closeDataBase(), or a power cut or reset between two calls: the     *)
(* buffer is lost.                                                         *)
CloseDataBase ==
  /\ status \in {"open", "halted"}
  /\ status' = "closed"
  /\ buffer' = NoBuffer
  /\ UNCHANGED stored

(* A power cut between rs_commitTables() and the first record.             *)
CutDuringCreation ==
  /\ status = "creating"
  /\ status' = "closed"
  /\ UNCHANGED <<stored, buffer>>

(* BDB_openDataBase() of an existing database.                             *)
OpenDataBase ==
  /\ status = "closed"
  /\ status' = "open"
  /\ UNCHANGED <<stored, buffer>>

RecordIds == 0..(Len(stored) - 1)

IsImportable(data, numRecords) ==
  numRecords > 0 /\ \A n \in 1..numRecords : data[n] \in Valid

(* The calls that are right whatever is in the buffer.                     *)
NextPlain ==
  \/ CreateFirstRecord
  \/ CloseDataBase
  \/ OpenDataBase
  \/ \E recordId \in RecordIds :
       \/ GetRecord(recordId)
       \/ \E data \in Proposed : SetRecord(recordId, data)
       \/ \E column \in Columns :
            \/ \E value \in MinValue..(MaxValue + 1) : SetValue(recordId, column, value)
            \/ \E delta \in Deltas : ChangeValue(recordId, column, delta)
  \/ \E data \in ImportData : \E numRecords \in 1..Len(data) :
       IsImportable(data, numRecords) /\ ImportTable(data, numRecords)

(***************************************************************************)
(* A caller that knows of the buffer: it syncs only after using a record,  *)
(* it inserts while the buffer is clean or not behind the new record, and  *)
(* it deletes while the buffer holds a record before the deleted one.      *)
(***************************************************************************)
NextCareful ==
  \/ NextPlain
  \/ buffer.recordId # NO_RECORD_ID /\ SyncTable
  \/ \E recordId \in RecordIds :
       \/ /\ buffer.isModified => buffer.recordId <= recordId + 1
          /\ InsertRecordAfter(recordId)
       \/ /\ buffer.recordId < recordId \/ buffer.recordId = NO_RECORD_ID
          /\ DeleteRecord(recordId)

SpecCareful == Init /\ [][NextCareful]_vars

(* A caller that calls what it likes on the records there are, and imports *)
(* data that is not valid, or none.                                        *)
Next ==
  \/ NextCareful
  \/ SyncTable
  \/ CutDuringCreation
  \/ \E recordId \in RecordIds : InsertRecordAfter(recordId) \/ DeleteRecord(recordId)
  \/ \E data \in ImportData : \E numRecords \in 0..Len(data) :
       ImportTable(data, numRecords)

Spec == Init /\ [][Next]_vars

-----------------------------------------------------------------------------
(***************************************************************************)
(* What the caller reads: what BDB_getRecord() delivers when it is called  *)
(* next, and what is left of the table when the power fails.               *)
(***************************************************************************)
ViewOf(table) ==
  [n \in 1..Len(table.stored) |-> FillRecordBuffer(table, n - 1).buffer.columns]

View      == ViewOf(Now)
Persisted == [n \in 1..Len(stored) |-> Decoded(stored[n])]

Table == INSTANCE TableView WITH
           Records       <- Valid,
           DefaultRecord <- Defaults,
           records       <- IF status = "creating" THEN <<Defaults>> ELSE View,
           persisted     <- IF status = "creating" THEN <<Defaults>> ELSE Persisted,
           open          <- status \in {"creating", "open"}

(***************************************************************************)
(* Properties of SpecCareful.                                              *)
(***************************************************************************)

(* The careful caller gets what BitsOfData.h promises: each call changes   *)
(* the record it names and no other, and only the record used last can be  *)
(* lost when the power fails.                                              *)
ImplementsTableView == Table!Spec

(* No assert of the record store fails.                                    *)
NeverHalted == status # "halted"

(* BitsOfData.h:216-217: "As soon as any invalid data is encountered, the  *)
(* import will halt and the number of successfully written records will be *)
(* returned."  Whatever is in the buffer when it starts, the records in    *)
(* front of the invalid one are as given, and of the others the table has  *)
(* one at most.                                                            *)
ImportsValidPrefix ==
  status = "open" =>
    \A data \in ImportData, raw \in RawRecords : \A numRecords \in 1..Len(data) :
      LET imported == SetRecordIn(Imported(data, numRecords, raw), 0, data[1])
          invalid  == {n \in 1..numRecords : data[n] \notin Valid}
          numValid == IF invalid = {} THEN numRecords ELSE Min(invalid) - 1
      IN /\ SubSeq(ViewOf(imported), 1, numValid) = SubSeq(data, 1, numValid)
         /\ Len(imported.stored) = IF invalid = {} THEN numRecords ELSE numValid + 1

(***************************************************************************)
(* What BitsOfData.h says of every caller, and Spec does not have.         *)
(***************************************************************************)

(* BitsOfData.h:109: "after mutation, recordId refers to the record that   *)
(* previously followed the deleted one (if it exists)".                    *)
DeleteClosesGap ==
  [][\A recordId \in RecordIds :
       DeleteRecord(recordId) /\ recordId < Len(stored) - 1 =>
         ViewOf(Now')[recordId + 1] = View[recordId + 2]]_vars
=============================================================================
