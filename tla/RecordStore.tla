---------------------------- MODULE RecordStore -----------------------------
(***************************************************************************)
(* One table of src/RecordStore.c, one action per rs_* call.               *)
(*                                                                         *)
(* The EEPROM holds the recordIndex, a list of slot numbers terminated by  *)
(* 0xFF, and the recordDataArea, one raw record per slot.  RAM holds what  *)
(* is derived from them on opening: the number of records and the bitmap   *)
(* of slots in use.  Closing the store, or cutting the power between two   *)
(* calls, loses the RAM and keeps the EEPROM.                              *)
(*                                                                         *)
(* Calls are atomic: the library is single-threaded and keeps no state     *)
(* across them.  PowerLoss.tla opens the EEPROM write loops up.            *)
(***************************************************************************)
EXTENDS Naturals

CONSTANTS
  MaxNumRecords,    \* tableDescriptorT.maxNumRecords
  RawRecords,       \* the possible contents of one record
  ErasedRecord,     \* a record of EE_CLEAR_VALUE bytes
  ZeroRecord        \* a record of zero bytes, as calloc() delivers it

ASSUME RecordStoreAssumption ==
  /\ MaxNumRecords \in 1..250                         \* MAX_NUM_RECORDS
  /\ {ErasedRecord, ZeroRecord} \subseteq RawRecords

NO_RECORD_INDEX         == 255
MAX_NUM_RECORDS_REACHED == 255

VARIABLES
  recordIndex,      \* EE: the recordIndex, then the separator byte behind it
  recordData,       \* EE: the recordDataArea, one raw record per slot
  numRecords,       \* RAM: tableDescriptorT.numRecords
  recordInUse,      \* RAM: recordInUseBitmap, as the set of slots marked
  recordDataBuffer, \* RAM: what the pointer of rs_getRawRecord points at
  returned,         \* the number the last call returned
  status            \* "open", "closed", or "halted" by a failed assert

eeVars  == <<recordIndex, recordData>>
ramVars == <<numRecords, recordInUse, recordDataBuffer>>
vars    == <<recordIndex, recordData, numRecords, recordInUse,
             recordDataBuffer, returned, status>>

Slots     == 0..(MaxNumRecords - 1)
Separator == MaxNumRecords       \* offset of the byte behind the recordIndex

TypeOK ==
  /\ recordIndex \in [0..MaxNumRecords -> Slots \union {NO_RECORD_INDEX}]
  /\ recordData \in [Slots -> RawRecords]
  /\ numRecords \in 0..MaxNumRecords
  /\ recordInUse \subseteq Slots
  /\ recordDataBuffer \in RawRecords
  /\ returned \in 0..255
  /\ status \in {"open", "closed", "halted"}

(* A table that rs_commitTables() has just written to a cleared EEPROM.    *)
Init ==
  /\ recordIndex = [r \in 0..MaxNumRecords |->
                      IF r = Separator THEN 0 ELSE NO_RECORD_INDEX]
  /\ recordData = [s \in Slots |-> ErasedRecord]
  /\ numRecords = 0
  /\ recordInUse = {}
  /\ recordDataBuffer = ZeroRecord
  /\ returned = 0
  /\ status = "open"

-----------------------------------------------------------------------------
(***************************************************************************)
(* The helpers of RecordStore.c, as functions of the index they read.      *)
(***************************************************************************)

(* getNumRecordsFromIndex() returns n for this index: the position of its  *)
(* first 0xFF, or maxNumRecords if there is none.                          *)
IsNumRecords(index, n) ==
  /\ n \in 0..MaxNumRecords
  /\ \A r \in 0..(n - 1) : index[r] # NO_RECORD_INDEX
  /\ n < MaxNumRecords => index[n] = NO_RECORD_INDEX

SlotsOfInclusive(index, n) == {index[r] : r \in 0..n}    \* mutant: one more

(* The slots that n records of this index occupy.                          *)
SlotsOf(index, n) == {index[r] : r \in 0..(n - 1)}

ShiftedDownPastEnd(index, recordId, n) ==   \* mutant: no test for the last entry
  [r \in 0..MaxNumRecords |->
     IF r \in recordId..(n - 1) THEN index[r + 1] ELSE index[r]]

(* shiftRecordIndexDown(): the entries behind recordId move down by one.   *)
(* The entry behind a full index is the separator byte, not a slot.        *)
ShiftedDown(index, recordId, n) ==
  [r \in 0..MaxNumRecords |->
     IF r \notin recordId..(n - 1) THEN index[r]
     ELSE IF r >= MaxNumRecords - 1 THEN NO_RECORD_INDEX
     ELSE index[r + 1]]

ShiftedUpNotLast(index, record, n) ==       \* mutant: starts below the last entry
  [r \in 0..MaxNumRecords |->
     IF r \in (record + 1)..(n - 1) THEN index[r - 1] ELSE index[r]]

(* shiftRecordIndexUp(record - 1): the entries from record on move up.     *)
ShiftedUp(index, record, n) ==
  [r \in 0..MaxNumRecords |->
     IF r \in (record + 1)..n THEN index[r - 1] ELSE index[r]]

(* The index once an entry for slot stands at position.                    *)
Inserted(index, position, slot, n) ==
  [ShiftedUp(index, position, n) EXCEPT ![position] = slot]

(* getNextFreeRecord() returns slot for this bitmap.                       *)
IsNextFreeRecord(inUse, slot) ==
  /\ slot \in Slots \ inUse
  /\ \A s \in 0..(slot - 1) : s \in inUse

-----------------------------------------------------------------------------
(***************************************************************************)
(* insertRecordAt().  Its assert fails when the bitmap has no free slot    *)
(* although the table is not full; nothing has been written by then.       *)
(***************************************************************************)
InsertRejected ==
  /\ numRecords >= MaxNumRecords
  /\ returned' = MAX_NUM_RECORDS_REACHED
  /\ UNCHANGED <<eeVars, ramVars, status>>

InsertHalts ==
  /\ numRecords < MaxNumRecords
  /\ Slots \subseteq recordInUse
  /\ status' = "halted"
  /\ UNCHANGED <<eeVars, ramVars, returned>>

InsertInSlotUnmarked(position, freeRecord) ==   \* mutant: no markRecordInUse()
  /\ numRecords < MaxNumRecords
  /\ IsNextFreeRecord(recordInUse, freeRecord)
  /\ recordIndex' = Inserted(recordIndex, position, freeRecord, numRecords)
  /\ numRecords' = numRecords + 1
  /\ returned' = position
  /\ UNCHANGED <<recordData, recordDataBuffer, recordInUse, status>>

InsertInSlot(position, freeRecord) ==
  /\ numRecords < MaxNumRecords
  /\ IsNextFreeRecord(recordInUse, freeRecord)
  /\ recordIndex' = Inserted(recordIndex, position, freeRecord, numRecords)
  /\ recordInUse' = recordInUse \union {freeRecord}
  /\ numRecords' = numRecords + 1
  /\ returned' = position
  /\ UNCHANGED <<recordData, recordDataBuffer, status>>

InsertRecordAt(position) ==
  \/ InsertRejected
  \/ InsertHalts
  \/ \E freeRecord \in Slots : InsertInSlot(position, freeRecord)

(* rs_appendRecord()                                                       *)
AppendRecord ==
  /\ status = "open"
  /\ InsertRecordAt(numRecords)

(* rs_insertRecordAfter()                                                  *)
InsertRecordAfter(record) ==
  /\ status = "open"
  /\ record < numRecords                       \* assertRecordExists
  /\ InsertRecordAt(record + 1)

DeleteRecordMarked(recordId) ==                 \* mutant: no markRecordFree()
  /\ status = "open"
  /\ recordId < numRecords
  /\ recordIndex' = ShiftedDown(recordIndex, recordId, numRecords)
  /\ numRecords' = numRecords - 1
  /\ UNCHANGED <<recordData, recordDataBuffer, recordInUse, returned, status>>

(***************************************************************************)
(* rs_deleteRecord().  The bit it clears is the one numbered recordId, the *)
(* record's position in the list, and not the one of the record's slot.    *)
(***************************************************************************)
DeleteRecord(recordId) ==
  /\ status = "open"
  /\ recordId < numRecords
  /\ recordInUse' = recordInUse \ {recordId}
  /\ recordIndex' = ShiftedDown(recordIndex, recordId, numRecords)
  /\ numRecords' = numRecords - 1
  /\ UNCHANGED <<recordData, recordDataBuffer, returned, status>>

DeleteAllFirstEntry ==                \* mutant: stops after the first entry
  /\ status = "open"
  /\ recordIndex' = [recordIndex EXCEPT ![0] = NO_RECORD_INDEX]
  /\ recordInUse' = recordInUse \ Slots
  /\ numRecords' = 0
  /\ returned' = numRecords
  /\ UNCHANGED <<recordData, recordDataBuffer, status>>

(* rs_deleteAllRecords()                                                   *)
DeleteAllRecords ==
  /\ status = "open"
  /\ recordIndex' = [r \in 0..MaxNumRecords |->
                       IF r = Separator THEN recordIndex[r] ELSE NO_RECORD_INDEX]
  /\ recordInUse' = recordInUse \ Slots
  /\ numRecords' = 0
  /\ returned' = numRecords
  /\ UNCHANGED <<recordData, recordDataBuffer, status>>

(* rs_setRawRecord()                                                       *)
SetRawRecord(recordId, rawRecord) ==
  /\ status = "open"
  /\ recordId < numRecords
  /\ recordData' = [recordData EXCEPT ![recordIndex[recordId]] = rawRecord]
  /\ UNCHANGED <<recordIndex, ramVars, returned, status>>

GetRawRecordInPlace(recordId) ==                \* mutant: index not followed
  /\ status = "open"
  /\ recordId < numRecords
  /\ recordDataBuffer' = recordData[recordId]
  /\ UNCHANGED <<eeVars, numRecords, recordInUse, returned, status>>

(* rs_getRawRecord()                                                       *)
GetRawRecord(recordId) ==
  /\ status = "open"
  /\ recordId < numRecords
  /\ recordDataBuffer' = recordData[recordIndex[recordId]]
  /\ UNCHANGED <<eeVars, numRecords, recordInUse, returned, status>>

(***************************************************************************)
(* rs_closeRecordStore(), or a power cut or reset between two calls, which *)
(* is also what follows a failed assert: the RAM is lost.                  *)
(***************************************************************************)
Close ==
  /\ status \in {"open", "halted"}
  /\ status' = "closed"
  /\ numRecords' = 0
  /\ recordInUse' = {}
  /\ recordDataBuffer' = ZeroRecord
  /\ returned' = 0
  /\ UNCHANGED eeVars

OpenUnmarked ==                                 \* mutant: bitmap left clear
  /\ status = "closed"
  /\ recordIndex[Separator] = 0
  /\ \E n \in 0..MaxNumRecords :
       /\ IsNumRecords(recordIndex, n)
       /\ numRecords' = n
  /\ status' = "open"
  /\ UNCHANGED <<eeVars, recordInUse, recordDataBuffer, returned>>

(* rs_tryToOpenRecordStore() on a valid catalog: the separator is checked, *)
(* the records are counted and their slots marked in use.                  *)
Open ==
  /\ status = "closed"
  /\ recordIndex[Separator] = 0
  /\ \E n \in 0..MaxNumRecords :
       /\ IsNumRecords(recordIndex, n)
       /\ numRecords' = n
       /\ recordInUse' = SlotsOf(recordIndex, n)
  /\ status' = "open"
  /\ UNCHANGED <<eeVars, recordDataBuffer, returned>>

(* Every call but rs_deleteRecord().                                       *)
NextNoDelete ==
  \/ AppendRecord
  \/ DeleteAllRecords
  \/ Close
  \/ Open
  \/ \E recordId \in Slots :
       \/ InsertRecordAfter(recordId)
       \/ GetRawRecord(recordId)
       \/ \E rawRecord \in RawRecords : SetRawRecord(recordId, rawRecord)

Next == NextNoDelete \/ \E recordId \in Slots : DeleteRecord(recordId)

Spec == Init /\ [][Next]_vars

(***************************************************************************)
(* A caller that happens to delete only records sitting in the slot with   *)
(* their own number, for which rs_deleteRecord() clears the right bit: a   *)
(* table used as a stack does that, and so does the first deletion from a  *)
(* table that was only appended to.                                        *)
(***************************************************************************)
DeleteOwnSlot(recordId) ==
  /\ recordIndex[recordId] = recordId
  /\ DeleteRecord(recordId)

NextOwnSlot == NextNoDelete \/ \E recordId \in Slots : DeleteOwnSlot(recordId)

SpecOwnSlot == Init /\ [][NextOwnSlot]_vars
-----------------------------------------------------------------------------
(***************************************************************************)
(* The record list that the EEPROM holds.                                  *)
(***************************************************************************)

SizeOf(index) == CHOOSE n \in 0..MaxNumRecords : IsNumRecords(index, n)

RecordsOf(index, data) == [r \in 0..(SizeOf(index) - 1) |-> data[index[r]]]

List == INSTANCE RecordList WITH
          records  <- RecordsOf(recordIndex, recordData),
          size     <- SizeOf(recordIndex),
          open     <- status = "open",
          lastRead <- recordDataBuffer

-----------------------------------------------------------------------------
(***************************************************************************)
(* Properties of Spec: they hold whatever the caller deletes.              *)
(***************************************************************************)

(* The count in RAM, which insertion and deletion keep up to date by one,  *)
(* is always the count that the next opening would read from the index.    *)
CountMatchesIndex ==
  status # "closed" => IsNumRecords(recordIndex, numRecords)

(* "All entries after the first 0xFF are considered unused": they are      *)
(* 0xFF themselves, so growing the list by one entry never brings an old   *)
(* entry back behind the new one.                                          *)
IndexTerminated ==
  \A r, s \in Slots :
    r <= s /\ recordIndex[r] = NO_RECORD_INDEX
      => recordIndex[s] = NO_RECORD_INDEX

(* No shift of the index reaches the separator byte behind it, which       *)
(* isTableCatalogValid() needs to accept the store again.                  *)
SeparatorIntact == recordIndex[Separator] = 0

(* Deletion and insertion edit the list of contents exactly as RecordStore.h *)
(* says: every other record keeps its content under its shifted number,    *)
(* even when the bitmap is wrong and two records share a slot.             *)
EditsKeepOtherRecords ==
  [][ /\ \A d \in Slots : DeleteRecord(d) => List!Delete(d)
      /\ \A r \in Slots : InsertRecordAfter(r) =>
           List!InsertAfter(r) \/ List!Full \/ InsertHalts
      /\ AppendRecord => List!Append \/ List!Full \/ InsertHalts ]_vars

(***************************************************************************)
(* Properties of SpecOwnSlot.                                              *)
(***************************************************************************)

(* Between calls the bitmap marks exactly the slots of the listed records. *)
BitmapExact ==
  status = "open" => recordInUse = SlotsOf(recordIndex, numRecords)

(* No two records of the table lie in the same slot.                       *)
NoSharedSlot ==
  \A r, s \in Slots :
    r # s /\ recordIndex[r] = recordIndex[s] => recordIndex[r] = NO_RECORD_INDEX

(* insertRecordAt() never runs into its assert.                            *)
NeverHalted == status # "halted"

(* The table is the list of records that RecordStore.h describes.          *)
ImplementsRecordList == List!Spec

(***************************************************************************)
(* What the source says of every table, and Spec does not have.            *)
(***************************************************************************)

(* RecordStore.h:123: rs_setRawRecord() "writes data to a record in EE",   *)
(* one record and not two.                                                 *)
SetChangesOneRecord ==
  [][\A r \in Slots, c \in RawRecords : SetRawRecord(r, c) => List!Set(r, c)]_vars
=============================================================================
