----------------------------- MODULE PowerLoss ------------------------------
(***************************************************************************)
(* The calls of RecordStore.tla, one EEPROM byte at a time.                *)
(*                                                                         *)
(* eeWriteUint8() is the unit that the power cannot interrupt.  A call     *)
(* shifts the recordIndex entry by entry and writes a record byte by byte, *)
(* so a power cut leaves the EEPROM between two of its writes, and the     *)
(* next opening counts records and marks slots from what it finds.  RAM    *)
(* changes that the code makes next to a write are part of that step.      *)
(***************************************************************************)
EXTENDS Integers

CONSTANTS
  MaxNumRecords,      \* tableDescriptorT.maxNumRecords
  RecordSize,         \* tableDescriptorT.recordSize
  Bytes,              \* values of one byte of a record
  Erased, Zero,       \* EE_CLEAR_VALUE and the byte that calloc() delivers
  NewRecords          \* the records that callers write

Offsets    == 0..(RecordSize - 1)
RawRecords == [Offsets -> Bytes]

ASSUME PowerLossAssumption ==
  /\ MaxNumRecords \in 1..250                         \* MAX_NUM_RECORDS
  /\ RecordSize \in 1..250                            \* MAX_RECORD_SIZE
  /\ {Erased, Zero} \subseteq Bytes
  /\ NewRecords \subseteq RawRecords

VARIABLES
  recordIndex,      \* EE: as in RecordStore
  recordData,       \* EE: the bytes of the record in each slot
  numRecords,       \* RAM
  recordInUse,      \* RAM
  returned,         \* as in RecordStore
  status,           \* as in RecordStore
  call              \* the call under way: its loop variable and locals, and
                    \* the state before its first write

vars == <<recordIndex, recordData, numRecords, recordInUse, returned, status, call>>

Idle == [op |-> "none"]

(* What a caller sees: during a call, the state before it.                 *)
Before == IF call = Idle
          THEN [index |-> recordIndex, data |-> recordData, inUse |-> recordInUse]
          ELSE call.before

(* RecordStore, in which a call is one step: the one that ends it here.    *)
Store == INSTANCE RecordStore WITH
           ErasedRecord     <- [o \in Offsets |-> Erased],
           ZeroRecord       <- [o \in Offsets |-> Zero],
           recordIndex      <- Before.index,
           recordData       <- Before.data,
           recordInUse      <- Before.inUse,
           recordDataBuffer <- [o \in Offsets |-> Zero]

Slots           == Store!Slots
NO_RECORD_INDEX == Store!NO_RECORD_INDEX

TypeOK ==
  /\ recordIndex \in [0..MaxNumRecords -> Slots \union {NO_RECORD_INDEX}]
  /\ recordData \in [Slots -> RawRecords]
  /\ numRecords \in 0..MaxNumRecords
  /\ recordInUse \subseteq Slots
  /\ returned \in 0..255
  /\ status \in {"open", "closed", "halted"}
  /\ call.op \in {"none", "insert", "delete", "deleteAll", "set"}
  /\ call # Idle => status = "open" /\ call.rec \in -1..250

Init ==
  /\ recordIndex = [r \in 0..MaxNumRecords |->
                      IF r = MaxNumRecords THEN 0 ELSE NO_RECORD_INDEX]
  /\ recordData = [s \in Slots |-> [o \in Offsets |-> Erased]]
  /\ numRecords = 0
  /\ recordInUse = {}
  /\ returned = 0
  /\ status = "open"
  /\ call = Idle

-----------------------------------------------------------------------------
Ready == status = "open" /\ call = Idle

BeginInsertAnyway(position) ==        \* mutant: capacity not tested
  \/ /\ Slots \subseteq recordInUse
     /\ status' = "halted"
     /\ UNCHANGED <<recordIndex, recordData, numRecords, recordInUse, returned, call>>
  \/ /\ \E freeRecord \in Slots :
          /\ Store!IsNextFreeRecord(recordInUse, freeRecord)
          /\ call' = [op |-> "insert", position |-> position, slot |-> freeRecord,
                      rec |-> numRecords - 1, before |-> Before]
     /\ UNCHANGED <<recordIndex, recordData, numRecords, recordInUse, returned, status>>

(* insertRecordAt(), up to the loop of shiftRecordIndexUp().               *)
BeginInsert(position) ==
  \/ /\ numRecords >= MaxNumRecords
     /\ returned' = Store!MAX_NUM_RECORDS_REACHED
     /\ UNCHANGED <<recordIndex, recordData, numRecords, recordInUse, status, call>>
  \/ /\ numRecords < MaxNumRecords
     /\ Slots \subseteq recordInUse
     /\ status' = "halted"
     /\ UNCHANGED <<recordIndex, recordData, numRecords, recordInUse, returned, call>>
  \/ /\ numRecords < MaxNumRecords
     /\ \E freeRecord \in Slots :
          /\ Store!IsNextFreeRecord(recordInUse, freeRecord)
          /\ call' = [op |-> "insert", position |-> position, slot |-> freeRecord,
                      rec |-> numRecords - 1, before |-> Before]
     /\ UNCHANGED <<recordIndex, recordData, numRecords, recordInUse, returned, status>>

AppendRecord == Ready /\ BeginInsert(numRecords)

InsertRecordAfter(record) ==
  /\ Ready
  /\ record < numRecords
  /\ BeginInsert(record + 1)

ShiftUpStuck ==                       \* mutant: the loop variable stands still
  /\ call.op = "insert"
  /\ call.rec >= call.position
  /\ recordIndex' = [recordIndex EXCEPT ![call.rec + 1] = recordIndex[call.rec]]
  /\ UNCHANGED <<call, recordData, numRecords, recordInUse, returned, status>>

(* One turn of the loop of shiftRecordIndexUp().                           *)
ShiftUp ==
  /\ call.op = "insert"
  /\ call.rec >= call.position
  /\ recordIndex' = [recordIndex EXCEPT ![call.rec + 1] = recordIndex[call.rec]]
  /\ call' = [call EXCEPT !.rec = @ - 1]
  /\ UNCHANGED <<recordData, numRecords, recordInUse, returned, status>>

(* The rest of insertRecordAt().                                           *)
EndInsert ==
  /\ call.op = "insert"
  /\ call.rec < call.position
  /\ recordIndex' = [recordIndex EXCEPT ![call.position] = call.slot]
  /\ recordInUse' = recordInUse \union {call.slot}
  /\ numRecords' = numRecords + 1
  /\ returned' = call.position
  /\ call' = Idle
  /\ UNCHANGED <<recordData, status>>

-----------------------------------------------------------------------------
(* rs_deleteRecord(), up to the loop of shiftRecordIndexDown().            *)
DeleteRecord(recordId) ==
  /\ Ready
  /\ recordId < numRecords
  /\ recordInUse' = recordInUse \ {recordId}
  /\ call' = [op |-> "delete", recordId |-> recordId, rec |-> recordId, before |-> Before]
  /\ UNCHANGED <<recordIndex, recordData, numRecords, returned, status>>

ShiftDownFromTop ==                   \* mutant: the loop runs downwards
  /\ call.op = "delete"
  /\ call.rec < numRecords
  /\ LET entry == call.recordId + (numRecords - 1) - call.rec IN
       recordIndex' = [recordIndex EXCEPT ![entry] =
                         IF entry >= MaxNumRecords - 1 THEN NO_RECORD_INDEX
                         ELSE recordIndex[entry + 1]]
  /\ call' = [call EXCEPT !.rec = @ + 1]
  /\ UNCHANGED <<recordData, numRecords, recordInUse, returned, status>>

ShiftDownPastEnd ==                   \* mutant: no test for the last entry
  /\ call.op = "delete"
  /\ call.rec < numRecords
  /\ recordIndex' = [recordIndex EXCEPT ![call.rec] = recordIndex[call.rec + 1]]
  /\ call' = [call EXCEPT !.rec = @ + 1]
  /\ UNCHANGED <<recordData, numRecords, recordInUse, returned, status>>

(* One turn of the loop of shiftRecordIndexDown().                         *)
ShiftDown ==
  /\ call.op = "delete"
  /\ call.rec < numRecords
  /\ recordIndex' = [recordIndex EXCEPT ![call.rec] =
                       IF call.rec >= MaxNumRecords - 1 THEN NO_RECORD_INDEX
                       ELSE recordIndex[call.rec + 1]]
  /\ call' = [call EXCEPT !.rec = @ + 1]
  /\ UNCHANGED <<recordData, numRecords, recordInUse, returned, status>>

EndDelete ==
  /\ call.op = "delete"
  /\ call.rec >= numRecords
  /\ numRecords' = numRecords - 1
  /\ call' = Idle
  /\ UNCHANGED <<recordIndex, recordData, recordInUse, returned, status>>

-----------------------------------------------------------------------------
(* rs_deleteAllRecords()                                                   *)
DeleteAllRecords ==
  /\ Ready
  /\ call' = [op |-> "deleteAll", rec |-> 0, before |-> Before]
  /\ UNCHANGED <<recordIndex, recordData, numRecords, recordInUse, returned, status>>

EraseEntryFromEnd ==                  \* mutant: the loop runs downwards
  /\ call.op = "deleteAll"
  /\ call.rec < MaxNumRecords
  /\ LET entry == MaxNumRecords - 1 - call.rec IN
       /\ recordIndex' = [recordIndex EXCEPT ![entry] = NO_RECORD_INDEX]
       /\ recordInUse' = recordInUse \ {entry}
  /\ call' = [call EXCEPT !.rec = @ + 1]
  /\ UNCHANGED <<recordData, numRecords, returned, status>>

EraseEntry ==
  /\ call.op = "deleteAll"
  /\ call.rec < MaxNumRecords
  /\ recordIndex' = [recordIndex EXCEPT ![call.rec] = NO_RECORD_INDEX]
  /\ recordInUse' = recordInUse \ {call.rec}
  /\ call' = [call EXCEPT !.rec = @ + 1]
  /\ UNCHANGED <<recordData, numRecords, returned, status>>

EndDeleteAll ==
  /\ call.op = "deleteAll"
  /\ call.rec >= MaxNumRecords
  /\ returned' = numRecords
  /\ numRecords' = 0
  /\ call' = Idle
  /\ UNCHANGED <<recordIndex, recordData, recordInUse, status>>

-----------------------------------------------------------------------------
SetRawRecordInPlace(recordId, rawRecord) ==   \* mutant: index not followed
  /\ Ready
  /\ recordId < numRecords
  /\ call' = [op |-> "set", recordId |-> recordId, slot |-> recordId,
              rawRecord |-> rawRecord, rec |-> 0, before |-> Before]
  /\ UNCHANGED <<recordIndex, recordData, numRecords, recordInUse, returned, status>>

(* rs_setRawRecord(): the slot is read from the index before the first     *)
(* byte is written.                                                        *)
SetRawRecord(recordId, rawRecord) ==
  /\ Ready
  /\ recordId < numRecords
  /\ call' = [op |-> "set", recordId |-> recordId, slot |-> recordIndex[recordId],
              rawRecord |-> rawRecord, rec |-> 0, before |-> Before]
  /\ UNCHANGED <<recordIndex, recordData, numRecords, recordInUse, returned, status>>

(* One turn of the loop of eeWriteUint8Array().                            *)
WriteByte ==
  /\ call.op = "set"
  /\ call.rec < RecordSize
  /\ recordData' = [recordData EXCEPT ![call.slot][call.rec] = call.rawRecord[call.rec]]
  /\ call' = [call EXCEPT !.rec = @ + 1]
  /\ UNCHANGED <<recordIndex, numRecords, recordInUse, returned, status>>

EndSet ==
  /\ call.op = "set"
  /\ call.rec >= RecordSize
  /\ call' = Idle
  /\ UNCHANGED <<recordIndex, recordData, numRecords, recordInUse, returned, status>>

-----------------------------------------------------------------------------
PowerCut ==
  /\ status \in {"open", "halted"}
  /\ status' = "closed"
  /\ numRecords' = 0
  /\ recordInUse' = {}
  /\ returned' = 0
  /\ call' = Idle
  /\ UNCHANGED <<recordIndex, recordData>>

(* rs_tryToOpenRecordStore() reads only; a cut during it changes nothing.  *)
Open ==
  /\ status = "closed"
  /\ recordIndex[MaxNumRecords] = 0
  /\ \E n \in 0..MaxNumRecords :
       /\ Store!IsNumRecords(recordIndex, n)
       /\ numRecords' = n
       /\ recordInUse' = Store!SlotsOf(recordIndex, n)
  /\ status' = "open"
  /\ UNCHANGED <<recordIndex, recordData, returned, call>>

Begin ==
  \/ AppendRecord
  \/ DeleteAllRecords
  \/ \E recordId \in Slots :
       \/ InsertRecordAfter(recordId)
       \/ DeleteRecord(recordId)
       \/ \E rawRecord \in NewRecords : SetRawRecord(recordId, rawRecord)

Continue ==
  \/ ShiftUp    \/ EndInsert
  \/ ShiftDown  \/ EndDelete
  \/ EraseEntry \/ EndDeleteAll
  \/ WriteByte  \/ EndSet

Next == Begin \/ Continue \/ PowerCut \/ Open

(* A call that has begun runs on, as long as the power does.               *)
Spec == Init /\ [][Next]_vars /\ WF_vars(Continue)

-----------------------------------------------------------------------------
(***************************************************************************)
(* Properties.                                                             *)
(***************************************************************************)

(* What the next opening would list.                                       *)
StoredSize == Store!SizeOf(recordIndex)

(* The slots of the caller's records, without the one the call deletes.    *)
KeptBy(c) ==
  CASE c.op = "delete"    -> (0..(numRecords - 1)) \ {c.recordId}
    [] c.op = "deleteAll" -> {}
    [] OTHER              -> 0..(numRecords - 1)

(* Wherever in a call the power fails, the records that the call is not    *)
(* about are still listed, in their order.  Some may be listed twice.      *)
CutKeepsOtherRecords ==
  call # Idle =>
    \A r, s \in KeptBy(call) : r <= s =>
      \E i, j \in 0..(StoredSize - 1) :
        /\ i <= j
        /\ recordIndex[i] = call.before.index[r]
        /\ recordIndex[j] = call.before.index[s]

(* Wherever rs_setRawRecord() is interrupted, no other slot has changed.   *)
CutTearsOneRecord ==
  call # Idle =>
    \A s \in Slots :
      recordData[s] # call.before.data[s] =>
        call.op = "set" /\ s = recordIndex[call.recordId]

(* The first write of rs_deleteAllRecords() empties the table at once: the *)
(* opening behind a cut finds all of it or nothing.  A later opening may   *)
(* find a part again, once an append has filled the first entry            *)
(* (RecordStore.c:460, :512).                                              *)
DeleteAllAtOnce ==
  call.op = "deleteAll" =>
    StoredSize \in {Store!SizeOf(call.before.index), 0}

(* A call that begins ends, or the power fails.                            *)
EveryCallEnds == call # Idle ~> call = Idle

(* The byte-wise calls are the calls of RecordStore, each ending in its    *)
(* result, unless the power fails first; and they are so even on the index *)
(* that such a cut has left behind.                                        *)
CutDuringCall == call # Idle /\ PowerCut

ImplementsRecordStore ==
  Store!Init /\ [][Store!Next \/ CutDuringCall]_(Store!vars)
=============================================================================
