------------------------------ MODULE References ------------------------------
(***************************************************************************)
(* References between the tables of src/BitsOfData.c: a table "from" whose *)
(* records name a record of the table "to", and the table "to", whose      *)
(* records name one another (BDB_SELF_REFERENCE).  A reference is the      *)
(* position of a record, so that inserting or deleting a record of "to"    *)
(* shifts every reference to the records behind it, and a record that is   *)
(* referred to cannot be deleted.                                          *)
(*                                                                         *)
(* forEachReference() looks at the references through the record buffers   *)
(* of RecordBuffer.tla, which is why the buffers are part of this module.  *)
(* Each record has one column, the reference.                              *)
(***************************************************************************)
EXTENDS Integers, Sequences, SequencesExt

CONSTANTS
  MaxFrom, MaxTo,       \* BDB_tableT.maxNumRecords of the two tables
  NumBits               \* bits of a reference in a raw record

ASSUME ReferencesAssumption ==
  /\ MaxFrom \in 1..250 /\ MaxTo \in 2..250
  /\ NumBits \in Nat /\ 2 ^ NumBits >= MaxTo

VARIABLE db     \* the tables: of each the records in the EEPROM, the record
                \* buffer in RAM, and the status, as in RecordBuffer

TableIds == {"from", "to"}
Capacity(t) == IF t = "from" THEN MaxFrom ELSE MaxTo

(* The steps of RecordBuffer, on records with one reference.               *)
Buffer == INSTANCE RecordBuffer WITH
            MaxNumRecords <- MaxTo, Columns <- {"ref"}, NumBits <- NumBits,
            MinValue <- 0, MaxValue <- MaxTo - 1, DefaultVal <- 0,
            Deltas <- {-1, 1}, ImportData <- {},
            stored <- db["to"].stored, buffer <- db["to"].buffer,
            status <- db["to"].status

NumRecords(d, t) == Len(d[t].stored)
RecordIds(t)     == 0..(NumRecords(db, t) - 1)
IsHalted(d)      == \E t \in TableIds : d[t].status = "halted"
IsOpen           == \A t \in TableIds : db[t].status = "open"

TypeOK ==
  \A t \in TableIds :
    /\ db[t].stored \in Seq(Buffer!RawRecords) /\ Len(db[t].stored) \in 1..Capacity(t)
    /\ db[t].buffer.recordId \in 0..(Capacity(t) - 1) \union {Buffer!NO_RECORD_ID}
    /\ db[t].buffer.isModified \in BOOLEAN
    /\ db[t].buffer.columns \in Buffer!RawRecords
    /\ db[t].status \in {"open", "closed", "halted"}

(* A database that has just been created.                                  *)
Init ==
  db = [t \in TableIds |->
          [stored |-> <<Buffer!Encoded(Buffer!Defaults)>>, status |-> "open",
           buffer |-> [recordId |-> 0, isModified |-> FALSE,
                       columns |-> Buffer!Defaults]]]

-----------------------------------------------------------------------------
(***************************************************************************)
(* What the calls are made of, as functions of the database.               *)
(***************************************************************************)

(* fillRecordBuffer(), after which BDB_getValue() reads the buffer.        *)
Filled(d, t, recordId) == [d EXCEPT ![t] = Buffer!FillRecordBuffer(@, recordId)]
BufferedRef(d, t)      == d[t].buffer.columns["ref"]

(* getMaxValue() of a reference.                                           *)
MaxRef(d) == NumRecords(d, "to") - 1

(* BDB_changeValue() of the reference in the buffer.                       *)
Changed(d, t, delta) ==
  LET value    == BufferedRef(d, t)
      newValue == IF value + delta < 0 THEN 0
                  ELSE IF value + delta > MaxRef(d) THEN MaxRef(d) ELSE value + delta
  IN IF newValue = value THEN d
     ELSE [d EXCEPT ![t] = Buffer!Modified(@, "ref", newValue)]

(* What forEachReference() does about one record: a record of "to" that    *)
(* names refRecordId is passed over, in the belief that it is that record. *)
IsPassedOver(d, t, refRecordId) == t = "to" /\ BufferedRef(d, t) = refRecordId

ShiftReferenceDown(d, t, refRecordId) ==
  IF BufferedRef(d, t) > refRecordId THEN Changed(d, t, -1) ELSE d

ShiftReferenceUpAtToo(d, t, refRecordId) ==   \* mutant: >= for >
  IF BufferedRef(d, t) >= refRecordId THEN Changed(d, t, 1) ELSE d

ShiftReferenceUp(d, t, refRecordId) ==
  IF BufferedRef(d, t) > refRecordId THEN Changed(d, t, 1) ELSE d

(***************************************************************************)
(* forEachReference() to a record of "to": every record of "from", then    *)
(* every record of "to".  ForEach gives the state after the first n of     *)
(* them, Stops says that the operation ended the traversal, and Apply is   *)
(* what else it does.                                                      *)
(***************************************************************************)
VisitsOneMore(d) ==                     \* mutant: rec <= numRecords
  [i \in 1..(NumRecords(d, "from") + 1) |-> <<"from", i - 1>>]
    \o [i \in 1..NumRecords(d, "to") |-> <<"to", i - 1>>]

Visits(d) ==
  [i \in 1..NumRecords(d, "from") |-> <<"from", i - 1>>]
    \o [i \in 1..NumRecords(d, "to") |-> <<"to", i - 1>>]

(* isRecordReferenced(): the tables after it, and what it returns.         *)
Search(d, refRecordId) ==
  LET visits == Visits(d)
      after[n \in 0..Len(visits)] ==
        IF n = 0 THEN [db |-> d, found |-> FALSE]
        ELSE IF after[n - 1].found \/ IsHalted(after[n - 1].db) THEN after[n - 1]
        ELSE LET t      == visits[n][1]
                 filled == Filled(after[n - 1].db, t, visits[n][2])
             IN [db    |-> filled,
                 found |-> /\ ~IsHalted(filled)
                           /\ ~IsPassedOver(filled, t, refRecordId)
                           /\ BufferedRef(filled, t) = refRecordId]
  IN after[Len(visits)]

(* shiftRecordReferencesUp() and Down().                                   *)
Shifted(d, refRecordId, up) ==
  LET visits == Visits(d)
      after[n \in 0..Len(visits)] ==
        IF n = 0 THEN d
        ELSE IF IsHalted(after[n - 1]) THEN after[n - 1]
        ELSE LET t      == visits[n][1]
                 filled == Filled(after[n - 1], t, visits[n][2])
             IN IF IsHalted(filled) \/ IsPassedOver(filled, t, refRecordId) THEN filled
                ELSE IF up THEN ShiftReferenceUp(filled, t, refRecordId)
                ELSE ShiftReferenceDown(filled, t, refRecordId)
  IN after[Len(visits)]

-----------------------------------------------------------------------------
(***************************************************************************)
(* The calls.                                                              *)
(***************************************************************************)

(* BDB_getValue(), BDB_getRecord()                                         *)
GetValue(t, recordId) ==
  /\ IsOpen
  /\ db' = Filled(db, t, recordId)

(* BDB_setValue(): a reference beyond the last record is refused.          *)
SetValue(t, recordId, value) ==
  /\ IsOpen
  /\ LET filled == Filled(db, t, recordId) IN
       db' = IF IsHalted(filled) \/ value > MaxRef(filled) THEN filled
             ELSE [filled EXCEPT ![t] = Buffer!Modified(@, "ref", value)]

InsertAnyway(t, recordId) ==            \* mutant: capacity not tested
  /\ IsOpen
  /\ LET written == [db EXCEPT ![t] = Buffer!WriteRecordBufferIfDirty(@)] IN
       \E raw \in Buffer!RawRecords :
            LET inserted == [written EXCEPT ![t].stored = InsertAt(@, recordId + 2, raw)]
                shifted  == IF t = "to" THEN Shifted(inserted, recordId, TRUE) ELSE inserted
            IN db' = [shifted EXCEPT ![t] = Buffer!SetToDefault(@, recordId + 1)]

(* BDB_insertRecordAfter(): the references are shifted while the new       *)
(* record is still what its slot held before.                              *)
InsertRecordAfter(t, recordId) ==
  /\ IsOpen
  /\ LET written == [db EXCEPT ![t] = Buffer!WriteRecordBufferIfDirty(@)] IN
       IF IsHalted(written) \/ NumRecords(db, t) >= Capacity(t)
       THEN db' = written
       ELSE \E raw \in Buffer!RawRecords :
            LET inserted == [written EXCEPT ![t].stored = InsertAt(@, recordId + 2, raw)]
                shifted  == IF t = "to" THEN Shifted(inserted, recordId, TRUE) ELSE inserted
            IN db' = IF IsHalted(shifted) THEN shifted
                     ELSE [shifted EXCEPT ![t] = Buffer!SetToDefault(@, recordId + 1)]

DeleteUnchecked(t, recordId) ==         \* mutant: isRecordReferenced() not asked
  /\ IsOpen
  /\ NumRecords(db, t) > 1
  /\ LET deleted == [db EXCEPT ![t].stored = RemoveAt(@, recordId + 1)] IN
     db' = IF t = "to" THEN Shifted(deleted, recordId, FALSE) ELSE deleted

(* BDB_deleteRecord() with BDB_canRecordBeDeleted().                       *)
DeleteRecord(t, recordId) ==
  /\ IsOpen
  /\ IF NumRecords(db, t) <= 1 THEN UNCHANGED db
     ELSE LET search  == IF t = "to" THEN Search(db, recordId)
                         ELSE [db |-> db, found |-> FALSE]
              deleted == [search.db EXCEPT ![t].stored = RemoveAt(@, recordId + 1)]
          IN db' = IF search.found \/ IsHalted(search.db) THEN search.db
                   ELSE IF t = "to" THEN Shifted(deleted, recordId, FALSE)
                   ELSE deleted

SyncTable(t) ==
  /\ IsOpen
  /\ db' = [db EXCEPT ![t] = Buffer!StoreRecordBuffer(@)]

(* BDB_closeDataBase(), or a power cut or reset between two calls: the     *)
(* buffers are lost.                                                       *)
CloseDataBase ==
  /\ \A t \in TableIds : db[t].status \in {"open", "halted"}
  /\ db' = [t \in TableIds |-> [db[t] EXCEPT !.status = "closed",
                                             !.buffer = Buffer!NoBuffer]]

OpenDataBase ==
  /\ \A t \in TableIds : db[t].status = "closed"
  /\ db' = [t \in TableIds |-> [db[t] EXCEPT !.status = "open"]]

-----------------------------------------------------------------------------
(* What the caller reads.                                                  *)
ViewOf(d, t) ==
  [n \in 1..NumRecords(d, t) |->
     BufferedRef(Filled(d, t, n - 1), t)]

IsSynced ==
  \A t \in TableIds : ViewOf(db, t) = [n \in 1..NumRecords(db, t) |->
                                         db[t].stored[n]["ref"]]

IsReferencedByOther(recordId) ==
  \E r \in RecordIds("to") : r # recordId /\ ViewOf(db, "to")[r + 1] = recordId

(***************************************************************************)
(* The caller of RecordBuffer that knows of the buffer, which of "to" may  *)
(* delete any record: looking for references has emptied the buffer.  It   *)
(* does not delete a record that another one of its own table names, and   *)
(* syncs the tables before the power may fail.                             *)
(***************************************************************************)
NextCareful ==
  \/ IsSynced /\ CloseDataBase
  \/ OpenDataBase
  \/ \E t \in TableIds :
       \/ db[t].buffer.recordId # Buffer!NO_RECORD_ID /\ SyncTable(t)
       \/ \E recordId \in RecordIds(t) :
            \/ GetValue(t, recordId)
            \/ \E value \in 0..(MaxTo - 1) : SetValue(t, recordId, value)
            \/ /\ db[t].buffer.isModified => db[t].buffer.recordId <= recordId + 1
               /\ InsertRecordAfter(t, recordId)
  \/ \E recordId \in RecordIds("from") :
       /\ \/ db["from"].buffer.recordId < recordId
          \/ db["from"].buffer.recordId = Buffer!NO_RECORD_ID
       /\ DeleteRecord("from", recordId)
  \/ \E recordId \in RecordIds("to") :
       ~IsReferencedByOther(recordId) /\ DeleteRecord("to", recordId)

SpecCareful == Init /\ [][NextCareful]_db

(* A caller that leaves it to BDB_deleteRecord() to refuse.                *)
Next == NextCareful \/ \E recordId \in RecordIds("to") : DeleteRecord("to", recordId)

Spec == Init /\ [][Next]_db

-----------------------------------------------------------------------------
(***************************************************************************)
(* Properties.                                                             *)
(***************************************************************************)

(* No assert of the record store fails.                                    *)
NeverHalted == ~IsHalted(db)

(* Every reference, in the buffer or stored, names a record that exists.   *)
ReferencesExist ==
  IsOpen => \A t \in TableIds : \A n \in 1..NumRecords(db, t) :
              ViewOf(db, t)[n] < NumRecords(db, "to")

(* The position of a record of "to" once one has been inserted behind      *)
(* recordId, or recordId has been deleted.                                 *)
MovedUp(position, recordId)   == IF position > recordId THEN position + 1 ELSE position
MovedDown(position, recordId) == IF position > recordId THEN position - 1 ELSE position

(* When "to" grows or shrinks, it is by the insertion or deletion of one   *)
(* record, after which every reference names the record that it named      *)
(* before, in whatever buffer it was, and the other records of "to" are    *)
(* those that they were; a new one refers to the first record.             *)
ReferencesFollow ==
  [][LET from == ViewOf(db, "from")
         to   == ViewOf(db, "to")
     IN /\ NumRecords(db', "to") = Len(to) + 1 =>
             \E recordId \in RecordIds("to") :
               /\ ViewOf(db', "from") = [n \in DOMAIN from |-> MovedUp(from[n], recordId)]
               /\ ViewOf(db', "to") =
                    InsertAt([n \in DOMAIN to |-> MovedUp(to[n], recordId)],
                             recordId + 2, 0)
               /\ InsertRecordAfter("to", recordId)
        /\ NumRecords(db', "to") = Len(to) - 1 =>
             \E recordId \in RecordIds("to") :
               /\ ViewOf(db', "from") = [n \in DOMAIN from |-> MovedDown(from[n], recordId)]
               /\ ViewOf(db', "to") =
                    RemoveAt([n \in DOMAIN to |-> MovedDown(to[n], recordId)],
                             recordId + 1)
               /\ DeleteRecord("to", recordId)]_db

(* BitsOfData.h:97: "Returns false if the record is referenced by any      *)
(* other record": BDB_deleteRecord() leaves such a record alone.           *)
ReferencedRecordsStay ==
  [][\A recordId \in RecordIds("to") :
       IsReferencedByOther(recordId) /\ DeleteRecord("to", recordId) =>
         NumRecords(db', "to") = NumRecords(db, "to")]_db
=============================================================================
