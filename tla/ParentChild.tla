----------------------------- MODULE ParentChild ------------------------------
(***************************************************************************)
(* The parent table of src/BitsOfData.c: each of its records names, in a   *)
(* column that the library sets by itself, the table of its children, and  *)
(* ParentRecordList leads back from a child table to the record.  The list *)
(* is in RAM; it is derived from the records, through the record buffer,   *)
(* whenever records appear or disappear and when the database is opened.   *)
(*                                                                         *)
(* The records have the one column; no other table refers to them.         *)
(***************************************************************************)
EXTENDS Integers, Sequences, SequencesExt, FiniteSetsExt

CONSTANTS
  MinChild, MaxChild,   \* minValue and maxValue of the column: table ids
  NumBits,              \* bits it takes in a raw record
  ImportData            \* sequences of table ids given to BDB_importTable()

ChildTables   == MinChild..MaxChild
MaxNumRecords == MaxChild - MinChild + 1     \* assertChildTableColumnIsValid()

ASSUME ParentChildAssumption ==
  /\ MinChild \in Nat /\ MaxChild \in (MinChild + 1)..250
  /\ NumBits \in Nat
  /\ 2 ^ NumBits \in MaxNumRecords..256               \* getNumBitsOfColumn()
  /\ \A children \in ImportData :
       children \in Seq(ChildTables) /\ Len(children) \in 1..MaxNumRecords

VARIABLES
  stored, buffer, status,   \* the table, as in RecordBuffer
  parentRecordList          \* RAM: ParentRecordList

vars == <<stored, buffer, status, parentRecordList>>

Record(child)     == [c \in {"child"} |-> child]
Records(children) == [n \in DOMAIN children |-> Record(children[n])]

(* The steps of RecordBuffer on records with one child column.             *)
Buffer == INSTANCE RecordBuffer WITH
            Columns <- {"child"}, MinValue <- MinChild, MaxValue <- MaxChild,
            DefaultVal <- MinChild, Deltas <- {},
            ImportData <- {Records(children) : children \in ImportData}

NO_RECORD_ID == Buffer!NO_RECORD_ID
ListIndexes  == 0..(MaxNumRecords - 1)
NoParents    == [i \in ListIndexes |-> NO_RECORD_ID]

TypeOK ==
  /\ Buffer!TypeOK
  /\ parentRecordList \in [ListIndexes -> 0..(MaxNumRecords - 1) \union {NO_RECORD_ID}]

(* rs_commitTables() has returned, allocateParentRecordList() before it.   *)
Init ==
  /\ Buffer!Init
  /\ parentRecordList = NoParents

-----------------------------------------------------------------------------
(***************************************************************************)
(* The steps that calls are made of, from a table to a table.              *)
(***************************************************************************)
Now == [stored |-> stored, buffer |-> buffer, status |-> status, list |-> parentRecordList]

Becomes(table) ==
  /\ stored' = table.stored
  /\ buffer' = table.buffer
  /\ status' = table.status
  /\ parentRecordList' = table.list

ChildInBuffer(table) == table.buffer.columns["child"]

(* A child table out of range would be written outside of the list, which  *)
(* the model does not follow any further than a failed assert.             *)
Listed(table, recordId) ==
  LET filled == Buffer!FillRecordBuffer(table, recordId)
      i      == (ChildInBuffer(filled) - MinChild) % 256
  IN IF filled.status = "halted" THEN filled
     ELSE IF i \notin ListIndexes THEN Buffer!Halted(filled)
     ELSE [filled EXCEPT !.list[i] = recordId]

BuiltUncleared(table) ==                \* mutant: old entries stay
  LET after[n \in 0..Len(table.stored)] ==
        IF n = 0 THEN Buffer!FillRecordBuffer(table, 0) ELSE Listed(after[n - 1], n - 1)
  IN after[Len(table.stored)]

BuiltPastEnd(table) ==                  \* mutant: recId <= numRecords
  LET after[n \in 0..(Len(table.stored) + 1)] ==
        IF n = 0 THEN [Buffer!FillRecordBuffer(table, 0) EXCEPT !.list = NoParents]
        ELSE IF after[n - 1].status = "halted" THEN after[n - 1]
        ELSE Listed(after[n - 1], n - 1)
  IN after[Len(table.stored) + 1]

(* buildParentRecordList(): looking up the column's definition brings the  *)
(* first record into the buffer, and the loop the others, up to the last.  *)
Built(table) ==
  LET first == Buffer!FillRecordBuffer(table, 0)
      after[n \in 0..Len(table.stored)] ==
        IF n = 0 THEN [first EXCEPT !.list = NoParents]
        ELSE IF after[n - 1].status = "halted" THEN after[n - 1]
        ELSE Listed(after[n - 1], n - 1)
  IN IF first.status = "halted" THEN first ELSE after[Len(table.stored)]

DefaultOfFirst(table, recordId) == Buffer!SetToDefault(table, recordId)   \* mutant

(* setColumnsToDefaultValue(): the child table is the record's position.   *)
WithDefaultChild(table, recordId) ==
  LET written == Buffer!WriteRecordBufferIfDirty(table) IN
  IF written.status = "halted" THEN written
  ELSE Buffer!StoreRecordBuffer(
         [written EXCEPT !.buffer.recordId = recordId,
                         !.buffer.columns  = Record(MinChild + recordId)])

SetToDefault(table, recordId) ==
  LET set == WithDefaultChild(table, recordId) IN
  IF set.status = "halted" THEN set ELSE Built(set)

-----------------------------------------------------------------------------
(* createFirstRecordInEveryTable()                                         *)
CreateFirstRecord ==
  /\ status = "creating"
  /\ \E raw \in Buffer!RawRecords :
       Becomes(SetToDefault([Now EXCEPT !.stored = <<raw>>, !.status = "open"], 0))

(* BDB_getRecord(), BDB_getValue(), BDB_getChildTable()                    *)
GetChildTable(recordId) ==
  /\ status = "open"
  /\ Becomes(Buffer!FillRecordBuffer(Now, recordId))

(* BDB_getParentRecord(): the column's definition is looked up by way of   *)
(* the first record; it returns ParentOf(child).                           *)
GetParentRecord(child) ==
  /\ status = "open"
  /\ Becomes(Buffer!FillRecordBuffer(Now, 0))

ParentOf(child) == parentRecordList[(child - MinChild) % 256]

(* BDB_setRecord(): the list is left as it is.                             *)
SetRecord(recordId, child) ==
  /\ status = "open"
  /\ Becomes(Buffer!SetRecordIn(Now, recordId, Record(child)))

InsertAnyway(recordId) ==               \* mutant: capacity not tested
  /\ status = "open"
  /\ LET written == Buffer!WriteRecordBufferIfDirty(Now) IN
       \E raw \in Buffer!RawRecords :
         Becomes(SetToDefault([written EXCEPT !.stored = InsertAt(@, recordId + 2, raw)],
                              recordId + 1))

InsertRecordAfter(recordId) ==
  /\ status = "open"
  /\ LET written == Buffer!WriteRecordBufferIfDirty(Now) IN
       IF written.status = "halted" \/ Len(stored) >= MaxNumRecords
       THEN Becomes(written)
       ELSE \E raw \in Buffer!RawRecords :
              Becomes(SetToDefault(
                [written EXCEPT !.stored = InsertAt(@, recordId + 2, raw)],
                recordId + 1))

DeleteRecord(recordId) ==
  /\ status = "open"
  /\ Becomes(IF Len(stored) > 1
             THEN Built([Now EXCEPT !.stored = RemoveAt(@, recordId + 1)]) ELSE Now)

(* BDB_syncTable()                                                         *)
SyncTable ==
  /\ status = "open"
  /\ Becomes(Buffer!StoreRecordBuffer(Now))

(* BDB_importTable() of data that is valid.                                *)
ImportTable(children) ==
  /\ status = "open"
  /\ \E raw \in Buffer!RawRecords :
       LET data     == Records(children)
           imported == Buffer!SetRecordIn(Buffer!Imported(data, Len(data), raw), 0, data[1])
       IN Becomes(Built([Now EXCEPT !.stored = imported.stored,
                                    !.buffer = imported.buffer,
                                    !.status = imported.status]))

(* BDB_closeDataBase(), or a power cut or reset between two calls: the     *)
(* list is lost too.                                                       *)
CloseDataBase ==
  /\ Buffer!CloseDataBase
  /\ parentRecordList' = NoParents

-----------------------------------------------------------------------------
(***************************************************************************)
(* Power cuts within a call.  A call is a sequence of calls of the record  *)
(* store; the power fails between two of these (PowerLoss is about cuts    *)
(* within one), and what the call still had to write is never written.     *)
(* BDB_setRecord(), BDB_getValue() and BDB_syncTable() write once at most, *)
(* so that for them a cut between two calls is all there is.               *)
(***************************************************************************)
PowerFails(kept) ==
  /\ stored' = kept
  /\ buffer' = Buffer!NoBuffer
  /\ status' = "closed"
  /\ parentRecordList' = NoParents

(* Before rs_appendRecord(), or between it and storeRecordBuffer().        *)
CutDuringCreation ==
  /\ status = "creating"
  /\ \/ PowerFails(stored)
     \/ \E raw \in Buffer!RawRecords : PowerFails(<<raw>>)

(* Between rs_insertRecordAfter() and storeRecordBuffer(): the new record  *)
(* is what its slot held, or what a dirty buffer of the record that had    *)
(* its number was written to it.                                           *)
CutDuringInsertion(recordId) ==
  /\ status = "open"
  /\ Len(stored) < MaxNumRecords
  /\ LET written == Buffer!WriteRecordBufferIfDirty(Now) IN
       /\ written.status # "halted"
       /\ \E raw \in Buffer!RawRecords :
            PowerFails(InsertAt(written.stored, recordId + 2, raw))

(* After rs_deleteRecord(), before a dirty buffer is written.              *)
CutDuringDeletion(recordId) ==
  /\ status = "open"
  /\ Len(stored) > 1
  /\ PowerFails(RemoveAt(stored, recordId + 1))

(* After n turns of the loop, or after the next rs_appendRecord(): of the  *)
(* records appended the last or the last two are not written.              *)
CutDuringImport(children) ==
  /\ status = "open"
  /\ \E n \in 0..Len(children), raw \in Buffer!RawRecords :
       LET kept == Buffer!Imported(Records(children), n, raw).stored IN
       \/ PowerFails(kept)
       \/ /\ n < Len(children)
          /\ \E next \in Buffer!RawRecords : PowerFails(Append(kept, next))

(* BDB_openDataBase() of an existing database.                             *)
OpenDataBase ==
  /\ status = "closed"
  /\ Becomes(Built([Now EXCEPT !.status = "open"]))

-----------------------------------------------------------------------------
RecordIds == 0..(Len(stored) - 1)

ChildrenOf(table) ==
  [n \in 1..Len(table.stored) |->
     ChildInBuffer(Buffer!FillRecordBuffer(table, n - 1))]

Children == ChildrenOf(Now)

(***************************************************************************)
(* A caller that writes a record with the child table it has, and inserts  *)
(* and deletes only while no modified record lies behind the place; before *)
(* it deletes record 0 it uses another one.  The power may fail between    *)
(* two calls and within each.                                              *)
(***************************************************************************)
Next ==
  \/ CreateFirstRecord
  \/ CutDuringCreation
  \/ CloseDataBase
  \/ OpenDataBase
  \/ buffer.recordId # NO_RECORD_ID /\ SyncTable
  \/ \E child \in ChildTables : GetParentRecord(child)
  \/ \E children \in ImportData : ImportTable(children) \/ CutDuringImport(children)
  \/ \E recordId \in RecordIds :
       \/ GetChildTable(recordId)
       \/ SetRecord(recordId, Children[recordId + 1])
       \/ /\ buffer.isModified => buffer.recordId <= recordId + 1
          /\ InsertRecordAfter(recordId) \/ CutDuringInsertion(recordId)
       \/ /\ \/ ~buffer.isModified /\ buffer.recordId # 0
             \/ buffer.recordId < recordId
          /\ DeleteRecord(recordId) \/ CutDuringDeletion(recordId)

Spec == Init /\ [][Next]_vars

-----------------------------------------------------------------------------
(***************************************************************************)
(* Properties.                                                             *)
(***************************************************************************)

(* BitsOfData.h:242, "Returns the record id of the parent of tableId": *)
(* as the records are when it is asked, in the buffer or in the EEPROM, a  *)
(* child table leads to the last record that names it, and a table that no *)
(* record names leads to none.                                             *)
ParentsUpToDate ==
  status = "open" =>
    \A child \in ChildTables :
      LET parents == {r \in RecordIds : Children[r + 1] = child}
      IN ParentOf(child) = IF parents = {} THEN NO_RECORD_ID ELSE Max(parents)

(* What a call that is cut leaves of the child tables it was to leave.     *)
IsTornInsertion(left, children, place) ==
  /\ Len(left) = Len(children) + 1
  /\ left = InsertAt(children, place, left[place])

IsTornImport(left, children) ==
  /\ Len(left) <= Len(children)
  /\ \A n \in 1..(Len(left) - 2) : left[n] = children[n]

(* Records keep their child tables when others are inserted in front of    *)
(* them or deleted, when the database is opened again, and when the power  *)
(* fails within a call or after it.  Their list changes by whole calls, or *)
(* by a call that is cut: then there is one record more, of any content,   *)
(* in the place of the insertion, or a part of the imported records, whose *)
(* last two may not be written.                                            *)
ChildTablesFollow ==
  [][{status, status'} \subseteq {"open", "closed"} =>
       LET left == ChildrenOf(Now') IN
       \/ \E children \in ImportData :
            IsTornImport(left, children) /\ CutDuringImport(children)
       \/ \E r \in RecordIds :
            IsTornInsertion(left, Children, r + 2) /\ CutDuringInsertion(r)
       \/ left = Children
       \/ \E r \in RecordIds :
            \/ left = InsertAt(Children, r + 2, MinChild + r + 1)
            \/ left = RemoveAt(Children, r + 1)
       \/ \E children \in ImportData : left = children]_vars

OutOfRange ==
  {r \in RecordIds : Buffer!Decoded(stored[r + 1])["child"] \notin ChildTables}

(* On an open database no assert fails and nothing is written outside of   *)
(* ParentRecordList (BitsOfData.c:281), whatever came before.  An opening  *)
(* fails so only where a cut left the table without its "mandatory 1st     *)
(* record" (BitsOfData.c:330), or with a record, or two that an import     *)
(* appended, that it had listed and not written; and such a table cannot   *)
(* be opened, now or later.                                                *)
HaltsOnlyTorn ==
  /\ status = "open" => stored # <<>> /\ OutOfRange = {}
  /\ status = "halted" =>
       stored = <<>> \/ \E r, q \in RecordIds : OutOfRange = {r, q}
=============================================================================
