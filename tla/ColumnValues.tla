----------------------------- MODULE ColumnValues -----------------------------
(***************************************************************************)
(* What src/BitsOfData.c lets a caller do to the columns of a record:      *)
(* columns with steps, 16-bit arithmetic, tables with several record       *)
(* types, and the packed record behind it all.  The record is record 0 of  *)
(* a table; what else RecordBuffer does is an action here, AccessOther.    *)
(***************************************************************************)
EXTENDS RecordCodec

CONSTANTS
  Tables,           \* table definitions
  Samples(_),       \* arguments of BDB_setValue() for a column
  Data(_),          \* arguments of BDB_setRecord() for a table
  Deltas(_)         \* arguments of BDB_changeValue() for a column

(* What assertDbaseDefIsValid() demands of a schema, which counts record   *)
(* and column definitions in uint8_t, and what the calls take: uint16_t    *)
(* values and int16_t changes.  A record type that is no column of the     *)
(* schema is followed out of bounds.                                       *)
ASSUME ColumnValuesAssumption ==
  \A table \in Tables :
    /\ Len(table) \in 1..255 /\ DOMAIN table = 1..Len(table)
    /\ \A d \in DOMAIN table :
         /\ Len(table[d]) \in 1..255 /\ DOMAIN table[d] = 1..Len(table[d])
         /\ \A i \in DOMAIN table[d] :
              LET column == table[d][i] IN
              /\ column.min \in 0..column.max /\ column.max \in 0..(W - 1)
              /\ column.min < column.max \/ column.virtual
              /\ column.step \in 1..127
              /\ (column.max - column.min) % column.step = 0
              /\ column.default \in column.min..column.max
              /\ (column.default - column.min) % column.step = 0
              /\ column.virtual \in BOOLEAN
              /\ Samples(column) \subseteq 0..(W - 1)
              /\ Deltas(column) \subseteq -(W \div 2)..(W \div 2 - 1)
    /\ Len(table) > 1 =>
         \A d \in DOMAIN table : table[d][1] =
           [min |-> 0, max |-> Len(table) - 1, step |-> 1, default |-> 0, virtual |-> FALSE]
    /\ \A data \in Data(table) :
         /\ data \in Seq(0..(W - 1))
         /\ TypeOf(table, data) \in DOMAIN table /\ Len(data) = Len(table[TypeOf(table, data)])

VARIABLES
  tableDef,         \* the table
  buffer,           \* its record buffer; isRecord0 says recordId = 0
  rawRecord,        \* RawRecordBuffer, which other records leave bytes in
  stored            \* the record in the record store

vars == <<tableDef, buffer, rawRecord, stored>>

INVALID_VALUE == 65535
MaxNumColumns == Max({Len(tableDef[d]) : d \in DOMAIN tableDef})
NoRecord      == [columns |-> [i \in 1..MaxNumColumns |-> 0],
                  isRecord0 |-> FALSE, isModified |-> FALSE]
ZeroBytes     == [k \in 1..MaxRecordSize(tableDef) |-> 0]

RecordDef(columns) == tableDef[TypeOf(tableDef, columns)]
IsRecordType(i)    == i = 1 /\ Len(tableDef) > 1

-----------------------------------------------------------------------------
(* setColumnsToDefaultValue(), from a column on.                           *)
WithDefaults(columns, start) ==
  LET def == RecordDef(columns) IN
  [i \in DOMAIN columns |->
     IF i \notin DOMAIN def \/ i < start THEN columns[i]
     ELSE IF def[i].virtual THEN INVALID_VALUE ELSE def[i].default]

(* rc_decodeRecord() into the buffer, and fillRecordBuffer().              *)
DecodedOver(columns, raw) ==
  LET data == Decoded(tableDef, raw) IN
  [i \in DOMAIN columns |-> IF i \in DOMAIN data THEN data[i] ELSE columns[i]]

Filled ==
  IF buffer.isRecord0 THEN buffer
  ELSE [columns |-> DecodedOver(buffer.columns, stored),
        isRecord0 |-> TRUE, isModified |-> FALSE]

(* storeRecordBuffer() of some columns.                                    *)
Store(columns) ==
  /\ rawRecord' = EncodedOver(tableDef, columns, rawRecord)
  /\ stored' = rawRecord'

StoreNothing == UNCHANGED <<rawRecord, stored>>

WriteIfDirty == IF buffer.isModified THEN Store(buffer.columns) ELSE StoreNothing

Init ==
  /\ tableDef \in Tables
  /\ buffer = [columns |-> WithDefaults(NoRecord.columns, 1),
               isRecord0 |-> TRUE, isModified |-> FALSE]
  /\ rawRecord = EncodedOver(tableDef, buffer.columns, ZeroBytes)
  /\ stored = rawRecord

-----------------------------------------------------------------------------
(* validateDecimalValue() and validateIntStepValue().                      *)
IsStep(column, value) == (value - column.min) % column.step = 0

IsValid(column, value) ==
  value \in column.min..column.max /\ IsStep(column, value)

(* validateRecord()                                                        *)
ConformsInRange(columns) ==             \* mutant: the steps are not tested
  \A i \in DOMAIN RecordDef(columns) :
    LET column == RecordDef(columns)[i] IN
    column.virtual \/ columns[i] \in column.min..column.max

Conforms(columns) ==
  \A i \in DOMAIN RecordDef(columns) :
    LET column == RecordDef(columns)[i] IN column.virtual \/ IsValid(column, columns[i])

AssignUnmarked(b, i, value) ==             \* mutant: isModified only for a new type
  LET columns == [b.columns EXCEPT ![i] = value] IN
  IF IsRecordType(i)
  THEN /\ buffer' = [b EXCEPT !.columns = WithDefaults(columns, 2), !.isModified = TRUE]
       /\ Store(WithDefaults(columns, 2))
  ELSE /\ buffer' = [b EXCEPT !.columns = columns]
       /\ StoreNothing

(* setValue(): another record type sets the other columns to its defaults, *)
(* and is stored at once.  (A modified record is stored once more before,  *)
(* as a record of the new type, and overwritten.)                          *)
Assign(b, i, value) ==
  LET columns  == [b.columns EXCEPT ![i] = value]
      complete == IF IsRecordType(i) THEN WithDefaults(columns, 2) ELSE columns
  IN /\ buffer' = [b EXCEPT !.columns = complete, !.isModified = TRUE]
     /\ IF IsRecordType(i) THEN Store(complete) ELSE StoreNothing

LeaveAlone(b) == buffer' = b /\ StoreNothing

SetValue(b, i, value) ==
  LET column == RecordDef(b.columns)[i] IN
  /\ IF column.virtual \/ ~IsValid(column, value) THEN LeaveAlone(b) ELSE Assign(b, i, value)
  /\ UNCHANGED tableDef

(* BDB_changeValue() reckons in int16_t, mu_limitValue() included.         *)
AsInt16(n) == IF n % W < W \div 2 THEN n % W ELSE (n % W) - W

LimitValue(min, value, max) ==
  IF value >= max THEN max ELSE IF value <= min THEN min ELSE value

ChangedUnstepped(column, value, delta) ==   \* mutant: delta is not multiplied
  LimitValue(AsInt16(column.min), AsInt16(AsInt16(value) + delta), AsInt16(column.max))

Changed(column, value, delta) ==
  LimitValue(AsInt16(column.min), AsInt16(AsInt16(value) + AsInt16(delta * column.step)),
             AsInt16(column.max))

ChangeValue(b, i, delta) ==
  LET column   == RecordDef(b.columns)[i]
      value    == b.columns[i]
      newValue == Changed(column, value, delta)
  IN /\ IF column.virtual \/ newValue = AsInt16(value) THEN LeaveAlone(b)
        ELSE Assign(b, i, newValue % W)
     /\ UNCHANGED tableDef

(* BDB_setRecord(): the buffer takes the data before it is validated;      *)
(* virtual columns keep what they had.                                     *)
SetRecord(data) ==
  LET columns == [i \in 1..MaxNumColumns |->
                    IF i \notin DOMAIN data \/ RecordDef(data)[i].virtual
                    THEN buffer.columns[i] ELSE data[i]]
      valid   == Conforms(data)
  IN /\ WriteIfDirty
     /\ buffer' = [columns |-> columns, isRecord0 |-> valid, isModified |-> valid]
     /\ UNCHANGED tableDef

SyncTable ==
  /\ buffer.isRecord0
  /\ Store(buffer.columns)
  /\ UNCHANGED <<tableDef, buffer>>

(* Another record of the table is used, which writes a modified one; its   *)
(* columns, which are then in the buffer, are of no account.               *)
AccessOther ==
  /\ buffer.isRecord0
  /\ WriteIfDirty
  /\ buffer' = NoRecord
  /\ UNCHANGED tableDef

(* A record of another table is stored by way of the one RawRecordBuffer.  *)
StoreOther(byte) ==
  /\ rawRecord' = [k \in DOMAIN rawRecord |-> byte]
  /\ UNCHANGED <<tableDef, buffer, stored>>

(* A power cut or reset, and opening again.                                *)
Restart ==
  /\ buffer' = NoRecord
  /\ rawRecord' = ZeroBytes
  /\ UNCHANGED <<tableDef, stored>>

-----------------------------------------------------------------------------
Columns(b) == DOMAIN RecordDef(b.columns)

(* A change whose numbers fit in int16_t.                                  *)
Int16 == -(W \div 2)..(W \div 2 - 1)
FitsInt16(b, i, delta) ==
  LET column == RecordDef(b.columns)[i] IN
  /\ column.max \in Int16
  /\ delta * column.step \in Int16
  /\ b.columns[i] + delta * column.step \in Int16

OtherCalls ==
  \/ SyncTable \/ AccessOther \/ Restart \/ StoreOther(255)
  \/ \E data \in Data(tableDef) : SetRecord(data)
  \/ LET b == Filled IN
     \E i \in Columns(b) : \E value \in Samples(RecordDef(b.columns)[i]) : SetValue(b, i, value)

(* A caller that keeps the changes within int16_t.                         *)
NextInt16 ==
  \/ OtherCalls
  \/ LET b == Filled IN
     \E i \in Columns(b) : \E delta \in Deltas(RecordDef(b.columns)[i]) :
       (RecordDef(b.columns)[i].virtual \/ FitsInt16(b, i, delta)) /\ ChangeValue(b, i, delta)

SpecInt16 == Init /\ [][NextInt16]_vars

Next ==
  \/ OtherCalls
  \/ LET b == Filled IN
     \E i \in Columns(b) : \E delta \in Deltas(RecordDef(b.columns)[i]) : ChangeValue(b, i, delta)

Spec == Init /\ [][Next]_vars

-----------------------------------------------------------------------------
(***************************************************************************)
(* Properties.                                                             *)
(***************************************************************************)
IsReal(def, i) == i \in DOMAIN def /\ ~def[i].virtual
SameReal(columns, others) ==
  /\ TypeOf(tableDef, columns) = TypeOf(tableDef, others)
  /\ \A i \in DOMAIN RecordDef(columns) :
       IsReal(RecordDef(columns), i) => columns[i] = others[i]

(* BitsOfData.h:160-175: whatever calls are made with whatever values, the *)
(* record in the buffer and the record in the store conform to the schema: *)
(* to the columns of their own record type, with their steps.              *)
ConformingRecord(columns) ==
  \A i \in DOMAIN RecordDef(columns) :
    LET column == RecordDef(columns)[i]
        steps  == (columns[i] - column.min) \div column.step
    IN ~column.virtual =>
         /\ columns[i] = column.min + steps * column.step
         /\ columns[i] \in column.min..column.max

RecordConforms ==
  /\ TypeOf(tableDef, buffer.columns) \in DOMAIN tableDef
  /\ buffer.isRecord0 => ConformingRecord(buffer.columns)
  /\ ConformingRecord(Decoded(tableDef, stored))

(* Pushing the columns through the bit buffer packs them as the definition *)
(* of the packed record says; whatever other records have left in the raw  *)
(* buffer, the record comes back from it, and so does its type.            *)
RoundTrip ==
  buffer.isRecord0 =>
    /\ Encoded(tableDef, buffer.columns) = Packed(tableDef, buffer.columns)
    /\ SameReal(buffer.columns,
                Decoded(tableDef, EncodedOver(tableDef, buffer.columns, rawRecord)))

(* A record that is not marked as modified is in the store as it is in the *)
(* buffer, so that no accepted value is lost when another record is used.  *)
CleanIsStored ==
  buffer.isRecord0 /\ ~buffer.isModified =>
    SameReal(buffer.columns, Decoded(tableDef, stored))

(* BitsOfData.h:191: a change that would exceed the limits of the schema   *)
(* is truncated to the limit; any other moves the value by delta steps.    *)
Truncated(column, value) ==
  IF value > column.max THEN column.max
  ELSE IF value < column.min THEN column.min ELSE value

ChangeTruncates(b, i, delta) ==
  LET column == RecordDef(b.columns)[i] IN
  ChangeValue(b, i, delta) /\ ~column.virtual =>
    buffer'.columns[i] = Truncated(column, b.columns[i] + delta * column.step)

(* It does for numbers that fit in int16_t, and changes no other column,   *)
(* but for a new record type.                                              *)
ChangesTruncate ==
  [][LET b == Filled IN
     \A i \in Columns(b) : \A delta \in Deltas(RecordDef(b.columns)[i]) :
       FitsInt16(b, i, delta) =>
         /\ ChangeTruncates(b, i, delta)
         /\ ChangeValue(b, i, delta) /\ ~IsRecordType(i) =>
              \A j \in DOMAIN buffer.columns \ {i} :
                buffer'.columns[j] = b.columns[j]]_vars

(* BitsOfData.h:191: "If the change would exceed schema limits, it is      *)
(* truncated ot the limit": for every column and every delta.              *)
EveryChangeTruncates ==
  [][LET b == Filled IN
     \A i \in Columns(b) : \A delta \in Deltas(RecordDef(b.columns)[i]) : ChangeTruncates(b, i, delta)]_vars
=============================================================================
