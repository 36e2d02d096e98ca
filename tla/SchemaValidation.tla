--------------------------- MODULE SchemaValidation ---------------------------
(***************************************************************************)
(* test/mocks/ValidateDbaseSchema.c: what a schema must be like, or an     *)
(* assert fails when a debug build opens the database.  A schema is        *)
(* [types, max, parents]: the record definitions of each table, its        *)
(* maxNumRecords, and a function on the tables that have a parent.         *)
(***************************************************************************)
EXTENDS Integers, Sequences

BDB_SELF_REFERENCE == 255

IsVirtual(column) == column.type \in {"STRING", "VIRTUAL", "TXT_LIST_CLONE"}

IntegerColumnIsValid(column) ==
  column.max > column.min /\ column.default \in column.min..column.max

(* Steps must not leave a remainder.                                       *)
StepColumnIsValid(column) ==
  /\ IntegerColumnIsValid(column)
  /\ (column.max - column.min) % column.step = 0
  /\ (column.default - column.min) % column.step = 0

DecimalColumnIsValid(column) ==
  StepColumnIsValid(column) /\ column.shift \in 1..5 /\ column.step \in {1, 2, 5}

StartsAtZero(column) == column.min = 0 /\ column.default = 0
HoldsNoData(column)  == StartsAtZero(column) /\ column.max = 0

CharColumnIsValid(column) ==
  StartsAtZero(column) /\ column.max > 0 /\ Len(column.set) = column.max + 1

TxtListColumnIsValid(column) ==
  column.min = 0 /\ column.max > 0 /\ column.default <= column.max

(* Variable records start with their type, and with nothing else.          *)
RecordTypeColumnIsValid(schema, t, i, column) ==
  /\ StartsAtZero(column) /\ i = 1
  /\ Len(schema.types[t]) > 1 /\ column.max = Len(schema.types[t]) - 1

(* One child table for each record, all of them with this parent.          *)
ChildTableColumnIsValid(schema, t, column) ==
  /\ Len(schema.types[t]) = 1
  /\ column.min < column.max /\ column.default = 0
  /\ schema.max[t] = column.max - column.min + 1
  /\ column.min..column.max \subseteq DOMAIN schema.parents

ReferenceColumnIsValid(schema, t, column) ==
  LET refTable == IF column.table = BDB_SELF_REFERENCE THEN t ELSE column.table IN
  /\ StartsAtZero(column) /\ column.max > 0
  /\ refTable \in DOMAIN schema.types
  /\ column.max = schema.max[refTable] - 1

(* The table that another column of the record refers to.  One that refers *)
(* to its own table would be looked up in table 0xFF.                      *)
RefersToTable(schema, record, refCol) ==
  record[refCol + 1].type = "REFERENCE" /\ record[refCol + 1].table \in DOMAIN schema.types

(* getHighestMaxValue(): a limit is compared as it is and kept in 8 bits.  *)
HighestMaxValue(records, columnId) ==
  LET upTo[d \in 0..Len(records)] ==
        IF d = 0 THEN 0
        ELSE LET max == records[d][columnId + 1].max
             IN IF max > upTo[d - 1] THEN max % 256 ELSE upTo[d - 1]
  IN upTo[Len(records)]

(* The column must be there in every record type of that table, and the    *)
(* limit is the highest of all.                                            *)
CopyColumnIsValid(schema, record, column) ==
  /\ StartsAtZero(column) /\ column.max > 0
  /\ RefersToTable(schema, record, column.refCol)
  /\ LET records == schema.types[record[column.refCol + 1].table] IN
     /\ \A d \in DOMAIN records : column.columnId < Len(records[d])
     /\ column.max = HighestMaxValue(records, column.columnId)

(* A virtual column does not lead to another one; for a table of several   *)
(* record types, only the first of them is looked at.                      *)
VirtualColumnIsValid(schema, record, column) ==
  /\ HoldsNoData(column)
  /\ RefersToTable(schema, record, column.refCol)
  /\ LET first == schema.types[record[column.refCol + 1].table][1]
     IN first[column.valueCol + 1].type # "VIRTUAL"

StringColumnIsValid(record, column) ==
  /\ HoldsNoData(column)
  /\ \A i \in (column.firstChar + 1)..(column.firstChar + column.length) :
       record[i].type = "CHAR"

ColumnIsValid(schema, t, record, i) ==
  LET column == record[i] IN
  CASE column.type \in {"INTEGER", "PERCENTAGE"} -> IntegerColumnIsValid(column)
    [] column.type = "INT_STEP"       -> StepColumnIsValid(column) /\ column.step > 1
    [] column.type = "DECIMAL"        -> DecimalColumnIsValid(column)
    [] column.type = "RECORD_TYPE"    -> RecordTypeColumnIsValid(schema, t, i, column)
    [] column.type = "CHILD_TABLE"    -> ChildTableColumnIsValid(schema, t, column)
    [] column.type = "REFERENCE"      -> ReferenceColumnIsValid(schema, t, column)
    [] column.type = "VIRTUAL"        -> VirtualColumnIsValid(schema, record, column)
    [] column.type = "TXT_LIST_COPY"  -> CopyColumnIsValid(schema, record, column)
    [] column.type = "CHAR"           -> CharColumnIsValid(column)
    [] column.type = "STRING"         -> StringColumnIsValid(record, column)
    [] column.type = "TXT_LIST"       -> TxtListColumnIsValid(column)
    [] column.type = "TXT_LIST_CLONE" -> TRUE
    [] OTHER -> FALSE                       \* "Invalid columnType"

(* assertDbaseDefIsValid(): virtual columns come behind the others.        *)
DbaseDefIsValid(schema) ==
  \A t \in DOMAIN schema.types : \A d \in DOMAIN schema.types[t] :
    LET record == schema.types[t][d] IN
    /\ Len(record) > 0
    /\ \A i \in DOMAIN record :
         /\ ColumnIsValid(schema, t, record, i)
         /\ \A j \in 1..(i - 1) : IsVirtual(record[j]) => IsVirtual(record[i])
=============================================================================
