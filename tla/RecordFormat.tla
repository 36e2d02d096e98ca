----------------------------- MODULE RecordFormat -----------------------------
(***************************************************************************)
(* The text output of src/BitsOfData.c: writeValue(), which writes a       *)
(* column as its type says, and BDB_writeRecordWithFormat(), which         *)
(* interprets a format string as it reads it.  One action per state of its *)
(* switch; its asserts are in FormatError.                                 *)
(*                                                                         *)
(* The database is what the caller sees of it: reading it moves the record *)
(* buffers of RecordBuffer, and changes no value.                          *)
(***************************************************************************)
EXTENDS FormatText, WriteColumns, SchemaValidation

CONSTANT MaxHops        \* columns that refer to columns, one behind the other

VARIABLES
  db,           \* [types, max, records, parentTable, parents], by table
  place,        \* [table, record]: the arguments tableId and recordId
  writer,       \* the string buffer
  interp        \* the local variables of BDB_writeRecordWithFormat()

INVALID_VALUE == 65535

-----------------------------------------------------------------------------
(***************************************************************************)
(* Columns.  A cell is [table, record, column].                            *)
(***************************************************************************)
GetNumRecords(t) == Len(db.records[t])
Exists(cell)  == cell.table \in DOMAIN db.records /\ cell.record < GetNumRecords(cell.table)

(* RecordBuffers[table].columns, once the record has been used.            *)
Columns(cell) == db.records[cell.table][cell.record + 1]
IsRecordTypeVariable(t) == Len(db.types[t]) > 1

(* getRecordDefFromBuffer(), getColumnDef()                                *)
RecordDef(cell) ==
  db.types[cell.table][IF IsRecordTypeVariable(cell.table) THEN Columns(cell)[1] + 1 ELSE 1]
ColumnDef(cell) == RecordDef(cell)[cell.column + 1]

Beside(cell, column) == [cell EXCEPT !.column = column]
IsRecordTypeColumn(t, column) == column = 0 /\ IsRecordTypeVariable(t)

(* resolveVirtualColumn(), and the record and column of a reference.       *)
Resolved(cell) ==
  LET def    == ColumnDef(cell)
      refCol == IF def.type = "VIRTUAL" THEN def.refCol ELSE cell.column
      ref    == ColumnDef(Beside(cell, refCol))
  IN [table  |-> ref.table, record |-> Columns(cell)[refCol + 1],
      column |-> IF def.type = "VIRTUAL" THEN def.valueCol ELSE ref.column]

(* BDB_getValue()                                                          *)
GetValue(cell) ==
  LET target == IF ColumnDef(cell).type = "VIRTUAL" THEN Resolved(cell) ELSE cell IN
  IF ColumnDef(target).type = "STRING" THEN INVALID_VALUE
  ELSE Columns(target)[target.column + 1]

(* The columns that writeValue() passes on to the column they refer to.    *)
IsPassedOn(cell) ==
  LET def == ColumnDef(cell) IN
  \/ def.type = "VIRTUAL"
  \/ /\ def.type = "REFERENCE" /\ def.table # BDB_SELF_REFERENCE
     /\ ~IsRecordTypeColumn(def.table, def.column)

(* The cell that is written for a cell in the end.                         *)
Target(cell) ==
  LET hop[n \in 0..MaxHops] ==
        IF n = 0 THEN cell
        ELSE IF Exists(hop[n - 1]) /\ IsPassedOn(hop[n - 1]) THEN Resolved(hop[n - 1])
        ELSE hop[n - 1]
  IN hop[MaxHops]

(* getColumnDefProps()                                                     *)
ColumnDefProps(cell) ==
  LET copy == ColumnDef(cell)
      ref  == ColumnDef(Beside(cell, copy.refCol))
  IN ColumnDef([table |-> ref.table, record |-> GetValue(Beside(cell, copy.refCol)),
                column |-> copy.columnId])

(* getMaxLengthFromTxtList(), of the first n texts.                        *)
MaxLength(list, n) == Max({0} \union {Len(list[k]) : k \in 1..n})

-----------------------------------------------------------------------------
NoProperties == [leading0 |-> FALSE, offset1 |-> FALSE, hex |-> FALSE]

Offset(properties) == IF properties.offset1 THEN 1 ELSE 0

DigitsOfDecimal(def) ==
  IF def.shift >= NumDigits(def.max) THEN def.shift + 2 ELSE NumDigits(def.max) + 1

(* The switch of writeValue(), for a cell that is not passed on.  The      *)
(* longest text of a list that is not the column's own is looked for       *)
(* without its last text.  100 * value is an int, of 32 bits where         *)
(* src/Makefile builds the library; where it has 16 it would wrap around.  *)
WriteCell(w, cell, properties) ==
  LET def     == ColumnDef(cell)
      value   == GetValue(cell)
      Number(v, maxValue) == WriteInteger(w, v % 65536, NumDigits(maxValue), properties.leading0)
      Txt(list, v, n)     == WriteTxt(w, list[v + 1], MaxLength(list, n % 256))
      Source  == Beside(cell, def.valueColumn)
      chars[n \in 0..def.length] ==
        IF n = 0 THEN w
        ELSE LET chr == Beside(cell, def.firstChar + n - 1)
             IN WriteChar(chars[n - 1], GetValue(chr), ColumnDef(chr).set)
  IN CASE def.type = "INTEGER" /\ properties.hex  -> WriteHex(w, value, def.max)
       [] def.type = "INTEGER" /\ ~properties.hex -> Number(value + Offset(properties), def.max)
       [] def.type = "PERCENTAGE" -> Number((100 * value) \div def.max, 999)
       [] def.type = "INT_STEP"   -> Number(value, def.max)
       [] def.type = "TXT_LIST"   -> Txt(def.list, value, def.max + 1)
       [] def.type = "TXT_LIST_CLONE" ->
            Txt(def.list, GetValue(Source), ColumnDef(Source).max)
       [] def.type = "TXT_LIST_COPY" ->
            LET props == ColumnDefProps(cell) IN Txt(props.list, value, props.max)
       [] def.type = "DECIMAL" ->
            WriteDecimal(w, value, DigitsOfDecimal(def), def.shift, properties.leading0)
       [] def.type = "CHAR" -> WriteChar(w, value, def.set)
       [] def.type = "CHILD_TABLE" ->
            WriteInteger(w, GetNumRecords(value), NumDigits(db.max[value]), FALSE)
       [] def.type = "REFERENCE" -> Number(value + Offset(properties), def.max + 1)
       [] def.type = "STRING" -> chars[def.length]
       [] OTHER -> [w EXCEPT !.halted = TRUE]       \* "Invalid column type"

(* writeValue(): an assert fails for a record that does not exist, and     *)
(* columns that refer to one another never come to an end.                 *)
WriteValue(w, cell, properties) ==
  LET target == Target(cell) IN
  IF Exists(target) /\ ~IsPassedOn(target) THEN WriteCell(w, target, properties)
  ELSE [w EXCEPT !.halted = TRUE]

WriteRecordId(w, t, recordId, properties) ==
  WriteInteger(w, (recordId + Offset(properties)) % 256, NumDigits(db.max[t]),
               properties.leading0)

WriteNumRecords(w, t, properties) ==
  WriteInteger(w, GetNumRecords(t), NumDigits(db.max[t]), properties.leading0)

(* BDB_writeValue()                                                        *)
WriteValueAt(w, cell, position) ==
  LET moved == SetCursorPosition(w, position) IN
  IF moved.halted THEN moved ELSE WriteValue(moved, cell, NoProperties)

-----------------------------------------------------------------------------
(***************************************************************************)
(* BDB_writeRecordWithFormat(); BDB_writeRecord() and BDB_writeHeader()    *)
(* take the format from the schema.                                        *)
(***************************************************************************)
Idle ==
  [state |-> "PLAIN_TEXT", i |-> 0, condition |-> FALSE, operator |-> NoOperator,
   number |-> 0, value |-> 0, properties |-> NoProperties]

Char         == At(interp.i)
Cell(column) == [table |-> place.table, record |-> place.record, column |-> column]
GoOn(state, n) == [interp EXCEPT !.state = state, !.i = @ + n]

(* What w has become, and the rest of the format after it.                 *)
Write(w) ==
  /\ writer' = w
  /\ interp' = IF w.halted THEN GoOn("HALTED", 0) ELSE GoOn("PLAIN_TEXT", 1)

Read(next) == interp' = next /\ UNCHANGED writer

ReadDigit ==
  /\ IsNumber(Char)
  /\ Read([GoOn(interp.state, 1) EXCEPT !.number = MoreDigits(@, Char) % 256])

SetOffset == Char = "+" /\ Read([GoOn(interp.state, 1) EXCEPT !.properties.offset1 = TRUE])

Evaluate(target) ==
  LET condition == EvalCondition(interp.value, interp.operator, target) IN
  /\ Char = "}"
  /\ Read([GoOn(IF condition THEN "PLAIN_TEXT" ELSE "SKIP_TO_ELSE", 1)
             EXCEPT !.condition = condition])

PlainTextChar ==
  /\ interp.state = "PLAIN_TEXT" /\ Char # End
  /\ IF Char = "{"
     THEN Read([GoOn("START_TAG", 1) EXCEPT !.number = 0, !.properties = NoProperties])
     ELSE Write(WriteTxt(writer, <<Char>>, 1))

StateOfTag == [chr \in {"&", ":", ";", "#", "*", "^"} |->
  CASE chr = "&" -> "COLUMN_ID_TAG" [] chr = ":" -> "ELSE_TAG"
    [] chr = ";" -> "ENDIF_TAG"     [] chr = "#" -> "RECORD_ID_TAG"
    [] chr = "^" -> "PARENT_TAG"    [] chr = "*" -> "NUM_RECORDS_TAG"]

FirstOfTag ==
  /\ interp.state = "START_TAG"
  /\ \/ Char \in DOMAIN StateOfTag /\ Read(GoOn(StateOfTag[Char], 1))
     \/ Char = "?" /\ At(interp.i + 1) = "&" /\ Read(GoOn("IF_TAG_COLUMN_ID", 2))
     \/ Char = "o" /\ Read([GoOn("START_TAG", 1) EXCEPT !.properties.leading0 = TRUE])
     \/ Char = "x" /\ Read([GoOn("START_TAG", 1) EXCEPT !.properties.hex = TRUE])

ColumnIdTag ==
  /\ interp.state = "COLUMN_ID_TAG"
  /\ \/ Char = "}" /\ Write(WriteValue(writer, Cell(interp.number), interp.properties))
     \/ SetOffset
     \/ ReadDigit

NumRecordsTag ==
  /\ interp.state = "NUM_RECORDS_TAG" /\ Char = "}"
  /\ Write(WriteNumRecords(writer, place.table, interp.properties))

RecordIdTag ==
  /\ interp.state = "RECORD_ID_TAG"
  /\ \/ Char = "}"
          /\ Write(WriteRecordId(writer, place.table, place.record, interp.properties))
     \/ SetOffset

(* The parent record of the table, by BDB_getParentRecord().               *)
WriteParent(w, column, properties) ==
  WriteValue(w, [table  |-> db.parentTable, record |-> db.parents[place.table],
                 column |-> column], properties)

ParentTag ==
  /\ interp.state = "PARENT_TAG"
  /\ \/ Char = "}" /\ Write(WriteParent(writer, interp.number, interp.properties))
     \/ ReadDigit

(* A lone "=" or "!" is no operator, and makes the condition false.        *)
IfTagColumnId ==
  /\ interp.state = "IF_TAG_COLUMN_ID"
  /\ \/ LET operator == OperatorAt(interp.i) IN
        /\ Char \in OperatorStart
        /\ Read([GoOn("IF_TAG_RIGHT_HAND_SIDE", IF Len(operator) = 2 THEN 2 ELSE 1) EXCEPT
                   !.operator = operator, !.value = GetValue(Cell(interp.number)),
                   !.number = 0])
     \/ ReadDigit

IfTagRhs ==
  /\ interp.state = "IF_TAG_RIGHT_HAND_SIDE"
  /\ \/ Char = "$" /\ Read(GoOn("IF_LITERAL_VALUE", 1))
     \/ Char = "#" /\ Read(GoOn("IF_RECORD_ID", 1))
     \/ Char = "&" /\ Read(GoOn("IF_OTHER_COLUMN", 1))

IfLiteral ==
  /\ interp.state = "IF_LITERAL_VALUE"
  /\ Evaluate(interp.number) \/ ReadDigit

IfRecordId ==
  /\ interp.state = "IF_RECORD_ID"
  /\ Evaluate((place.record + Offset(interp.properties)) % 256) \/ SetOffset

IfOtherColumn ==
  /\ interp.state = "IF_OTHER_COLUMN"
  /\ Evaluate(GetValue(Cell(interp.number))) \/ ReadDigit

MatchTag(chr) == Char = "{" /\ At(interp.i + 1) = chr /\ At(interp.i + 2) = "}"

(* The text in between is passed over, and so are the ends of conditions.  *)
SkipToElse ==
  /\ interp.state = "SKIP_TO_ELSE" /\ Char # End
  /\ Read(IF MatchTag(":") THEN GoOn("PLAIN_TEXT", 3) ELSE GoOn("SKIP_TO_ELSE", 1))

SkipToEndif ==
  /\ interp.state = "SKIP_TO_ENDIF" /\ Char # End
  /\ Read(IF MatchTag(";") THEN GoOn("PLAIN_TEXT", 3) ELSE GoOn("SKIP_TO_ENDIF", 1))

ElseTagAlways ==                    \* mutant: the condition is not looked at
  /\ interp.state \in {"ELSE_TAG", "ENDIF_TAG"} /\ Char = "}"
  /\ Read(GoOn("PLAIN_TEXT", 1))

ElseOrEndifTag ==
  /\ interp.state \in {"ELSE_TAG", "ENDIF_TAG"} /\ Char = "}"
  /\ Read(GoOn(IF interp.state = "ELSE_TAG" /\ interp.condition
               THEN "SKIP_TO_ENDIF" ELSE "PLAIN_TEXT", 1))

(* Spaces are written one by one up to the end of the buffer.              *)
Padded(w) == WriteTxt(w, <<>>, Size - w.cursor)

(* The end of the string, in whatever state.                               *)
Pad ==
  /\ interp.state \notin {"RETURNED", "HALTED"} /\ Char = End
  /\ writer' = Padded(writer)
  /\ interp' = GoOn("RETURNED", 0)

(* An assert fails.                                                        *)
FormatError ==
  /\ Char # End
  /\ \/ interp.state = "START_TAG"
          /\ Char \notin DOMAIN StateOfTag \union {"o", "x"}
          /\ ~(Char = "?" /\ At(interp.i + 1) = "&")
     \/ interp.state = "COLUMN_ID_TAG"     /\ Char \notin {"}", "+"} /\ ~IsNumber(Char)
     \/ interp.state \in {"PARENT_TAG", "IF_LITERAL_VALUE", "IF_OTHER_COLUMN"}
          /\ Char # "}" /\ ~IsNumber(Char)
     \/ interp.state = "RECORD_ID_TAG"     /\ Char \notin {"}", "+"}
     \/ interp.state = "IF_RECORD_ID"      /\ Char \notin {"}", "+"}
     \/ interp.state = "NUM_RECORDS_TAG"   /\ Char # "}"
     \/ interp.state = "IF_TAG_COLUMN_ID"  /\ Char \notin OperatorStart /\ ~IsNumber(Char)
     \/ interp.state = "IF_TAG_RIGHT_HAND_SIDE" /\ Char \notin {"$", "#", "&"}
     \/ interp.state \in {"ELSE_TAG", "ENDIF_TAG"} /\ Char # "}"
  /\ Read(GoOn("HALTED", 0))

FormatNext ==
  \/ PlainTextChar \/ FirstOfTag    \/ ColumnIdTag   \/ NumRecordsTag  \/ RecordIdTag
  \/ ParentTag     \/ IfTagColumnId \/ IfTagRhs      \/ IfLiteral      \/ IfRecordId
  \/ IfOtherColumn \/ SkipToElse    \/ SkipToEndif   \/ ElseOrEndifTag \/ Pad
  \/ FormatError
=============================================================================
