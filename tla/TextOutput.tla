------------------------------ MODULE TextOutput ------------------------------
(***************************************************************************)
(* The two readers of a format string, and the text they stand for.        *)
(* tl_parseFormat() turns it into tokens, BDB_writeRecord() interprets it  *)
(* as it stands; TemplateLanguage.h:17 leaves the interpretation of the    *)
(* tokens to a later interpreter, so the two must agree on every format    *)
(* that both accept.  Then BDB_writeValue() writes one value over the      *)
(* text, as a program does that has a record edited.                       *)
(***************************************************************************)
EXTENDS TemplateLanguage, RecordFormat

CONSTANTS
  Formats,          \* format strings
  Database,         \* what the tables hold
  Places,           \* records to write
  Positions         \* where a value is written

(* A schema with which a debug build opens the database, and formats that  *)
(* an index of eight bits can be moved over: "formatString > 255           *)
(* characters" is an assert (TemplateLanguage.c:109).                      *)
ASSUME TextOutputAssumption ==
  /\ DbaseDefIsValid(Database)
  /\ \A f \in Formats : Len(f) \in 0..255

VARIABLE edit       \* the last call of BDB_writeValue(), and the text before it

vars == <<format, formatTokens, parser, db, place, writer, interp, edit>>

FillChar == "_"     \* what is in the buffer before; in no format
NoPlace  == [table |-> 255, record |-> 255]
NoEdit   == [position |-> Size, column |-> 0, before |-> <<>>]

Init ==
  /\ format \in Formats
  /\ ParserInit
  /\ db = Database
  /\ place = NoPlace
  /\ writer = Writer(FillChar)
  /\ interp = [Idle EXCEPT !.state = "NOT_CALLED"]
  /\ edit = NoEdit

(* A format that has been parsed is written; or one that never is.         *)
ParseFormat ==
  /\ interp.state = "NOT_CALLED"
  /\ ParserNext
  /\ UNCHANGED <<format, db, place, writer, interp, edit>>

(* BDB_writeRecord() and BDB_writeHeader(), up to the loop.                *)
WriteRecord ==
  /\ interp.state = "NOT_CALLED"
  /\ parser.i = 0 \/ parser.state = "RETURNED"
  /\ place' \in Places
  /\ writer' = SetCursorPosition(writer, 0)
  /\ interp' = Idle
  /\ UNCHANGED <<format, formatTokens, parser, db, edit>>

InterpretFormat ==
  /\ interp.state # "NOT_CALLED"
  /\ FormatNext
  /\ UNCHANGED <<format, formatTokens, parser, db, place, edit>>

(* BDB_writeValue()                                                        *)
EditValue ==
  /\ interp.state = "RETURNED" /\ edit = NoEdit
  /\ \E column \in DOMAIN RecordDef(Cell(0)), position \in Positions :
       /\ writer' = WriteValueAt(writer, Cell(column - 1), position)
       /\ edit' = [position |-> position, column |-> column - 1, before |-> writer.text]
  /\ UNCHANGED <<format, formatTokens, parser, db, place, interp>>

(* After a failed assert, or when nothing is left to do.                   *)
Stopped ==
  /\ parser.state = "HALTED" \/ interp.state = "HALTED" \/ edit # NoEdit
  /\ UNCHANGED vars

Next == ParseFormat \/ WriteRecord \/ InterpretFormat \/ EditValue \/ Stopped

Spec == Init /\ [][Next]_vars

-----------------------------------------------------------------------------
(***************************************************************************)
(* Properties.                                                             *)
(***************************************************************************)
Parsed == parser.state = "RETURNED"
Done   == interp.state = "RETURNED"

(* The variables have their types; the cursor stays in the buffer, and     *)
(* what was assigned behind it has stopped the program.                    *)
TypeOK ==
  /\ ParserTypeOK
  /\ place \in Places \union {NoPlace}
  /\ interp.i \in 0..Len(format) /\ interp.number \in 0..255
  /\ interp.value \in 0..INVALID_VALUE
  /\ writer.cursor \in 0..Size
  /\ writer.overrun => writer.halted
  /\ edit.position \in 0..Size

TokenNos == 0..(parser.tokenNo - 1)
Lhs      == {k \in TokenNos : formatTokens[k].type = "IF_LHS"}
Rhs      == {k \in TokenNos : formatTokens[k].type = "IF_RHS"}

(* TemplateLanguage.h:29-35: the first token of type TL_INVALID ends the   *)
(* list, a right hand side stands behind its left hand side, and the jump  *)
(* indices of a condition point forward, the else part not behind the end  *)
(* and no other condition in between.                                      *)
JumpsForward ==
  Parsed =>
    /\ parser.tokenNo < MaxNumTokens => formatTokens[parser.tokenNo].type = "INVALID"
    /\ \A k \in TokenNos : formatTokens[k].type # "INVALID"
    /\ \A k \in Rhs : k - 1 \in Lhs
    /\ \A k \in Lhs :
         /\ formatTokens[k].endIndex \in (k + 1)..parser.tokenNo
         /\ formatTokens[k].elseIndex \in {0} \union (k + 1)..formatTokens[k].endIndex
         /\ \A j \in Lhs : j > k => j >= formatTokens[k].endIndex

(***************************************************************************)
(* The format that tokens stand for, as it is usually written: tags are    *)
(* what stands before a token.  plus are the right hand sides with a "+".  *)
(***************************************************************************)
NumberChars(number) ==
  IntegerText(number, NumDigits(number), FALSE)

TagsBefore(k) ==
  LET ends  == {j \in Lhs : formatTokens[j].endIndex = k}
      elses == {j \in Lhs : formatTokens[j].elseIndex = k /\ k # 0}
  IN (IF elses = {} THEN <<>> ELSE <<"{", ":", "}">>)
       \o (IF ends = {} THEN <<>> ELSE <<"{", ";", "}">>)

OptionalChar(condition, chr) == IF condition THEN <<chr>> ELSE <<>>

ValueChars(token, hasPlus) ==
  CASE token.valueType = "COLUMN_ID" -> <<"&">> \o NumberChars(token.number)
                                          \o OptionalChar(hasPlus, "+")
    [] token.valueType = "RECORD_ID" -> <<"#">> \o OptionalChar(hasPlus, "+")
    [] token.valueType = "NUM_RECORDS"      -> <<"*">>
    [] token.valueType = "PARENT_COLUMN_ID" -> <<"^">> \o NumberChars(token.number)
    [] token.valueType = "LITERAL"          -> NumberChars(token.number)

TokenChars(k, plus) ==
  LET token == formatTokens[k]
      open  == <<"{">> \o OptionalChar(token.leading0, "o") \o OptionalChar(token.asHex, "x")
  IN CASE token.type = "TEXT"   -> SubSeq(format, token.start + 1, token.start + token.length)
       [] token.type = "VALUE"  -> open \o ValueChars(token, token.offset1) \o <<"}">>
       [] token.type = "IF_LHS" -> open \o <<"?">> \o ValueChars(token, FALSE)
                                     \o OptionalChar(k + 1 \notin Rhs, "}")
       [] token.type = "IF_RHS" -> token.ifOperator \o ValueChars(token, k \in plus) \o <<"}">>

FormatOf(plus) ==
  FlattenSeq([n \in 1..parser.tokenNo |-> TagsBefore(n - 1) \o TokenChars(n - 1, plus)])
    \o TagsBefore(parser.tokenNo)

(* The format can be told from its tokens: nothing of it is lost, and      *)
(* nothing but the offset of a right hand side is ever added, which may be *)
(* one of an earlier format.                                               *)
WithOffset == {k \in Rhs : formatTokens[k].offset1}

TokensSayFormat ==
  Parsed => \E plus \in SUBSET WithOffset : FormatOf(plus) = format

(***************************************************************************)
(* The text that tokens stand for, by the comments of TemplateLanguage.h   *)
(* and BitsOfDataTemplates.h.                                              *)
(***************************************************************************)
PropertiesOf(token) ==
  [leading0 |-> token.leading0, offset1 |-> token.offset1, hex |-> token.asHex]

RhsValue(token) ==
  CASE token.valueType = "LITERAL"   -> token.number
    [] token.valueType = "COLUMN_ID" -> GetValue(Cell(token.number))
    [] token.valueType = "RECORD_ID" -> place.record + (IF token.offset1 THEN 1 ELSE 0)

Holds(k) ==
  EvalCondition(GetValue(Cell(formatTokens[k].number)), formatTokens[k + 1].ifOperator,
                RhsValue(formatTokens[k + 1]))

(* Of each condition around it, token n is in the part that is chosen.     *)
IsShown(n) ==
  \A k \in Lhs : k < n /\ n < formatTokens[k].endIndex =>
                   (Holds(k) <=> n < formatTokens[k].elseIndex)

TokenWritten(w, token) ==
  LET properties == PropertiesOf(token) IN
  CASE token.type = "TEXT" ->
         WriteTxt(w, SubSeq(format, token.start + 1, token.start + token.length), token.length)
    [] token.type # "VALUE" -> w
    [] token.valueType = "COLUMN_ID" -> WriteValue(w, Cell(token.number), properties)
    [] token.valueType = "RECORD_ID" ->
         WriteRecordId(w, place.table, place.record, properties)
    [] token.valueType = "NUM_RECORDS"      -> WriteNumRecords(w, place.table, properties)
    [] token.valueType = "PARENT_COLUMN_ID" -> WriteParent(w, token.number, properties)

Rendered ==
  LET upTo[n \in 0..parser.tokenNo] ==
        IF n = 0 THEN Writer(FillChar)
        ELSE IF IsShown(n - 1) THEN TokenWritten(upTo[n - 1], formatTokens[n - 1])
        ELSE upTo[n - 1]
  IN Padded(upTo[parser.tokenNo])

(* Both readers understand a format in the same way, conditions and all:   *)
(* the text that BDB_writeRecord() leaves is that of the tokens.  This is  *)
(* about conditions with an else part, since one without it that is false  *)
(* skips the rest of the format (BitsOfData.c:1179), and about right hand  *)
(* sides without the offset of an earlier format.                          *)
RendersTokens ==
  /\ Parsed /\ Done /\ edit = NoEdit
  /\ FormatOf(WithOffset) = format
  /\ \A k \in Lhs : formatTokens[k].elseIndex # 0
  => writer = Rendered

(***************************************************************************)
(* Numbers on the screen.                                                  *)
(***************************************************************************)
ReadNumber(chars) ==
  LET digits == SelectSeq(chars, IsNumber)
      upTo[n \in 0..Len(digits)] ==
        IF n = 0 THEN 0 ELSE MoreDigits(upTo[n - 1], digits[n])
  IN upTo[Len(digits)]

(* What BitsOfDataTypes.h says is shown of a value.                        *)
ShownNumber(cell) ==
  IF ColumnDef(cell).type = "PERCENTAGE"
  THEN (100 * GetValue(cell)) \div ColumnDef(cell).max ELSE GetValue(cell)

NumericTypes == {"INTEGER", "PERCENTAGE", "INT_STEP", "DECIMAL"}

(* A value that is written over a text replaces just the characters that   *)
(* it covers.  That of a numeric column, also behind references, reads as  *)
(* the value itself, its decimal point where the column has it.            *)
NumbersReadBack ==
  edit # NoEdit /\ ~writer.halted =>
    LET target == Target(Cell(edit.column))
        def    == ColumnDef(target)
        chars  == SubSeq(writer.text, edit.position + 1, writer.cursor)
    IN /\ \A i \in 1..Size :
            i <= edit.position \/ i > writer.cursor => writer.text[i] = edit.before[i]
       /\ def.type \in NumericTypes => ReadNumber(chars) = ShownNumber(target)
       /\ def.type = "DECIMAL" =>
            /\ chars[Len(chars) - def.shift] = "."
            /\ \A i \in 1..Len(chars) : i >= Len(chars) - def.shift - 1 => chars[i] # " "
=============================================================================
