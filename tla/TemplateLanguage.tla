--------------------------- MODULE TemplateLanguage ---------------------------
(***************************************************************************)
(* src/TemplateLanguage.c: tl_parseFormat(), which turns a format string   *)
(* into tokens, one character at a time.  One action per state of its      *)
(* switch and kind of character; its asserts are in SyntaxError.           *)
(***************************************************************************)
EXTENDS FormatText

CONSTANTS
  MaxNumTokens,     \* MAX_NUM_TOKENS
  OldLists          \* what earlier formats left in FormatTokens, and behind it

VARIABLES
  formatTokens,     \* FormatTokens, and behind them the memory that follows
  parser            \* the local variables of tl_parseFormat()

tlVars == <<format, formatTokens, parser>>

NOT_IN_IF_TAG == 255

ValueTypes == {"COLUMN_ID", "RECORD_ID", "NUM_RECORDS", "PARENT_COLUMN_ID", "LITERAL"}
TokenTypes == {"INVALID", "TEXT", "VALUE", "IF_LHS", "IF_RHS"}
Operators  == {<<"=", "=">>, <<"!", "=">>, <<">">>, <<">", "=">>, <<"<">>, <<"<", "=">>}

Tokens ==
  [type : TokenTypes, valueType : ValueTypes, number : 0..255,
   leading0 : BOOLEAN, offset1 : BOOLEAN, asHex : BOOLEAN,
   start : 0..255, length : 0..255, elseIndex : 0..255, endIndex : 0..255,
   ifOperator : Operators \union {NoOperator}]

(* The members of the token's union are fields of their own: of a token    *)
(* those of its type are read, and they are written when it gets the type. *)
ASSUME TemplateLanguageAssumption ==
  /\ MaxNumTokens \in 1..254
  /\ OldLists \subseteq [0..MaxNumTokens -> Tokens]

(* The variables have their types: a token that is written is one of the   *)
(* list or the one behind it (increaseTokenNo()), and what is stored in it *)
(* fits into its eight bits, numbers (updateNumber()), jump indices and    *)
(* the place and length of a text.                                         *)
ParserTypeOK ==
  /\ formatTokens \in [0..MaxNumTokens -> Tokens]
  /\ parser.tokenNo \in 0..MaxNumTokens
  /\ parser.ifTokenNo \in 0..MaxNumTokens \union {NOT_IN_IF_TAG}
  /\ parser.number \in 0..255
  /\ parser.i \in 0..(Len(format) + 1)

(* Of the list that is there only the type of the first token is reset.    *)
ParserInit ==
  /\ \E old \in OldLists : formatTokens = [old EXCEPT ![0].type = "INVALID"]
  /\ parser = [state |-> "PLAIN_TEXT", i |-> 0, tokenNo |-> 0, number |-> 0,
               ifTokenNo |-> NOT_IN_IF_TAG, operator |-> NoOperator,
               tokenType |-> "INVALID", txtStart |-> 0, txtLen |-> 0]

-----------------------------------------------------------------------------
Chr     == At(parser.i)
Current == formatTokens[parser.tokenNo]
IsFull  == parser.tokenNo = MaxNumTokens

(* The parser after n more characters, in a state.                         *)
GoTo(state, n) == [parser EXCEPT !.state = state, !.i = @ + n]

(* The tokens once the current one has been stored; the next is invalid.   *)
Stored(token) ==
  [k \in 0..MaxNumTokens |->
     IF k = parser.tokenNo THEN token
     ELSE IF k = parser.tokenNo + 1 /\ k < MaxNumTokens
     THEN [formatTokens[k] EXCEPT !.type = "INVALID"]
     ELSE formatTokens[k]]

TextToken ==
  [Current EXCEPT !.type = "TEXT", !.start = parser.txtStart, !.length = parser.txtLen]

(* storeValidOperator() and storeValue()                                   *)
ValueToken(type, valueType, number) ==
  [Current EXCEPT !.type = type, !.valueType = valueType, !.number = number,
                  !.ifOperator = IF parser.operator = NoOperator THEN @ ELSE parser.operator]

(* A tag that stores a token is closed.                                    *)
StoreValue(type, valueType, number) ==
  /\ Chr = "}" /\ ~IsFull
  /\ formatTokens' = Stored(ValueToken(type, valueType, number))
  /\ parser' = [GoTo("PLAIN_TEXT", 1) EXCEPT !.tokenNo = @ + 1]

(* updateNumber(), with its asserts.                                       *)
UpdatesNumber == IsNumber(Chr) /\ MoreDigits(parser.number, Chr) <= 255

UpdateNumber ==
  /\ UpdatesNumber
  /\ parser' = [GoTo(parser.state, 1) EXCEPT !.number = MoreDigits(@, Chr)]
  /\ UNCHANGED formatTokens

(* A format property of the tag is noted in the token it will be.          *)
SetProperty(token) ==
  /\ formatTokens' = [formatTokens EXCEPT ![parser.tokenNo] = token]
  /\ parser' = GoTo(parser.state, 1)

Skip(state, n) == parser' = GoTo(state, n) /\ UNCHANGED formatTokens

-----------------------------------------------------------------------------
PlainText ==
  /\ parser.state = "PLAIN_TEXT"
  /\ Chr \notin {"{", "}", End}
  /\ parser' = [GoTo("PLAIN_TEXT", 1) EXCEPT
                  !.txtStart = IF parser.txtLen = 0 THEN parser.i ELSE @,
                  !.txtLen   = @ + 1]
  /\ UNCHANGED formatTokens

OpeningBraceUncleared ==            \* mutant: no clearFormatProperties()
  /\ parser.state = "PLAIN_TEXT"
  /\ Chr = "{"
  /\ parser.txtLen > 0 => ~IsFull
  /\ formatTokens' = IF parser.txtLen > 0 THEN Stored(TextToken) ELSE formatTokens
  /\ parser' = [GoTo("START_TAG", 1) EXCEPT
                   !.tokenNo = IF parser.txtLen > 0 THEN @ + 1 ELSE @,
                   !.txtLen = 0, !.number = 0, !.operator = NoOperator]

(* The properties are cleared in the token behind the text; that of a full *)
(* list lies behind the array.                                             *)
OpeningBrace ==
  /\ parser.state = "PLAIN_TEXT"
  /\ Chr = "{"
  /\ parser.txtLen > 0 => ~IsFull
  /\ LET tokens  == IF parser.txtLen > 0 THEN Stored(TextToken) ELSE formatTokens
         tokenNo == IF parser.txtLen > 0 THEN parser.tokenNo + 1 ELSE parser.tokenNo
     IN /\ formatTokens' = [tokens EXCEPT ![tokenNo].leading0 = FALSE,
                                          ![tokenNo].offset1  = FALSE,
                                          ![tokenNo].asHex    = FALSE]
        /\ parser' = [GoTo("START_TAG", 1) EXCEPT !.tokenNo = tokenNo, !.txtLen = 0,
                        !.number = 0, !.operator = NoOperator]

StartTag ==
  /\ parser.state = "START_TAG"
  /\ \/ /\ Chr \in {"&", "#"}
        /\ parser' = [GoTo(IF Chr = "&" THEN "COLUMN_ID" ELSE "RECORD_ID", 1)
                        EXCEPT !.tokenType = "VALUE"]
        /\ UNCHANGED formatTokens
     \/ Chr = "*" /\ Skip("NUM_RECORDS", 1)
     \/ Chr = "^" /\ Skip("PARENT_COLUMN_ID", 1)
     \/ Chr = "o" /\ SetProperty([Current EXCEPT !.leading0 = TRUE])
     \/ Chr = "x" /\ SetProperty([Current EXCEPT !.asHex = TRUE])
     \/ Chr = ":" /\ parser.ifTokenNo # NOT_IN_IF_TAG /\ Skip("ELSE_TAG", 1)
     \/ Chr = ";" /\ parser.ifTokenNo # NOT_IN_IF_TAG /\ Skip("ENDIF_TAG", 1)

StartIfUncleared ==                     \* mutant: no clearIfLhs()
  /\ parser.state = "START_TAG"
  /\ Chr = "?" /\ At(parser.i + 1) = "&"
  /\ parser.ifTokenNo = NOT_IN_IF_TAG
  /\ parser' = [GoTo("IF_TAG_LEFT_HAND_SIDE", 2) EXCEPT !.ifTokenNo = parser.tokenNo]
  /\ UNCHANGED formatTokens

(* "{?&": the jump indices of the token it will be are cleared.            *)
StartIf ==
  /\ parser.state = "START_TAG"
  /\ Chr = "?" /\ At(parser.i + 1) = "&"
  /\ parser.ifTokenNo = NOT_IN_IF_TAG
  /\ formatTokens' = [formatTokens EXCEPT ![parser.tokenNo].elseIndex = 0,
                                          ![parser.tokenNo].endIndex  = 0]
  /\ parser' = [GoTo("IF_TAG_LEFT_HAND_SIDE", 2) EXCEPT !.ifTokenNo = parser.tokenNo]

ColumnId ==
  /\ parser.state = "COLUMN_ID"
  /\ \/ StoreValue(parser.tokenType, "COLUMN_ID", parser.number)
     \/ Chr = "+" /\ SetProperty([Current EXCEPT !.offset1 = TRUE])
     \/ UpdateNumber

RecordId ==
  /\ parser.state = "RECORD_ID"
  /\ \/ StoreValue(parser.tokenType, "RECORD_ID", 0)
     \/ Chr = "+" /\ SetProperty([Current EXCEPT !.offset1 = TRUE])

NumRecords ==
  /\ parser.state = "NUM_RECORDS"
  /\ StoreValue("VALUE", "NUM_RECORDS", 0)

ParentColumnId ==
  /\ parser.state = "PARENT_COLUMN_ID"
  /\ StoreValue("VALUE", "PARENT_COLUMN_ID", parser.number) \/ UpdateNumber

(* A condition on the value alone, or a comparison: then a second token    *)
(* follows, whose properties are not cleared.                              *)
IfTagLeftHandSide ==
  /\ parser.state = "IF_TAG_LEFT_HAND_SIDE"
  /\ \/ StoreValue("IF_LHS", "COLUMN_ID", parser.number)
     \/ UpdateNumber
     \/ LET operator == OperatorAt(parser.i)
            next     == parser.i + Len(operator) IN
        /\ operator # NoOperator /\ ~IsFull
        /\ formatTokens' = Stored(ValueToken("IF_LHS", "COLUMN_ID", parser.number))
        /\ parser' = [parser EXCEPT
                        !.state = IF IsNumber(At(next)) THEN "IF_LITERAL_VALUE"
                                  ELSE "IF_TAG_RIGHT_HAND_SIDE",
                        !.i = next, !.tokenNo = @ + 1, !.number = 0,
                        !.operator = operator, !.tokenType = "IF_RHS"]

IfLiteralValue ==
  /\ parser.state = "IF_LITERAL_VALUE"
  /\ StoreValue(parser.tokenType, "LITERAL", parser.number) \/ UpdateNumber

IfTagRightHandSide ==
  /\ parser.state = "IF_TAG_RIGHT_HAND_SIDE"
  /\ \/ Chr = "#" /\ Skip("RECORD_ID", 1)
     \/ Chr = "&" /\ Skip("COLUMN_ID", 1)

ElseTag ==
  /\ parser.state = "ELSE_TAG"
  /\ Chr = "}"
  /\ formatTokens[parser.ifTokenNo].elseIndex = 0
  /\ formatTokens' = [formatTokens EXCEPT ![parser.ifTokenNo].elseIndex = parser.tokenNo]
  /\ parser' = GoTo("PLAIN_TEXT", 1)

EndifTag ==
  /\ parser.state = "ENDIF_TAG"
  /\ Chr = "}"
  /\ formatTokens' = [formatTokens EXCEPT ![parser.ifTokenNo].endIndex = parser.tokenNo]
  /\ parser' = [GoTo("PLAIN_TEXT", 1) EXCEPT !.ifTokenNo = NOT_IN_IF_TAG]

(* The end of the string, with the asserts behind the loop.                *)
Finish ==
  /\ parser.state = "PLAIN_TEXT"
  /\ Chr = End
  /\ parser.ifTokenNo = NOT_IN_IF_TAG
  /\ IF parser.txtLen > 0
     THEN /\ ~IsFull
          /\ formatTokens' = Stored(TextToken)
          /\ parser' = [GoTo("RETURNED", 0) EXCEPT !.tokenNo = @ + 1]
     ELSE /\ parser.tokenNo > 0
          /\ Skip("RETURNED", 0)

NumberStates == {"COLUMN_ID", "PARENT_COLUMN_ID", "IF_TAG_LEFT_HAND_SIDE", "IF_LITERAL_VALUE"}
ValueStates  == NumberStates \union {"RECORD_ID", "NUM_RECORDS"}

(* An assert fails.                                                        *)
SyntaxError ==
  /\ parser.state \notin {"RETURNED", "HALTED"}
  /\ \/ Chr = End /\ \/ parser.state # "PLAIN_TEXT"
                     \/ parser.ifTokenNo # NOT_IN_IF_TAG
                     \/ parser.tokenNo = 0 /\ parser.txtLen = 0
     \/ parser.state = "PLAIN_TEXT"
          /\ \/ Chr = "}"
             \/ Chr \in {"{", End} /\ parser.txtLen > 0 /\ IsFull
     \/ parser.state = "START_TAG"
          /\ \/ Chr \notin {"&", "#", "*", "^", "o", "x", "?", ":", ";"}
             \/ Chr = "?" /\ (At(parser.i + 1) # "&" \/ parser.ifTokenNo # NOT_IN_IF_TAG)
             \/ Chr \in {":", ";"} /\ parser.ifTokenNo = NOT_IN_IF_TAG
     \/ parser.state \in NumberStates
          /\ ~UpdatesNumber /\ Chr # "}"
          /\ ~(Chr = "+" /\ parser.state = "COLUMN_ID")
          /\ ~(OperatorAt(parser.i) # NoOperator /\ parser.state = "IF_TAG_LEFT_HAND_SIDE")
     \/ parser.state = "RECORD_ID"   /\ Chr \notin {"}", "+"}
     \/ parser.state = "NUM_RECORDS" /\ Chr # "}"
     \/ parser.state \in ValueStates /\ Chr = "}" /\ IsFull
     \/ parser.state = "IF_TAG_LEFT_HAND_SIDE" /\ OperatorAt(parser.i) # NoOperator /\ IsFull
     \/ parser.state = "IF_TAG_RIGHT_HAND_SIDE" /\ Chr \notin {"#", "&"}
     \/ parser.state \in {"ELSE_TAG", "ENDIF_TAG"} /\ Chr # "}"
     \/ parser.state = "ELSE_TAG" /\ formatTokens[parser.ifTokenNo].elseIndex # 0
  /\ Skip("HALTED", 0)

ParserNext ==
  \/ PlainText      \/ OpeningBrace   \/ StartTag          \/ StartIf
  \/ ColumnId       \/ RecordId       \/ NumRecords        \/ ParentColumnId
  \/ IfLiteralValue \/ ElseTag        \/ IfTagLeftHandSide \/ IfTagRightHandSide
  \/ EndifTag       \/ Finish         \/ SyntaxError
=============================================================================
