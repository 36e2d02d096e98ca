--------------------------- MODULE TextOutputProofs ---------------------------
(***************************************************************************)
(* Proofs about the parser of TextOutput, for every format string that its *)
(* asserts let pass and every number of tokens: ParserInv, of the list of  *)
(* tokens and its conditions, and TypeInv, of the types.                   *)
(***************************************************************************)
EXTENDS TextOutput, TLAPS

ParserFields ==
  {"state", "i", "tokenNo", "number", "ifTokenNo", "operator", "tokenType", "txtStart", "txtLen"}

TokenFields ==
  {"type", "valueType", "number", "leading0", "offset1", "asHex", "start", "length",
   "elseIndex", "endIndex", "ifOperator"}

(***************************************************************************)
(* The inductive invariant.  A list of n tokens, with the condition at f   *)
(* open: its end is not known yet, and of it only the left hand side is    *)
(* sure to be there.                                                       *)
(***************************************************************************)
ListShape(tokens) ==
  /\ tokens = [k \in 0..MaxNumTokens |-> tokens[k]]
  /\ \A k \in 0..MaxNumTokens : DOMAIN tokens[k] = TokenFields

KindsOK(tokens, n) ==
  /\ n < MaxNumTokens => tokens[n].type = "INVALID"
  /\ \A k \in 0..(n - 1) :
       /\ tokens[k].type # "INVALID"
       /\ tokens[k].type = "IF_RHS" => k > 0 /\ tokens[k - 1].type = "IF_LHS"

ClosedOK(tokens, n, f) ==
  \A k \in 0..(n - 1) : tokens[k].type = "IF_LHS" /\ k # f =>
    /\ tokens[k].endIndex \in (k + 1)..n
    /\ tokens[k].elseIndex \in {0} \union (k + 1)..tokens[k].endIndex
    /\ \A j \in 0..(n - 1) : tokens[j].type = "IF_LHS" /\ j > k => j >= tokens[k].endIndex

OpenOK(tokens, n, f) ==
  /\ f # NOT_IN_IF_TAG => tokens[f].elseIndex \in {0} \union (f + 1)..n
  /\ f \in 0..(n - 1) => tokens[f].type = "IF_LHS"
  /\ \A j \in 0..(n - 1) : f < j => tokens[j].type # "IF_LHS"

ListOK(tokens, n, f) ==
  /\ n \in 0..MaxNumTokens
  /\ f \in 0..n \union {NOT_IN_IF_TAG}
  /\ ListShape(tokens)
  /\ KindsOK(tokens, n)
  /\ ClosedOK(tokens, n, f)
  /\ OpenOK(tokens, n, f)

AfterLhs(tokens, n) == n > 0 /\ tokens[n - 1].type = "IF_LHS"

(* What the state of the parser says of the list.                          *)
StateOK(state, tokenType, tokens, n, f) ==
  /\ state = "IF_TAG_LEFT_HAND_SIDE" <=> f = n
  /\ state \in {"ELSE_TAG", "ENDIF_TAG"} => f # NOT_IN_IF_TAG
  /\ state = "RETURNED" => f = NOT_IN_IF_TAG
  /\ state \in {"IF_TAG_RIGHT_HAND_SIDE", "IF_LITERAL_VALUE"} =>
       tokenType = "IF_RHS" /\ AfterLhs(tokens, n)
  /\ state \in {"COLUMN_ID", "RECORD_ID"} =>
       \/ tokenType = "VALUE"
       \/ tokenType = "IF_RHS" /\ AfterLhs(tokens, n)

ParserInv ==
  /\ DOMAIN parser = ParserFields
  /\ parser.state # "HALTED" =>
       /\ ListOK(formatTokens, parser.tokenNo, parser.ifTokenNo)
       /\ StateOK(parser.state, parser.tokenType, formatTokens, parser.tokenNo, parser.ifTokenNo)

-----------------------------------------------------------------------------
LEMMA MaxNumTokensType == MaxNumTokens \in Nat /\ 1 <= MaxNumTokens /\ MaxNumTokens <= 254
BY TemplateLanguageAssumption, SMT

(* Before the first character the first token is invalid, whatever earlier *)
(* formats left, and no condition is open.                                 *)
LEMMA InitParserInv == Init => ParserInv
<1> SUFFICES ASSUME Init PROVE ParserInv
  OBVIOUS
<1>1. PICK old \in [0..MaxNumTokens -> Tokens] :
        formatTokens = [old EXCEPT ![0].type = "INVALID"]
  BY TemplateLanguageAssumption DEF Init, ParserInit
<1>2. /\ DOMAIN parser = ParserFields
      /\ parser.state = "PLAIN_TEXT" /\ parser.tokenNo = 0
      /\ parser.ifTokenNo = NOT_IN_IF_TAG
  BY SMT DEF Init, ParserInit, ParserFields
<1>3. ListShape(formatTokens) /\ formatTokens[0].type = "INVALID"
  <2>1. \A token \in Tokens : DOMAIN token = TokenFields
    BY DEF Tokens, TokenFields
  <2>2. /\ 0 \in 0..MaxNumTokens
        /\ old = [k \in 0..MaxNumTokens |-> old[k]]
        /\ \A k \in 0..MaxNumTokens : DOMAIN old[k] = TokenFields
    BY <2>1, MaxNumTokensType, SMT
  <2> DEFINE first == [old[0] EXCEPT !.type = "INVALID"]
  <2>3. DOMAIN first = TokenFields /\ first.type = "INVALID"
    BY <2>2 DEF TokenFields
  <2>4. formatTokens = [old EXCEPT ![0] = first]
    BY <1>1
  <2> HIDE DEF first
  <2>5. formatTokens = [k \in 0..MaxNumTokens |-> IF k = 0 THEN first ELSE old[k]]
    BY <2>2, <2>4
  <2> QED BY <2>2, <2>3, <2>5 DEF ListShape
<1>5. ListOK(formatTokens, 0, NOT_IN_IF_TAG)
  BY <1>3, MaxNumTokensType, SMT
     DEF ListOK, KindsOK, ClosedOK, OpenOK, NOT_IN_IF_TAG
<1> QED BY <1>2, <1>5, SMT DEF ParserInv, StateOK, NOT_IN_IF_TAG

(***************************************************************************)
(* The list after a change of the current token, which is not of the list  *)
(* yet.                                                                    *)
(***************************************************************************)
LEMMA CurrentChanged ==
  ASSUME NEW tokens, NEW n, NEW f, ListOK(tokens, n, f), f # n,
         NEW changed, ListShape(changed),
         \A k \in 0..MaxNumTokens : k # n => changed[k] = tokens[k],
         changed[n].type = tokens[n].type
  PROVE  ListOK(changed, n, f)
<1>1. KindsOK(changed, n)
  BY MaxNumTokensType, SMT DEF ListOK, KindsOK
<1>2. ClosedOK(changed, n, f)
  BY MaxNumTokensType, SMT DEF ListOK, ClosedOK
<1>3. OpenOK(changed, n, f)
  BY MaxNumTokensType, SMT DEF ListOK, OpenOK, NOT_IN_IF_TAG
<1> QED BY <1>1, <1>2, <1>3 DEF ListOK

(***************************************************************************)
(* The list after a token has been stored: a left hand side opens the      *)
(* condition at f, a right hand side stands behind one.                    *)
(***************************************************************************)
LEMMA TokenStored ==
  ASSUME NEW STATE n, n = parser.tokenNo, n < MaxNumTokens,
         NEW STATE f, ListOK(formatTokens, n, f),
         NEW STATE token, DOMAIN token = TokenFields,
         token.type # "INVALID",
         token.type = "IF_LHS" <=> f = n,
         token.type = "IF_RHS" => AfterLhs(formatTokens, n),
         token.elseIndex = formatTokens[n].elseIndex
  PROVE  ListOK(Stored(token), n + 1, f) /\ Stored(token)[n] = token
<1> DEFINE stored == Stored(token)
<1>1. n \in Nat /\ n + 1 \in 0..MaxNumTokens
  BY MaxNumTokensType, SMT DEF ListOK
<1>2. stored = [k \in 0..MaxNumTokens |-> stored[k]]
  BY SMT DEF Stored
<1>3. stored[n] = token /\ \A k \in 0..(n - 1) : stored[k] = formatTokens[k]
  BY <1>1, MaxNumTokensType, SMT DEF Stored
<1>4. \A k \in 0..MaxNumTokens : DOMAIN stored[k] = TokenFields
  BY <1>1, MaxNumTokensType, SMT DEF Stored, ListOK, ListShape
<1>5. n + 1 < MaxNumTokens => stored[n + 1].type = "INVALID"
  <2> SUFFICES ASSUME n + 1 < MaxNumTokens PROVE stored[n + 1].type = "INVALID"
    OBVIOUS
  <2>1. stored[n + 1] = [formatTokens[n + 1] EXCEPT !.type = "INVALID"]
    BY <1>1, MaxNumTokensType, SMT DEF Stored
  <2>2. DOMAIN formatTokens[n + 1] = TokenFields
    BY <1>1 DEF ListOK, ListShape
  <2> QED BY <2>1, <2>2, SMT DEF TokenFields
<1> HIDE DEF stored
<1>6. KindsOK(stored, n + 1)
  BY <1>1, <1>3, <1>5, SMT DEF ListOK, KindsOK, AfterLhs
<1>7. ClosedOK(stored, n + 1, f)
  BY <1>1, <1>3, SMT DEF ListOK, ClosedOK
<1>8. OpenOK(stored, n + 1, f)
  BY <1>1, <1>3, MaxNumTokensType, SMT DEF ListOK, OpenOK, NOT_IN_IF_TAG
<1>9. f \in 0..(n + 1) \union {NOT_IN_IF_TAG}
  BY <1>1, SMT DEF ListOK
<1>10. ListOK(stored, n + 1, f)
  BY <1>1, <1>2, <1>4, <1>6, <1>7, <1>8, <1>9 DEF ListOK, ListShape
<1> QED BY <1>3, <1>10 DEF stored

-----------------------------------------------------------------------------
(* What GoTo() leaves of the parser.                                       *)
LEMMA GoToFields ==
  ASSUME DOMAIN parser = ParserFields, NEW state, NEW m
  PROVE  /\ DOMAIN GoTo(state, m) = ParserFields
         /\ GoTo(state, m).state = state
         /\ GoTo(state, m).tokenNo = parser.tokenNo
         /\ GoTo(state, m).ifTokenNo = parser.ifTokenNo
         /\ GoTo(state, m).tokenType = parser.tokenType
BY SMT DEF GoTo, ParserFields

LEMMA TokenNoFields ==
  ASSUME NEW moved, DOMAIN moved = ParserFields
  PROVE  LET next == [moved EXCEPT !.tokenNo = @ + 1] IN
         /\ DOMAIN next = ParserFields
         /\ next.state = moved.state /\ next.tokenNo = moved.tokenNo + 1
         /\ next.ifTokenNo = moved.ifTokenNo
BY SMT DEF ParserFields

(* A character that changes neither the list nor the condition.            *)
LEMMA SameList ==
  ASSUME ParserInv, parser.state # "HALTED", UNCHANGED formatTokens,
         DOMAIN parser' = ParserFields,
         parser'.tokenNo = parser.tokenNo, parser'.ifTokenNo = parser.ifTokenNo,
         StateOK(parser'.state, parser'.tokenType, formatTokens,
                 parser.tokenNo, parser.ifTokenNo)
  PROVE  ParserInv'
BY DEF ParserInv

(* A character that changes the current token only.                        *)
LEMMA SameListBefore ==
  ASSUME ParserInv, parser.state # "HALTED", parser.ifTokenNo # parser.tokenNo,
         NEW STATE token, formatTokens' = [formatTokens EXCEPT ![parser.tokenNo] = token],
         DOMAIN token = TokenFields, token.type = Current.type,
         DOMAIN parser' = ParserFields,
         parser'.tokenNo = parser.tokenNo, parser'.ifTokenNo = parser.ifTokenNo,
         parser'.tokenType = parser.tokenType, parser'.state = parser.state
  PROVE  ParserInv'
<1> DEFINE n == parser.tokenNo
           f == parser.ifTokenNo
<1>1. ListOK(formatTokens, n, f) /\ n \in 0..MaxNumTokens
  BY DEF ParserInv, ListOK
<1>2. /\ formatTokens' = [k \in 0..MaxNumTokens |-> formatTokens'[k]]
      /\ formatTokens'[n] = token
      /\ \A k \in 0..MaxNumTokens : k # n => formatTokens'[k] = formatTokens[k]
  <2>1. formatTokens = [k \in 0..MaxNumTokens |-> formatTokens[k]]
    BY <1>1 DEF ListOK, ListShape
  <2> QED BY <1>1, <2>1
<1>3. ListShape(formatTokens')
  BY <1>1, <1>2 DEF ListOK, ListShape
<1>4. formatTokens'[n].type = formatTokens[n].type
  BY <1>2 DEF Current
<1>5. ListOK(formatTokens', n, f)
  BY <1>1, <1>2, <1>3, <1>4, CurrentChanged
<1>6. AfterLhs(formatTokens', n) <=> AfterLhs(formatTokens, n)
  BY <1>1, <1>2, MaxNumTokensType, SMT DEF AfterLhs
<1>7. StateOK(parser.state, parser.tokenType, formatTokens', n, f)
  BY <1>6 DEF ParserInv, StateOK
<1> QED BY <1>5, <1>7 DEF ParserInv

LEMMA CurrentShape ==
  ASSUME ParserInv, parser.state # "HALTED"
  PROVE  DOMAIN Current = TokenFields
BY DEF ParserInv, ListOK, ListShape, Current

(* A tag is closed, and its token stored.                                  *)
LEMMA ValueStored ==
  ASSUME ParserInv, parser.state \notin {"HALTED", "PLAIN_TEXT"},
         NEW STATE type, type \in {"VALUE", "IF_LHS", "IF_RHS"},
         NEW STATE valueType, NEW STATE number,
         StoreValue(type, valueType, number),
         type = "IF_LHS" <=> parser.state = "IF_TAG_LEFT_HAND_SIDE",
         type = "IF_RHS" => AfterLhs(formatTokens, parser.tokenNo)
  PROVE  ParserInv'
<1> DEFINE n == parser.tokenNo
           f == parser.ifTokenNo
           token == ValueToken(type, valueType, number)
<1>1. ListOK(formatTokens, n, f) /\ n \in 0..MaxNumTokens /\ DOMAIN parser = ParserFields
  BY DEF ParserInv, ListOK
<1>2. n < MaxNumTokens /\ n \in Nat
  <2>1. n # MaxNumTokens
    BY DEF StoreValue, IsFull
  <2> QED BY <1>1, <2>1, MaxNumTokensType, SMT
<1>3. /\ DOMAIN token = TokenFields /\ token.type = type
      /\ token.elseIndex = formatTokens[n].elseIndex
  <2>1. DOMAIN Current = TokenFields
    BY CurrentShape
  <2> QED BY <2>1, SMT DEF ValueToken, Current, TokenFields
<1>4. type = "IF_LHS" <=> f = n
  BY DEF ParserInv, StateOK
<1>5. ListOK(Stored(token), n + 1, f)
  <2> HIDE DEF token
  <2> QED BY <1>1, <1>2, <1>3, <1>4, TokenStored
<1>6. /\ formatTokens' = Stored(token)
      /\ DOMAIN parser' = ParserFields /\ parser'.state = "PLAIN_TEXT"
      /\ parser'.tokenNo = n + 1 /\ parser'.ifTokenNo = f
  <2>1. parser' = [GoTo("PLAIN_TEXT", 1) EXCEPT !.tokenNo = @ + 1]
    BY DEF StoreValue
  <2>2. formatTokens' = Stored(token)
    BY DEF StoreValue
  <2> QED BY <1>1, <2>1, <2>2, GoToFields, TokenNoFields
<1>7. f # n + 1
  BY <1>1, <1>2, MaxNumTokensType, SMT DEF ListOK, NOT_IN_IF_TAG
<1>8. StateOK("PLAIN_TEXT", parser'.tokenType, formatTokens', n + 1, f)
  BY <1>7 DEF StateOK
<1> QED BY <1>5, <1>6, <1>8 DEF ParserInv

-----------------------------------------------------------------------------
(* The parser goes to another state, or halts.                             *)
LEMMA Skipped ==
  ASSUME ParserInv, parser.state # "HALTED", NEW STATE state, NEW STATE m, Skip(state, m),
         \/ state = "HALTED"
         \/ StateOK(state, parser.tokenType, formatTokens, parser.tokenNo, parser.ifTokenNo)
  PROVE  ParserInv'
<1>1. DOMAIN parser = ParserFields /\ parser' = GoTo(state, m) /\ UNCHANGED formatTokens
  BY DEF ParserInv, Skip
<1>2. /\ DOMAIN parser' = ParserFields /\ parser'.state = state
      /\ parser'.tokenNo = parser.tokenNo /\ parser'.ifTokenNo = parser.ifTokenNo
      /\ parser'.tokenType = parser.tokenType
  BY <1>1, GoToFields
<1>3. CASE state = "HALTED"
  BY <1>2, <1>3 DEF ParserInv
<1>4. CASE state # "HALTED"
  BY <1>1, <1>2, <1>4, SameList
<1> QED BY <1>3, <1>4

(* A digit of a number.                                                    *)
LEMMA NumberUpdated ==
  ASSUME ParserInv, parser.state # "HALTED", UpdateNumber
  PROVE  ParserInv'
<1> DEFINE moved == GoTo(parser.state, 1)
<1>1. /\ DOMAIN moved = ParserFields /\ moved.state = parser.state
      /\ moved.tokenNo = parser.tokenNo /\ moved.ifTokenNo = parser.ifTokenNo
      /\ moved.tokenType = parser.tokenType
  BY GoToFields DEF ParserInv
<1>2. parser' = [moved EXCEPT !.number = MoreDigits(@, Chr)] /\ UNCHANGED formatTokens
  BY DEF UpdateNumber
<1>3. /\ DOMAIN parser' = ParserFields /\ parser'.state = parser.state
      /\ parser'.tokenNo = parser.tokenNo /\ parser'.ifTokenNo = parser.ifTokenNo
      /\ parser'.tokenType = parser.tokenType
  <2> HIDE DEF moved
  <2> QED BY <1>1, <1>2, SMT DEF ParserFields
<1> QED BY <1>2, <1>3, SameList DEF ParserInv

(* A format property of the tag.                                           *)
LEMMA PropertySet ==
  ASSUME ParserInv, parser.state \notin {"HALTED", "IF_TAG_LEFT_HAND_SIDE"},
         NEW STATE token, SetProperty(token),
         DOMAIN token = TokenFields, token.type = Current.type
  PROVE  ParserInv'
<1>1. DOMAIN parser = ParserFields /\ parser.ifTokenNo # parser.tokenNo
  BY DEF ParserInv, StateOK
<1>2. parser' = GoTo(parser.state, 1)
      /\ formatTokens' = [formatTokens EXCEPT ![parser.tokenNo] = token]
  BY DEF SetProperty
<1>3. /\ DOMAIN parser' = ParserFields /\ parser'.state = parser.state
      /\ parser'.tokenNo = parser.tokenNo /\ parser'.ifTokenNo = parser.ifTokenNo
      /\ parser'.tokenType = parser.tokenType
  BY <1>1, <1>2, GoToFields
<1> QED BY <1>1, <1>2, <1>3, SameListBefore

-----------------------------------------------------------------------------
(* One lemma for each action that does more than the ones above.           *)
LEMMA PlainTextStep ==
  ASSUME ParserInv, PlainText
  PROVE  ParserInv'
<1> DEFINE moved == GoTo("PLAIN_TEXT", 1)
<1>1. parser.state = "PLAIN_TEXT" /\ UNCHANGED formatTokens
  BY DEF PlainText
<1>2. parser' = [moved EXCEPT !.txtStart = IF parser.txtLen = 0 THEN parser.i ELSE @,
                              !.txtLen   = @ + 1]
  BY DEF PlainText
<1>3. /\ DOMAIN moved = ParserFields /\ moved.state = "PLAIN_TEXT"
      /\ moved.tokenNo = parser.tokenNo /\ moved.ifTokenNo = parser.ifTokenNo
      /\ moved.tokenType = parser.tokenType
  BY GoToFields DEF ParserInv
<1>4. /\ DOMAIN parser' = ParserFields /\ parser'.state = parser.state
      /\ parser'.tokenNo = parser.tokenNo /\ parser'.ifTokenNo = parser.ifTokenNo
      /\ parser'.tokenType = parser.tokenType
  <2> HIDE DEF moved
  <2> QED BY <1>1, <1>2, <1>3, SMT DEF ParserFields
<1> QED BY <1>1, <1>4, SameList DEF ParserInv

(* The text before a tag is stored.                                        *)
LEMMA TextStored ==
  ASSUME ParserInv, parser.state = "PLAIN_TEXT", ~IsFull
  PROVE  /\ ListOK(Stored(TextToken), parser.tokenNo + 1, parser.ifTokenNo)
         /\ parser.ifTokenNo # parser.tokenNo + 1
         /\ parser.tokenNo + 1 \in 0..MaxNumTokens
<1> DEFINE n == parser.tokenNo
           f == parser.ifTokenNo
           token == TextToken
<1>1. ListOK(formatTokens, n, f) /\ n \in 0..MaxNumTokens /\ f # n
  BY DEF ParserInv, ListOK, StateOK
<1>2. n < MaxNumTokens /\ n \in Nat
  <2>1. n # MaxNumTokens
    BY DEF IsFull
  <2> QED BY <1>1, <2>1, MaxNumTokensType, SMT
<1>3. /\ DOMAIN token = TokenFields /\ token.type = "TEXT"
      /\ token.elseIndex = formatTokens[n].elseIndex
  <2>1. DOMAIN Current = TokenFields
    BY CurrentShape
  <2> QED BY <2>1, SMT DEF TextToken, Current, TokenFields
<1>4. ListOK(Stored(token), n + 1, f)
  <2> HIDE DEF token
  <2> QED BY <1>1, <1>2, <1>3, TokenStored
<1>5. f # n + 1
  BY <1>1, <1>2, MaxNumTokensType, SMT DEF ListOK, NOT_IN_IF_TAG
<1> QED BY <1>2, <1>4, <1>5, MaxNumTokensType, SMT

(* One field of the current token is set.                                  *)
LEMMA FieldSet ==
  ASSUME NEW tokens, ListShape(tokens), NEW n \in 0..MaxNumTokens,
         NEW field \in TokenFields \ {"type"}, NEW value
  PROVE  LET changed == [tokens EXCEPT ![n][field] = value] IN
         /\ ListShape(changed) /\ changed[n].type = tokens[n].type
         /\ changed[n][field] = value
         /\ \A k \in 0..MaxNumTokens : k # n => changed[k] = tokens[k]
<1> DEFINE token == [tokens[n] EXCEPT ![field] = value]
           changed == [tokens EXCEPT ![n] = token]
<1>1. [tokens EXCEPT ![n][field] = value] = changed
  OBVIOUS
<1>2. /\ DOMAIN token = TokenFields /\ token[field] = value
      /\ \A other \in TokenFields : other # field => token[other] = tokens[n][other]
  BY DEF ListShape
<1> HIDE DEF token
<1>3. tokens = [k \in 0..MaxNumTokens |-> tokens[k]]
  BY DEF ListShape
<1>4. /\ changed[n] = token /\ changed = [k \in 0..MaxNumTokens |-> changed[k]]
      /\ \A k \in 0..MaxNumTokens : k # n => changed[k] = tokens[k]
  BY <1>3
<1>5. ListShape(changed)
  BY <1>2, <1>4 DEF ListShape
<1>6. token.type = tokens[n].type
  BY <1>2, SMT DEF TokenFields
<1> HIDE DEF changed
<1> QED BY <1>1, <1>2, <1>4, <1>5, <1>6

LEMMA OpeningBraceStep ==
  ASSUME ParserInv, OpeningBrace
  PROVE  ParserInv'
<1> DEFINE tokens == IF parser.txtLen > 0 THEN Stored(TextToken) ELSE formatTokens
           n == IF parser.txtLen > 0 THEN parser.tokenNo + 1 ELSE parser.tokenNo
           f == parser.ifTokenNo
           moved == GoTo("START_TAG", 1)
<1>1. parser.state = "PLAIN_TEXT" /\ (parser.txtLen > 0 => ~IsFull)
  BY DEF OpeningBrace
<1>2. ListOK(tokens, n, f) /\ f # n
  <2>1. CASE parser.txtLen > 0
    BY <1>1, <2>1, TextStored
  <2>2. CASE ~(parser.txtLen > 0)
    BY <1>1, <2>2 DEF ParserInv, StateOK
  <2> QED BY <2>1, <2>2
<1>3. formatTokens' = [tokens EXCEPT ![n].leading0 = FALSE, ![n].offset1 = FALSE,
                                     ![n].asHex = FALSE]
  BY DEF OpeningBrace
<1>4. parser' = [moved EXCEPT !.tokenNo = n, !.txtLen = 0, !.number = 0,
                              !.operator = NoOperator]
  BY DEF OpeningBrace
<1>5. DOMAIN moved = ParserFields /\ moved.state = "START_TAG" /\ moved.ifTokenNo = f
  BY GoToFields DEF ParserInv
<1> HIDE DEF tokens, n, moved
<1>6. /\ DOMAIN parser' = ParserFields /\ parser'.state = "START_TAG"
      /\ parser'.tokenNo = n /\ parser'.ifTokenNo = f
  BY <1>4, <1>5, SMT DEF ParserFields
<1>7. n \in 0..MaxNumTokens /\ ListShape(tokens)
  BY <1>2 DEF ListOK
<1>8. /\ ListShape(formatTokens') /\ formatTokens'[n].type = tokens[n].type
      /\ \A k \in 0..MaxNumTokens : k # n => formatTokens'[k] = tokens[k]
  <2> DEFINE first  == [tokens EXCEPT ![n].leading0 = FALSE]
             second == [first EXCEPT ![n].offset1 = FALSE]
             third  == [second EXCEPT ![n].asHex = FALSE]
  <2>1. formatTokens' = third
    BY <1>3
  <2>2. {"leading0", "offset1", "asHex"} \subseteq TokenFields \ {"type"}
    BY SMT DEF TokenFields
  <2>3. /\ ListShape(first) /\ first[n].type = tokens[n].type
        /\ \A k \in 0..MaxNumTokens : k # n => first[k] = tokens[k]
    BY <1>7, <2>2, FieldSet
  <2>4. /\ ListShape(second) /\ second[n].type = first[n].type
        /\ \A k \in 0..MaxNumTokens : k # n => second[k] = first[k]
    <3> HIDE DEF first
    <3> QED BY <1>7, <2>2, <2>3, FieldSet
  <2>5. /\ ListShape(third) /\ third[n].type = second[n].type
        /\ \A k \in 0..MaxNumTokens : k # n => third[k] = second[k]
    <3> HIDE DEF second
    <3> QED BY <1>7, <2>2, <2>4, FieldSet
  <2> HIDE DEF first, second, third
  <2> QED BY <2>1, <2>3, <2>4, <2>5
<1>9. ListOK(formatTokens', n, f)
  BY <1>2, <1>8, CurrentChanged
<1>10. StateOK("START_TAG", parser'.tokenType, formatTokens', n, f)
  BY <1>2 DEF StateOK
<1> QED BY <1>6, <1>9, <1>10 DEF ParserInv

(* A condition is opened at the current token.                             *)
LEMMA StartIfStep ==
  ASSUME ParserInv, StartIf
  PROVE  ParserInv'
<1> DEFINE n == parser.tokenNo
           first == [formatTokens EXCEPT ![n].elseIndex = 0]
           second == [first EXCEPT ![n].endIndex = 0]
           moved == GoTo("IF_TAG_LEFT_HAND_SIDE", 2)
<1>1. /\ ListOK(formatTokens, n, NOT_IN_IF_TAG) /\ n \in 0..MaxNumTokens
      /\ parser.state = "START_TAG" /\ DOMAIN parser = ParserFields
  BY DEF ParserInv, StartIf, ListOK
<1>2. formatTokens' = second /\ parser' = [moved EXCEPT !.ifTokenNo = n]
  BY DEF StartIf
<1>3. {"elseIndex", "endIndex"} \subseteq TokenFields \ {"type"}
  BY SMT DEF TokenFields
<1>4. /\ ListShape(first) /\ first[n].type = formatTokens[n].type /\ first[n].elseIndex = 0
      /\ \A k \in 0..MaxNumTokens : k # n => first[k] = formatTokens[k]
  BY <1>1, <1>3, FieldSet DEF ListOK
<1> HIDE DEF first
<1>5. /\ ListShape(second) /\ second[n].type = first[n].type /\ second[n].elseIndex = 0
      /\ \A k \in 0..MaxNumTokens : k # n => second[k] = first[k]
  <2>1. /\ first = [k \in 0..MaxNumTokens |-> first[k]]
        /\ DOMAIN first[n] = TokenFields
    BY <1>1, <1>4 DEF ListShape
  <2>2. second[n] = [first[n] EXCEPT !.endIndex = 0]
    BY <1>1, <2>1
  <2>3. second[n].elseIndex = 0
    BY <1>4, <2>1, <2>2, SMT DEF TokenFields
  <2> QED BY <1>1, <1>3, <1>4, <2>3, FieldSet
<1>6. /\ DOMAIN parser' = ParserFields /\ parser'.state = "IF_TAG_LEFT_HAND_SIDE"
      /\ parser'.tokenNo = n /\ parser'.ifTokenNo = n
  <2>1. /\ DOMAIN moved = ParserFields /\ moved.state = "IF_TAG_LEFT_HAND_SIDE"
        /\ moved.tokenNo = n
    BY <1>1, GoToFields
  <2> HIDE DEF moved
  <2> QED BY <1>2, <2>1, SMT DEF ParserFields
<1> HIDE DEF second
<1>7. KindsOK(second, n)
  BY <1>1, <1>4, <1>5, MaxNumTokensType, SMT DEF ListOK, KindsOK
<1>8. ClosedOK(second, n, n)
  BY <1>1, <1>4, <1>5, MaxNumTokensType, SMT DEF ListOK, ClosedOK, NOT_IN_IF_TAG
<1>9. OpenOK(second, n, n)
  BY <1>1, <1>5, MaxNumTokensType, SMT DEF OpenOK
<1>10. ListOK(second, n, n)
  BY <1>1, <1>5, <1>7, <1>8, <1>9, MaxNumTokensType, SMT DEF ListOK
<1>11. n # NOT_IN_IF_TAG
  BY <1>1, MaxNumTokensType, SMT DEF NOT_IN_IF_TAG
<1>12. StateOK("IF_TAG_LEFT_HAND_SIDE", parser'.tokenType, formatTokens', n, n)
  BY <1>11 DEF StateOK
<1> QED BY <1>2, <1>6, <1>10, <1>12 DEF ParserInv

(* The left hand side of a comparison is stored, its right hand side next. *)
LEMMA LeftHandSideStep ==
  ASSUME ParserInv, IfTagLeftHandSide
  PROVE  ParserInv'
<1> DEFINE n == parser.tokenNo
           operator == OperatorAt(parser.i)
           next == parser.i + Len(operator)
           token == ValueToken("IF_LHS", "COLUMN_ID", parser.number)
<1>1. /\ parser.state = "IF_TAG_LEFT_HAND_SIDE" /\ DOMAIN parser = ParserFields
      /\ ListOK(formatTokens, n, n) /\ n \in 0..MaxNumTokens /\ parser.ifTokenNo = n
  BY DEF ParserInv, StateOK, IfTagLeftHandSide, ListOK
<1>2. CASE StoreValue("IF_LHS", "COLUMN_ID", parser.number)
  BY <1>1, <1>2, ValueStored
<1>3. CASE UpdateNumber
  BY <1>1, <1>3, NumberUpdated
<1>4. CASE
        /\ ~IsFull
        /\ formatTokens' = Stored(token)
        /\ parser' = [parser EXCEPT
                        !.state = IF IsNumber(At(next)) THEN "IF_LITERAL_VALUE"
                                  ELSE "IF_TAG_RIGHT_HAND_SIDE",
                        !.i = next, !.tokenNo = @ + 1, !.number = 0,
                        !.operator = operator, !.tokenType = "IF_RHS"]
  <2>1. n < MaxNumTokens /\ n \in Nat
    <3>1. n # MaxNumTokens
      BY <1>4 DEF IsFull
    <3> QED BY <1>1, <3>1, MaxNumTokensType, SMT
  <2>2. /\ DOMAIN token = TokenFields /\ token.type = "IF_LHS"
        /\ token.elseIndex = formatTokens[n].elseIndex
    <3>1. DOMAIN Current = TokenFields
      BY <1>1, CurrentShape
    <3> QED BY <3>1, SMT DEF ValueToken, Current, TokenFields
  <2>3. ListOK(Stored(token), n + 1, n) /\ Stored(token)[n] = token
    <3> HIDE DEF token
    <3> QED BY <1>1, <2>1, <2>2, TokenStored
  <2>4. /\ DOMAIN parser' = ParserFields
        /\ parser'.state \in {"IF_LITERAL_VALUE", "IF_TAG_RIGHT_HAND_SIDE"}
        /\ parser'.tokenNo = n + 1 /\ parser'.ifTokenNo = n /\ parser'.tokenType = "IF_RHS"
    <3> DEFINE isNumber == IsNumber(At(next))
    <3> HIDE DEF isNumber, operator, next
    <3>1. parser' = [parser EXCEPT
                        !.state = IF isNumber THEN "IF_LITERAL_VALUE"
                                  ELSE "IF_TAG_RIGHT_HAND_SIDE",
                        !.i = next, !.tokenNo = @ + 1, !.number = 0,
                        !.operator = operator, !.tokenType = "IF_RHS"]
      BY <1>4 DEF isNumber
    <3> QED BY <1>1, <3>1, SMT DEF ParserFields
  <2>5. AfterLhs(formatTokens', n + 1) /\ n # n + 1
    <3>1. n + 1 > 0 /\ (n + 1) - 1 = n /\ n # n + 1
      BY <2>1, SMT
    <3> QED BY <1>4, <2>2, <2>3, <3>1 DEF AfterLhs
  <2>6. StateOK(parser'.state, "IF_RHS", formatTokens', n + 1, n)
    BY <2>4, <2>5 DEF StateOK
  <2> QED BY <1>4, <2>3, <2>4, <2>6 DEF ParserInv
<1> QED BY <1>2, <1>3, <1>4 DEF IfTagLeftHandSide

(* The token that opened the condition, which is of the list by then.      *)
LEMMA OpenConditionListed ==
  ASSUME ParserInv, parser.state \in {"ELSE_TAG", "ENDIF_TAG"}
  PROVE  /\ parser.ifTokenNo \in 0..(parser.tokenNo - 1)
         /\ parser.ifTokenNo \in 0..MaxNumTokens
         /\ parser.ifTokenNo # NOT_IN_IF_TAG
         /\ parser.tokenNo \in Nat
<1>1. /\ parser.ifTokenNo # NOT_IN_IF_TAG /\ parser.ifTokenNo # parser.tokenNo
      /\ parser.tokenNo \in 0..MaxNumTokens
      /\ parser.ifTokenNo \in 0..parser.tokenNo
  BY DEF ParserInv, StateOK, ListOK
<1> QED BY <1>1, MaxNumTokensType, SMT

LEMMA ElseTagStep ==
  ASSUME ParserInv, ElseTag
  PROVE  ParserInv'
<1> DEFINE n == parser.tokenNo
           f == parser.ifTokenNo
           tokens == [formatTokens EXCEPT ![f].elseIndex = n]
<1>1. /\ parser.state = "ELSE_TAG" /\ DOMAIN parser = ParserFields
      /\ ListOK(formatTokens, n, f)
      /\ formatTokens' = tokens /\ parser' = GoTo("PLAIN_TEXT", 1)
  BY DEF ElseTag, ParserInv
<1>2. f \in 0..(n - 1) /\ f \in 0..MaxNumTokens /\ f # NOT_IN_IF_TAG /\ n \in Nat
  BY <1>1, OpenConditionListed
<1>3. "elseIndex" \in TokenFields \ {"type"}
  BY SMT DEF TokenFields
<1>4. /\ ListShape(tokens) /\ tokens[f].type = formatTokens[f].type
      /\ tokens[f].elseIndex = n
      /\ \A k \in 0..MaxNumTokens : k # f => tokens[k] = formatTokens[k]
  <2>1. ListShape(formatTokens)
    BY <1>1 DEF ListOK
  <2> HIDE DEF n, f
  <2> QED BY <1>2, <1>3, <2>1, FieldSet
<1>5. /\ DOMAIN parser' = ParserFields /\ parser'.state = "PLAIN_TEXT"
      /\ parser'.tokenNo = n /\ parser'.ifTokenNo = f
  BY <1>1, GoToFields
<1> HIDE DEF tokens
<1>6. KindsOK(tokens, n)
  BY <1>1, <1>2, <1>4, MaxNumTokensType, SMT DEF ListOK, KindsOK
<1>7. ClosedOK(tokens, n, f)
  BY <1>1, <1>2, <1>4, MaxNumTokensType, SMT DEF ListOK, ClosedOK
<1>8. OpenOK(tokens, n, f)
  BY <1>1, <1>2, <1>4, MaxNumTokensType, SMT DEF ListOK, OpenOK
<1>9. ListOK(tokens, n, f)
  BY <1>1, <1>4, <1>6, <1>7, <1>8 DEF ListOK
<1>10. f # n
  BY <1>2, SMT
<1>11. StateOK("PLAIN_TEXT", parser'.tokenType, formatTokens', n, f)
  BY <1>10 DEF StateOK
<1> QED BY <1>1, <1>5, <1>9, <1>11 DEF ParserInv

(* The condition is closed, behind everything that is of the list.         *)
LEMMA EndifTagStep ==
  ASSUME ParserInv, EndifTag
  PROVE  ParserInv'
<1> DEFINE n == parser.tokenNo
           f == parser.ifTokenNo
           tokens == [formatTokens EXCEPT ![f].endIndex = n]
           moved == GoTo("PLAIN_TEXT", 1)
<1>1. /\ parser.state = "ENDIF_TAG" /\ DOMAIN parser = ParserFields
      /\ ListOK(formatTokens, n, f)
      /\ formatTokens' = tokens /\ parser' = [moved EXCEPT !.ifTokenNo = NOT_IN_IF_TAG]
  BY DEF EndifTag, ParserInv
<1>2. f \in 0..(n - 1) /\ f \in 0..MaxNumTokens /\ f # NOT_IN_IF_TAG /\ n \in Nat
  BY <1>1, OpenConditionListed
<1>3. {"elseIndex", "endIndex"} \subseteq TokenFields \ {"type"}
  BY SMT DEF TokenFields
<1>4. /\ ListShape(tokens) /\ tokens[f].type = formatTokens[f].type
      /\ tokens[f].endIndex = n
      /\ \A k \in 0..MaxNumTokens : k # f => tokens[k] = formatTokens[k]
  <2>1. ListShape(formatTokens)
    BY <1>1 DEF ListOK
  <2> HIDE DEF n, f
  <2> QED BY <1>2, <1>3, <2>1, FieldSet
<1>5. tokens[f].elseIndex = formatTokens[f].elseIndex
  <2>1. /\ formatTokens = [k \in 0..MaxNumTokens |-> formatTokens[k]]
        /\ DOMAIN formatTokens[f] = TokenFields
    BY <1>1, <1>2 DEF ListOK, ListShape
  <2>2. tokens[f] = [formatTokens[f] EXCEPT !.endIndex = n]
    BY <1>2, <2>1
  <2> HIDE DEF tokens
  <2> QED BY <2>1, <2>2, SMT DEF TokenFields
<1>6. /\ DOMAIN parser' = ParserFields /\ parser'.state = "PLAIN_TEXT"
      /\ parser'.tokenNo = n /\ parser'.ifTokenNo = NOT_IN_IF_TAG
  <2>1. DOMAIN moved = ParserFields /\ moved.state = "PLAIN_TEXT" /\ moved.tokenNo = n
    BY <1>1, GoToFields
  <2> HIDE DEF moved
  <2> QED BY <1>1, <2>1, SMT DEF ParserFields
<1> HIDE DEF tokens
<1>7. KindsOK(tokens, n)
  BY <1>1, <1>2, <1>4, MaxNumTokensType, SMT DEF ListOK, KindsOK
<1>8. ClosedOK(tokens, n, NOT_IN_IF_TAG)
  BY <1>1, <1>2, <1>4, <1>5, MaxNumTokensType, SMT DEF ListOK, ClosedOK, OpenOK
<1>9. n \in 0..MaxNumTokens /\ n # NOT_IN_IF_TAG
  BY <1>1, MaxNumTokensType, SMT DEF ListOK, NOT_IN_IF_TAG
<1>10. OpenOK(tokens, n, NOT_IN_IF_TAG)
  BY <1>9, MaxNumTokensType, SMT DEF OpenOK, NOT_IN_IF_TAG
<1>11. ListOK(tokens, n, NOT_IN_IF_TAG)
  BY <1>4, <1>7, <1>8, <1>9, <1>10 DEF ListOK
<1>12. StateOK("PLAIN_TEXT", parser'.tokenType, formatTokens', n, NOT_IN_IF_TAG)
  BY <1>9 DEF StateOK
<1> QED BY <1>1, <1>6, <1>11, <1>12 DEF ParserInv

LEMMA FinishStep ==
  ASSUME ParserInv, Finish
  PROVE  ParserInv'
<1> DEFINE n == parser.tokenNo
           f == parser.ifTokenNo
           moved == GoTo("RETURNED", 0)
<1>1. parser.state = "PLAIN_TEXT" /\ f = NOT_IN_IF_TAG /\ DOMAIN parser = ParserFields
  BY DEF Finish, ParserInv
<1>2. CASE
        /\ ~IsFull
        /\ formatTokens' = Stored(TextToken)
        /\ parser' = [moved EXCEPT !.tokenNo = @ + 1]
  <2>1. ListOK(Stored(TextToken), n + 1, f) /\ f # n + 1
    BY <1>1, <1>2, TextStored
  <2>2. DOMAIN moved = ParserFields /\ moved.state = "RETURNED"
        /\ moved.tokenNo = n /\ moved.ifTokenNo = f
    BY <1>1, GoToFields
  <2>3. /\ DOMAIN parser' = ParserFields /\ parser'.state = "RETURNED"
        /\ parser'.tokenNo = n + 1 /\ parser'.ifTokenNo = f
    <3> HIDE DEF moved
    <3> QED BY <1>2, <2>2, TokenNoFields
  <2>4. StateOK("RETURNED", parser'.tokenType, formatTokens', n + 1, f)
    BY <1>1, <2>1 DEF StateOK
  <2> QED BY <1>2, <2>1, <2>3, <2>4 DEF ParserInv
<1>3. CASE Skip("RETURNED", 0)
  <2>1. StateOK("RETURNED", parser.tokenType, formatTokens, n, f)
    BY <1>1 DEF StateOK, ParserInv
  <2> QED BY <1>1, <1>3, <2>1, Skipped
<1> QED BY <1>2, <1>3 DEF Finish

LEMMA StartTagStep ==
  ASSUME ParserInv, StartTag
  PROVE  ParserInv'
<1>1. /\ parser.state = "START_TAG" /\ DOMAIN parser = ParserFields
      /\ parser.ifTokenNo # parser.tokenNo
  BY DEF StartTag, ParserInv, StateOK
<1>2. DOMAIN Current = TokenFields
  BY <1>1, CurrentShape
<1>3. CASE /\ parser' = [GoTo(IF Chr = "&" THEN "COLUMN_ID" ELSE "RECORD_ID", 1)
                          EXCEPT !.tokenType = "VALUE"]
           /\ UNCHANGED formatTokens
  <2> DEFINE state == IF Chr = "&" THEN "COLUMN_ID" ELSE "RECORD_ID"
             moved == GoTo(state, 1)
  <2>1. state \in {"COLUMN_ID", "RECORD_ID"}
    OBVIOUS
  <2> HIDE DEF state
  <2>2. /\ DOMAIN moved = ParserFields /\ moved.state = state
        /\ moved.tokenNo = parser.tokenNo /\ moved.ifTokenNo = parser.ifTokenNo
    BY <1>1, GoToFields
  <2>3. parser' = [moved EXCEPT !.tokenType = "VALUE"]
    BY <1>3 DEF state
  <2> HIDE DEF moved
  <2>4. /\ DOMAIN parser' = ParserFields /\ parser'.state = state
        /\ parser'.tokenNo = parser.tokenNo /\ parser'.ifTokenNo = parser.ifTokenNo
        /\ parser'.tokenType = "VALUE"
    BY <2>2, <2>3, SMT DEF ParserFields
  <2>5. StateOK(state, "VALUE", formatTokens, parser.tokenNo, parser.ifTokenNo)
    BY <1>1, <2>1 DEF StateOK
  <2> QED BY <1>1, <1>3, <2>4, <2>5, SameList
<1>4. CASE Skip("NUM_RECORDS", 1) \/ Skip("PARENT_COLUMN_ID", 1)
  <2>1. \A state \in {"NUM_RECORDS", "PARENT_COLUMN_ID"} :
          StateOK(state, parser.tokenType, formatTokens, parser.tokenNo, parser.ifTokenNo)
    BY <1>1 DEF StateOK
  <2> QED BY <1>1, <1>4, <2>1, Skipped
<1>5. CASE SetProperty([Current EXCEPT !.leading0 = TRUE])
  <2> DEFINE token == [Current EXCEPT !.leading0 = TRUE]
  <2>1. DOMAIN token = TokenFields /\ token.type = Current.type
    BY <1>2, SMT DEF TokenFields
  <2> QED BY <1>1, <1>5, <2>1, PropertySet
<1>6. CASE SetProperty([Current EXCEPT !.asHex = TRUE])
  <2> DEFINE token == [Current EXCEPT !.asHex = TRUE]
  <2>1. DOMAIN token = TokenFields /\ token.type = Current.type
    BY <1>2, SMT DEF TokenFields
  <2> QED BY <1>1, <1>6, <2>1, PropertySet
<1>7. CASE /\ parser.ifTokenNo # NOT_IN_IF_TAG
           /\ Skip("ELSE_TAG", 1) \/ Skip("ENDIF_TAG", 1)
  <2>1. \A state \in {"ELSE_TAG", "ENDIF_TAG"} :
          StateOK(state, parser.tokenType, formatTokens, parser.tokenNo, parser.ifTokenNo)
    BY <1>1, <1>7 DEF StateOK
  <2> QED BY <1>1, <1>7, <2>1, Skipped
<1> QED BY <1>3, <1>4, <1>5, <1>6, <1>7 DEF StartTag

(* The values of a tag: its column or record, and the offset.              *)
LEMMA ColumnOrRecordIdStep ==
  ASSUME ParserInv, ColumnId \/ RecordId
  PROVE  ParserInv'
<1>1. /\ parser.state \in {"COLUMN_ID", "RECORD_ID"}
      /\ parser.tokenType \in {"VALUE", "IF_RHS"}
      /\ parser.tokenType = "IF_RHS" => AfterLhs(formatTokens, parser.tokenNo)
  BY DEF ColumnId, RecordId, ParserInv, StateOK
<1>2. CASE \/ StoreValue(parser.tokenType, "COLUMN_ID", parser.number)
           \/ StoreValue(parser.tokenType, "RECORD_ID", 0)
  BY <1>1, <1>2, ValueStored
<1>3. CASE SetProperty([Current EXCEPT !.offset1 = TRUE])
  <2> DEFINE token == [Current EXCEPT !.offset1 = TRUE]
  <2>1. DOMAIN Current = TokenFields
    BY <1>1, CurrentShape
  <2>2. DOMAIN token = TokenFields /\ token.type = Current.type
    BY <2>1, SMT DEF TokenFields
  <2> QED BY <1>1, <1>3, <2>2, PropertySet
<1>4. CASE UpdateNumber
  BY <1>1, <1>4, NumberUpdated
<1> QED BY <1>2, <1>3, <1>4 DEF ColumnId, RecordId

(* The other actions that only store a value, or read a digit of it.       *)
LEMMA OtherValueStep ==
  ASSUME ParserInv, NumRecords \/ ParentColumnId \/ IfLiteralValue
  PROVE  ParserInv'
<1>1. CASE NumRecords
  <2>1. parser.state = "NUM_RECORDS" /\ StoreValue("VALUE", "NUM_RECORDS", 0)
    BY <1>1 DEF NumRecords
  <2> QED BY <2>1, ValueStored
<1>2. CASE ParentColumnId
  <2>1. parser.state = "PARENT_COLUMN_ID"
    BY <1>2 DEF ParentColumnId
  <2>2. CASE StoreValue("VALUE", "PARENT_COLUMN_ID", parser.number)
    BY <2>1, <2>2, ValueStored
  <2>3. CASE UpdateNumber
    BY <2>1, <2>3, NumberUpdated
  <2> QED BY <1>2, <2>2, <2>3 DEF ParentColumnId
<1>3. CASE IfLiteralValue
  <2>1. /\ parser.state = "IF_LITERAL_VALUE" /\ parser.tokenType = "IF_RHS"
        /\ AfterLhs(formatTokens, parser.tokenNo)
    BY <1>3 DEF IfLiteralValue, ParserInv, StateOK
  <2>2. CASE StoreValue(parser.tokenType, "LITERAL", parser.number)
    BY <2>1, <2>2, ValueStored
  <2>3. CASE UpdateNumber
    BY <2>1, <2>3, NumberUpdated
  <2> QED BY <1>3, <2>2, <2>3 DEF IfLiteralValue
<1> QED BY <1>1, <1>2, <1>3

(* Every character keeps the list of tokens as the invariant has it.       *)
LEMMA ParserStep ==
  ASSUME ParserInv, ParserNext
  PROVE  ParserInv'
<1>1. CASE IfTagRightHandSide
  <2>1. parser.state = "IF_TAG_RIGHT_HAND_SIDE" /\ (Skip("RECORD_ID", 1) \/ Skip("COLUMN_ID", 1))
    BY <1>1 DEF IfTagRightHandSide
  <2>2. \A state \in {"RECORD_ID", "COLUMN_ID"} :
          StateOK(state, parser.tokenType, formatTokens, parser.tokenNo, parser.ifTokenNo)
    BY <2>1 DEF ParserInv, StateOK
  <2> QED BY <2>1, <2>2, Skipped
<1>2. CASE SyntaxError
  <2>1. parser.state # "HALTED" /\ Skip("HALTED", 0)
    BY <1>2 DEF SyntaxError
  <2> QED BY <2>1, Skipped
<1> QED BY <1>1, <1>2, PlainTextStep, OpeningBraceStep, StartTagStep, StartIfStep,
           ColumnOrRecordIdStep, OtherValueStep, LeftHandSideStep, ElseTagStep,
           EndifTagStep, FinishStep DEF ParserNext

(* A parsed list is complete, and so is each of its conditions.            *)
LEMMA ParserInvImpliesJumps == ParserInv => JumpsForward
<1> SUFFICES ASSUME ParserInv, Parsed PROVE JumpsForward
  BY DEF JumpsForward
<1> DEFINE n == parser.tokenNo
<1>1. ListOK(formatTokens, n, NOT_IN_IF_TAG) /\ n \in 0..MaxNumTokens
  BY DEF ParserInv, Parsed, StateOK, ListOK
<1>2. \A k \in TokenNos : k # NOT_IN_IF_TAG
  BY <1>1, MaxNumTokensType, SMT DEF TokenNos, NOT_IN_IF_TAG
<1>3. \A k \in Rhs : k - 1 \in Lhs
  BY <1>1, MaxNumTokensType, SMT DEF Rhs, Lhs, TokenNos, ListOK, KindsOK
<1>4. \A k \in Lhs :
        /\ formatTokens[k].endIndex \in (k + 1)..n
        /\ formatTokens[k].elseIndex \in {0} \union (k + 1)..formatTokens[k].endIndex
        /\ \A j \in Lhs : j > k => j >= formatTokens[k].endIndex
  BY <1>1, <1>2 DEF Lhs, TokenNos, ListOK, ClosedOK
<1> QED BY <1>1, <1>3, <1>4 DEF JumpsForward, TokenNos, ListOK, KindsOK

(* TemplateLanguage.h:29-35: a list of tokens that tl_parseFormat()        *)
(* returns is ended by an invalid token, its right hand sides stand behind *)
(* their left hand sides, and its conditions jump forward and do not       *)
(* overlap, whatever the format and however many tokens there is room for. *)
THEOREM ParsedListsJumpForward == Spec => []JumpsForward
<1>1. Init => ParserInv
  BY InitParserInv
<1>2. ParserInv /\ [Next]_vars => ParserInv'
  <2> SUFFICES ASSUME ParserInv, [Next]_vars PROVE ParserInv'
    OBVIOUS
  <2>1. CASE ParseFormat
    BY <2>1, ParserStep DEF ParseFormat
  <2>2. CASE UNCHANGED <<formatTokens, parser>>
    BY <2>2 DEF ParserInv
  <2>3. CASE WriteRecord \/ InterpretFormat \/ EditValue \/ Stopped \/ UNCHANGED vars
    BY <2>2, <2>3 DEF WriteRecord, InterpretFormat, EditValue, Stopped, vars
  <2> QED BY <2>1, <2>3 DEF Next
<1>3. ParserInv => JumpsForward
  BY ParserInvImpliesJumps
<1> QED BY <1>1, <1>2, <1>3, PTL DEF Spec

-----------------------------------------------------------------------------
(***************************************************************************)
(* The types of the parser.  The text of a token is of the format that has *)
(* been read so far, so both of its fields fit into eight bits.            *)
(***************************************************************************)
ParserStates ==
  {"PLAIN_TEXT", "START_TAG", "COLUMN_ID", "RECORD_ID", "NUM_RECORDS", "PARENT_COLUMN_ID",
   "IF_TAG_LEFT_HAND_SIDE", "IF_TAG_RIGHT_HAND_SIDE", "IF_LITERAL_VALUE", "ELSE_TAG",
   "ENDIF_TAG", "RETURNED", "HALTED"}

Parsers ==
  [state : ParserStates, i : 0..255, tokenNo : 0..MaxNumTokens, number : 0..255,
   ifTokenNo : 0..MaxNumTokens \union {NOT_IN_IF_TAG},
   operator : Operators \union {NoOperator}, tokenType : TokenTypes,
   txtStart : 0..255, txtLen : 0..255]

TypeInv ==
  /\ Len(format) \in 0..255
  /\ formatTokens \in [0..MaxNumTokens -> Tokens]
  /\ parser \in Parsers
  /\ parser.i <= Len(format) /\ parser.txtLen <= parser.i

(* A field of a token, or of the parser, is changed.                       *)
LEMMA TokenFieldSet ==
  ASSUME NEW token \in Tokens
  PROVE  /\ \A v \in TokenTypes : [token EXCEPT !.type = v] \in Tokens
         /\ \A v \in ValueTypes : [token EXCEPT !.valueType = v] \in Tokens
         /\ \A v \in 0..255 : [token EXCEPT !.number = v] \in Tokens
         /\ \A v \in BOOLEAN : [token EXCEPT !.leading0 = v] \in Tokens
         /\ \A v \in BOOLEAN : [token EXCEPT !.offset1 = v] \in Tokens
         /\ \A v \in BOOLEAN : [token EXCEPT !.asHex = v] \in Tokens
         /\ \A v \in 0..255 : [token EXCEPT !.start = v] \in Tokens
         /\ \A v \in 0..255 : [token EXCEPT !.length = v] \in Tokens
         /\ \A v \in 0..255 : [token EXCEPT !.elseIndex = v] \in Tokens
         /\ \A v \in 0..255 : [token EXCEPT !.endIndex = v] \in Tokens
         /\ \A v \in Operators \union {NoOperator} : [token EXCEPT !.ifOperator = v] \in Tokens
<1>1. \A v \in TokenTypes : [token EXCEPT !.type = v] \in Tokens
  BY DEF Tokens
<1>2. \A v \in ValueTypes : [token EXCEPT !.valueType = v] \in Tokens
  BY DEF Tokens
<1>3. \A v \in 0..255 : [token EXCEPT !.number = v] \in Tokens
  BY DEF Tokens
<1>4. \A v \in BOOLEAN : [token EXCEPT !.leading0 = v] \in Tokens
  BY DEF Tokens
<1>5. \A v \in BOOLEAN : [token EXCEPT !.offset1 = v] \in Tokens
  BY DEF Tokens
<1>6. \A v \in BOOLEAN : [token EXCEPT !.asHex = v] \in Tokens
  BY DEF Tokens
<1>7. \A v \in 0..255 : [token EXCEPT !.start = v] \in Tokens
  BY DEF Tokens
<1>8. \A v \in 0..255 : [token EXCEPT !.length = v] \in Tokens
  BY DEF Tokens
<1>9. \A v \in 0..255 : [token EXCEPT !.elseIndex = v] \in Tokens
  BY DEF Tokens
<1>10. \A v \in 0..255 : [token EXCEPT !.endIndex = v] \in Tokens
  BY DEF Tokens
<1>11. \A v \in Operators \union {NoOperator} : [token EXCEPT !.ifOperator = v] \in Tokens
  BY DEF Tokens
<1> QED BY <1>1, <1>2, <1>3, <1>4, <1>5, <1>6, <1>7, <1>8, <1>9, <1>10, <1>11

LEMMA ParserFieldSet ==
  ASSUME NEW p \in Parsers
  PROVE  /\ \A v \in ParserStates : [p EXCEPT !.state = v] \in Parsers
         /\ \A v \in 0..255 : [p EXCEPT !.i = v] \in Parsers
         /\ \A v \in 0..MaxNumTokens : [p EXCEPT !.tokenNo = v] \in Parsers
         /\ \A v \in 0..255 : [p EXCEPT !.number = v] \in Parsers
         /\ \A v \in 0..MaxNumTokens \union {NOT_IN_IF_TAG} : [p EXCEPT !.ifTokenNo = v] \in Parsers
         /\ \A v \in Operators \union {NoOperator} : [p EXCEPT !.operator = v] \in Parsers
         /\ \A v \in TokenTypes : [p EXCEPT !.tokenType = v] \in Parsers
         /\ \A v \in 0..255 : [p EXCEPT !.txtStart = v] \in Parsers
         /\ \A v \in 0..255 : [p EXCEPT !.txtLen = v] \in Parsers
<1>1. \A v \in ParserStates : [p EXCEPT !.state = v] \in Parsers
  BY DEF Parsers
<1>2. \A v \in 0..255 : [p EXCEPT !.i = v] \in Parsers
  BY DEF Parsers
<1>3. \A v \in 0..MaxNumTokens : [p EXCEPT !.tokenNo = v] \in Parsers
  BY DEF Parsers
<1>4. \A v \in 0..255 : [p EXCEPT !.number = v] \in Parsers
  BY DEF Parsers
<1>5. \A v \in 0..MaxNumTokens \union {NOT_IN_IF_TAG} : [p EXCEPT !.ifTokenNo = v] \in Parsers
  BY DEF Parsers
<1>6. \A v \in Operators \union {NoOperator} : [p EXCEPT !.operator = v] \in Parsers
  BY DEF Parsers
<1>7. \A v \in TokenTypes : [p EXCEPT !.tokenType = v] \in Parsers
  BY DEF Parsers
<1>8. \A v \in 0..255 : [p EXCEPT !.txtStart = v] \in Parsers
  BY DEF Parsers
<1>9. \A v \in 0..255 : [p EXCEPT !.txtLen = v] \in Parsers
  BY DEF Parsers
<1> QED BY <1>1, <1>2, <1>3, <1>4, <1>5, <1>6, <1>7, <1>8, <1>9

LEMMA InitTypeInv == Init => TypeInv
<1> SUFFICES ASSUME Init PROVE TypeInv
  OBVIOUS
<1>1. PICK old \in [0..MaxNumTokens -> Tokens] :
        formatTokens = [old EXCEPT ![0].type = "INVALID"]
  BY TemplateLanguageAssumption DEF Init, ParserInit
<1>2. formatTokens \in [0..MaxNumTokens -> Tokens]
  <2>1. 0 \in 0..MaxNumTokens /\ old[0] \in Tokens /\ "INVALID" \in TokenTypes
    BY MaxNumTokensType, SMT DEF TokenTypes
  <2> DEFINE first == [old[0] EXCEPT !.type = "INVALID"]
  <2>2. first \in Tokens
    BY <2>1, TokenFieldSet
  <2>3. formatTokens = [old EXCEPT ![0] = first]
    BY <1>1
  <2> HIDE DEF first
  <2> QED BY <2>2, <2>3
<1>3. Len(format) \in 0..255
  BY TextOutputAssumption DEF Init
<1>4. parser \in Parsers
  <2>1. /\ 0 \in 0..MaxNumTokens /\ 0 \in 0..255
        /\ "INVALID" \in TokenTypes /\ "PLAIN_TEXT" \in ParserStates
    BY MaxNumTokensType, SMT DEF TokenTypes, ParserStates
  <2> QED BY <2>1 DEF Init, ParserInit, Parsers
<1>5. parser.i = 0 /\ parser.txtLen = 0
  BY DEF Init, ParserInit
<1> QED BY <1>2, <1>3, <1>4, <1>5, SMT DEF TypeInv

LEMMA ParserFieldTypes ==
  ASSUME TypeInv
  PROVE  /\ DOMAIN parser = ParserFields
         /\ parser.state \in ParserStates /\ parser.i \in 0..255
         /\ parser.tokenNo \in 0..MaxNumTokens /\ parser.number \in 0..255
         /\ parser.ifTokenNo \in 0..MaxNumTokens \union {NOT_IN_IF_TAG}
         /\ parser.operator \in Operators \union {NoOperator}
         /\ parser.tokenType \in TokenTypes
         /\ parser.txtStart \in 0..255 /\ parser.txtLen \in 0..255
         /\ Current \in Tokens
<1>1. parser \in Parsers /\ formatTokens \in [0..MaxNumTokens -> Tokens]
  BY DEF TypeInv
<1>2. DOMAIN parser = ParserFields
  BY <1>1, SMT DEF Parsers, ParserFields
<1>3. /\ parser.state \in ParserStates /\ parser.i \in 0..255
      /\ parser.tokenNo \in 0..MaxNumTokens /\ parser.number \in 0..255
      /\ parser.ifTokenNo \in 0..MaxNumTokens \union {NOT_IN_IF_TAG}
      /\ parser.operator \in Operators \union {NoOperator}
      /\ parser.tokenType \in TokenTypes
      /\ parser.txtStart \in 0..255 /\ parser.txtLen \in 0..255
  BY <1>1 DEF Parsers
<1> QED BY <1>1, <1>2, <1>3 DEF Current

LEMMA StoredType ==
  ASSUME TypeInv, NEW STATE token, token \in Tokens
  PROVE  Stored(token) \in [0..MaxNumTokens -> Tokens]
<1>1. ASSUME NEW k \in 0..MaxNumTokens
      PROVE  [formatTokens[k] EXCEPT !.type = "INVALID"] \in Tokens
  <2>1. formatTokens[k] \in Tokens /\ "INVALID" \in TokenTypes
    BY DEF TypeInv, TokenTypes
  <2> QED BY <2>1, TokenFieldSet
<1> QED BY <1>1 DEF Stored, TypeInv

LEMMA ValueTokenType ==
  ASSUME TypeInv, NEW STATE type, type \in TokenTypes,
         NEW STATE valueType, valueType \in ValueTypes,
         NEW STATE number, number \in 0..255
  PROVE  ValueToken(type, valueType, number) \in Tokens
<1> DEFINE token1 == [Current EXCEPT !.type = type]
           token2 == [token1 EXCEPT !.valueType = valueType]
           token3 == [token2 EXCEPT !.number = number]
           operator == IF parser.operator = NoOperator THEN Current.ifOperator ELSE parser.operator
<1>1. Current \in Tokens
  BY ParserFieldTypes
<1>2. operator \in Operators \union {NoOperator}
  <2>1. Current.ifOperator \in Operators \union {NoOperator}
    BY <1>1 DEF Tokens
  <2> QED BY <2>1, ParserFieldTypes
<1>3. ValueToken(type, valueType, number) = [token3 EXCEPT !.ifOperator = operator]
  BY DEF ValueToken
<1>4. token1 \in Tokens
  BY <1>1, TokenFieldSet
<1> HIDE DEF token1
<1>5. token2 \in Tokens
  BY <1>4, TokenFieldSet
<1> HIDE DEF token2
<1>6. token3 \in Tokens
  BY <1>5, TokenFieldSet
<1> HIDE DEF token3, operator
<1> QED BY <1>2, <1>3, <1>6, TokenFieldSet

LEMMA TextTokenType == ASSUME TypeInv PROVE TextToken \in Tokens
<1> DEFINE token1 == [Current EXCEPT !.type = "TEXT"]
           token2 == [token1 EXCEPT !.start = parser.txtStart]
<1>1. Current \in Tokens /\ parser.txtStart \in 0..255 /\ parser.txtLen \in 0..255
  BY ParserFieldTypes
<1>2. TextToken = [token2 EXCEPT !.length = parser.txtLen]
  BY DEF TextToken
<1>3. token1 \in Tokens
  BY <1>1, TokenFieldSet DEF TokenTypes
<1> HIDE DEF token1
<1>4. token2 \in Tokens
  BY <1>1, <1>3, TokenFieldSet
<1> HIDE DEF token2
<1> QED BY <1>1, <1>2, <1>4, TokenFieldSet

(* The digits are characters, and none of them is the end of the string.   *)
LEMMA ToSetOfDigits ==
  \A chr : IsNumber(chr) => chr # End /\ \E d \in 0..9 : DigitChars[d + 1] = chr
<1>1. ASSUME NEW chr, IsNumber(chr)
      PROVE  chr # End /\ \E d \in 0..9 : DigitChars[d + 1] = chr
  <2>1. PICK k \in DOMAIN DigitChars : chr = DigitChars[k]
    BY <1>1 DEF IsNumber, ToSet
  <2>2. k \in 1..10
    BY SMT DEF DigitChars
  <2>3. k - 1 \in 0..9 /\ (k - 1) + 1 = k
    BY <2>2, SMT
  <2>4. chr # End
    BY <2>1, <2>2, SMT DEF DigitChars, End
  <2> QED BY <2>1, <2>3, <2>4
<1> QED BY <1>1

LEMMA OperatorType == \A i : OperatorAt(i) \in Operators \union {NoOperator}
BY DEF OperatorAt, OperatorStart, Operators, NoOperator

(* A character that is not the end of the string stands in it.             *)
LEMMA CharInFormat ==
  ASSUME Len(format) \in Nat, NEW STATE i, i \in Nat, At(i) # End
  PROVE  i + 1 <= Len(format)
BY SMT DEF At

LEMMA Lengths ==
  ASSUME TypeInv
  PROVE  /\ Len(format) \in Nat /\ Len(format) <= 255
         /\ parser.i \in Nat /\ parser.i <= Len(format)
         /\ parser.txtLen \in Nat /\ parser.txtLen <= parser.i
<1> DEFINE length == Len(format)
           i == parser.i
           txtLen == parser.txtLen
<1>1. length \in 0..255 /\ i \in 0..255 /\ txtLen \in 0..255 /\ i <= length /\ txtLen <= i
  BY ParserFieldTypes DEF TypeInv
<1> HIDE DEF length, i, txtLen
<1>2. /\ length \in Nat /\ length <= 255 /\ i \in Nat /\ i <= length
      /\ txtLen \in Nat /\ txtLen <= i
  BY <1>1, SMT
<1> QED BY <1>2 DEF length, i, txtLen

(* The parser some characters on, and behind the next one.                 *)
LEMMA GoToType ==
  ASSUME TypeInv, NEW STATE state, state \in ParserStates,
         NEW STATE m, m \in Nat, parser.i + m <= Len(format)
  PROVE  /\ GoTo(state, m) \in Parsers
         /\ GoTo(state, m).i = parser.i + m
         /\ GoTo(state, m).txtLen = parser.txtLen
         /\ GoTo(state, m).tokenNo = parser.tokenNo
         /\ GoTo(state, m).number = parser.number
         /\ GoTo(state, m).txtStart = parser.txtStart
         /\ parser.txtLen <= parser.i + m
<1> DEFINE moved == [parser EXCEPT !.state = state]
           length == Len(format)
           i == parser.i
           txtLen == parser.txtLen
<1>1. /\ length \in Nat /\ length <= 255 /\ i \in Nat /\ txtLen \in Nat /\ txtLen <= i
      /\ i + m <= length
  BY Lengths
<1>2. i + m \in 0..255 /\ txtLen <= i + m
  <2> HIDE DEF length, i, txtLen
  <2> QED BY <1>1, SMT
<1>3. moved \in Parsers
  BY ParserFieldSet DEF TypeInv
<1>4. DOMAIN parser = ParserFields
  BY ParserFieldTypes
<1>5. GoTo(state, m) = [moved EXCEPT !.i = parser.i + m]
  BY DEF GoTo
<1>6. GoTo(state, m) \in Parsers
  <2> HIDE DEF moved
  <2> QED BY <1>2, <1>3, <1>5, ParserFieldSet
<1>7. /\ GoTo(state, m).i = parser.i + m
      /\ GoTo(state, m).txtLen = parser.txtLen
      /\ GoTo(state, m).tokenNo = parser.tokenNo
      /\ GoTo(state, m).number = parser.number
      /\ GoTo(state, m).txtStart = parser.txtStart
  BY <1>4, SMT DEF GoTo, ParserFields
<1> QED BY <1>2, <1>6, <1>7

LEMMA NextCharacter ==
  ASSUME TypeInv, Chr # End
  PROVE  /\ parser.i + 1 <= Len(format) /\ 1 \in Nat
         /\ parser.i + 1 \in 1..255
<1> DEFINE length == Len(format)
           i == parser.i
<1>1. /\ length \in Nat /\ length <= 255 /\ i \in Nat /\ i + 1 <= length
  BY Lengths, CharInFormat DEF Chr
<1>2. i + 1 \in 1..255
  <2> HIDE DEF length, i
  <2> QED BY <1>1, SMT
<1> QED BY <1>1, <1>2, SMT

(* The invariant after a step.                                             *)
LEMMA NextTypeInv ==
  ASSUME TypeInv, UNCHANGED format, formatTokens' \in [0..MaxNumTokens -> Tokens],
         parser' \in Parsers, parser'.i <= Len(format), parser'.txtLen <= parser'.i
  PROVE  TypeInv'
BY DEF TypeInv

LEMMA TokenChangedType ==
  ASSUME TypeInv, NEW STATE k, NEW STATE token, k \in 0..MaxNumTokens => token \in Tokens
  PROVE  [formatTokens EXCEPT ![k] = token] \in [0..MaxNumTokens -> Tokens]
BY DEF TypeInv

-----------------------------------------------------------------------------
LEMMA SkipType ==
  ASSUME TypeInv, UNCHANGED format, NEW STATE state, state \in ParserStates,
         NEW STATE m, m \in Nat, parser.i + m <= Len(format), Skip(state, m)
  PROVE  TypeInv'
<1>1. parser' = GoTo(state, m) /\ UNCHANGED formatTokens
  BY DEF Skip
<1> QED BY <1>1, GoToType, NextTypeInv DEF TypeInv

LEMMA SetPropertyType ==
  ASSUME TypeInv, UNCHANGED format, Chr # End,
         NEW STATE token, token \in Tokens, SetProperty(token)
  PROVE  TypeInv'
<1>1. formatTokens' \in [0..MaxNumTokens -> Tokens]
  BY TokenChangedType DEF SetProperty
<1>2. parser' = GoTo(parser.state, 1)
  BY DEF SetProperty
<1>3. parser.state \in ParserStates
  BY ParserFieldTypes
<1> QED BY <1>1, <1>2, <1>3, NextCharacter, GoToType, NextTypeInv

LEMMA NumberType ==
  ASSUME UpdatesNumber, NEW STATE n, n = parser.number, n \in 0..255
  PROVE  MoreDigits(n, Chr) \in 0..255
<1> DEFINE digit == CHOOSE d \in 0..9 : DigitChars[d + 1] = Chr
<1>1. \E d \in 0..9 : DigitChars[d + 1] = Chr
  BY ToSetOfDigits DEF UpdatesNumber
<1>2. digit \in 0..9
  BY <1>1
<1>3. MoreDigits(n, Chr) = n * 10 + digit /\ MoreDigits(n, Chr) <= 255
  BY DEF MoreDigits, UpdatesNumber
<1> HIDE DEF digit
<1> QED BY <1>2, <1>3, SMT

LEMMA UpdateNumberType ==
  ASSUME TypeInv, UNCHANGED format, UpdateNumber
  PROVE  TypeInv'
<1> DEFINE moved == GoTo(parser.state, 1)
<1>1. Chr # End
  BY ToSetOfDigits DEF UpdateNumber, UpdatesNumber
<1>2. /\ moved \in Parsers /\ moved.i = parser.i + 1 /\ moved.txtLen = parser.txtLen
      /\ moved.number = parser.number /\ parser.txtLen <= parser.i + 1
      /\ parser.i + 1 <= Len(format)
  BY <1>1, NextCharacter, GoToType, ParserFieldTypes
<1>3. parser' = [moved EXCEPT !.number = MoreDigits(parser.number, Chr)]
  <2>1. parser' = [moved EXCEPT !.number = MoreDigits(@, Chr)]
    BY DEF UpdateNumber
  <2> QED BY <1>2, <2>1
<1>4. MoreDigits(parser.number, Chr) \in 0..255
  BY NumberType, ParserFieldTypes DEF UpdateNumber
<1>5. DOMAIN moved = ParserFields
  BY GoToFields, ParserFieldTypes
<1> HIDE DEF moved
<1>6. parser' \in Parsers
  BY <1>2, <1>3, <1>4, ParserFieldSet
<1>7. parser'.i = moved.i /\ parser'.txtLen = moved.txtLen
  BY <1>3, <1>5, SMT DEF ParserFields
<1> QED BY <1>2, <1>6, <1>7, NextTypeInv DEF UpdateNumber, TypeInv

LEMMA NextTokenNo ==
  ASSUME TypeInv, ~IsFull
  PROVE  parser.tokenNo + 1 \in 0..MaxNumTokens
<1> DEFINE n == parser.tokenNo
<1>1. n \in 0..MaxNumTokens /\ n # MaxNumTokens
  BY ParserFieldTypes DEF IsFull
<1> HIDE DEF n
<1>2. n + 1 \in 0..MaxNumTokens
  BY <1>1, MaxNumTokensType, SMT
<1> QED BY <1>2 DEF n

LEMMA StoreValueType ==
  ASSUME TypeInv, UNCHANGED format, NEW STATE type, type \in TokenTypes,
         NEW STATE valueType, valueType \in ValueTypes,
         NEW STATE number, number \in 0..255,
         StoreValue(type, valueType, number)
  PROVE  TypeInv'
<1> DEFINE moved == GoTo("PLAIN_TEXT", 1)
<1>1. /\ moved \in Parsers /\ moved.i = parser.i + 1 /\ moved.txtLen = parser.txtLen
      /\ moved.tokenNo = parser.tokenNo
      /\ parser.txtLen <= parser.i + 1 /\ parser.i + 1 <= Len(format)
  <2>1. Chr # End
    BY DEF StoreValue, End
  <2> QED BY <2>1, NextCharacter, GoToType DEF ParserStates
<1>2. DOMAIN moved = ParserFields
  BY GoToFields, ParserFieldTypes
<1>3. parser' = [moved EXCEPT !.tokenNo = parser.tokenNo + 1]
  <2>1. parser' = [moved EXCEPT !.tokenNo = @ + 1]
    BY DEF StoreValue
  <2> QED BY <1>1, <2>1
<1>4. formatTokens' \in [0..MaxNumTokens -> Tokens]
  BY ValueTokenType, StoredType DEF StoreValue
<1>5. parser.tokenNo + 1 \in 0..MaxNumTokens
  BY NextTokenNo DEF StoreValue
<1> HIDE DEF moved
<1>6. parser' \in Parsers
  BY <1>1, <1>3, <1>5, ParserFieldSet
<1>7. parser'.i = moved.i /\ parser'.txtLen = moved.txtLen
  BY <1>2, <1>3, SMT DEF ParserFields
<1> QED BY <1>1, <1>4, <1>6, <1>7, NextTypeInv

-----------------------------------------------------------------------------
(* One lemma for each action that does more than the ones above.           *)
LEMMA PlainTextType ==
  ASSUME TypeInv, UNCHANGED format, PlainText
  PROVE  TypeInv'
<1> DEFINE moved == GoTo("PLAIN_TEXT", 1)
           start == IF parser.txtLen = 0 THEN parser.i ELSE parser.txtStart
           next  == [moved EXCEPT !.txtStart = start]
<1>1. /\ moved \in Parsers /\ moved.i = parser.i + 1 /\ moved.txtLen = parser.txtLen
      /\ moved.txtStart = parser.txtStart /\ parser.i + 1 <= Len(format)
  <2>1. Chr # End
    BY DEF PlainText
  <2> QED BY <2>1, NextCharacter, GoToType DEF ParserStates
<1>2. DOMAIN moved = ParserFields
  BY GoToFields, ParserFieldTypes
<1>3. parser' = [next EXCEPT !.txtLen = parser.txtLen + 1]
  <2>1. parser' = [moved EXCEPT !.txtStart = IF parser.txtLen = 0 THEN parser.i ELSE @,
                                !.txtLen   = @ + 1]
    BY DEF PlainText
  <2> QED BY <1>1, <2>1
<1>4. start \in 0..255
  BY ParserFieldTypes
<1>5. parser.txtLen + 1 \in 0..255 /\ parser.txtLen + 1 <= parser.i + 1
  <2> DEFINE length == Len(format)
             i == parser.i
             txtLen == parser.txtLen
  <2>1. /\ length \in Nat /\ length <= 255 /\ i \in Nat /\ txtLen \in Nat /\ txtLen <= i
        /\ i + 1 <= length
    BY <1>1, Lengths
  <2> HIDE DEF length, i, txtLen
  <2>2. txtLen + 1 \in 0..255 /\ txtLen + 1 <= i + 1
    BY <2>1, SMT
  <2> QED BY <2>2 DEF i, txtLen
<1> HIDE DEF moved, start
<1>6. next \in Parsers /\ DOMAIN next = ParserFields /\ next.i = moved.i
  <2>1. next \in Parsers
    BY <1>1, <1>4, ParserFieldSet
  <2> QED BY <1>2, <2>1, SMT DEF ParserFields
<1> HIDE DEF next
<1>7. parser' \in Parsers
  BY <1>3, <1>5, <1>6, ParserFieldSet
<1>8. parser'.i = moved.i /\ parser'.txtLen = parser.txtLen + 1
  BY <1>3, <1>6, SMT DEF ParserFields
<1>9. formatTokens' \in [0..MaxNumTokens -> Tokens]
  BY DEF PlainText, TypeInv
<1> QED BY <1>1, <1>5, <1>7, <1>8, <1>9, NextTypeInv

LEMMA OpeningBraceType ==
  ASSUME TypeInv, UNCHANGED format, OpeningBrace
  PROVE  TypeInv'
<1> DEFINE tokens  == IF parser.txtLen > 0 THEN Stored(TextToken) ELSE formatTokens
           tokenNo == IF parser.txtLen > 0 THEN parser.tokenNo + 1 ELSE parser.tokenNo
           first   == [tokens[tokenNo] EXCEPT !.leading0 = FALSE]
           second  == [first EXCEPT !.offset1 = FALSE]
           third   == [second EXCEPT !.asHex = FALSE]
           moved   == GoTo("START_TAG", 1)
           parser1 == [moved EXCEPT !.tokenNo = tokenNo]
           parser2 == [parser1 EXCEPT !.txtLen = 0]
           parser3 == [parser2 EXCEPT !.number = 0]
<1>1. tokens \in [0..MaxNumTokens -> Tokens]
  BY TextTokenType, StoredType DEF TypeInv
<1>2. tokenNo \in 0..MaxNumTokens
  BY ParserFieldTypes, NextTokenNo DEF OpeningBrace
<1>3. /\ moved \in Parsers /\ moved.i = parser.i + 1 /\ parser.i + 1 <= Len(format)
      /\ parser.i + 1 \in 1..255
  <2>1. Chr # End
    BY DEF OpeningBrace, End
  <2> QED BY <2>1, NextCharacter, GoToType DEF ParserStates
<1>4. DOMAIN moved = ParserFields
  BY GoToFields, ParserFieldTypes
<1>5. /\ formatTokens' = [tokens EXCEPT ![tokenNo].leading0 = FALSE,
                                        ![tokenNo].offset1  = FALSE,
                                        ![tokenNo].asHex    = FALSE]
      /\ parser' = [parser3 EXCEPT !.operator = NoOperator]
  BY DEF OpeningBrace
<1> HIDE DEF tokens, tokenNo, moved
<1>6. third \in Tokens
  <2>1. first \in Tokens
    BY <1>1, <1>2, TokenFieldSet
  <2> HIDE DEF first
  <2>2. second \in Tokens
    BY <2>1, TokenFieldSet
  <2> HIDE DEF second
  <2> QED BY <2>2, TokenFieldSet
<1>7. formatTokens' \in [0..MaxNumTokens -> Tokens]
  <2>1. \A k \in 0..MaxNumTokens : formatTokens'[k] = IF k = tokenNo THEN third ELSE tokens[k]
    <3> DEFINE tokens1 == [tokens EXCEPT ![tokenNo] = first]
               tokens2 == [tokens1 EXCEPT ![tokenNo].offset1 = FALSE]
    <3>1. formatTokens' = [tokens2 EXCEPT ![tokenNo].asHex = FALSE]
      BY <1>5
    <3>2. /\ tokens1 = [k \in 0..MaxNumTokens |-> IF k = tokenNo THEN first ELSE tokens[k]]
          /\ tokens1[tokenNo] = first
      BY <1>1, <1>2
    <3> HIDE DEF tokens1, first
    <3>3. /\ tokens2 = [k \in 0..MaxNumTokens |-> IF k = tokenNo THEN second ELSE tokens[k]]
          /\ tokens2[tokenNo] = second
      BY <1>2, <3>2
    <3> HIDE DEF tokens2, second
    <3> QED BY <1>2, <3>1, <3>3
  <2>2. formatTokens' = [k \in 0..MaxNumTokens |-> formatTokens'[k]]
    BY <1>1, <1>2, <1>5
  <2> HIDE DEF third
  <2> QED BY <1>1, <1>6, <2>1, <2>2
<1>8. parser1 \in Parsers /\ DOMAIN parser1 = ParserFields /\ parser1.i = moved.i
  <2>1. parser1 \in Parsers
    BY <1>2, <1>3, ParserFieldSet
  <2> QED BY <1>4, <2>1, SMT DEF ParserFields
<1> HIDE DEF parser1
<1>9. 0 \in 0..255
  BY SMT
<1>10. /\ parser2 \in Parsers /\ DOMAIN parser2 = ParserFields
       /\ parser2.i = moved.i /\ parser2.txtLen = 0
  <2>1. parser2 \in Parsers
    BY <1>8, <1>9, ParserFieldSet
  <2> QED BY <1>8, <2>1, SMT DEF ParserFields
<1> HIDE DEF parser2
<1>11. /\ parser3 \in Parsers /\ DOMAIN parser3 = ParserFields
       /\ parser3.i = moved.i /\ parser3.txtLen = 0
  <2>1. parser3 \in Parsers
    BY <1>9, <1>10, ParserFieldSet
  <2> QED BY <1>10, <2>1, SMT DEF ParserFields
<1> HIDE DEF parser3
<1>12. parser' \in Parsers
  BY <1>5, <1>11, ParserFieldSet
<1>13. parser'.i = parser.i + 1 /\ parser'.txtLen = 0
  BY <1>3, <1>5, <1>11, SMT DEF ParserFields
<1>14. 0 <= parser.i + 1
  <2> DEFINE i == parser.i
  <2>1. i + 1 \in 1..255
    BY <1>3
  <2> HIDE DEF i
  <2>2. 0 <= i + 1
    BY <2>1, SMT
  <2> QED BY <2>2 DEF i
<1> QED BY <1>3, <1>7, <1>12, <1>13, <1>14, NextTypeInv

LEMMA StartTagType ==
  ASSUME TypeInv, UNCHANGED format, StartTag
  PROVE  TypeInv'
<1>1. CASE Chr \in {"&", "#"}
  <2> DEFINE state == IF Chr = "&" THEN "COLUMN_ID" ELSE "RECORD_ID"
             moved == GoTo(state, 1)
  <2>1. parser' = [moved EXCEPT !.tokenType = "VALUE"] /\ UNCHANGED formatTokens
    BY <1>1 DEF StartTag
  <2>2. Chr # End /\ state \in ParserStates /\ "VALUE" \in TokenTypes
    BY <1>1 DEF ParserStates, TokenTypes, End
  <2> HIDE DEF state
  <2>3. /\ moved \in Parsers /\ moved.i = parser.i + 1 /\ moved.txtLen = parser.txtLen
        /\ parser.txtLen <= parser.i + 1 /\ parser.i + 1 <= Len(format)
    BY <2>2, NextCharacter, GoToType
  <2>4. DOMAIN moved = ParserFields
    BY GoToFields, ParserFieldTypes
  <2> HIDE DEF moved
  <2>5. parser' \in Parsers
    BY <2>1, <2>2, <2>3, ParserFieldSet
  <2>6. parser'.i = moved.i /\ parser'.txtLen = moved.txtLen
    BY <2>1, <2>4, SMT DEF ParserFields
  <2> QED BY <2>1, <2>3, <2>5, <2>6, NextTypeInv DEF TypeInv
<1>2. CASE Chr \in {"o", "x"}
  <2>1. [Current EXCEPT !.leading0 = TRUE] \in Tokens /\ [Current EXCEPT !.asHex = TRUE] \in Tokens
    BY ParserFieldTypes, TokenFieldSet
  <2>2. \/ SetProperty([Current EXCEPT !.leading0 = TRUE])
        \/ SetProperty([Current EXCEPT !.asHex = TRUE])
    BY <1>2 DEF StartTag
  <2>3. Chr # End
    BY <1>2 DEF End
  <2> QED BY <2>1, <2>2, <2>3, SetPropertyType
<1>3. CASE Chr \in {"*", "^", ":", ";"}
  <2>1. \E state \in {"NUM_RECORDS", "PARENT_COLUMN_ID", "ELSE_TAG", "ENDIF_TAG"} : Skip(state, 1)
    BY <1>3 DEF StartTag
  <2>2. Chr # End
    BY <1>3 DEF End
  <2> QED BY <2>1, <2>2, NextCharacter, SkipType DEF ParserStates
<1> QED BY <1>1, <1>2, <1>3 DEF StartTag

LEMMA StartIfType ==
  ASSUME TypeInv, UNCHANGED format, StartIf
  PROVE  TypeInv'
<1> DEFINE n == parser.tokenNo
           first == [formatTokens[n] EXCEPT !.elseIndex = 0]
           second == [first EXCEPT !.endIndex = 0]
           moved == GoTo("IF_TAG_LEFT_HAND_SIDE", 2)
<1>1. /\ formatTokens' = [formatTokens EXCEPT ![n].elseIndex = 0, ![n].endIndex = 0]
      /\ parser' = [moved EXCEPT !.ifTokenNo = n]
      /\ At(parser.i + 1) # End /\ Chr # End
  BY DEF StartIf, End
<1>2. parser.i + 2 <= Len(format) /\ 2 \in Nat
  <2>1. parser.i + 1 \in Nat /\ Len(format) \in Nat
    BY <1>1, NextCharacter, Lengths, SMT
  <2>2. (parser.i + 1) + 1 <= Len(format)
    BY <1>1, <2>1, CharInFormat
  <2>3. (parser.i + 1) + 1 = parser.i + 2
    BY Lengths, SMT
  <2> QED BY <2>2, <2>3
<1>3. /\ moved \in Parsers /\ moved.i = parser.i + 2 /\ moved.txtLen = parser.txtLen
      /\ parser.txtLen <= parser.i + 2
  BY <1>2, GoToType DEF ParserStates
<1>4. DOMAIN moved = ParserFields
  BY GoToFields, ParserFieldTypes
<1>5. n \in 0..MaxNumTokens /\ formatTokens \in [0..MaxNumTokens -> Tokens] /\ 0 \in 0..255
  BY ParserFieldTypes DEF TypeInv
<1>6. second \in Tokens
  <2>1. first \in Tokens
    BY <1>5, TokenFieldSet
  <2> HIDE DEF first
  <2> QED BY <1>5, <2>1, TokenFieldSet
<1>7. formatTokens' \in [0..MaxNumTokens -> Tokens]
  <2> DEFINE tokens1 == [formatTokens EXCEPT ![n] = first]
  <2>1. formatTokens' = [tokens1 EXCEPT ![n].endIndex = 0]
    BY <1>1
  <2>2. /\ tokens1 = [k \in 0..MaxNumTokens |-> IF k = n THEN first ELSE formatTokens[k]]
        /\ tokens1[n] = first
    BY <1>5
  <2> HIDE DEF tokens1, first
  <2>3. formatTokens' = [k \in 0..MaxNumTokens |-> IF k = n THEN second ELSE formatTokens[k]]
    BY <1>5, <2>1, <2>2
  <2> HIDE DEF second
  <2> QED BY <1>5, <1>6, <2>3
<1> HIDE DEF moved
<1>8. parser' \in Parsers
  BY <1>1, <1>3, <1>5, ParserFieldSet
<1>9. parser'.i = moved.i /\ parser'.txtLen = moved.txtLen
  BY <1>1, <1>4, SMT DEF ParserFields
<1> QED BY <1>2, <1>3, <1>7, <1>8, <1>9, NextTypeInv

LEMMA LeftHandSideType ==
  ASSUME TypeInv, UNCHANGED format, IfTagLeftHandSide
  PROVE  TypeInv'
<1> DEFINE operator == OperatorAt(parser.i)
           next == parser.i + Len(operator)
           token == ValueToken("IF_LHS", "COLUMN_ID", parser.number)
           state == IF IsNumber(At(next)) THEN "IF_LITERAL_VALUE" ELSE "IF_TAG_RIGHT_HAND_SIDE"
<1>1. CASE StoreValue("IF_LHS", "COLUMN_ID", parser.number)
  BY <1>1, StoreValueType, ParserFieldTypes DEF TokenTypes, ValueTypes
<1>2. CASE UpdateNumber
  BY <1>2, UpdateNumberType
<1>3. CASE
        /\ operator # NoOperator /\ ~IsFull
        /\ formatTokens' = Stored(token)
        /\ parser' = [parser EXCEPT
                        !.state = IF IsNumber(At(next)) THEN "IF_LITERAL_VALUE"
                                  ELSE "IF_TAG_RIGHT_HAND_SIDE",
                        !.i = next, !.tokenNo = @ + 1, !.number = 0,
                        !.operator = operator, !.tokenType = "IF_RHS"]
  <2>1. /\ operator \in Operators \union {NoOperator} /\ next \in 0..255
        /\ next <= Len(format) /\ parser.i <= next
    <3>1. CASE At(parser.i) \in OperatorStart /\ At(parser.i + 1) = "="
      <4>1. Len(operator) = 2
        BY <3>1, SMT DEF OperatorAt
      <4>2. At(parser.i) # End /\ At(parser.i + 1) # End
        BY <3>1 DEF OperatorStart, End
      <4>3. parser.i + 1 \in Nat /\ parser.i \in Nat /\ Len(format) \in Nat /\ Len(format) <= 255
        BY <4>2, Lengths, SMT
      <4>4. (parser.i + 1) + 1 <= Len(format)
        BY <4>2, <4>3, CharInFormat
      <4>5. next = parser.i + 2
        BY <4>1
      <4> DEFINE i == parser.i
                 length == Len(format)
      <4>6. /\ i \in Nat /\ length \in Nat /\ length <= 255 /\ (i + 1) + 1 <= length
            /\ next = i + 2
        BY <4>3, <4>4, <4>5
      <4> HIDE DEF next, i, length
      <4>7. next \in 0..255 /\ next <= length /\ i <= next
        BY <4>6, SMT
      <4> QED BY <4>7, OperatorType DEF i, length
    <3>2. CASE ~(At(parser.i) \in OperatorStart /\ At(parser.i + 1) = "=")
      <4>1. operator = <<At(parser.i)>> /\ At(parser.i) \in {">", "<"}
        BY <1>3, <3>2 DEF OperatorAt
      <4>2. At(parser.i) # End
        BY <4>1 DEF End
      <4>3. parser.i \in Nat /\ Len(format) \in Nat /\ Len(format) <= 255
        BY Lengths
      <4>4. parser.i + 1 <= Len(format)
        BY <4>2, <4>3, CharInFormat
      <4>5. next = parser.i + 1
        BY <4>1, SMT
      <4> DEFINE i == parser.i
                 length == Len(format)
      <4>6. /\ i \in Nat /\ length \in Nat /\ length <= 255 /\ i + 1 <= length
            /\ next = i + 1
        BY <4>3, <4>4, <4>5
      <4> HIDE DEF next, i, length
      <4>7. next \in 0..255 /\ next <= length /\ i <= next
        BY <4>6, SMT
      <4> QED BY <4>7, OperatorType DEF i, length
    <3> QED BY <3>1, <3>2
  <2> DEFINE parser1 == [parser EXCEPT !.state = state]
             parser2 == [parser1 EXCEPT !.i = next]
             parser3 == [parser2 EXCEPT !.tokenNo = parser.tokenNo + 1]
             parser4 == [parser3 EXCEPT !.number = 0]
             parser5 == [parser4 EXCEPT !.operator = operator]
  <2>2. parser' = [parser5 EXCEPT !.tokenType = "IF_RHS"]
    BY <1>3
  <2>3. state \in ParserStates /\ 0 \in 0..255 /\ "IF_RHS" \in TokenTypes
    BY DEF ParserStates, TokenTypes
  <2>4. parser.tokenNo + 1 \in 0..MaxNumTokens
    BY <1>3, NextTokenNo
  <2>5. DOMAIN parser = ParserFields /\ parser \in Parsers
    BY ParserFieldTypes DEF TypeInv
  <2>6. formatTokens' \in [0..MaxNumTokens -> Tokens]
    <3>1. token \in Tokens
      BY ValueTokenType, ParserFieldTypes DEF TokenTypes, ValueTypes
    <3> HIDE DEF token
    <3> QED BY <1>3, <3>1, StoredType
  <2> HIDE DEF operator, next, state
  <2>7. parser'.i = next /\ parser'.txtLen = parser.txtLen
    BY <2>2, <2>5, SMT DEF ParserFields
  <2>8. parser1 \in Parsers
    BY <2>3, <2>5, ParserFieldSet
  <2> HIDE DEF parser1
  <2>9. parser2 \in Parsers
    BY <2>1, <2>8, ParserFieldSet
  <2> HIDE DEF parser2
  <2>10. parser3 \in Parsers
    BY <2>4, <2>9, ParserFieldSet
  <2> HIDE DEF parser3
  <2>11. parser4 \in Parsers
    BY <2>3, <2>10, ParserFieldSet
  <2> HIDE DEF parser4
  <2>12. parser5 \in Parsers
    BY <2>1, <2>11, ParserFieldSet
  <2> HIDE DEF parser5
  <2>13. parser' \in Parsers
    BY <2>2, <2>3, <2>12, ParserFieldSet
  <2>14. parser.txtLen <= next
    <3>1. parser.txtLen \in Nat /\ parser.i \in Nat /\ parser.txtLen <= parser.i
      BY Lengths
    <3> QED BY <2>1, <3>1, SMT
  <2> QED BY <2>1, <2>6, <2>7, <2>13, <2>14, NextTypeInv
<1> QED BY <1>1, <1>2, <1>3 DEF IfTagLeftHandSide

(* The jump indices are token numbers, and so of eight bits.               *)
LEMMA JumpIndexType ==
  ASSUME TypeInv, NEW STATE k
  PROVE  /\ [formatTokens EXCEPT ![k].elseIndex = parser.tokenNo] \in [0..MaxNumTokens -> Tokens]
         /\ [formatTokens EXCEPT ![k].endIndex = parser.tokenNo] \in [0..MaxNumTokens -> Tokens]
<1>1. parser.tokenNo \in 0..255
  <2> DEFINE n == parser.tokenNo
  <2>1. n \in 0..MaxNumTokens
    BY ParserFieldTypes
  <2> HIDE DEF n
  <2>2. n \in 0..255
    BY <2>1, MaxNumTokensType, SMT
  <2> QED BY <2>2 DEF n
<1>2. k \in 0..MaxNumTokens =>
        /\ [formatTokens[k] EXCEPT !.elseIndex = parser.tokenNo] \in Tokens
        /\ [formatTokens[k] EXCEPT !.endIndex = parser.tokenNo] \in Tokens
  BY <1>1, TokenFieldSet DEF TypeInv
<1> QED BY <1>2, TokenChangedType

LEMMA ElseTagType ==
  ASSUME TypeInv, UNCHANGED format, ElseTag
  PROVE  TypeInv'
<1>1. Chr # End /\ parser' = GoTo("PLAIN_TEXT", 1)
      /\ formatTokens' = [formatTokens EXCEPT ![parser.ifTokenNo].elseIndex = parser.tokenNo]
  BY DEF ElseTag, End
<1>2. /\ parser' \in Parsers /\ parser'.i = parser.i + 1 /\ parser'.txtLen = parser.txtLen
      /\ parser.txtLen <= parser.i + 1 /\ parser.i + 1 <= Len(format)
  BY <1>1, NextCharacter, GoToType DEF ParserStates
<1>3. formatTokens' \in [0..MaxNumTokens -> Tokens]
  BY <1>1, JumpIndexType
<1> QED BY <1>2, <1>3, NextTypeInv

LEMMA EndifTagType ==
  ASSUME TypeInv, UNCHANGED format, EndifTag
  PROVE  TypeInv'
<1> DEFINE moved == GoTo("PLAIN_TEXT", 1)
<1>1. Chr # End /\ parser' = [moved EXCEPT !.ifTokenNo = NOT_IN_IF_TAG]
      /\ formatTokens' = [formatTokens EXCEPT ![parser.ifTokenNo].endIndex = parser.tokenNo]
  BY DEF EndifTag, End
<1>2. /\ moved \in Parsers /\ moved.i = parser.i + 1 /\ moved.txtLen = parser.txtLen
      /\ parser.txtLen <= parser.i + 1 /\ parser.i + 1 <= Len(format)
  BY <1>1, NextCharacter, GoToType DEF ParserStates
<1>3. DOMAIN moved = ParserFields
  BY GoToFields, ParserFieldTypes
<1> HIDE DEF moved
<1>4. parser' \in Parsers
  BY <1>1, <1>2, ParserFieldSet
<1>5. parser'.i = moved.i /\ parser'.txtLen = moved.txtLen
  BY <1>1, <1>3, SMT DEF ParserFields
<1> QED BY <1>1, <1>2, <1>4, <1>5, JumpIndexType, NextTypeInv

LEMMA NoMove ==
  ASSUME TypeInv
  PROVE  0 \in Nat /\ parser.i + 0 = parser.i /\ parser.i + 0 <= Len(format)
BY Lengths, SMT

LEMMA FinishType ==
  ASSUME TypeInv, UNCHANGED format, Finish
  PROVE  TypeInv'
<1> DEFINE moved == GoTo("RETURNED", 0)
<1>1. CASE parser.txtLen > 0
  <2>1. parser' = [moved EXCEPT !.tokenNo = @ + 1] /\ formatTokens' = Stored(TextToken) /\ ~IsFull
    BY <1>1 DEF Finish
  <2>2. /\ moved \in Parsers /\ moved.i = parser.i /\ moved.txtLen = parser.txtLen
        /\ moved.tokenNo = parser.tokenNo
    BY NoMove, GoToType DEF ParserStates
  <2>3. DOMAIN moved = ParserFields
    BY GoToFields, ParserFieldTypes
  <2> HIDE DEF moved
  <2>4. parser' \in Parsers
    BY <2>1, <2>2, NextTokenNo, ParserFieldSet
  <2>5. parser'.i = moved.i /\ parser'.txtLen = moved.txtLen
    BY <2>1, <2>3, SMT DEF ParserFields
  <2>6. formatTokens' \in [0..MaxNumTokens -> Tokens]
    BY <2>1, TextTokenType, StoredType
  <2> QED BY <2>2, <2>4, <2>5, <2>6, NextTypeInv, Lengths
<1>2. CASE ~(parser.txtLen > 0)
  <2>1. Skip("RETURNED", 0)
    BY <1>2 DEF Finish
  <2> QED BY <2>1, NoMove, SkipType DEF ParserStates
<1> QED BY <1>1, <1>2

(* Every character keeps the types.                                        *)
LEMMA ParserStepType ==
  ASSUME TypeInv, UNCHANGED format, ParserNext
  PROVE  TypeInv'
<1>1. /\ parser.tokenType \in TokenTypes /\ parser.number \in 0..255 /\ 0 \in 0..255
      /\ {"VALUE", "IF_LHS"} \subseteq TokenTypes
      /\ ValueTypes = {"COLUMN_ID", "RECORD_ID", "NUM_RECORDS", "PARENT_COLUMN_ID", "LITERAL"}
  BY ParserFieldTypes DEF TokenTypes, ValueTypes
<1>2. [Current EXCEPT !.offset1 = TRUE] \in Tokens
  BY ParserFieldTypes, TokenFieldSet
<1>3. CASE UpdateNumber
  BY <1>3, UpdateNumberType
<1>4. CASE Chr = "+" /\ SetProperty([Current EXCEPT !.offset1 = TRUE])
  BY <1>2, <1>4, SetPropertyType DEF End
<1>5. CASE ColumnId
  BY <1>1, <1>3, <1>4, <1>5, StoreValueType DEF ColumnId
<1>6. CASE RecordId
  BY <1>1, <1>4, <1>6, StoreValueType DEF RecordId
<1>7. CASE NumRecords
  BY <1>1, <1>7, StoreValueType DEF NumRecords
<1>8. CASE ParentColumnId
  BY <1>1, <1>3, <1>8, StoreValueType DEF ParentColumnId
<1>9. CASE IfLiteralValue
  BY <1>1, <1>3, <1>9, StoreValueType DEF IfLiteralValue
<1>10. CASE IfTagRightHandSide
  <2>1. Chr # End /\ (Skip("RECORD_ID", 1) \/ Skip("COLUMN_ID", 1))
    BY <1>10 DEF IfTagRightHandSide, End
  <2> QED BY <2>1, NextCharacter, SkipType DEF ParserStates
<1>11. CASE SyntaxError
  <2>1. Skip("HALTED", 0)
    BY <1>11 DEF SyntaxError
  <2> QED BY <2>1, NoMove, SkipType DEF ParserStates
<1> QED BY <1>5, <1>6, <1>7, <1>8, <1>9, <1>10, <1>11, PlainTextType, OpeningBraceType,
           StartTagType, StartIfType, LeftHandSideType, ElseTagType, EndifTagType,
           FinishType DEF ParserNext

LEMMA TypeInvImpliesTypes == TypeInv => ParserTypeOK
<1> SUFFICES ASSUME TypeInv PROVE ParserTypeOK
  OBVIOUS
<1> DEFINE i == parser.i
           length == Len(format)
<1>1. i \in Nat /\ length \in Nat /\ i <= length
  BY Lengths
<1> HIDE DEF i, length
<1>2. i \in 0..(length + 1)
  BY <1>1, SMT
<1> QED BY <1>2, ParserFieldTypes DEF TypeInv, ParserTypeOK, i, length

(* tl_parseFormat() writes no token behind its list but the one that is    *)
(* being read, and what it stores in a token fits into its eight bits: the *)
(* numbers, the jump indices, and the place and length of a text, for      *)
(* every format of at most 255 characters.                                 *)
THEOREM ParserTypesHold == Spec => []ParserTypeOK
<1>1. Init => TypeInv
  BY InitTypeInv
<1>2. TypeInv /\ [Next]_vars => TypeInv'
  <2> SUFFICES ASSUME TypeInv, [Next]_vars PROVE TypeInv'
    OBVIOUS
  <2>1. CASE ParseFormat
    BY <2>1, ParserStepType DEF ParseFormat
  <2>2. CASE UNCHANGED <<format, formatTokens, parser>>
    BY <2>2 DEF TypeInv
  <2>3. CASE WriteRecord \/ InterpretFormat \/ EditValue \/ Stopped \/ UNCHANGED vars
    BY <2>2, <2>3 DEF WriteRecord, InterpretFormat, EditValue, Stopped, vars
  <2> QED BY <2>1, <2>3 DEF Next
<1>3. TypeInv => ParserTypeOK
  BY TypeInvImpliesTypes
<1> QED BY <1>1, <1>2, <1>3, PTL DEF Spec
=============================================================================
