----------------------------- MODULE MCTextOutput -----------------------------
(***************************************************************************)
(* TextOutput on every sequence of at most two pieces, tags of every kind  *)
(* and conditions with every operator; and on pieces that only one of the  *)
(* readers takes, or none; over lists of tokens that earlier formats left. *)
(* The list of tokens is full at a text, a tag and a right hand side.  The *)
(* columns are of every type.                                              *)
(***************************************************************************)
EXTENDS TextOutput

Pieces ==
  {"a", "{&0}", "{o&0}", "{&2+}", "{x&1}", "{#}", "{o#+}", "{*}", "{^1}",
   "{?&0==&2}a{:}{&0}{;}", "{?&2!=#+}{#}{:}{;}", "{?&2>=#}{:}b{;}", "{?&2<&0}a{:}{&2}{;}"}

(* For one of the two readers, or for none.                                *)
OddPieces ==
  {"{?&0}a{;}", "{?&0>1}a{:}b{;}", "{?&0<=$1}a{:}b{;}", "{?&2>#}a{;}", "{?&2>#}{;}", "}", "{", "{q}",
   "{&256}", "{?&0=1}", "{?&0", "{?1}", "{:}", "{;}", "{*+}", "{#0}", "{^+}", "{?&0==&2}a",
   "{?&0==&2}{:}{:}{;}", "{?&0==&2}{?&0==&2}{;}{;}", "{?&0==!}", "{:a", "{;a", "{?&0==&2!}",
   "{?&0==$!}", "{?&0==#!}", "{?&0==1!}", "{&!}"}

ToChars(txt) == [i \in 1..Len(txt) |-> SubSeq(txt, i, i)]

MCFormats ==
  {ToChars(txt) : txt \in Pieces \union OddPieces \union {""}
                            \union {p \o q : p \in Pieces, q \in Pieces}
                            \union {"{?&2>=#}{:}b{;}" \o q : q \in OddPieces}}

(* The list of the first format, and lists that conditions with a text and *)
(* a "{:}{;}" left, from the first token on or from a later one, and tags  *)
(* with every property before them.                                        *)
OldToken(type, property, jump, operator) ==
  [type |-> type, valueType |-> "COLUMN_ID", number |-> 0,
   leading0 |-> property, offset1 |-> property, asHex |-> property,
   start |-> 0, length |-> 1, elseIndex |-> jump, endIndex |-> jump, ifOperator |-> operator]

MCOldLists ==
  {[k \in 0..MaxNumTokens |-> OldToken("INVALID", FALSE, 0, NoOperator)]}
  \union
  {[k \in 0..MaxNumTokens |->
      CASE (k + shift) % 3 = 0 -> OldToken("IF_LHS", TRUE, k + 3, NoOperator)
        [] (k + shift) % 3 = 1 -> OldToken("IF_RHS", TRUE, 0, <<"<">>)
        [] (k + shift) % 3 = 2 -> OldToken("TEXT", TRUE, 0, NoOperator)] : shift \in {0, 2}}

Column(type, max) ==
  [type |-> type, min |-> 0, max |-> max, default |-> 0, step |-> 5, shift |-> 0, table |-> 0, column |-> 0, refCol |-> 0,
   valueCol |-> 0, columnId |-> 0, firstChar |-> 0, length |-> 0, valueColumn |-> 0,
   list |-> <<>>, set |-> <<>>]
TxtList(list)       == [Column("TXT_LIST", Len(list) - 1) EXCEPT !.list = list]
Reference(max, t, c) == [Column("REFERENCE", max) EXCEPT !.table = t, !.column = c]
Decimal(max, shift) == [Column("DECIMAL", max) EXCEPT !.shift = shift, !.step = 1]
Character           == [Column("CHAR", 2) EXCEPT !.set = <<" ", "A", "B">>]

Names  == << <<"n", "o">>, <<"y", "e", "s">>, <<"?">> >>
Colors == << <<"r", "e", "d">>, <<"g">> >>

MainRecord(maxNumRecords) ==
  << Column("INTEGER", 120), Column("INTEGER", 65535),
     Reference(maxNumRecords - 1, BDB_SELF_REFERENCE, 0),
     Column("PERCENTAGE", 40), Column("INT_STEP", 95), Decimal(999, 1), Decimal(9, 2),
     Character, Character, Reference(1, 3, 1),
     [Column("TXT_LIST_COPY", 2) EXCEPT !.refCol = 9, !.columnId = 2],
     TxtList(Names), Reference(1, 3, 0),
     [Column("STRING", 0) EXCEPT !.firstChar = 7, !.length = 2],
     [Column("VIRTUAL", 0) EXCEPT !.refCol = 9, !.valueCol = 1],
     [Column("VIRTUAL", 0) EXCEPT !.refCol = 9, !.valueCol = 2],
     [Column("TXT_LIST_CLONE", 0) EXCEPT !.valueColumn = 11, !.list = Names] >>

(* The columns of a record, as the buffer holds them.                      *)
Record(values) == values \o <<INVALID_VALUE, INVALID_VALUE, INVALID_VALUE, INVALID_VALUE>>

(* Table 0 is the parent of tables 1 and 2; the records of table 3 are of  *)
(* two types, and those of one refer to table 0.                           *)
MCDatabase ==
  [types |-> (0 :> << <<[Column("CHILD_TABLE", 2) EXCEPT !.min = 1], Decimal(99, 2)>> >>)
          @@ (1 :> <<MainRecord(12)>>) @@ (2 :> <<MainRecord(250)>>)
          @@ (3 :> << <<Column("RECORD_TYPE", 1), Column("INTEGER", 20), TxtList(Names)>>,
                      <<Column("RECORD_TYPE", 1), Reference(1, 0, 1), TxtList(Colors)>> >>),
   max         |-> (0 :> 2) @@ (1 :> 12) @@ (2 :> 250) @@ (3 :> 2),
   parentTable |-> 0,
   parents     |-> (1 :> 0) @@ (2 :> 255),
   records |->
     (0 :> << <<1, 7>> >>)
  @@ (1 :> <<Record(<<0, 255, 0, 0, 0, 0, 0, 0, 1, 0, 0, 0, 0>>),
             Record(<<120, 41231, 1, 13, 95, 999, 9, 2, 0, 1, 1, 2, 1>>),
             Record(<<9, 0, 2, 40, 5, 80, 5, 1, 1, 0, 2, 1, 0>>)>>)
  @@ (2 :> <<Record(<<1, 65535, 0, 1, 10, 10, 1, 0, 0, 1, 0, 1, 0>>)>>)
  @@ (3 :> << <<0, 20, 1>>, <<1, 0, 0>> >>)]

MCPlaces ==
  {[table |-> 1, record |-> r] : r \in 0..2} \union {[table |-> 2, record |-> 0]}
=============================================================================
