---------------------------- MODULE MCColumnValues ----------------------------
(***************************************************************************)
(* ColumnValues on two tables.  The first has a column of one bit, of the *)
(* full sixteen with seven bits waiting before it, one with steps, and two *)
(* virtual ones: one of no bits, and one that takes bits all the same, as  *)
(* those of type BDB_COLUMN_TXT_LIST_CLONE may.  The second has three      *)
(* record types of different sizes.                                        *)
(***************************************************************************)
EXTENDS ColumnValues

Column(min, max, step) ==
  [min |-> min, max |-> max, step |-> step, default |-> min, virtual |-> FALSE]
Virtual(max) == [Column(0, max, 1) EXCEPT !.virtual = TRUE]
RecordType   == Column(0, 2, 1)

WideTable ==
  << <<Column(10, 1000, 10), Column(0, 65535, 1), Column(3, 4, 1),
       Virtual(4), Virtual(0)>> >>
TypedTable ==
  << <<RecordType, Column(0, 3, 1), Column(5, 20, 5)>>,
     <<RecordType, Column(5, 8, 1)>>,
     <<RecordType, Column(0, 1024, 1), Column(8, 24, 8), Virtual(0)>> >>

MCTables == {WideTable, TypedTable}

Half(column) == 2 ^ NumBitsOfColumn(column) \div 2     \* the highest bit

MCSamples(column) ==
  ({column.min + Half(column) * column.step, column.min - 1, column.max, column.max + 1}
     \union IF column.step > 1 THEN {column.min + 1} ELSE {}) \ {-1, W}

(* Valid records, and two that are not.                                    *)
MCData(table) ==
  IF table = WideTable
  THEN {<<1000, 65534, 4, 0, 0>>, <<1000, 65535, 2, 0, 0>>}
  ELSE {<<0, 3, 20>>, <<0, 3, 6>>, <<1, 9>>, <<2, 1024, 24, 0>>}

(* Single steps, or in a long range half of it; and the extremes.          *)
MCDeltas(column) ==
  LET delta == IF Half(column) \in 16..16384 THEN Half(column) ELSE 1
  IN {-32768, -delta, delta, 32767}
=============================================================================
