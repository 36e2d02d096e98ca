--------------------------- MODULE MCRecordBuffer ----------------------------
(***************************************************************************)
(* RecordBuffer on a table of four records of one column, in which a raw   *)
(* value is left over that the schema does not allow.  With fewer records  *)
(* no buffer can be two records behind an insertion.                       *)
(***************************************************************************)
EXTENDS RecordBuffer

CONSTANT c1

Record(value) == [c \in Columns |-> value]

DeltasOfOne == {-1, 1}

Imports ==
  {<<Record(1), Record(3), Record(2)>>, <<Record(2), Record(4), Record(1)>>, <<Record(4)>>}
=============================================================================
