----------------------------- MODULE RecordList -----------------------------
(***************************************************************************)
(* What RecordStore.h promises its caller about one table, with nothing    *)
(* said of slots, indices or bitmaps: the table is a list of at most       *)
(* MaxNumRecords raw records, kept while the store is closed, and every    *)
(* call changes exactly the record it names.                               *)
(***************************************************************************)
EXTENDS Naturals

CONSTANTS
  MaxNumRecords,    \* capacity of the table, fixed when it is created
  RawRecords        \* the possible contents of one record

MAX_NUM_RECORDS_REACHED == 255

VARIABLES
  records,          \* the list: a function from recordId to raw record
  size,             \* number of records in the list
  open,             \* TRUE while the store may be called
  lastRead,         \* what the last rs_getRawRecord of this session delivered
  returned          \* number returned by the last call of this session

vars == <<records, size, open, lastRead, returned>>

Init ==
  /\ records = [r \in {} |-> r]
  /\ size = 0
  /\ open = TRUE
  /\ lastRead \in RawRecords
  /\ returned = 0

-----------------------------------------------------------------------------

(***************************************************************************)
(* A record appears at position p and the records from p on move up by     *)
(* one.  "Newly created or freed records are not guaranteed to contain any *)
(* specific value", so its content is any.                                 *)
(***************************************************************************)
InsertAt(p) ==
  /\ open
  /\ size < MaxNumRecords
  /\ \E content \in RawRecords :
       records' = [r \in 0..size |-> IF r < p THEN records[r]
                                     ELSE IF r = p THEN content
                                     ELSE records[r - 1]]
  /\ size' = size + 1
  /\ returned' = p
  /\ UNCHANGED <<open, lastRead>>

Append == InsertAt(size)

InsertAfter(r) == r < size /\ InsertAt(r + 1)

Full ==
  /\ open
  /\ size = MaxNumRecords
  /\ returned' = MAX_NUM_RECORDS_REACHED
  /\ UNCHANGED <<records, size, open, lastRead>>

Delete(d) ==
  /\ open
  /\ d < size
  /\ records' = [r \in 0..(size - 2) |-> IF r < d THEN records[r]
                                         ELSE records[r + 1]]
  /\ size' = size - 1
  /\ UNCHANGED <<open, lastRead, returned>>

DeleteAll ==
  /\ open
  /\ records' = [r \in {} |-> r]
  /\ size' = 0
  /\ returned' = size
  /\ UNCHANGED <<open, lastRead>>

Set(s, content) ==
  /\ open
  /\ s < size
  /\ records' = [records EXCEPT ![s] = content]
  /\ UNCHANGED <<size, open, lastRead, returned>>

Get(g) ==
  /\ open
  /\ g < size
  /\ lastRead' = records[g]
  /\ UNCHANGED <<records, size, open, returned>>

Close ==
  /\ open
  /\ open' = FALSE
  /\ lastRead' \in RawRecords
  /\ returned' = 0
  /\ UNCHANGED <<records, size>>

Open ==
  /\ ~open
  /\ open' = TRUE
  /\ UNCHANGED <<records, size, lastRead, returned>>

Next ==
  \/ Append
  \/ Full
  \/ DeleteAll
  \/ Close
  \/ Open
  \/ \E r \in 0..(MaxNumRecords - 1) :
       \/ InsertAfter(r)
       \/ Delete(r)
       \/ Get(r)
       \/ \E content \in RawRecords : Set(r, content)

Spec == Init /\ [][Next]_vars
=============================================================================
