------------------------------ MODULE TableView ------------------------------
(***************************************************************************)
(* What BitsOfData.h promises its caller about one table, with nothing     *)
(* said of a record buffer: a list of records that is never empty, of      *)
(* which the record used last may have a newer value than the EEPROM, and  *)
(* that comes back from the EEPROM when the database is opened again.      *)
(***************************************************************************)
EXTENDS Naturals, Sequences, SequencesExt

CONSTANTS
  MaxNumRecords,    \* BDB_tableT.maxNumRecords
  Records,          \* the records that conform to the schema
  DefaultRecord     \* the record of default values

VARIABLES
  records,          \* what the caller reads; record r is records[r + 1]
  persisted,        \* what the EEPROM holds
  open              \* TRUE while the database is open

vars == <<records, persisted, open>>

RecordIds == 0..(Len(records) - 1)

Init ==
  /\ records = <<DefaultRecord>>
  /\ persisted = <<DefaultRecord>>
  /\ open = TRUE

(* "Only persisted to non-volatile storage when another record in the same *)
(* table is accessed, or BDB_syncTable() is called": once r is accessed,   *)
(* every other record is persisted.                                        *)
PersistedBut(r) ==
  \E value \in {persisted[r + 1], records[r + 1]} :
    persisted' = [records EXCEPT ![r + 1] = value]

(* Reading a record, or a change that is refused.                          *)
Access(r) ==
  /\ open
  /\ PersistedBut(r)
  /\ UNCHANGED <<records, open>>

Set(r, record) ==
  /\ open
  /\ PersistedBut(r)
  /\ records' = [records EXCEPT ![r + 1] = record]
  /\ UNCHANGED open

(* The new record follows record r and holds the defaults.                 *)
InsertAfter(r) ==
  /\ open
  /\ Len(records) < MaxNumRecords
  /\ records' = InsertAt(records, r + 2, DefaultRecord)
  /\ persisted' = records'
  /\ UNCHANGED open

Delete(r) ==
  /\ open
  /\ Len(records) > 1
  /\ records' = RemoveAt(records, r + 1)
  /\ persisted' \in {RemoveAt(persisted, r + 1), records'}
  /\ UNCHANGED open

Import(data) ==
  /\ open
  /\ data # <<>>
  /\ records' = data
  /\ persisted' = data
  /\ UNCHANGED open

Sync ==
  /\ open
  /\ persisted' = records
  /\ UNCHANGED <<records, open>>

(* What is not persisted is lost.                                          *)
Close ==
  /\ open
  /\ open' = FALSE
  /\ records' = persisted
  /\ UNCHANGED persisted

Open ==
  /\ ~open
  /\ open' = TRUE
  /\ UNCHANGED <<records, persisted>>

Next ==
  \/ Sync
  \/ Close
  \/ Open
  \/ \E r \in RecordIds :
       \/ Access(r)
       \/ InsertAfter(r)
       \/ Delete(r)
       \/ \E record \in Records : Set(r, record)
  \/ \E n \in 1..MaxNumRecords : \E data \in [1..n -> Records] : Import(data)

Spec == Init /\ [][Next]_vars
=============================================================================
