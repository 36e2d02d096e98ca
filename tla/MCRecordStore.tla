--------------------------- MODULE MCRecordStore ----------------------------
(***************************************************************************)
(* RecordStore on a table of three records: the smallest in which a record *)
(* can be inserted and deleted in the middle, with a full index behind it. *)
(* Two contents besides the erased one tell the records apart.             *)
(***************************************************************************)
EXTENDS RecordStore

CONSTANTS erased, zero, a
=============================================================================
