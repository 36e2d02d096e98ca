---------------------------- MODULE MCPowerLoss -----------------------------
(***************************************************************************)
(* PowerLoss on a table of three records of two bytes: three entries are   *)
(* enough to interrupt a deletion's shift in its middle, an insertion's    *)
(* between its two writes, and two bytes are enough to tear a record.      *)
(* Callers write one record, which differs from an erased one in every     *)
(* byte, so that a slot can be erased, torn or written.                    *)
(***************************************************************************)
EXTENDS PowerLoss

CONSTANTS erased, zero

AllZero == {[o \in 0..1 |-> zero]}
=============================================================================
