----------------------------- MODULE MCParentChild ----------------------------
(***************************************************************************)
(* ParentChild with the child tables 2 to 4, which take two bits, so that  *)
(* one raw value names no child table, and with imports that leave child   *)
(* tables out and use one twice.                                           *)
(***************************************************************************)
EXTENDS ParentChild

Imports == {<<4, 2>>, <<3, 3, 2>>}
=============================================================================
