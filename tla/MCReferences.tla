----------------------------- MODULE MCReferences -----------------------------
(***************************************************************************)
(* References with up to two records that refer to up to three.            *)
(***************************************************************************)
EXTENDS References
=============================================================================
