--------------------------- MODULE MCTableCatalog ----------------------------
(***************************************************************************)
(* TableCatalog with the 8192 bytes of the repository's fake EEPROM        *)
(* (test/mocks/EeHwX86.h).                                                 *)
(***************************************************************************)
EXTENDS TableCatalog

Shape(maxNumRecords, recordSize) == [max |-> maxNumRecords, size |-> recordSize]

(* A host with real table sizes.  The last byte of its first schema is the *)
(* last byte of the EEPROM; that of the second lies one byte behind it.    *)
Host ==
  [asserts |-> TRUE, maxCuts |-> 0,
   schemas |-> {<<Shape(250, 31), Shape(87, 1)>>,
                <<Shape(250, 31), Shape(35, 4)>>,
                <<Shape(1, 1)>>,
                <<Shape(2, 2), Shape(1, 3), Shape(3, 1)>>}]

(* A target with small tables: the bytes a power cut can come between are  *)
(* those of the catalog, whatever the size of the areas.                   *)
Target ==
  [asserts |-> FALSE, maxCuts |-> 2,
   schemas |-> {<<Shape(2, 3)>>, <<Shape(2, 1), Shape(3, 2)>>}]

HostAndTarget == {Host, Target}

(* What the theorems about every schema suppose.                           *)
ASSUME MCSchemasFit == SchemasFit
=============================================================================
