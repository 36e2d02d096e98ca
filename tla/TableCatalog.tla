---------------------------- MODULE TableCatalog -----------------------------
(***************************************************************************)
(* The life of a record store in the EEPROM: src/RecordStore.c from        *)
(* rs_tryToOpenRecordStore() over rs_createTable() to rs_commitTables(),   *)
(* with the byte addresses that this lays out, and across power cuts.      *)
(*                                                                         *)
(* The EEPROM is a function from the addresses that have been written, and *)
(* their bytes; every other byte holds EE_CLEAR_VALUE.  Addresses and area *)
(* sizes are 16 bits wide, as eeAddress_t is.                              *)
(***************************************************************************)
EXTENDS Naturals, Sequences, SequencesExt, FiniteSetsExt

CONSTANTS
  EESize,               \* EEPROM_SIZE
  AbsentByte,           \* what reading beyond the EEPROM gives
  Devices               \* the devices considered: each with
                        \* schemas: the schemas its firmware may be built with,
                        \*   sequences of [max |-> maxNumRecords,
                        \*                 size |-> recordSize]
                        \* asserts: assertEeAddressExists() is real, and not
                        \*   the dummy of target hardware
                        \* maxCuts: how often its power may fail while the
                        \*   EEPROM is written

W == 65536              \* eeAddress_t is a uint16_t

ASSUME TableCatalogAssumption ==
  /\ EESize \in 1..W
  /\ AbsentByte \in 0..255
  /\ \A d \in Devices :
       /\ d.asserts \in BOOLEAN
       /\ d.maxCuts \in Nat
       /\ \A s \in d.schemas :
            s \in Seq([max : 1..250, size : 1..250]) /\ Len(s) \in 1..250

VARIABLES
  device,       \* one of Devices
  ee,           \* the written bytes of the EEPROM
  schema,       \* the schema of the firmware in the device
  rows,         \* RAM: the TableCatalog, one row per table
  created,      \* RAM: how often this session has called rs_createTable()
  writes,       \* the bytes that rs_commitTables() has still to write
  cuts,         \* power cuts during writing so far
  status        \* "off", "clearing", "creating", "committing", "open", "halted"

vars == <<device, ee, schema, rows, created, writes, cuts, status>>

EE_CLEAR_VALUE         == 255
ADDR_NUM_TABLES        == 0
ADDR_TABLE_CATALOG     == 1
TABLE_CATALOG_ROW_SIZE == 6

NoRow == [index |-> 0, data |-> 0, size |-> 0, max |-> 0]    \* calloc()
Tables(rs) == 1..Len(rs)

ByteOf(mem, address) ==
  IF address >= EESize THEN AbsentByte
  ELSE IF address \in DOMAIN mem THEN mem[address]
  ELSE EE_CLEAR_VALUE

WordOf(mem, address) == ByteOf(mem, address) + 256 * ByteOf(mem, (address + 1) % W)

Written(mem, address, value) ==
  IF address >= EESize THEN mem
  ELSE IF value = EE_CLEAR_VALUE THEN [a \in DOMAIN mem \ {address} |-> mem[a]]
  ELSE [a \in DOMAIN mem \union {address} |-> IF a = address THEN value ELSE mem[a]]

TypeOK ==
  /\ DOMAIN ee \subseteq 0..(EESize - 1)
  /\ \A a \in DOMAIN ee : ee[a] \in 0..255
  /\ device \in Devices
  /\ schema \in device.schemas
  /\ \A t \in Tables(rows) :
       rows[t] \in [index : 0..(W - 1), data : 0..(W - 1), size : 0..255, max : 0..255]
  /\ created \in 0..Len(schema)
  /\ cuts \in 0..device.maxCuts
  /\ status \in {"off", "clearing", "creating", "committing", "open", "halted"}
  /\ status # "off" => Len(rows) = Len(schema)

Init ==
  /\ ee = [a \in {} |-> 0]
  /\ device \in Devices
  /\ schema \in device.schemas
  /\ rows = <<>>
  /\ created = 0
  /\ writes = <<>>
  /\ cuts = 0
  /\ status = "off"

-----------------------------------------------------------------------------
(***************************************************************************)
(* Opening.                                                                *)
(***************************************************************************)

DataAreaSize(row) == (row.size * row.max) % W

LoadedRow(mem, t) ==
  LET address == ADDR_TABLE_CATALOG + (t - 1) * TABLE_CATALOG_ROW_SIZE IN
  [index |-> WordOf(mem, address),
   data  |-> WordOf(mem, address + 2),
   size  |-> ByteOf(mem, address + 4),
   max   |-> ByteOf(mem, address + 5)]

(* loadTableCatalog() of n tables into the rows of a fresh catalog.        *)
LoadedRows(mem, n) ==
  [t \in 1..n |-> IF ByteOf(mem, ADDR_NUM_TABLES) = n THEN LoadedRow(mem, t) ELSE NoRow]

(* The addresses that getNumRecordsFromIndex() reads.                      *)
CountReads(mem, row) ==
  {(row.index + r) % W : r \in {s \in 0..(row.max - 1) :
     \A q \in 0..(s - 1) : ByteOf(mem, (row.index + q) % W) # 255}}

(* The address at which isTableCatalogValid() expects table t, and behind  *)
(* the last table one more.                                                *)
Expected(rs) ==
  LET at[t \in 1..(Len(rs) + 1)] ==
        IF t = 1 THEN ADDR_TABLE_CATALOG + Len(rs) * TABLE_CATALOG_ROW_SIZE + 1
        ELSE (at[t - 1] + rs[t - 1].max + 1 + DataAreaSize(rs[t - 1]) + 1) % W
  IN at

IsSeparator(mem, address) == ByteOf(mem, (address + W - 1) % W) = 0

(* isTableCatalogValid() once the number of tables has been compared.      *)
IsValidUnclosed(mem, rs) ==           \* mutant: last closing byte not checked
  \A t \in Tables(rs) :
    /\ rs[t].index = Expected(rs)[t]
    /\ IsSeparator(mem, rs[t].index)
    /\ rs[t].data = (rs[t].index + rs[t].max + 1) % W
    /\ IsSeparator(mem, rs[t].data)

IsValidUnshifted(mem, rs) ==          \* mutant: looks behind each separator
  /\ \A t \in Tables(rs) :
       /\ rs[t].index = Expected(rs)[t]
       /\ ByteOf(mem, rs[t].index) = 0
       /\ rs[t].data = (rs[t].index + rs[t].max + 1) % W
       /\ ByteOf(mem, rs[t].data) = 0
  /\ IsSeparator(mem, Expected(rs)[Len(rs) + 1])

IsValid(mem, rs) ==
  /\ \A t \in Tables(rs) :
       /\ rs[t].index = Expected(rs)[t]
       /\ IsSeparator(mem, rs[t].index)
       /\ rs[t].data = (rs[t].index + rs[t].max + 1) % W
       /\ IsSeparator(mem, rs[t].data)
  /\ IsSeparator(mem, Expected(rs)[Len(rs) + 1])

(* Reading a byte that does not exist fails an assert where there is one.  *)
(* Counting records does that; the bytes isTableCatalogValid() reads exist *)
(* in every catalog whose rs_commitTables() was not interrupted.           *)
LoadHalts(mem, rs) ==
  /\ device.asserts
  /\ ByteOf(mem, ADDR_NUM_TABLES) = Len(rs)
  /\ \E t \in Tables(rs) : \E a \in CountReads(mem, rs[t]) : a >= EESize

TryToOpenUncleared ==                 \* mutant: no eeClear()
  /\ status = "off"
  /\ LET loaded == LoadedRows(ee, Len(schema)) IN
       /\ rows' = loaded
       /\ status' = IF LoadHalts(ee, loaded) THEN "halted"
                    ELSE IF /\ ByteOf(ee, ADDR_NUM_TABLES) = Len(schema)
                            /\ IsValid(ee, loaded)
                    THEN "open"
                    ELSE "creating"
  /\ UNCHANGED <<ee, device, schema, created, writes, cuts>>

(* rs_tryToOpenRecordStore(), up to eeClear().                             *)
TryToOpen ==
  /\ status = "off"
  /\ LET loaded == LoadedRows(ee, Len(schema)) IN
       /\ rows' = loaded
       /\ status' = IF LoadHalts(ee, loaded) THEN "halted"
                    ELSE IF /\ ByteOf(ee, ADDR_NUM_TABLES) = Len(schema)
                            /\ IsValid(ee, loaded)
                    THEN "open"
                    ELSE "clearing"
  /\ UNCHANGED <<ee, device, schema, created, writes, cuts>>

(* eeClear() erases upwards; bytes that hold EE_CLEAR_VALUE are skipped.   *)
ClearByte ==
  /\ status = "clearing"
  /\ DOMAIN ee # {}
  /\ ee' = [a \in DOMAIN ee \ {Min(DOMAIN ee)} |-> ee[a]]
  /\ UNCHANGED <<device, schema, rows, created, writes, cuts, status>>

(* rs_tryToOpenRecordStore() returns false, and the caller creates tables. *)
OpenFailed ==
  /\ status = "clearing"
  /\ DOMAIN ee = {}
  /\ status' = "creating"
  /\ UNCHANGED <<ee, device, schema, rows, created, writes, cuts>>

-----------------------------------------------------------------------------
(***************************************************************************)
(* Creating.                                                               *)
(***************************************************************************)

RowForUnseparated(t, shape) ==        \* mutant: no byte between the two areas
  LET index == IF t > 1
               THEN (rows[t - 1].data + DataAreaSize(rows[t - 1]) + 1) % W
               ELSE Len(rows) * TABLE_CATALOG_ROW_SIZE + 2
  IN [index |-> index, data |-> (index + shape.max) % W,
      size |-> shape.size, max |-> shape.max]

(* The row that createTable() fills in, from the row before it.            *)
RowFor(t, shape) ==
  LET index == IF t > 1
               THEN (rows[t - 1].data + DataAreaSize(rows[t - 1]) + 1) % W
               ELSE Len(rows) * TABLE_CATALOG_ROW_SIZE + 2
  IN [index |-> index, data |-> (index + shape.max + 1) % W,
      size |-> shape.size, max |-> shape.max]

FreeRows == {t \in Tables(rows) : rows[t].max = 0}

(* rs_createTable() for the next table of the schema: its asserts.         *)
CreateTableHalts ==
  /\ status = "creating"
  /\ created < Len(schema)
  /\ \/ FreeRows = {}                               \* "too many tableIds"
     \/ LET row == RowFor(Min(FreeRows), schema[created + 1]) IN
          /\ FreeRows # {}
          /\ device.asserts
          /\ (row.data + DataAreaSize(row)) % W >= EESize
  /\ status' = "halted"
  /\ UNCHANGED <<ee, device, schema, rows, created, writes, cuts>>

CreateTable ==
  /\ status = "creating"
  /\ created < Len(schema)
  /\ FreeRows # {}
  /\ LET row == RowFor(Min(FreeRows), schema[created + 1]) IN
       /\ device.asserts => (row.data + DataAreaSize(row)) % W < EESize
       /\ rows' = [rows EXCEPT ![Min(FreeRows)] = row]
  /\ created' = created + 1
  /\ UNCHANGED <<ee, device, schema, writes, cuts, status>>

WordWrites(address, word) == <<<<address, word % 256>>, <<address + 1, word \div 256>>>>

RowWrites(rs, t) ==
  LET address == ADDR_TABLE_CATALOG + (t - 1) * TABLE_CATALOG_ROW_SIZE IN
  WordWrites(address, rs[t].index) \o WordWrites(address + 2, rs[t].data)
    \o << <<address + 4, rs[t].size>>, <<address + 5, rs[t].max>>,
          <<(rs[t].index + W - 1) % W, 0>>, <<(rs[t].data + W - 1) % W, 0>> >>

EndOf(rs) == (rs[Len(rs)].data + DataAreaSize(rs[Len(rs)])) % W

CatalogWritesUnsplit(rs) ==           \* mutant: addresses not split into bytes
  << <<ADDR_NUM_TABLES, Len(rs)>> >>
    \o FlattenSeq([t \in Tables(rs) |->
         << <<ADDR_TABLE_CATALOG + (t - 1) * TABLE_CATALOG_ROW_SIZE, rs[t].index>> >>
           \o Tail(RowWrites(rs, t))])
    \o << <<EndOf(rs), 0>> >>

(* The bytes that storeTableCatalog() writes, in their order.              *)
CatalogWrites(rs) ==
  << <<ADDR_NUM_TABLES, Len(rs)>> >>
    \o FlattenSeq([t \in Tables(rs) |-> RowWrites(rs, t)])
    \o << <<EndOf(rs), 0>> >>

(* rs_commitTables(), once every table has been created.                   *)
CommitTables ==
  /\ status = "creating"
  /\ created = Len(schema)
  /\ writes' = CatalogWrites(rows)
  /\ status' = "committing"
  /\ UNCHANGED <<ee, device, schema, rows, created, cuts>>

(* eeWriteUint8() of the next byte, with its assert.                       *)
CommitByte ==
  /\ status = "committing"
  /\ writes # <<>>
  /\ LET address == Head(writes)[1] IN
       IF device.asserts /\ address >= EESize
       THEN status' = "halted" /\ UNCHANGED <<ee, writes>>
       ELSE /\ ee' = Written(ee, address, Head(writes)[2])
            /\ writes' = Tail(writes)
            /\ UNCHANGED status
  /\ UNCHANGED <<device, schema, rows, created, cuts>>

Committed ==
  /\ status = "committing"
  /\ writes = <<>>
  /\ status' = "open"
  /\ UNCHANGED <<ee, device, schema, rows, created, writes, cuts>>

-----------------------------------------------------------------------------
(* What the calls of RecordStore.tla write into the areas of a table; one  *)
(* entry or byte at either end of an area stands for all of it.            *)
WriteTable(t) ==
  /\ status = "open"
  /\ \/ \E r \in {0, rows[t].max - 1}, slot \in {0, EE_CLEAR_VALUE} :
          ee' = Written(ee, (rows[t].index + r) % W, slot)
     \/ \E o \in {0, DataAreaSize(rows[t]) - 1}, byte \in {0, EE_CLEAR_VALUE} :
          ee' = Written(ee, (rows[t].data + o) % W, byte)
  /\ UNCHANGED <<device, schema, rows, created, writes, cuts, status>>

DeleteTableCatalog ==
  /\ status = "open"
  /\ ee' = Written(ee, ADDR_NUM_TABLES, 0)
  /\ UNCHANGED <<device, schema, rows, created, writes, cuts, status>>

(* The power fails, or is switched off and on after a failed assert.       *)
PowerDown ==
  /\ rows' = <<>>
  /\ created' = 0
  /\ writes' = <<>>
  /\ status' = "off"
  /\ UNCHANGED <<device, ee, schema>>

PowerCut ==
  /\ status \in {"clearing", "creating", "committing"}
  /\ cuts < device.maxCuts
  /\ cuts' = cuts + 1
  /\ PowerDown

SwitchOff == status = "open" /\ PowerDown /\ UNCHANGED cuts

Restart == status = "halted" /\ PowerDown /\ UNCHANGED cuts

(* New firmware is loaded.  "Changing the schema requires recreating the   *)
(* record store": the EEPROM must not hold a catalog of as many tables.    *)
LoadFirmware(s) ==
  /\ status = "off"
  /\ s # schema
  /\ ByteOf(ee, ADDR_NUM_TABLES) # Len(s)
  /\ schema' = s
  /\ UNCHANGED <<device, ee, rows, created, writes, cuts, status>>

Run ==
  \/ TryToOpen   \/ ClearByte         \/ OpenFailed
  \/ CreateTable \/ CreateTableHalts  \/ CommitTables \/ CommitByte \/ Committed

Next ==
  \/ Run
  \/ DeleteTableCatalog
  \/ PowerCut
  \/ SwitchOff
  \/ Restart
  \/ \E t \in Tables(rows) : WriteTable(t)
  \/ \E s \in device.schemas : LoadFirmware(s)

(* The code runs on while there is power, and a device that has halted is  *)
(* switched off and on again.                                              *)
Spec == Init /\ [][Next]_vars /\ WF_vars(Run) /\ WF_vars(Restart)

-----------------------------------------------------------------------------
(***************************************************************************)
(* Properties.                                                             *)
(***************************************************************************)

(* Where the tables of a schema lie if addresses do not wrap around, and   *)
(* two bytes behind its last table the address that the next would have.   *)
Layout(s) ==
  LET at[t \in 1..(Len(s) + 1)] ==
        IF t = 1 THEN Len(s) * TABLE_CATALOG_ROW_SIZE + 2
        ELSE at[t - 1] + s[t - 1].max + s[t - 1].size * s[t - 1].max + 2
  IN at

(* The schemas for which createTable() is meant: its assert compares the   *)
(* 16 bits that are left of an address, and target hardware has no assert. *)
SchemasFit ==
  \A d \in Devices : \A s \in d.schemas :
    Layout(s)[Len(s) + 1] <= (IF d.asserts THEN W ELSE EESize)

(* Whenever the store is open, by a commit or by opening what the EEPROM   *)
(* holds, each table has the shape the firmware asked for, and every byte  *)
(* of the catalog and of the separators is in the EEPROM: no half-written  *)
(* or half-erased catalog is ever taken for a whole one, and no write into *)
(* a table touches it.  Only rs_deleteTableCatalog() zeroes its first byte. *)
OpenMeansCommitted ==
  status = "open" =>
    /\ \A t \in Tables(schema) :
         rows[t].max = schema[t].max /\ rows[t].size = schema[t].size
    /\ LET bytes == CatalogWrites(rows) IN
         \A i \in DOMAIN bytes :
           \/ ByteOf(ee, bytes[i][1]) = bytes[i][2]
           \/ i = 1 /\ ByteOf(ee, ADDR_NUM_TABLES) = 0

(* A firmware that finds its own complete catalog opens it, and gets the   *)
(* addresses that it was committed with.                                   *)
HoldsCatalog(mem, rs) ==
  LET bytes == CatalogWrites(rs) IN
  \A i \in DOMAIN bytes : ByteOf(mem, bytes[i][1]) = bytes[i][2]

CommittedStoreReopens ==
  [][status = "off" /\ status' # "off"
       /\ ByteOf(ee, ADDR_NUM_TABLES) = Len(schema)
       /\ HoldsCatalog(ee, LoadedRows(ee, Len(schema)))
     => status' = "open"]_vars

(* The catalog, and each table with its separators, lie behind each other  *)
(* in the EEPROM without overlap.                                          *)
Extent(row) == [first |-> row.index - 1, last |-> row.data + row.size * row.max - 1]

AreasDisjoint ==
  status \in {"committing", "open"} =>
    LET area == [t \in Tables(rows) |-> Extent(rows[t])] IN
    /\ \A t \in Tables(rows) :
         /\ area[t].first > Len(rows) * TABLE_CATALOG_ROW_SIZE
         /\ rows[t].index + rows[t].max < rows[t].data
         /\ area[t].last + 1 < EESize
    /\ \A t, u \in Tables(rows) : t < u => area[t].last < area[u].first

(* However the power fails, a target device whose power no longer fails    *)
(* ends up with an open store, after a failed assert and a restart at      *)
(* worst.                                                                  *)
OpensAgain == []<>(status = "open" \/ device.asserts)
=============================================================================
