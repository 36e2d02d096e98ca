# A TLA+ model of BitsOfData

BitsOfData is a relational database for small embedded devices. A schema
compiled into the firmware describes tables, records and columns; the records
live in an external EEPROM; a template language prints records into a fixed text
buffer. The library is single-threaded C, called by one application, and nothing
interrupts it but the power. What makes it hard is not concurrency but state that
exists twice: an EEPROM that survives power cuts and RAM that is rebuilt from it;
a list of records and a bitmap that must agree with it; a write-back buffer per
table and the record it was read from; references from one table into another
and the positions they name.

Paths below are relative to the repository; `RecordStore.c`, `BitsOfData.c` and
so on are in `src/`, headers of the API in `include/`.

## The system

| component | state | operations | interacts with | correct when |
|---|---|---|---|---|
| Record store: records of a table (`RecordStore.c`) | EEPROM: a recordIndex and a data area per table. RAM: record count, bitmap of slots in use, read buffer | append, insert after, delete, delete all, set, get, open, close | EEPROM driver below, database above | a table is a list of records; a call changes the record it names, keeps the others in order and never fails an assert |
| Record store: power cuts (same calls, byte by byte) | the same, plus the call under way | the EEPROM writes of a call | EEPROM driver | wherever the power fails, what the call was not about survives |
| Record store: catalog and layout (`RecordStore.c`) | EEPROM: table catalog, separator bytes. RAM: the rows | try to open, create table, commit, delete catalog | firmware's schema, EEPROM driver | areas are disjoint; a committed catalog is found again; a half-written one never is |
| Database: record buffer (`BitsOfData.c`) | RAM: per table the number, the modified mark and the columns of one record | get, set, change, insert, delete, import, sync, open, close | record store, codec | the caller cannot tell that there is a buffer, except that the record used last may be lost with the power |
| Database: column values (`BitsOfData.c`) | the columns of a record, of the type that its first column says | set, change, set record | record store, codec | values conform to the schema; a change moves the value or ends at its limit |
| Database: references (`BitsOfData.c`) | columns that hold positions of records | the search before a deletion; the shift after insertion and deletion | every table's buffer | a reference names the record it was set to, and one that exists |
| Database: parent and child tables (`BitsOfData.c`) | RAM: ParentRecordList | assignment of child tables, rebuilding the list | record store, buffer | a child table leads to the record that names it |
| Record codec (`RecordCodec.c`) | none | encode, decode, sizes | schema | what was encoded comes back |
| Text output of values and records (`BitsOfData.c`) | the interpreter's position, state and condition | writeValue, writeRecord, writeHeader, writeRecordWithFormat | template language, column writer, buffer | the text is what the format says |
| Column writer (`WriteColumns.c`) | the string buffer and its cursor | write a number, a text or a character, set the position | text output | a number reads as what it was; no write past the buffer goes on |
| Template language (`TemplateLanguage.c`) | a list of tokens of fixed size | parse a format | will feed the text output (`TemplateLanguage.h:17`) | the tokens say what the format says, and their jumps go forward |
| Utilities (`utils/*.h`) | none | bit counts, limits, number formatting, operators | all of the above | their definitions |
| EEPROM driver (`src/EeHw.h`, fake in `test/mocks/EeHwX86.c`) | the bytes | read, write and clear bytes, words and arrays | record store | external; its use by `src/` is modelled |
| Schema validation (`test/mocks/ValidateDbaseSchema.c`) | none | asserts on the schema | opening, in debug builds | what the other parts take for granted of a schema is asserted |
| Record writer (`RecordWriter.c`) | none | none | nothing | a stub |

A call of the application goes into `BitsOfData.c`, which works on the record
buffer of a table; the buffer is filled and written back with `rs_getRawRecord()`
and `rs_setRawRecord()` by way of the codec; insertion and deletion go straight
to the record store and then, through `forEachReference()`, over the records of
every table. There are no callbacks into the application but the one for texts.

The behaviours that are hard to test are the hazards of `PROJECT.json`, each at
its line: long sequences of legal calls that end in a wrong bitmap, stale
buffers, power cuts between two bytes, 16-bit addresses, and references that
move while they are looked at.

Asserts are active in the builds of the repository's Makefile. A failed assert
is a state of the models, `"halted"`: the device does nothing more until it is
switched off and on again, which takes its RAM away.

## The modules

    RecordList <-implements- RecordStore <-implements- PowerLoss
    TableCatalog
    TableView  <-implements- RecordBuffer <-uses steps of- ParentChild
                                          <-uses steps of- References
    RecordCodec <-extends- ColumnValues
    FormatText <-extends- TemplateLanguage <-----------------+
    FormatText, WriteColumns,                                 +- TextOutput
    SchemaValidation <-extends- RecordFormat <---------------+

    RecordStoreProofs, PowerLossProofs, TableCatalogProofs, RecordBufferProofs,
    ReferencesProofs, ParentChildProofs, ColumnValuesProofs and TextOutputProofs
    extend the module they are named after, and hold all that they need.

Each `MC*` module gives the constants of the module that it is named after.

**RecordStore** is one table of `RecordStore.c`, one action per `rs_*` call.
`recordIndex` is the EEPROM's list of slots with the separator byte behind it,
`recordData` what each slot holds; `numRecords` and `recordInUse` are the RAM
copies that insertion and deletion keep up to date and that opening rebuilds.
`returned` is what the last insertion returned, and `recordDataBuffer` what the last
read delivered. A record is one value here. **RecordList** is what
`RecordStore.h` promises: a list of records with append, insert, delete, set, get.

**PowerLoss** takes the same calls apart into EEPROM writes. A call begins,
takes its loop's turns one at a time (`Continue`) and ends; a power cut between
any two leaves the EEPROM as it is and the RAM lost. While a call runs, its
abstract state is the one before it, so that the whole call is the last step.

**TableCatalog** is the catalog of all tables with real byte addresses modulo
65536: `rs_tryToOpenRecordStore()` with its validation and the erase that follows
a failure, `rs_createTable()` with its asserts, `rs_commitTables()` byte by byte
in the order of the code, and firmware that is replaced by firmware with another
number of tables. The EEPROM is a function from the addresses that have been
written. A device has a set of schemas, asserts or not, and a number of power
cuts that it may suffer.

**RecordBuffer** is one table of `BitsOfData.c`, over the list of raw records
that the record store promises: `stored` is that list, `buffer` the
`recordBufferT` of the table. The helpers `storeRecordBuffer()`,
`writeRecordBufferIfDirty()`, `fillRecordBuffer()` and
`setColumnsToDefaultValue()` are operators from a table to a table, and each
`BDB_*` call is an action made of them. **TableView** is what `BitsOfData.h`
promises: a list of records that is never empty, of which only the one used last
may differ from what the EEPROM holds.

**References** is two tables with their buffers, one whose records name records
of the other, and that other one, whose records name one another. The traversal
of `forEachReference()` is a function over the sequence of records it visits, and
moves the buffers as the code does.

**ParentChild** is the parent table and its records, with the record buffer of
`RecordBuffer` (`INSTANCE`, with the child table as the only column), and
`parentRecordList`, which `buildParentRecordList()` fills through that buffer.
Each call that rebuilds it, and opening, is an action. The power fails between two
calls (`CloseDataBase`) and within each (`CutDuringCreation`, `CutDuringInsertion`,
`CutDuringDeletion`, `CutDuringImport`): a call of the database is a sequence of calls
of the record store, and a record that is listed by one is written by a later one.

Power cuts are so modelled at three depths: `PowerLoss` and `TableCatalog` cut between two
bytes, `ParentChild` between two calls of the record store, and `RecordBuffer` and
`References` between two calls of the database only (and between the commit of the catalog
and the first record). What an insertion or an import that is cut leaves of a table is
thus not in `TableView`; it is what `IsTornInsertion` and `IsTornImport` of `ParentChild`
say.

**RecordCodec** encodes and decodes records through the 32-bit bit buffer, column
by column, and defines the packed record as one row of bits: operators only.
**ColumnValues** is the record buffer again, this time with what is inside: one
record of a table with steps, full 16-bit ranges, virtual columns and several
record types, `stored` as the bytes that `RecordCodec` makes of it, and
`rawRecord` for the one `RawRecordBuffer` that all tables share.
`BDB_changeValue()` is reckoned modulo 65536, with a sign, as int16_t is.

**FormatText** has what both readers of a format string share: its characters,
digits and operators. **TemplateLanguage** is `tl_parseFormat()`, one action per
state of its switch; `formatTokens` is the static array with one token behind it
for the memory that follows. It starts as any of `OldLists`, whose tokens have types, format
properties, jump indices and operators that earlier formats left; as in the code, only the
type of the first token is reset.
**WriteColumns** takes a string buffer with its cursor to the one after a number or
text has been written. **RecordFormat** is `writeValue()`, by column type and
through references, and `BDB_writeRecordWithFormat()`, one action per state of its
switch. **TextOutput** runs the two readers one after the other on a format, then
`BDB_writeValue()`, and says what the text should be: `FormatOf` is the format that
tokens stand for, and `Rendered` the text. **SchemaValidation** has the asserts of
`ValidateDbaseSchema.c`; `TextOutputAssumption` is that its schema passes them, and that no format has more
than 255 characters.

`RecordBuffer` assumes the `RecordList` that `RecordStore` implements for callers
that delete only records in their own slot; what other callers do to the store
(finding 1 below) is not repeated in it. It also assumes that a column comes
back from `RecordCodec` as it was, which `RoundTrip` shows (and `SpecRoundTrip` proves), cut
to its bits.
`RecordFormat` reads a database whose values do not change: reading moves record
buffers, and by `TableView` that changes no value.

## What is checked

Each row is one run. "Violation" runs show where the code does not do what one
of its own comments says.

| run | shows |
|---|---|
| `record_store` | For callers that delete only records in the slot of their own number: the count in RAM agrees with the index (`CountMatchesIndex`), the index is erased behind its last record (`IndexTerminated`), the bitmap is exact, no slot is shared, no assert fails, insertion and deletion keep the contents and the order of all other records (`EditsKeepOtherRecords`), and the store implements `RecordList`. |
| `record_store_alias` (violation) | Other deletions free the slot of a live record; a later insertion shares it, and `rs_setRawRecord()` changes two records (finding 1). |
| `power_loss` | A cut anywhere keeps all records the call is not about, in their order (`CutKeepsOtherRecords`), tears at most the record being written (`CutTearsOneRecord`), and the opening behind it finds a table of which all records are being deleted either whole or empty (`DeleteAllAtOnce`; later openings may find records again, see below). Calls that are not cut are those of `RecordStore`, also on what earlier cuts have left behind, and they end (`EveryCallEnds`). |
| `table_catalog` | The areas of a committed catalog lie apart and inside the EEPROM; an open store is a whole catalog; a whole catalog is opened by its firmware; and a target always gets an open store again (`OpensAgain`). |
| `record_buffer` | A caller that knows of the buffer gets `TableView`; an import keeps the valid records in front of invalid data, whatever was in the buffer (`ImportsValidPrefix`); no assert fails. |
| `record_buffer_delete` (violation) | A deletion leaves the deleted record in the buffer (finding 2). |
| `references` | Insertion and deletion leave every reference naming the record it named, wherever the buffers are, and none names a record that does not exist. |
| `references_delete` (violation) | A record that another record of its table refers to can be deleted (finding 3). |
| `parent_child` | While the database is open, a child table leads to the last record that names it, and one that none names leads nowhere (`ParentsUpToDate`), whatever was called and wherever the power failed, between two calls or within one; records keep their child tables when others come and go, but for a record that was listed and not yet written when the power failed, or two of an import (`ChildTablesFollow`); and opening fails only where a cut left no record, or such records with a value that is no child table (`HaltsOnlyTorn`). |
| `column_values` | Whatever is set or changed with whatever values, and whatever data is refused, buffer and store conform to the schema (`RecordConforms`); records come back from their bytes, which are those of the definition (`RoundTrip`); a record not marked as modified is stored (`CleanIsStored`); changes within int16_t end where they should and touch no other column (`ChangesTruncate`). |
| `column_values_change` (violation) | Beyond int16_t they do not (finding 4). |
| `text_output` | Whatever earlier formats left in the list of tokens, the jump indices of tokens go forward and conditions do not overlap (`JumpsForward`); the format can be told from its tokens (`TokensSayFormat`); the interpreter writes what the tokens stand for (`RendersTokens`), and of the values written by `BDB_writeValue()` the numbers read back as what they are, with the text around them untouched (`NumbersReadBack`); no index leaves its array without an assert (`TypeOK`, of which `ParserTypeOK` is about the parser and the 8 bits of what it stores). |

Every property of a passing run has a mutant: a changed definition, marked
`mutant` in the module, with which TLC finds the property violated.

### Bounds, and why they are enough

- `record_store`: three slots. The shortest path to a
  shared slot or to a leak takes two; three let a shift pass over an entry that
  is neither the first nor the last. The properties of these runs are proved for
  every capacity.
- `power_loss`: three records of two bytes. A deletion's shift can be cut in its
  middle, an insertion's between the shift and the new entry, a record torn.
  Callers write one record, which differs from an erased one in every byte, so
  that a slot is erased, torn or written.
- `table_catalog`: a host with asserts, real table sizes and a schema that ends
  at the last byte of 8192, one that ends behind it, and schemas with one and
  three tables; and a target without asserts, with small tables, because the
  bytes a cut can come between are those of the catalog, and two cuts, because
  the second can hit the erase that the first caused. Writes into tables are
  those to the ends of their areas.
- `record_buffer`: four records, as a buffer must be two records behind an
  insertion to be harmed by it; one column with three values in two bits, so that a raw
  value exists that the schema does not allow.
- `references`: two referring records, and three that they and one another refer
  to; raw records left in a slot take every value.
- `parent_child`: three child tables from number 2 on, which take two bits, so that a raw
  value exists that names no child table; a raw record left in a slot takes every value;
  imports that name a table twice and that leave tables out, of which the longer can be cut
  with one record written and two that are not. The properties of this run are proved
  for every range of child tables.
- `column_values`: columns of 1, 2, 3, 7, 11 and 16 bits, with steps of 5, 8 and
  10, virtual columns with and without bits, and record types of three sizes; the
  values at and outside the edges of each range, off its steps and at its highest
  bit, changes by one step and by the extremes of int16_t. The properties of this
  run are proved for every such table.
- `text_output`: every format of one or two of 13 pieces, which have all tags and
  conditions with `==`, `!=`, `>=` and `<`, and 28 pieces that one reader or none
  accepts; six tokens, which some formats fill exactly, and a buffer of 12
  characters, which some texts do; the list of a first format, and lists that conditions
  left, with all properties set and jump indices for more tokens than the format at hand
  has; a column of every type but RECORD_TYPE, with values of zero, in between and the
  largest; first and middle positions. The assert that a format is shorter than 256
  characters is out of reach.

Only `TableCatalog` counts something that is otherwise unbounded (`maxCuts`).

### Fairness

- `PowerLoss`: `WF_vars(Continue)`. A call that has begun runs on: its loops
  wait for nothing. It is used by `EveryCallEnds` only.
- `TableCatalog`: `WF_vars(Run)`, for the same reason and because firmware calls
  on after opening, and `WF_vars(Restart)`: someone switches a halted device off
  and on. Power cuts are bounded, so fairness need not exclude them.
  `OpensAgain` needs both. A host build is left out of it: on a schema that does
  not fit it halts at each start.

No other module has liveness properties: its calls are atomic, or, in
`TemplateLanguage` and `RecordFormat`, consume a character with each step.

## What is proved

The proofs are for every value of the constants that the module's `ASSUME` allows.
All of them go the same way: an inductive invariant, a lemma per action that it
is kept, and the property from the invariant. A loop of the code is a recursive function
in the model. What it computes is proved in closed form, for every number of turns,
by `SetInduction`, at the head of these modules (the set of the turns for which it holds
contains 0 and with each number the next, so it is `Nat`).

**Record store** (`RecordStoreProofs`; every `MaxNumRecords` from 1 to 250 and every set of
raw records):

- `IndexInvariant`: `IndexInv`, the conjunction of `TypeOK`, `CountMatchesIndex`,
  `IndexTerminated` and `SeparatorIntact`, is an invariant of `Spec`. No part is
  inductive alone: the count stays right when a record is appended only because
  no old entry lies behind the first 0xFF, and the index stays terminated only
  because the count says where its end is. `TypeCorrect`, `CountCorrect`
  and `IndexWellFormed` follow from it.
- `OtherRecordsKept`: `Spec => EditsKeepOtherRecords`. From `IndexInv`, a shift
  moves whole entries, so that contents follow their numbers even where two
  entries share a slot.
- `OwnSlotInvariant`: under `SpecOwnSlot`, `IndexInv` strengthened by
  `NoSharedSlot`, `BitmapExact` and `NeverHalted` is inductive. That the bitmap
  is exact makes the slot it gives away a new one; that no slot is shared makes
  clearing one bit right; and counting (`FreeSlotExists`: fewer than
  `MaxNumRecords` entries leave a slot) keeps the assert of `insertRecordAt()`
  from failing. `NoSlotShared`, `BitmapIsExact` and `InsertionNeverHalts` follow from it.
- `RecordListImplemented`: `SpecOwnSlot => ImplementsRecordList`, a step
  simulation from the same invariant.

**Power cuts** (`PowerLossProofs`; every capacity and every size of a record):
`CutInv` says for each call that is under way how far its loop has come: which entries
of the index have been moved, deleted or are still as they were before the call
(`call.before`), and which bytes of the record have been written. The state before
a call may have old entries behind the end of the list, which cut deletions
of all records leave there, so `CutInv` asks for no more than that the first
`numRecords` entries are slots (`Listed`). From it follow `SpecTypeOK`,
`SpecCutKeepsOtherRecords`, `SpecCutTearsOneRecord` and `SpecDeleteAllAtOnce`,
each about a cut at any turn of any loop, and `SpecImplementsRecordStore`: the last
turn of a loop is the whole call of `RecordStore`, the others are no step
of it, and only a cut inside a call is a step that `RecordStore` does not have.

**Table catalog** (`TableCatalogProofs`; every set of devices and schemas, any number of
cuts): `SpecTypeOK` needs no more than that. The other three have a hypothesis,
`SchemasFit`, which is the fact about layouts that the code does not test everywhere:
the layout ends within the EEPROM on a target, whose asserts are empty, and within 65536
on a host, because `createTable()` compares addresses that have already been cut to 16 bits
(`RecordStore.c:346-349`). The run's devices satisfy it (`MCSchemasFit`, an `ASSUME` of
`MCTableCatalog`). The invariant, `CatalogInv`, says that the rows in RAM are the layout
of the schema as far as tables have been created; that during a commit the first k
bytes of the catalog are in the EEPROM and all others erased (`CommittingOK`); that an open
store has every byte but perhaps the first, which a deletion zeroes; and that while a
catalog is cleared, or after a cut, what is there cannot be read as a whole catalog of this
firmware unless it is one (`UnopenedOK`): the separators at the end are
written last. `SpecOpenMeansCommitted`, `SpecAreasDisjoint` and
`SpecCommittedStoreReopens` follow; the last also asks that a byte beyond the
EEPROM does not read as 0, since a separator that a schema of a host puts there would
look as if it had been written.

**Record buffer** (`RecordBufferProofs`; every set of columns, range, number of bits and
capacity): `CarefulInv` says that the buffer names a record that exists or none, that it
agrees with the EEPROM unless it is modified, and that what the caller reads is
valid. Every helper of `BitsOfData.c` is shown to keep this and to have a given effect on
what the caller reads (`ReadOf`). From it follow the refinement,
`SpecImplementsTableView`, and `SpecNeverHalted`, `SpecTypeOK` and
`SpecImportsValidPrefix`. They are about `SpecCareful`: a caller that does not know of the
buffer gets findings, not theorems.

**Parent and child tables** (`ParentChildProofs`; every range of child tables, number of
bits and set of imports): its callers write into a record the child table that
the record has, so the buffer, modified or not, agrees with the EEPROM (`Agrees`); `ParentInv` adds
that the list is `ListOf` the records: at each child table the last record that names
it. The work is in the closed forms of `buildParentRecordList()` (`BuiltIs`: after n
turns the list is that of the first n records, and the buffer holds the last of them)
and of the loop of `BDB_importTable()` after any number of turns (`ImportedSoFar`,
`ImportedTable`), which is also what a cut within it leaves. `ParentInv` is about
the closed database as well: its records are raw records of which all but two at most name a
child table (`LeftByCut`); a table with such a record (`Torn`) halts at the opening, when
the loop comes to the first of them (`TornHalts`), and any other is opened and rebuilt.
A cut leaves the calls' own steps nothing to assume but this. `SpecParentsUpToDate`,
`SpecChildTablesFollow`, `SpecHaltsOnlyTorn` and `SpecTypeOK` follow.

**References** (`ReferencesProofs`; every capacity of the two tables, and every number of
bits that can hold the number of a record): `SpecReferencesExist`,
`SpecReferencesFollow`, `SpecNeverHalted` and `SpecTypeOK`, about `SpecCareful`.

- `RefInv` says that there are records `f` and `w`, as the caller reads the two tables,
  whose references name existing records of `w` (`Fit`), and that the database is either
  open with buffers that agree with the stored records unless modified, and then differ
  from them in no more than the buffered record (`ReadsAs`), or closed with all of them
  stored (`Shut`). `ReferencesExist` alone is not inductive: a stale buffer would keep it
  until it is written back.
- A traversal of `forEachReference()` fills and writes buffers while it runs, those of
  the table whose record is being inserted or deleted among them. `ShiftedIs` says
  what it comes to: what the caller reads is what was read before with every reference
  moved, and each buffer is again one that `ReadsAs` allows. It is proved for every
  number of turns. `SearchIs` says that the search before a deletion changes nothing that
  the caller reads, and that when it has found nothing, no record of the referring table
  names the record and the buffer of the other table holds its last record unmodified. Of
  that other table it says nothing, which is finding 3: the careful caller sees to those
  references itself.
- `RecordInserted` and `RecordRemovedClean` are about the moment at which the list in the
  EEPROM has changed and the references have not. The buffer may then hold another record
  than the one of its number (`Offers`), which does no harm as long as its number is not
  0, since the first turn that visits the table fills it anew; and a modified buffer,
  which is written once more, goes over the same record or over the new one, whose
  columns are set afterwards.
- `BDB_changeValue()` limits the shifted value to the last record. `UpOne` and
  `DownOne` show that a reference to a record that exists is never at that limit, which
  needs `Fit`; without it a shift could make two references equal.
- Each action then has a step lemma (`StepGetValue` to `StepDeleteTo`), which also
  says what became of the references: unchanged, `Ups` after an insertion, `Downs` after a
  deletion. `SpecReferencesFollow` reads the property off these.

**Column values and the codec** (`ColumnValuesProofs`; every set of tables that
`ColumnValuesAssumption` lets through: up to 255 record types with up to 255 columns each,
of any range within 16 bits, any step and default that fit it, virtual or not):
`SpecRecordConforms`, `SpecRoundTrip`, `SpecCleanIsStored` and `SpecChangesTruncate`,
about `SpecInt16`. Beyond int16_t there is finding 4, and a value may leave its steps
(`BitsOfData.c:737`, below).

- The codec. `Layout` is the row of bits that the columns make one behind the other.
  Encoding: after each column, the bytes written and the bits still in the bit buffer are
  that row (`Pushed`, `EncodeStep`); the buffer may hold old bits in front of them,
  which are never written. At the end the bytes are those of the row with zeros behind it
  (`EncodedIs`), and so the packed record of the definition. Decoding: before
  each column, the bits pulled and not yet used are the next ones of the row (`Pulled`,
  `DecodeStep`), so that each column is found where it was put (`DecodedColumns`), and
  the record type before all others (`TypeBack`). A power of two is only ever that of
  a number up to 16, and the facts about them are read off a table (`Powers`, `PowIs`).
  `CodecReturns` joins the two halves for every record, and `StepsBackIs` says that of
  a value within the range and on a step nothing is lost.
- The calls. `ColumnInv` says that the columns in the buffer always are 16-bit values of
  a record type that the table has, even where they hold no record; that a record in
  the buffer conforms to that type; that the bytes in the store decode to a record
  that conforms; and that both are the same record unless the buffer is modified.
  `RecordConforms` is not inductive alone: data that `BDB_setRecord()` refuses is in the buffer
  already, and the next `BDB_setValue()` fills the buffer over it.
  A new record type keeps the invariant because its defaults
  conform (`DefaultsFit`). `ChangedIs` shows that within int16_t none of the casts
  of `BDB_changeValue()` changes a number, and that both limits of a column are on its steps.

**Template language** (`TextOutputProofs`; every set of format strings, whatever
lists of tokens earlier formats left, and every `MAX_NUM_TOKENS` from 1 to 254, as 255 is `NOT_IN_IF_TAG`):

- `ParsedListsJumpForward`: `Spec => []JumpsForward`. The invariant, `ParserInv`,
  divides the conditions of the tokens so far into those that are closed, which
  jump forward within the list, and the one at `ifTokenNo` that is open: no other
  left hand side stands behind it, and its else index is still 0 or a token
  behind it. `StateOK` says in which states of the switch that condition is the
  token being read, and that a right hand side is only stored directly behind a
  left hand side. It needs no bound on the length of the format.
- `ParserTypesHold`: `Spec => []ParserTypeOK`, the part of `TypeOK` about the parser,
  by way of `TypeInv`. No token is written behind the list but the one that is being read, and everything that is
  stored in one fits into its 8 bits. For the numbers and the list that follows from the
  asserts of the parser; for the place and the length of a text because no text is
  longer than what has been read of the format (`txtLen <= i`), and the format
  than 255 characters, which `TemplateLanguage.c:109` asserts and
  `TextOutputAssumption` says of `Formats`.

Only model-checked:

- the liveness properties, `EveryCallEnds` and `OpensAgain`: liveness under
  fairness and ENABLED are out of the prover's reach;
- of the text output `TypeOK` (but for its `ParserTypeOK`), `TokensSayFormat`, `RendersTokens` and
  `NumbersReadBack`. The rest of `TypeOK`, about the interpreter, depends on the columns that a format
  names: nothing in the code stops a format, or a reference of the schema, from naming one
  that the record does not have, and then its value and its text are whatever lies there.
  `TokensSayFormat` is about numbers without leading zeros, and it and the other two
  compare the work of two readers character by character.

## Where the code and its comments disagree

Findings, each with a run:

1. `RecordStore.c:451` clears the bit of the record's position, not of its slot.
2. `BitsOfData.c:523` leaves the deleted record in the buffer.
3. `BitsOfData.c:449` excludes the wrong records from the search for references.
4. `BitsOfData.c:739` limits values as int16_t, so that columns with a `maxValue`
   above 32767 jump.

Met while modelling, and noted with their hazards, but without a run:

- Finding 1 also leaks slots, until `insertRecordAt()` fails the assert of which
  `RecordStore.c:498` says that it cannot. Append twice, delete record 0, delete
  record 0 (then in slot 1): bit 0 has been cleared twice and bit 1 never.
- `RecordStore.c:460`: a table of three records, `rs_deleteAllRecords()` cut after
  its first erased entry, reopened (empty), one record appended, reopened: it has
  three records again, since the entry that ended the list has been overwritten.
- `RecordStore.c:294` keeps the rows of a catalog that it finds invalid, so that
  the first `rs_createTable()` after a cut commit fails an assert.
- `RecordStore.c:346-349`: the end address is added up modulo 65536, so a table
  that is too large by 64 KB passes the check for space.
- `BitsOfData.c:290` writes a modified buffer back again after the records have
  moved, over the record before it.
- `BitsOfData.c:71`: syncing a table whose buffer holds no record fails an assert.
- `BitsOfData.c:760-761`: an import that stops at invalid data leaves the record
  behind that it had appended for it.
- `BitsOfData.c:354`: a cut between the commit of the catalog and the first
  records leaves a database that is opened with empty tables; where the parent
  table is one of them, opening fails an assert, now and at every later start
  (`CutDuringCreation` in `RecordBuffer` and `ParentChild`).
- `BitsOfData.c:330`, `:543` and `:760`: a record is listed before it is written
  (`:305`, `:618`). A cut in between leaves it with what its slot held. In the parent table
  that may be a value that is no child table, and then `buildParentRecordList()` writes
  outside of its list (`:281`) at this opening and at every later one; what that
  write does to the program is not followed any further (`CutDuringInsertion` and
  `CutDuringImport` in `ParentChild`).
- `BitsOfData.c:522`: a deletion or insertion is in the EEPROM at once, the shift
  of a reference perhaps only in a buffer. A caller must sync every table before
  the power may fail.
- `BitsOfData.c:737`: `delta` times the step wraps around as int16_t, and the new value
  is not validated: a change by 6554 on a column from 10 in steps of 10 makes it 14. So
  `SpecRecordConforms` is about changes within int16_t.
- `BitsOfData.c:755`: an import leaves references to records that it removed.
- `BitsOfData.c:298`: a record inserted in the middle, or after an import, gets a
  child table that another record has; `BitsOfDataTypes.h:187-188` calls the
  relationship unique.
- `BitsOfData.c:358`: a schema without a parent table opens with table 0xFF.
- `BitsOfData.c:1179`: a condition that is false and has no `{:}` skips the rest of
  the format, and the tokens' condition ends at `{;}`.
- `BitsOfData.c:875` and `:920` leave the last text out when they look for the longest
  text of a list that is not the column's own, so that it may be cut.
- `BitsOfData.c:844`: `{&i+}` has the digits of `maxValue`, not of `maxValue + 1`.
- `BitsOfData.c:836`: `BDB_COLUMN_RECORD_TYPE` is no case of `writeValue()`, which
  fails an assert, where `BitsOfDataTypes.h:145` says "returns no text".
- `BitsOfData.c:1132` wants a literal as `$5`, as in the example of
  `BitsOfDataTemplates.h:79`; `TemplateLanguage.c:223` wants it as `5`, as in its list of
  right hand sides. So no format with a literal is accepted by both readers.
- `TemplateLanguage.c:222`: the token of a right hand side may keep the `+` of an
  earlier format.
- `WriteColumns.c:45`: a number cannot end at the end of the buffer, a text can; and
  `WriteColumns.c:127` writes a character before the cursor is tested.
- `BitsOfData.h:81` says that `BDB_canRecordBeAdded()` returns false below the
  maximum; it returns true.

## Not modelled

- The record writer and `BDB_getNumColumnsInFormat()` are stubs.
- The EEPROM driver of the target is not in the repository. Bytes are written
  atomically, which is what the hardware of such devices does, and an erase goes
  upwards, as in the fake.
- Access to records that do not exist is an assert by contract
  (`BitsOfData.h:18-21`), so the actions take existing records only.
- References out of several columns, or of several record types; imports of tables
  that others refer to, after which nothing holds of the references.
- Columns that take their limit from another record (`BDB_COLUMN_TXT_LIST_COPY`) are
  modelled where they are written as text, not where they are set: `getMaxValue()`
  has a constant there for imports that its comment calls a hack.
- Data whose record type the schema does not have, and columns that refer to one another in a
  circle, leave the memory of the program; the models stop at the assert or leave
  such inputs out.

## Plan

Done, in this order: RecordStore with RecordList, its proofs, PowerLoss,
TableCatalog, RecordBuffer with TableView, RecordCodec, References, ParentChild,
ColumnValues, WriteColumns, TemplateLanguage, RecordFormat with TextOutput,
SchemaValidation, the proof about the parser, and the proofs of PowerLoss,
TableCatalog, RecordBuffer, ParentChild, References and ColumnValues.

Next: `References` with more than one referring column, in particular one that
takes its limit from the record it refers to (`getColumnDefProps()`), on top of
`ColumnValues`; and an interpreter of tokens, once the library has one.

Runs are few, so that a module's questions share a run where its specification
allows; violation runs make room for those of new modules.

Theorem worth proving next: `TypeOK` of the text output, for formats and references
that name existing columns only.
