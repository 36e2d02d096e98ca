SPECIFICATION SpecOwnSlot
CONSTANTS
  erased = erased
  zero = zero
  a = a
  MaxNumRecords = 3
  ErasedRecord = erased
  ZeroRecord = zero
  RawRecords = {erased, zero, a}
INVARIANT TypeOK
INVARIANT CountMatchesIndex
INVARIANT IndexTerminated
INVARIANT NoSharedSlot
INVARIANT BitmapExact
INVARIANT NeverHalted
PROPERTY EditsKeepOtherRecords
PROPERTY ImplementsRecordList
