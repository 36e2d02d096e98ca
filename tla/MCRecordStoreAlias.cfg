SPECIFICATION Spec
CONSTANTS
  erased = erased
  zero = zero
  a = a
  MaxNumRecords = 3
  ErasedRecord = erased
  ZeroRecord = zero
  RawRecords = {erased, zero, a}
PROPERTY SetChangesOneRecord
