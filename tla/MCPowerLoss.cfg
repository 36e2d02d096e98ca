SPECIFICATION Spec
CONSTANTS
  erased = erased
  zero = zero
  MaxNumRecords = 3
  RecordSize = 2
  Bytes = {erased, zero}
  Erased = erased
  Zero = zero
  NewRecords <- AllZero
INVARIANT TypeOK
INVARIANT CutKeepsOtherRecords
INVARIANT CutTearsOneRecord
INVARIANT DeleteAllAtOnce
PROPERTY ImplementsRecordStore
PROPERTY EveryCallEnds
