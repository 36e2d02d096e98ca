SPECIFICATION Spec
CONSTANTS
  MaxFrom = 2
  MaxTo = 3
  NumBits = 2
PROPERTY ReferencedRecordsStay
