SPECIFICATION Spec
CONSTANTS
  MinChild = 2
  MaxChild = 4
  NumBits = 2
  ImportData <- Imports
INVARIANT TypeOK
INVARIANT ParentsUpToDate
INVARIANT HaltsOnlyTorn
PROPERTY ChildTablesFollow
