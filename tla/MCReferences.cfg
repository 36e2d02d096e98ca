SPECIFICATION SpecCareful
CONSTANTS
  MaxFrom = 2
  MaxTo = 3
  NumBits = 2
INVARIANT TypeOK
INVARIANT NeverHalted
INVARIANT ReferencesExist
PROPERTY ReferencesFollow
