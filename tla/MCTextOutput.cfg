SPECIFICATION Spec
CONSTANTS
  Size = 12
  MaxNumTokens = 6
  OldLists <- MCOldLists
  MaxHops = 3
  Formats <- MCFormats
  Database <- MCDatabase
  Places <- MCPlaces
  Positions = {0, 8}
INVARIANT TypeOK
INVARIANT JumpsForward
INVARIANT TokensSayFormat
INVARIANT RendersTokens
INVARIANT NumbersReadBack
