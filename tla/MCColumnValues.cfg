SPECIFICATION SpecInt16
CONSTANTS
  Tables <- MCTables
  Samples <- MCSamples
  Data <- MCData
  Deltas <- MCDeltas
INVARIANT RecordConforms
INVARIANT RoundTrip
INVARIANT CleanIsStored
PROPERTY ChangesTruncate
