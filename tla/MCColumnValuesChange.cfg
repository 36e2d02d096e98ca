SPECIFICATION Spec
CONSTANTS
  Tables <- MCTables
  Samples <- MCSamples
  Data <- MCData
  Deltas <- MCDeltas
PROPERTY EveryChangeTruncates
