SPECIFICATION Spec
CONSTANTS
  EESize = 8192
  AbsentByte = 255
  Devices <- HostAndTarget
INVARIANT TypeOK
INVARIANT AreasDisjoint
INVARIANT OpenMeansCommitted
PROPERTY CommittedStoreReopens
PROPERTY OpensAgain
