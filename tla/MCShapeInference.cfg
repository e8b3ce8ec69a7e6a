SPECIFICATION Spec
CONSTANTS
  MaxDim = 3
  MaxRank = 3
  Hidden = 7
  Disputed = {}
INVARIANTS
  TypeOK
  TypeSound
  AllocSound
  NotRefused
