CONSTANTS
  RunSizes = {1, 2, 3}
  Signatures <- MCSignatures
  MaxNodes = 2
  MaxDims = 5
  Disputed = {}
SPECIFICATION Spec
INVARIANTS TypeOK GroupsEqual OffsetsTrue NothingMissed
PROPERTIES Terminates
