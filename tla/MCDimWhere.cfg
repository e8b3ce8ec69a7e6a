CONSTANTS
  RunSizes = {1, 2, 3}
  Signatures <- MCSignatures
  MaxNodes = 1
  MaxDims = 5
  Disputed = {"ternary"}
SPECIFICATION Spec
INVARIANTS GroupsEqual
