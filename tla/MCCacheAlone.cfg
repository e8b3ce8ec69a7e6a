SPECIFICATION Spec
CONSTANTS
  Processes = {p1}
  Keys = {k1, k2, k3, k4, k5}
  Compilable = {k1, k2, k3}
  NoInputs = {k5}
  capacity = 2
  MaxCrashes = 0
INVARIANT RestoredWhole
