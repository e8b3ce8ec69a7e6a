SPECIFICATION FairSpec
CONSTANTS
  Processes = {p1, p2}
  Keys = {k1, k2}
  Compilable = {k1, k2}
  NoInputs = {}
  capacity = 1
  MaxCrashes = 1
INVARIANT OrderMatchesCache
PROPERTY EntryCompleted
PROPERTY OnlyRacesDamage
