SPECIFICATION Spec
CONSTANTS
  UserHandlers = {dfl, app}
  signalHandler = signalHandler
  Platforms = {TRUE, FALSE}
INVARIANT FaultHandlersRestored
PROPERTY OnlyRepeatsKill
CHECK_DEADLOCK FALSE
