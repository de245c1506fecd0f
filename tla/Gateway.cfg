\* The client of a server that is idle may never come.
SPECIFICATION Spec
CONSTANTS
  r1 = r1
  p1 = p1
  p2 = p2
  Requests = {r1}
  Procs = {p1, p2}
  Edits <- MCEdits
  Saves <- MCSaves
  Defaults <- MCDefaults
  Kinds <- MCKinds
  Starts <- MCStarts
  MaxActors = 2
  MaxTurns = 1
INVARIANT GatesPassed
INVARIANT ControlsChecked
PROPERTY ConfigKept
PROPERTY GateReopens
CHECK_DEADLOCK FALSE
