SPECIFICATION Spec
CONSTANTS
  Axes = {forward}
  Terminals = {TRUE, FALSE}
  RepeatGrace = 3
  RepeatDeadman = 1
  ReleaseDeadman = 4
  UnitScale = 3
  ScaleStep = 2
  MinScale = 1
  MaxScale = 4
  Period <- MCPeriod
  Commands = {"capture", "slower", "faster"}
  Faults = {"send", "save"}
  Punctual = TRUE
  MaxEvents = 4
  MaxTime = 7
INVARIANTS CaptureStops KeyUpStops DeadmanStops
