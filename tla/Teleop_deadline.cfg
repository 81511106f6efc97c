SPECIFICATION Spec
CONSTANTS
  Axes = {forward}
  Terminals = {FALSE}
  RepeatGrace = 3
  RepeatDeadman = 1
  ReleaseDeadman = 4
  UnitScale = 3
  ScaleStep = 2
  MinScale = 1
  MaxScale = 4
  Period <- MCPeriod
  Commands = {"slower", "faster"}
  Faults = {}
  Punctual = TRUE
  MaxEvents = 4
  MaxTime = 7
INVARIANTS StopsWithinDeadman
