SPECIFICATION FairSpec
CONSTANTS
  Axes = {forward}
  Terminals = {TRUE, FALSE}
  RepeatGrace = 3
  RepeatDeadman = 1
  ReleaseDeadman = 4
  UnitScale = 3
  ScaleStep = 2
  MinScale = 1
  MaxScale = 4
  Period <- MCPeriod
  Commands = {"capture", "faster", "slower", "exit", "other"}
  Faults = {"send", "input", "save", "ros", "lost"}
  Punctual = FALSE
  MaxEvents = 2
  MaxTime = 3
INVARIANTS TypeOK EndsWithZero
PROPERTIES SignalEndsSession
