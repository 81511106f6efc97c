SPECIFICATION ScoutFairSpec
CONSTANTS
  Commands = {"move", "teleop", "monitor", "camera", "discover"}
  Requests <- MCRequests
  Limits <- MCLimits
  MaxDuration = 5
  MaxRate = 2
  Second = 2
  Attempts = 2
  WaitTime = 2
  WaitPoll = 1
  RetryPause = 1
  FlushTime = 1
  Faults = {"register", "send", "ros", "spurious"}
  Punctual = TRUE
  MaxTime = 20
  v4 = v4
  w4 = w4
  v6 = v6
  nowhere = nowhere
  Thorin = Thorin
  Balin = Balin
  other = other
  Addresses <- MCAddresses
  IPv4 <- MCIPv4
  NoAddress = nowhere
  MaxTried = 2
  ConnectTime = 2
  KnownScouts <- MCKnownScouts
  OtherWord = other
  Programs <- MCPrograms
  OutputLimit = 2
  PipeSize = 1
  MaxOutput = 3
  LookTime = 1
  SensorBodies <- MCSensorBodies
  MaxReadings = 2
  MonitorTimes = {0, 2}
  FrameBodies <- MCFrameBodies
  MaxFrames = 2
  PictureBodies <- MCPictureBodies
  SequenceNumbers = {7}
  Stamps = {1, 2}
  MaxSuffix = 2
  MaxPictures = 2
  MaxForeign = 1
INVARIANTS ScoutTypeOK MotionSafe MotionStopsInTime MasterIsFirstThatAnswers
  NameFromWholeOutput FramesAccounted
PROPERTIES ReadingsAdvance PicturesKept CommandEnds
