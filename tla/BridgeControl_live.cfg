SPECIFICATION FairSpec
CONSTANTS
  Conns = {c1, c2}
  NoConn = NoConn
  Cmds = {fwd}
  Zero = Zero
  NoTwist = NoTwist
  MaxTimeout = 1
  Requests <- MCAllRequests
  MaxRequests = 1
  MaxTime = 0
  Faults = {"spawn", "write", "send"}
PROPERTIES DisconnectFreesBridge SignalShutsDown RobotStops
