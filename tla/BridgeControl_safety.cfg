SPECIFICATION Spec
CONSTANTS
  Conns = {c1, c2}
  NoConn = NoConn
  Cmds = {fwd}
  Zero = Zero
  NoTwist = NoTwist
  MaxTimeout = 2
  Requests <- MCMotionRequests
  MaxRequests = 2
  MaxTime = 0
  Faults = {"spawn", "write", "send", "ros"}
SYMMETRY ConnSymmetry
INVARIANTS TypeOK NoStalePublication StopAckMeansStopped SingleOwner MotionBelongsToOwner CleanShutdown
PROPERTIES LiveCommandIsOwnersToCancel ImplementsLease
