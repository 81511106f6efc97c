SPECIFICATION FairSpec
CONSTANTS
  Conns = {c1, c2}
  NoConn = NoConn
  MaxClients = 1
  Bytes = {"ask", "bad"}
  MaxAsks = 2
  MaxFrames = 2
  Faults = {"spawn", "write"}
INVARIANTS TypeOK PlacesKept FramesAsAsked
PROPERTIES RequestsServed SignalShutsDown
