SPECIFICATION Spec
CONSTANTS
  Conns = {c1, c2}
  NoConn = NoConn
  MaxClients = 1
  Bytes = {"ask"}
  MaxAsks = 1
  MaxFrames = 1
  Faults = {}
PROPERTY LaterRequestReconnects
