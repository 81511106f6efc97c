SPECIFICATION FairSpec
CONSTANTS
  Languages = {"python"}
  Callers = {c1, c2}
  Operations = {"velocity", "stop", "close"}
  Faults = {"timeout", "rejected"}
  MaxRequests = 2
  MaxFrames = 0
INVARIANTS TypeOK
PROPERTIES CallsEnd
CHECK_DEADLOCK FALSE
