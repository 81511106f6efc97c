SPECIFICATION Spec
CONSTANTS
  Languages = {"python"}
  Callers = {c1}
  Operations = {"velocity"}
  Faults = {"interrupt"}
  MaxRequests = 4
  MaxFrames = 0
INVARIANTS AppliedIsThisCalls
