SPECIFICATION Spec
CONSTANTS
  Languages = {"python", "matlab"}
  Callers = {c1}
  Operations = {"velocity", "stop", "ping", "close", "frame"}
  Faults = {"timeout", "rejected", "down", "interrupt", "frame"}
  MaxRequests = 3
  MaxFrames = 2
INVARIANTS CallsMeanWhatTheyReturn WholeFrames
