SPECIFICATION SetupFairSpec
CONSTANTS
  Timeouts = {0, 3, 5}
  MinTimeout = 1
  MaxTimeout = 4
  AddressTime = 2
  MaxAddresses = 3
  Hosts = {"ip", "name"}
  Endpoints = {"ip", "name", "internal", "bad", "absent", "garbage"}
  Greetings = {"good", "error", "garbage"}
  Replies <- MCReplies
  Faults = {"net", "spawn"}
  Punctual = TRUE
  MaxTime = 6
  a = a
  w = w
  Chars = {a, w}
  Width <- MCWidth
  Safe = {a}
  CR = CR
  LF = LF
  Ssids <- MCSsids
  MaxSsid = 1
  MinBytes = 1
  MaxBytes = 2
  MaxKeys = 5
INVARIANTS SetupTypeOK DefiniteIsTrue CredentialsAsGiven DeadlineShared
PROPERTIES SetupEnds
