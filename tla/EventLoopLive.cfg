SPECIFICATION FairSpec
CONSTANTS
  Threads = {t1, t2}
  Conns = {c1, c2}
  Server = server
  FDs <- MCFDs
  ServerFD = 1
  MaxEvents = 1
  PeerEvents = {"IN", "RDHUP"}
  None = none
INVARIANTS
  ServerNeverStops
PROPERTIES
  BacklogServed HangUpReclaims
CHECK_DEADLOCK FALSE
