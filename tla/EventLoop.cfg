SPECIFICATION Spec
CONSTANTS
  Threads = {t1, t2, t3}
  Conns = {c1, c2}
  Server = server
  FDs <- MCFDs
  ServerFD = 1
  MaxEvents = 2
  PeerEvents = {"IN", "OUT", "RDHUP"}
  None = none
SYMMETRY MCSymmetry
INVARIANTS
  TypeOK ExclusiveHandling NoDanglingEvent DescriptorOwned NoStrandedProcessor
PROPERTIES
  DeletedByItsHolder
CHECK_DEADLOCK FALSE
