SPECIFICATION FairSpec
CONSTANTS
  NoPacket = NoPacket
  Packets = {p1, p2, p3}
  InFlight = 3
INVARIANTS
  RingComplete
  FewLateCalls
PROPERTIES
  StreamSpec
  WorkerSpec
  HaltIsCleared
  ReaderEnds
CHECK_DEADLOCK FALSE
