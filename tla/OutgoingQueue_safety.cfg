SPECIFICATION Spec
CONSTANTS
  NoPacket = NoPacket
  Writer = w
  Callers = {bt, rd, w}
  CommandPackets = {c1, c2}
  BulkPackets = {b1, b2}
  UnsupportedPackets = {u1}
  QueueDepth = 2
  AclOutInFlight = 2
  Faults = {"stall", "error"}
SYMMETRY Symmetry
INVARIANTS
  TypeOK
  SlotAccounting
  ReservedMeansRoom
  NoHeadOfLineBlocking
PROPERTIES
  ServiceSpec
  WorkerSpec
