SPECIFICATION StopSpec
CONSTANTS
  NoPacket = NoPacket
  Writer = w
  Callers = {bt}
  CommandPackets = {c1, c2}
  BulkPackets = {b1, b2}
  UnsupportedPackets = {u1}
  QueueDepth = 2
  AclOutInFlight = 1
  Faults = {}
PROPERTIES
  GrantKept
  AcceptedPacketsEnd
  CallerIsWoken
  WriterEnds
