SPECIFICATION ServerSpec
CONSTANTS
  Creators = {c}
  Users = {u1, u2}
  NoServer = NoServer
  Clients = {p}
  NoClient = NoClient
  LenMod = 4
  Byte = {0, 1}
  Blocks <- MCBlocks
  ServiceRange <- MCServiceRange
  Attributes <- MCAttributes
  Specs <- MCSpecs
INVARIANTS
  CancelUndoes
