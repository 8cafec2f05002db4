SPECIFICATION Spec
CONSTANTS
  Creators = {c}
  Users = {u1, u2}
  NoServer = NoServer
INVARIANTS
  AdvDataStaysValid
