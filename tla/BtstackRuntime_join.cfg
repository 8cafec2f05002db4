SPECIFICATION Spec
CONSTANTS
  Owners = {a, b, c}
  Clients = {"join"}
INVARIANTS
  ActiveHasOwner
