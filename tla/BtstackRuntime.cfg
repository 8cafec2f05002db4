SPECIFICATION FairSpec
CONSTANTS
  Owners = {a, b, c}
  Clients = {"join", "init panics"}
INVARIANTS
  LoopFindsGlobals
  InactiveMeansGone
PROPERTIES
  ExitFindsRunLoop
  ShutdownReleases
  ShutdownCompletes
CHECK_DEADLOCK FALSE
