SPECIFICATION TalkSpec
CONSTANTS
  NoSession = NoSession
  NoHandler = NoHandler
  ApiThreads = {t1}
  Reentrant = {"event"}
  Sessions = {s1, s2}
  Adapters = {a1, a2}
  Handlers = {h1}
INVARIANTS
  ReplacedOnlyByAnother
  NoOrphans
  ActiveIsComplete
PROPERTIES
  CloseLeavesNothing
  WorkersKeepContract
  CloseReturns
