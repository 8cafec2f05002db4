SPECIFICATION QuietSpec
CONSTANTS
  NoSession = NoSession
  NoHandler = NoHandler
  ApiThreads = {t1, t2}
  Reentrant = {}
  Sessions = {s1, s2}
  Adapters = {a1}
  Handlers = {h1}
PROPERTIES
  CloseReturns
