SPECIFICATION FairSpec
CONSTANTS
  Clients = {c1, c2, c3}
  Handles = {h1, h2, h3}
  NoHandle = NoHandle
INVARIANTS
  UnwantedOnce
  NotificationsAreNews
PROPERTIES
  SubscriberHears
