SPECIFICATION FairSpec
CONSTANTS
  first = first
  second = second
  chat = chat
  NoOne = NoOne
  Session = {s1, s2}
  Update <- Updates
  Arrival <- SentOnce
  Scope <- OneScope
  ScopeOf <- ChatWide
  Id <- Updates
  IdOf <- EachItself
  Workers = 1
  Groups = 1
  Env = {"listener", "bare", "untouched", "unhandled", "continue", "claim", "thread", "error", "forget", "crash"}
INVARIANTS
  LockIffCritical
PROPERTIES
  EveryDeliveryEnds
CHECK_DEADLOCK FALSE
