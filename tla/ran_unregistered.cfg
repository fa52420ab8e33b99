SPECIFICATION Spec
CONSTANTS
  first = first
  second = second
  chat = chat
  NoOne = NoOne
  Session = {s1}
  Update <- Updates
  Arrival <- SentTwice
  Scope <- OneScope
  ScopeOf <- ChatWide
  Id <- Updates
  IdOf <- EachItself
  Workers = 1
  Groups = 2
  Env = {"unhandled"}
SYMMETRY Symmetry
INVARIANTS
  RanIsRegistered
CHECK_DEADLOCK FALSE
