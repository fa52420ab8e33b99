SPECIFICATION Spec
CONSTANTS
  first = first
  second = second
  chat = chat
  NoOne = NoOne
  Session = {s1, s2}
  Update <- Updates
  Arrival <- TwoUpdates
  Scope <- OneScope
  ScopeOf <- ChatWide
  Id <- Updates
  IdOf <- EachItself
  Workers = 2
  Groups = 2
  Env = {"untouched", "unhandled", "claim", "block"}
SYMMETRY Symmetry
INVARIANTS
  TypeOK
  HandledOnce
  EndsSettled
PROPERTIES
  ImplementsOnce
CHECK_DEADLOCK FALSE
