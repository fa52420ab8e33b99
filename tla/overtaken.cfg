SPECIFICATION Spec
CONSTANTS
  first = first
  second = second
  chat = chat
  NoOne = NoOne
  Session = {s1}
  Update <- Updates
  Arrival <- TwoUpdates
  Scope <- OneScope
  ScopeOf <- ChatWide
  Id <- Updates
  IdOf <- EachItself
  Workers = 2
  Groups = 1
  Env = {}
SYMMETRY Symmetry
INVARIANTS
  InArrivalOrder
CHECK_DEADLOCK FALSE
