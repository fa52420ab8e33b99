SPECIFICATION Spec
CONSTANTS
  chatA = chatA
  userA = userA
  replacing = replacing
  rejecting = rejecting
  None = None
  Session = {s1, s2}
  Call = {c1, c2, c3}
  Update = {}
  Chat <- OneChat
  Key <- OneKey
  ChatOf <- OneKeyChat
  SubKeys <- OneKeySubKeys
  Policy <- Replacing
  Backend = "redis"
  MaxToken = 3
  Env = {"timeout"}
SYMMETRY Symmetry
INVARIANTS
  NeverOutOfSync
CHECK_DEADLOCK FALSE
