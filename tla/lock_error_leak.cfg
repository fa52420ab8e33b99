SPECIFICATION Spec
CONSTANTS
  chatA = chatA
  userA = userA
  replacing = replacing
  rejecting = rejecting
  None = None
  Session = {s1}
  Call = {c1, c2}
  Update = {}
  Chat <- OneChat
  Key <- OneKey
  ChatOf <- OneKeyChat
  SubKeys <- OneKeySubKeys
  Policy <- Rejecting
  Backend = "redis"
  MaxToken = 2
  Env = {"timeout", "block"}
SYMMETRY Symmetry
INVARIANTS
  NoLeakedRegistration
CHECK_DEADLOCK FALSE
