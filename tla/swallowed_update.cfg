SPECIFICATION Spec
CONSTANTS
  chatA = chatA
  userA = userA
  replacing = replacing
  rejecting = rejecting
  None = None
  Session = {s1}
  Call = {c1}
  Update = {u1}
  Chat <- OneChat
  Key <- OneKey
  ChatOf <- OneKeyChat
  SubKeys <- OneKeySubKeys
  Policy <- Replacing
  Backend = "memory"
  MaxToken = 1
  Env = {}
SYMMETRY Symmetry
INVARIANTS
  ConsumedMeansDelivered
CHECK_DEADLOCK FALSE
