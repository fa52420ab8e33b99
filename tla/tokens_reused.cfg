SPECIFICATION Spec
CONSTANTS
  chatA = chatA
  userA = userA
  replacing = replacing
  rejecting = rejecting
  None = None
  Session = {s1}
  Call = {c1, c2}
  Update = {u1}
  Chat <- OneChat
  Key <- OneKey
  ChatOf <- OneKeyChat
  SubKeys <- OneKeySubKeys
  Policy <- Replacing
  Backend = "memory"
  MaxToken = 2
  Env = {"timeout", "stop", "restart"}
PROPERTY
  CleanupTakesItsOwn
CHECK_DEADLOCK FALSE
