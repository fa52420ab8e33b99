SPECIFICATION Spec
CONSTANTS
  chatA = chatA
  userA = userA
  replacing = replacing
  rejecting = rejecting
  None = None
  Session = {s1, s2}
  Call = {c1, c2}
  Update = {u1}
  Chat <- OneChat
  Key <- OneKey
  ChatOf <- OneKeyChat
  SubKeys <- OneKeySubKeys
  Policy <- Replacing
  Backend = "redis"
  MaxToken = 2
  Env = {"cancel", "bypass", "abort", "lose", "stop", "restart", "fail"}
SYMMETRY Symmetry
INVARIANTS
  TypeOK
  OwnershipInv
  NoLeakedRegistration
PROPERTIES
  ResolvedByOwner
  StopLeavesNothing
  CancelledOnlyIfInvalidated
CHECK_DEADLOCK FALSE
