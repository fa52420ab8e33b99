SPECIFICATION Spec
CONSTANTS
  chatA = chatA
  userA = userA
  replacing = replacing
  rejecting = rejecting
  None = None
  Session <- BothPolicies
  Call = {c1, c2}
  Update = {u1}
  Chat <- OneChat
  Key <- OneKey
  ChatOf <- OneKeyChat
  SubKeys <- OneKeySubKeys
  Policy <- MixedPolicy
  Backend = "redis"
  MaxToken = 2
  Env = {"timeout", "bypass", "abort_any", "late", "crash", "block"}
SYMMETRY Peers
INVARIANTS
  SupersededIsTold
  OneListenerPerKey
  DeliveredIsReturned
PROPERTIES
  ImplementsSlots
CHECK_DEADLOCK FALSE
