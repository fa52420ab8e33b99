SPECIFICATION FairSpec
CONSTANTS
  chatA = chatA
  userA = userA
  replacing = replacing
  rejecting = rejecting
  None = None
  Session = {s1}
  Call = {c1, c2}
  Update = {u1}
  Chat <- OneChat
  Key <- TwoKeys
  ChatOf <- TwoKeysChat
  SubKeys <- TwoKeysSubKeys
  Policy <- Replacing
  Backend = "memory"
  MaxToken = 0
  Env = {"timeout", "stop"}
PROPERTIES
  UnresolvedMeansNobodyWaits
  DeliveredToMostSpecific
  EveryCallEnds
CHECK_DEADLOCK FALSE
