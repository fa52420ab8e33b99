SPECIFICATION Spec
CONSTANTS
  u1 = u1
  u2 = u2
  u3 = u3
  k1 = k1
  k2 = k2
  first = first
  second = second
  third = third
  Update = {u1, u3}
  Key = {k1, k2}
  KeyOf <- MCKeyOf
  Recorder = {u1}
  Handler = {first, second, third}
  Groups <- MCTwoGroups
  Ttl = 1
  MaxLen = 2
  MaxKeys = 1
  MaxTime = 2
  Env = {"listener", "unrecorded", "unmatched", "continue", "error", "stop", "unstored", "read", "pop", "clear"}
INVARIANTS
  HeldIsNewest
  BatchIsWhatReturned
PROPERTIES
  AnswersAreFresh
  PoppedOnce
CHECK_DEADLOCK FALSE
