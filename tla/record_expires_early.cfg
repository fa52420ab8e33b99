SPECIFICATION Spec
CONSTANTS
  u1 = u1
  u2 = u2
  u3 = u3
  k1 = k1
  k2 = k2
  first = first
  second = second
  third = third
  Update = {u1, u2, u3}
  Key = {k1, k2}
  KeyOf <- MCKeyOf
  Recorder = {}
  Handler = {first, second, third}
  Groups <- MCOneGroup
  Ttl = 2
  MaxLen = 2
  MaxKeys = 2
  MaxTime = 3
  Env = {}
INVARIANTS FreshIsHeld
CHECK_DEADLOCK FALSE
