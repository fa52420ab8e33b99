SPECIFICATION Spec
CONSTANTS
  c1 = c1
  c2 = c2
  c3 = c3
  k1 = k1
  k2 = k2
  u1 = u1
  u2 = u2
  Call = {c1, c2}
  Key = {k1}
  KeyOf <- MCKeyOf
  Update = {u1, u2}
  None = None
  CallHandlers <- MCCallHandlers
  Env = {"timeout", "abort", "cancel", "refused", "unsent", "unresolved", "handlers"}
INVARIANTS
  OverIsReleased
  CallHandlersFirst
PROPERTIES
  KeepsContract
CHECK_DEADLOCK FALSE
