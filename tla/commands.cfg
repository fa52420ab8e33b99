SPECIFICATION Spec
CONSTANTS
  h1 = h1
  h2 = h2
  default = default
  admins = admins
  help = help
  ban = ban
  Handler = {h1, h2}
  Group = {0}
  Key = {default, admins}
  Command = {help, ban}
  Declares <- MCDeclares
  Workers = 2
  Pushes = {p1}
  MaxCalls = 4
  Env = {"fail"}
INVARIANTS
  CollectedIsDeclared
PROPERTIES
  CollectionIsStable
  PushPublishesAll
CHECK_DEADLOCK FALSE
