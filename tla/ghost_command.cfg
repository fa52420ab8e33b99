SPECIFICATION Spec
CONSTANTS
  h1 = h1
  h2 = h2
  default = default
  admins = admins
  help = help
  ban = ban
  Handler = {h1, h2}
  Group = {0}
  Key = {default, admins}
  Command = {help, ban}
  Declares <- MCDeclares
  Workers = 1
  Pushes = {p1}
  MaxCalls = 3
  Env = {}
PROPERTIES PushLeavesNoGhost
CHECK_DEADLOCK FALSE
