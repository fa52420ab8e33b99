SPECIFICATION FairSpec
CONSTANTS
  chat = chat
  s1 = s1
  s2 = s2
  open = open
  answer = answer
  open1 = open1
  open2 = open2
  answer1 = answer1
  answer2 = answer2
  None = None
  NoOne = NoOne
  Session <- TwoSessions
  Workers = 2
  Opening <- OneOpen
  Answer <- BothAnswer
  At <- SessionIn
  Update <- Updates
  UpdateOf <- UpdateIn
  Key <- OneChat
  KeyOf <- ChatWide
  Scope <- OneChat
  ScopeOf <- ChatWide
  Settles <- OneOpen
  Endless <- OneOpen
  Removable <- Nothing
  Restarted <- OneSession
  Starts = 1
  Backend = "redis"
PROPERTY
  AskerIsAnswered
CHECK_DEADLOCK FALSE
