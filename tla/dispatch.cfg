SPECIFICATION FairSpec
CONSTANTS
  chat = chat
  s1 = s1
  s2 = s2
  open = open
  answer = answer
  open1 = open1
  open2 = open2
  answer1 = answer1
  answer2 = answer2
  None = None
  NoOne = NoOne
  Session <- TwoSessions
  Workers = 2
  Opening <- BothOpen
  Answer <- OneAnswer
  At <- SessionIn
  Update <- Updates
  UpdateOf <- UpdateIn
  Key <- OneChat
  KeyOf <- ChatWide
  Scope <- OneChat
  ScopeOf <- ChatWide
  Settles <- OneOpen
  Endless <- OneOpen
  Removable <- OneEach
  Restarted <- OneSession
  Starts = 1
  Backend = "redis"
INVARIANTS
  TakenOnce
  DownLeavesNothing
PROPERTIES
  StopEnds
  UpdateEnds
  AnswerReachesAsker
CHECK_DEADLOCK FALSE
