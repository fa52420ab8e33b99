SPECIFICATION Spec
CONSTANTS
  chat1 = chat1
  chat2 = chat2
  user1 = user1
  user2 = user2
  prompt = prompt
  reply = reply
  start = start
  forUser = forUser
  forReply = forReply
  forButton = forButton
  again = again
  other = other
  order = order
  chatter = chatter
  greeting = greeting
  button = button
  Absent = Absent
  None = None
  ChatId <- TwoChats
  UserId <- TwoUsers
  MessageId <- TwoMessages
  Ask <- ReplacedAsks
  KeyOf <- KeyOfAsk
  Timed <- UserTimed
  Prompt <- PromptOf
  Message <- ThreeMessages
  Press <- OneButton
  KeyIn <- KeyInUpdate
  Name <- Commands
  Official <- OneCommand
  Env = {"refused"}
  Lives = 2
PROPERTY
  PressEndsItsAsk
CHECK_DEADLOCK FALSE
