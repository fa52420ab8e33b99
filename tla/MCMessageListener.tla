------------------------- MODULE MCMessageListener --------------------------
(* Small instances of MessageListener for TLC: two chats, in one of them two *)
(* users, a message that asks and one that answers.                          *)
EXTENDS MessageListener

CONSTANTS chat1, chat2, user1, user2, prompt, reply, start,
          forUser, forReply, forButton, again, other,  \* asks
          order, chatter, greeting,                  \* messages
          button

Key(c, u, m) == [chat_id |-> c, user_id |-> u, message_id |-> m]

TwoChats == {chat1, chat2}
TwoUsers == {user1, user2}
TwoMessages == {prompt, reply}
ThreeAsks == {forUser, forReply, other}
UserTimed == {forUser}
ReplacedAsks == {forUser, again}
ShieldedAsks == {forUser, forButton}
ThreeMessages == {order, chatter, greeting}
OneButton == {button}
OneCommand == {start}
NoPress == {}

KeyOfAsk == [a \in Ask |->
  CASE a \in {forUser, again} -> Key(chat1, user1, Absent)
    [] a = forReply -> Key(chat1, Absent, reply)
    [] a = forButton -> Key(chat1, user1, prompt)
    [] a = other -> Key(chat2, Absent, Absent)]
KeyInUpdate == [t \in Task |->
  CASE t = order -> Key(chat1, user1, reply)
    [] t = chatter -> Key(chat1, user2, reply)
    [] t = greeting -> Key(chat2, user1, reply)
    [] t = button -> Key(chat1, user1, prompt)]
PromptOf == [a \in Ask |-> IF a = forUser THEN prompt ELSE Absent]
Commands == [m \in Message |-> start]
=============================================================================
