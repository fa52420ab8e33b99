---------------------------- MODULE MCDispatcher ----------------------------
(* Small instances of Dispatcher for TLC.                                  *)
EXTENDS Dispatcher, TLC

CONSTANTS chat, s1, s2, open, answer,   \* one conversation, two sessions
          open1, open2, answer1, answer2  \* the two updates in each of them

TwoSessions == {s1, s2}
OneSession == {s1}
OneOpen == {open1}
BothOpen == {open1, open2}
OneAnswer == {answer1}
BothAnswer == {answer1, answer2}
SessionIn == [d \in Delivery |-> IF d \in {open1, answer1} THEN s1 ELSE s2]
UpdateIn == [d \in Delivery |-> IF d \in {open1, open2} THEN open ELSE answer]
Updates == {open, answer}
OneChat == {chat}
ChatWide == [d \in Delivery |-> chat]
NoSettle == {}

\* unregister_*() is called for one part in each session.
OneEach == [s \in Session |-> IF s = s1 THEN {"listener"} ELSE {"coordinated"}]
Nothing == [s \in Session |-> {}]
=============================================================================
