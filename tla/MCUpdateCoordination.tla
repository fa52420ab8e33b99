------------------------ MODULE MCUpdateCoordination ------------------------
(* Small instances of UpdateCoordination for TLC.                          *)
EXTENDS UpdateCoordinationOnce, TLC

CONSTANTS first, second, chat

TwoUpdates == <<first, second>>
SentTwice == <<first, first>>
SentOnce == <<first>>

Updates == {first, second}
OneScope == {chat}
ChatWide == [u \in Updates |-> chat]
EachItself == [u \in Updates |-> u]

\* MessageCoordinated identifies an update by the chat and the id of its
\* message: a message and its edits are one.
MessageAndEdit == [u \in Updates |-> first]

Symmetry == Permutations(Session)
=============================================================================
