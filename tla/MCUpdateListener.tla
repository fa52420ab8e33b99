-------------------------- MODULE MCUpdateListener --------------------------
(* Constants of the UpdateListener runs.                                    *)
EXTENDS UpdateListenerSlots, TLC

CONSTANTS chatA, userA, replacing, rejecting

\* The keys of one chat and one user, with the candidates sub_keys() gives.
Keys == INSTANCE ListenerKeys WITH ChatId <- {chatA}, UserId <- {userA}, MessageId <- {},
                                   Absent <- None

ChatKey == [chat_id |-> chatA, user_id |-> None, message_id |-> None]

\* The key (chat, user) and the key (chat): an update of that user is searched
\* for under both.
OneChat == {chatA}
TwoKeys == Keys!ListenerKey
TwoKeysChat == [k \in TwoKeys |-> k.chat_id]
TwoKeysSubKeys == [k \in TwoKeys |-> Keys!SubKeysOf(k)]

\* One key only, for the runs whose subject is one conversation slot.
OneKey == {ChatKey}
OneKeyChat == [k \in OneKey |-> k.chat_id]
OneKeySubKeys == [k \in OneKey |-> Keys!SubKeysOf(k)]

\* The duplicate policies: of one bot's sessions each has its own listener.
Replacing == [s \in Session |-> "REPLACE"]
Rejecting == [s \in Session |-> "REJECT"]
BothPolicies == {replacing, rejecting}
MixedPolicy == [s \in Session |-> IF s = replacing THEN "REPLACE" ELSE "REJECT"]

Peers == Permutations(Call) \cup Permutations(Update)
Symmetry == Permutations(Session) \cup Peers
=============================================================================
