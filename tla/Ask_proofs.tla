----------------------------- MODULE Ask_proofs -----------------------------
(* Proofs about Client.ask(), for every value of the constants of Ask.     *)
EXTENDS Ask, TLAPS

(***************************************************************************)
(* A key belongs to a call that is inside listen(), and was given to it    *)
(* there.  OverIsReleased follows; by itself it is not inductive, as it    *)
(* says nothing of who may come to have a key.                             *)
(***************************************************************************)
OwnerListens ==
  \A k \in Key : owner[k] # None => pc[owner[k]] = "listening" /\ slot[owner[k]] = k

SlotIsOwn == \A c \in Call : slot[c] \in {None, KeyOf[c]}

\* An error handler runs after listen(), for an error of it, and the result of
\* the call does not change from then on.
ReportedIsOver ==
  \A c \in Call :
    /\ pc[c] \in {"reporting", "returned", "raised"} \/ reported[c] = "nobody"
    /\ pc[c] \in {"idle", "sending", "sent", "found"} => slot[c] = None
    /\ slot[c] = None => result[c] = "pending"
    /\ pc[c] \in {"reporting", "returned", "raised"} =>
         (slot[c] = None \/ result[c] # "pending")
    /\ pc[c] = "reporting" /\ result[c] \in CallHandlers[c] => reported[c] = "call"

Inv == TypeOK /\ OwnerListens /\ SlotIsOwn /\ ReportedIsOver /\ CallHandlersFirst

LEMMA Initially == Init => Inv
  BY ConstantsAssumption DEF Init, Slots!Init, Inv, TypeOK, OwnerListens, SlotIsOwn, ReportedIsOver,
     CallHandlersFirst, Label, Error

LEMMA TypeStep == TypeOK /\ [Next]_vars => TypeOK'
<1> SUFFICES ASSUME TypeOK, [Next]_vars PROVE TypeOK'
  OBVIOUS
<1> USE ConstantsAssumption DEF TypeOK, Label, Error, Goto
<1>1. CASE UNCHANGED vars
  BY <1>1 DEF vars, slotVars, chatVars
<1>2. ASSUME NEW c \in Call, Start(c) PROVE TypeOK'
  BY <1>2 DEF Start, slotVars, chatVars
<1>3. ASSUME NEW c \in Call, Refuse(c) PROVE TypeOK'
  BY <1>3 DEF Refuse, slotVars, chatVars
<1>4. ASSUME NEW c \in Call, Send(c) PROVE TypeOK'
  BY <1>4 DEF Send, slotVars, chatVars
<1>5. ASSUME NEW c \in Call, SendFails(c) \/ FindChat(c) \/ FindChatFails(c)
      PROVE  TypeOK'
  BY <1>5 DEF SendFails, FindChat, FindChatFails, slotVars, chatVars
<1>6. ASSUME NEW c \in Call, Replace(c) PROVE TypeOK'
  BY <1>6 DEF Replace, Slots!Withdraw, slotVars, chatVars
<1>7. ASSUME NEW c \in Call, Listen(c) PROVE TypeOK'
  BY <1>7 DEF Listen, Slots!Claim, slotVars, chatVars
<1>8. ASSUME NEW c \in Call, Cancel(c) PROVE TypeOK'
  BY <1>8 DEF Cancel, Slots!Withdraw, slotVars, chatVars
<1>9. ASSUME NEW c \in Call, GiveUp(c) PROVE TypeOK'
  BY <1>9 DEF GiveUp, Slots!GiveUp, slotVars, chatVars
<1>10. ASSUME NEW c \in Call, Return(c) PROVE TypeOK'
  BY <1>10 DEF Return, Release, Slots!Withdraw, slotVars, chatVars
<1>11. ASSUME NEW c \in Call, Catch(c) PROVE TypeOK'
  BY <1>11 DEF Catch, Release, Slots!Withdraw, Match, slotVars, chatVars
<1>12. ASSUME NEW c \in Call, Reraise(c) PROVE TypeOK'
  BY <1>12 DEF Reraise, slotVars, chatVars
<1>13. ASSUME NEW c \in Call, Aborted(c) PROVE TypeOK'
  BY <1>13 DEF Aborted, Release, Slots!Withdraw, slotVars, chatVars
<1>14. ASSUME NEW k \in Key, NEW u \in Update, Reply(k, u) PROVE TypeOK'
  BY <1>14 DEF Reply, Sent, slotVars, chatVars
<1>15. ASSUME NEW k \in Key, NEW u \in Update, HandleUpdate(k, u) PROVE TypeOK'
  <2>1. ASSUME NEW c \in Call, Slots!Deliver(c, u) PROVE TypeOK'
    BY <1>15, <2>1 DEF HandleUpdate, Slots!Deliver
  <2> QED
    BY <1>15, <2>1 DEF HandleUpdate, slotVars
<1>16. ASSUME NEW e \in Error, RegisterAskErrorHandler(e) PROVE TypeOK'
  BY <1>16 DEF RegisterAskErrorHandler, slotVars, chatVars
<1>17. ASSUME NEW e \in Error, UnregisterAskErrorHandler(e) PROVE TypeOK'
  BY <1>17 DEF UnregisterAskErrorHandler, slotVars, chatVars
<1> QED
  BY <1>1, <1>2, <1>3, <1>4, <1>5, <1>6, <1>7, <1>8, <1>9, <1>10, <1>11, <1>12, <1>13, <1>14,
     <1>15, <1>16, <1>17
     DEF Next, Step

LEMMA OwnerStep == Inv /\ [Next]_vars => (OwnerListens /\ SlotIsOwn)'
<1> SUFFICES ASSUME Inv, [Next]_vars PROVE (OwnerListens /\ SlotIsOwn)'
  OBVIOUS
<1> USE ConstantsAssumption
        DEF Inv, TypeOK, OwnerListens, SlotIsOwn, ReportedIsOver, Label, Error, Goto
<1>1. CASE UNCHANGED vars
  BY <1>1 DEF vars, slotVars, chatVars
<1>2. ASSUME NEW c \in Call, Start(c) PROVE (OwnerListens /\ SlotIsOwn)'
  BY <1>2 DEF Start, slotVars, chatVars
<1>3. ASSUME NEW c \in Call, Refuse(c) PROVE (OwnerListens /\ SlotIsOwn)'
  BY <1>3 DEF Refuse, slotVars, chatVars
<1>4. ASSUME NEW c \in Call, Send(c) PROVE (OwnerListens /\ SlotIsOwn)'
  BY <1>4 DEF Send, slotVars, chatVars
<1>5. ASSUME NEW c \in Call, SendFails(c) \/ FindChat(c) \/ FindChatFails(c)
      PROVE  (OwnerListens /\ SlotIsOwn)'
  BY <1>5 DEF SendFails, FindChat, FindChatFails, slotVars, chatVars
<1>6. ASSUME NEW c \in Call, Replace(c) PROVE (OwnerListens /\ SlotIsOwn)'
  BY <1>6 DEF Replace, Slots!Withdraw, slotVars, chatVars
<1>7. ASSUME NEW c \in Call, Listen(c) PROVE (OwnerListens /\ SlotIsOwn)'
  BY <1>7 DEF Listen, Slots!Claim, slotVars, chatVars
<1>8. ASSUME NEW c \in Call, Cancel(c) PROVE (OwnerListens /\ SlotIsOwn)'
  BY <1>8 DEF Cancel, Slots!Withdraw, slotVars, chatVars
<1>9. ASSUME NEW c \in Call, GiveUp(c) PROVE (OwnerListens /\ SlotIsOwn)'
  BY <1>9 DEF GiveUp, Slots!GiveUp, slotVars, chatVars
<1>10. ASSUME NEW c \in Call, Return(c) PROVE (OwnerListens /\ SlotIsOwn)'
  BY <1>10 DEF Return, Release, Slots!Withdraw, slotVars, chatVars
<1>11. ASSUME NEW c \in Call, Catch(c) PROVE (OwnerListens /\ SlotIsOwn)'
  BY <1>11 DEF Catch, Release, Slots!Withdraw, Match, slotVars, chatVars
<1>12. ASSUME NEW c \in Call, Reraise(c) PROVE (OwnerListens /\ SlotIsOwn)'
  BY <1>12 DEF Reraise, slotVars, chatVars
<1>13. ASSUME NEW c \in Call, Aborted(c) PROVE (OwnerListens /\ SlotIsOwn)'
  BY <1>13 DEF Aborted, Release, Slots!Withdraw, slotVars, chatVars
<1>14. ASSUME NEW k \in Key, NEW u \in Update, Reply(k, u) PROVE (OwnerListens /\ SlotIsOwn)'
  BY <1>14 DEF Reply, Sent, slotVars, chatVars
<1>15. ASSUME NEW k \in Key, NEW u \in Update, HandleUpdate(k, u) PROVE (OwnerListens /\ SlotIsOwn)'
  BY <1>15 DEF HandleUpdate, Slots!Deliver, Sent, slotVars, chatVars
<1>16. ASSUME NEW e \in Error, RegisterAskErrorHandler(e) PROVE (OwnerListens /\ SlotIsOwn)'
  BY <1>16 DEF RegisterAskErrorHandler, slotVars, chatVars
<1>17. ASSUME NEW e \in Error, UnregisterAskErrorHandler(e) PROVE (OwnerListens /\ SlotIsOwn)'
  BY <1>17 DEF UnregisterAskErrorHandler, slotVars, chatVars
<1> QED
  BY <1>1, <1>2, <1>3, <1>4, <1>5, <1>6, <1>7, <1>8, <1>9, <1>10, <1>11, <1>12, <1>13, <1>14,
     <1>15, <1>16, <1>17
     DEF Next, Step

LEMMA ReportStep == Inv /\ [Next]_vars => (ReportedIsOver /\ CallHandlersFirst)'
<1> SUFFICES ASSUME Inv, [Next]_vars PROVE (ReportedIsOver /\ CallHandlersFirst)'
  OBVIOUS
<1> USE ConstantsAssumption
        DEF Inv, TypeOK, SlotIsOwn, ReportedIsOver, CallHandlersFirst, Label, Error, Goto
<1>1. CASE UNCHANGED vars
  BY <1>1 DEF vars, slotVars, chatVars
<1>2. ASSUME NEW c \in Call, Start(c) PROVE (ReportedIsOver /\ CallHandlersFirst)'
  BY <1>2 DEF Start, slotVars, chatVars
<1>3. ASSUME NEW c \in Call, Refuse(c) PROVE (ReportedIsOver /\ CallHandlersFirst)'
  BY <1>3, ZenonT(30) DEF Refuse, slotVars, chatVars
<1>4. ASSUME NEW c \in Call, Send(c) PROVE (ReportedIsOver /\ CallHandlersFirst)'
  BY <1>4 DEF Send, slotVars, chatVars
<1>5. ASSUME NEW c \in Call, SendFails(c) \/ FindChat(c) \/ FindChatFails(c)
      PROVE  (ReportedIsOver /\ CallHandlersFirst)'
  <2>1. CASE SendFails(c)
    BY <2>1, ZenonT(60) DEF SendFails, slotVars, chatVars
  <2>2. CASE FindChat(c)
    BY <2>2 DEF FindChat, slotVars, chatVars
  <2>3. CASE FindChatFails(c)
    <3>1. slot[c] = None /\ result[c] = "pending" /\ reported[c] = "nobody"
      BY <2>3 DEF FindChatFails
    <3> QED
      BY <2>3, <3>1 DEF FindChatFails, slotVars, chatVars
  <2> QED
    BY <1>5, <2>1, <2>2, <2>3
<1>6. ASSUME NEW c \in Call, Replace(c) PROVE (ReportedIsOver /\ CallHandlersFirst)'
  BY <1>6, ZenonT(60) DEF Replace, Slots!Withdraw, slotVars, chatVars
<1>7. ASSUME NEW c \in Call, Listen(c) PROVE (ReportedIsOver /\ CallHandlersFirst)'
  BY <1>7 DEF Listen, Slots!Claim, slotVars, chatVars
<1>8. ASSUME NEW c \in Call, Cancel(c) PROVE (ReportedIsOver /\ CallHandlersFirst)'
  BY <1>8 DEF Cancel, Slots!Withdraw, slotVars, chatVars
<1>9. ASSUME NEW c \in Call, GiveUp(c) PROVE (ReportedIsOver /\ CallHandlersFirst)'
  <2>1. pc[c] = "listening" /\ reported[c] = "nobody"
    BY <1>9 DEF GiveUp, Slots!GiveUp
  <2>2. PICK why \in {"timeout", "aborted"} :
          result' = [result EXCEPT ![c] = why] /\ UNCHANGED <<pc, slot, reported>> /\ slot[c] # None
    BY <1>9 DEF GiveUp, Slots!GiveUp
  <2> QED
    BY <2>1, <2>2
<1>10. ASSUME NEW c \in Call, Return(c) PROVE (ReportedIsOver /\ CallHandlersFirst)'
  BY <1>10 DEF Return, Release, Slots!Withdraw, slotVars, chatVars
<1>11. ASSUME NEW c \in Call, Catch(c) PROVE (ReportedIsOver /\ CallHandlersFirst)'
  BY <1>11 DEF Catch, Release, Slots!Withdraw, Match, slotVars, chatVars
<1>12. ASSUME NEW c \in Call, Reraise(c) PROVE (ReportedIsOver /\ CallHandlersFirst)'
  <2>1. pc[c] = "reporting" /\ pc' = [pc EXCEPT ![c] = "raised"]
        /\ UNCHANGED <<slot, result, reported>>
    BY <1>12 DEF Reraise, slotVars
  <2>2. ReportedIsOver'
    BY <2>1
  <2>3. CallHandlersFirst'
    BY <2>1
  <2> QED
    BY <2>2, <2>3
<1>13. ASSUME NEW c \in Call, Aborted(c) PROVE (ReportedIsOver /\ CallHandlersFirst)'
  BY <1>13, ZenonT(30) DEF Aborted, Release, Slots!Withdraw, slotVars, chatVars
<1>14. ASSUME NEW k \in Key, NEW u \in Update, Reply(k, u)
      PROVE (ReportedIsOver /\ CallHandlersFirst)'
  BY <1>14 DEF Reply, Sent, slotVars, chatVars
<1>15. ASSUME NEW k \in Key, NEW u \in Update, HandleUpdate(k, u)
      PROVE (ReportedIsOver /\ CallHandlersFirst)'
  <2>1. ASSUME NEW c \in Call, Slots!Deliver(c, u) PROVE (ReportedIsOver /\ CallHandlersFirst)'
    <3>1. pc[c] = "listening" /\ reported[c] = "nobody"
      BY <2>1 DEF Slots!Deliver
    <3>2. result' = [result EXCEPT ![c] = u] /\ UNCHANGED <<pc, slot, reported>> /\ slot[c] # None
      BY <1>15, <2>1 DEF HandleUpdate, Slots!Deliver
    <3> QED
      BY <3>1, <3>2
  <2> QED
    BY <1>15, <2>1 DEF HandleUpdate, slotVars
<1>16. ASSUME NEW e \in Error, RegisterAskErrorHandler(e)
      PROVE (ReportedIsOver /\ CallHandlersFirst)'
  BY <1>16 DEF RegisterAskErrorHandler, slotVars, chatVars
<1>17. ASSUME NEW e \in Error, UnregisterAskErrorHandler(e)
      PROVE (ReportedIsOver /\ CallHandlersFirst)'
  BY <1>17 DEF UnregisterAskErrorHandler, slotVars, chatVars
<1> QED
  BY <1>1, <1>2, <1>3, <1>4, <1>5, <1>6, <1>7, <1>8, <1>9, <1>10, <1>11, <1>12, <1>13, <1>14,
     <1>15, <1>16, <1>17
     DEF Next, Step

LEMMA Invariance == Spec => []Inv
<1>1. Inv /\ [Next]_vars => Inv'
  BY TypeStep, OwnerStep, ReportStep DEF Inv
<1> QED
  BY <1>1, Initially, PTL DEF Spec

\* Every variable keeps its type.
THEOREM TypeCorrect == Spec => []TypeOK
<1>1. Inv => TypeOK
  BY DEF Inv
<1> QED
  BY <1>1, Invariance, PTL

\* However an ask() ends, it keeps no key with which it would take the next
\* update of the conversation from the handlers (Client.ask, listen's finally).
THEOREM Released == Spec => []OverIsReleased
<1>1. Inv => OverIsReleased
  BY ConstantsAssumption DEF Inv, OwnerListens, OverIsReleased
<1> QED
  BY <1>1, Invariance, PTL

\* The client's error handlers see no error the call has a handler for, and
\* neither sees a cancellation (handle_ask_error).
THEOREM HandlersInOrder == Spec => []CallHandlersFirst
<1>1. Inv => CallHandlersFirst
  BY DEF Inv
<1> QED
  BY <1>1, Invariance, PTL

\* What a call, a user or a worker does to the listeners is a step of their
\* contract or none of theirs.
LEMMA SlotsStep == TypeOK /\ [Next]_vars => [Slots!Next]_slotVars
<1> SUFFICES ASSUME TypeOK, [Next]_vars PROVE Slots!Next \/ UNCHANGED slotVars
  OBVIOUS
<1>1. ASSUME NEW vacated \in SUBSET Key, NEW cancelled \in SUBSET Call,
             Slots!Withdraw(vacated, cancelled)
      PROVE Slots!Next
  BY <1>1 DEF Slots!Next
<1>2. ASSUME NEW c \in Call, Release(c) PROVE Slots!Next
  <2>1. {k \in Key : owner[k] = c} \in SUBSET Key /\ {} \in SUBSET Call
    OBVIOUS
  <2> QED
    BY <1>2, <2>1, <1>1 DEF Release
<1>3. CASE UNCHANGED vars
  BY <1>3 DEF vars
<1>4. ASSUME NEW c \in Call,
             Start(c) \/ Refuse(c) \/ Send(c) \/ SendFails(c) \/ Reraise(c)
             \/ FindChat(c) \/ FindChatFails(c)
      PROVE UNCHANGED slotVars
  BY <1>4 DEF Start, Refuse, Send, SendFails, FindChat, FindChatFails, Reraise
<1>5. ASSUME NEW c \in Call, Replace(c) PROVE Slots!Next
  <2> DEFINE d == owner[KeyOf[c]]
             told == IF result[d] = "pending" THEN {d} ELSE {}
  <2>1. {KeyOf[c]} \in SUBSET Key /\ d \in Call
    BY <1>5, ConstantsAssumption DEF Replace, TypeOK
  <2>2. told \in SUBSET Call /\ Slots!Withdraw({KeyOf[c]}, told)
    BY <1>5, <2>1 DEF Replace
  <2> HIDE DEF told
  <2> QED
    BY <2>1, <2>2, <1>1
<1>6. ASSUME NEW c \in Call, Listen(c) PROVE Slots!Next
  <2>1. KeyOf[c] \in Key /\ Slots!Claim(c, KeyOf[c])
    BY <1>6, ConstantsAssumption DEF Listen
  <2> QED
    BY <2>1 DEF Slots!Next
<1>7. ASSUME NEW c \in Call, Cancel(c) PROVE Slots!Next
  <2>1. {KeyOf[c]} \in SUBSET Key /\ {c} \in SUBSET Call
    BY ConstantsAssumption
  <2>2. Slots!Withdraw({KeyOf[c]}, {c})
    BY <1>7 DEF Cancel
  <2> QED
    BY <2>1, <2>2, <1>1
<1>8. ASSUME NEW c \in Call, GiveUp(c) PROVE Slots!Next
  BY <1>8 DEF GiveUp, Slots!Next
<1>9. ASSUME NEW c \in Call, Return(c) \/ Catch(c) \/ Aborted(c) PROVE Slots!Next
  <2>1. Release(c)
    BY <1>9 DEF Return, Catch, Aborted
  <2> QED
    BY <2>1, <1>2
<1>10. ASSUME NEW k \in Key, NEW u \in Update, Reply(k, u) PROVE UNCHANGED slotVars
  BY <1>10 DEF Reply
<1>11. ASSUME NEW k \in Key, NEW u \in Update, HandleUpdate(k, u)
       PROVE Slots!Next \/ UNCHANGED slotVars
  <2>1. ASSUME NEW c \in Call, Slots!Deliver(c, u) PROVE Slots!Next
    BY <2>1 DEF Slots!Next
  <2> QED
    BY <1>11, <2>1 DEF HandleUpdate
<1>12. ASSUME NEW e \in Error, RegisterAskErrorHandler(e) \/ UnregisterAskErrorHandler(e)
       PROVE UNCHANGED slotVars
  BY <1>12 DEF RegisterAskErrorHandler, UnregisterAskErrorHandler
<1> QED
  BY <1>3, <1>4, <1>5, <1>6, <1>7, <1>8, <1>9, <1>10, <1>11, <1>12 DEF Next, Step

\* The listeners keep the contract of listen() under any calls of ask(), however
\* these replace, cancel and outlive each other.
THEOREM Contract == Spec => KeepsContract
<1>1. Init => Slots!Init
  BY DEF Init
<1>2. TypeOK /\ [Next]_vars => [Slots!Next]_(Slots!vars)
  BY SlotsStep DEF slotVars, Slots!vars
<1> QED
  BY <1>1, <1>2, TypeCorrect, PTL DEF Spec, KeepsContract, Slots!Spec
=============================================================================
