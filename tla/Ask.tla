--------------------------------- MODULE Ask ---------------------------------
(***************************************************************************)
(* Client.ask(): send or edit a message, listen for the update that        *)
(* answers it, and let an error handler see what went wrong.  The message  *)
(* and the listener are two steps, and the updates of the conversation are *)
(* handled by several workers meanwhile.                                   *)
(*                                                                         *)
(* The listener is its contract, ListenerSlots, whose steps the actions    *)
(* take.  A Mutant is not part of the specification.                       *)
(***************************************************************************)
EXTENDS Naturals, Sequences, FiniteSets

CONSTANTS
  Call,
  Key,           \* what the calls listen for
  KeyOf,
  Update,        \* what users send
  None,
  CallHandlers,  \* the errors each call has an error handler for
  Env            \* what may happen, a subset of Events

Events == {"timeout",    \* a call has a timeout
           "abort",      \* the task of a call may be cancelled
           "cancel",     \* cancel(), stop() or another session may end a listener
           "refused",    \* the arguments may be refused, or no listener is registered
           "unsent",     \* the message may be refused
           "unresolved", \* its chat may not be found
           "handlers"}   \* handlers may be registered and unregistered

Error == {"timeout", "cancelled"}
Label == {"idle", "sending", "sent", "found", "listening", "reporting", "returned", "raised"}

ASSUME ConstantsAssumption ==
  /\ KeyOf \in [Call -> Key]
  /\ CallHandlers \in [Call -> SUBSET Error]
  /\ None \notin Call \cup Key
  /\ Update \cap {"pending", "aborted", "timeout", "cancelled"} = {}
  /\ Env \subseteq Events

VARIABLES
  pc,        \* where each call is
  owner, slot, result,  \* the listener's: see ListenerSlots
  chat,      \* the updates sent for each key, in order
  handled,   \* those a worker is done with
  mark,      \* how many had been sent when the message of a call appeared
  ask_error_handlers,
  reported   \* whose error handler ran for a call: the call's, the client's

slotVars == <<owner, slot, result>>
chatVars == <<chat, handled>>
vars == <<pc, slotVars, chatVars, mark, ask_error_handlers, reported>>

Slots == INSTANCE ListenerSlots

TypeOK ==
  /\ pc \in [Call -> Label]
  /\ owner \in [Key -> Call \cup {None}] /\ slot \in [Call -> Key \cup {None}]
  /\ result \in [Call -> {"pending", "aborted"} \cup Error \cup Update]
  /\ chat \in [Key -> Seq(Update)]
  /\ handled \subseteq Update
  /\ mark \in [Call -> Nat]
  /\ ask_error_handlers \subseteq Error
  /\ reported \in [Call -> {"nobody", "call", "client"}]

Init ==
  /\ pc = [c \in Call |-> "idle"]
  /\ Slots!Init
  /\ chat = [k \in Key |-> <<>>] /\ handled = {}
  /\ mark = [c \in Call |-> 0]
  /\ ask_error_handlers = {}
  /\ reported = [c \in Call |-> "nobody"]
-----------------------------------------------------------------------------
Goto(c, label) == pc' = [pc EXCEPT ![c] = label]
Sent(k) == {chat[k][i] : i \in DOMAIN chat[k]}

Start(c) ==
  /\ pc[c] = "idle"
  /\ Goto(c, "sending")
  /\ UNCHANGED <<slotVars, chatVars, mark, ask_error_handlers, reported>>

\* Message.ask() on an empty or a service message, or with options its edit mode
\* has no use for; Client.ask() for a type without a listener, or with a markup
\* an edit cannot carry: nothing was sent, and no error handler hears of it.
Refuse(c) ==
  /\ "refused" \in Env /\ pc[c] = "idle"
  /\ Goto(c, "raised")
  /\ UNCHANGED <<slotVars, chatVars, mark, ask_error_handlers, reported>>

\* send_message() or edit_message_text(): the user sees it before the call
\* goes on.
Send(c) ==
  /\ pc[c] = "sending"
  /\ mark' = [mark EXCEPT ![c] = Len(chat[KeyOf[c]])]
  /\ Goto(c, "sent")
  /\ UNCHANGED <<slotVars, chatVars, ask_error_handlers, reported>>

\* It raises: no message, so no error handler.
SendFails(c) ==
  /\ "unsent" \in Env /\ pc[c] = "sending"
  /\ Goto(c, "raised")
  /\ UNCHANGED <<slotVars, chatVars, mark, ask_error_handlers, reported>>

\* Where the answer will come from: the chat of the message, or what
\* resolve_peer() finds for the name that was passed.
FindChat(c) ==
  /\ pc[c] = "sent"
  /\ Goto(c, "found")
  /\ UNCHANGED <<slotVars, chatVars, mark, ask_error_handlers, reported>>

\* listen_message_id() or resolve_peer() raises: the user has the message, but
\* nobody listens, and no error handler hears of it.
FindChatFails(c) ==
  /\ "unresolved" \in Env /\ pc[c] = "sent"
  /\ Goto(c, "raised")
  /\ UNCHANGED <<slotVars, chatVars, mark, ask_error_handlers, reported>>

\* listener(...) takes the place of the listener that has the key.
Replace(c) ==
  /\ pc[c] = "found"
  /\ owner[KeyOf[c]] # None
  /\ LET d == owner[KeyOf[c]]
     IN Slots!Withdraw({KeyOf[c]}, IF result[d] = "pending" THEN {d} ELSE {})
  /\ UNCHANGED <<pc, chatVars, mark, ask_error_handlers, reported>>

\* Mutant: the listener that has the key is not told.
ListenOver(c) ==
  /\ pc[c] = "found"
  /\ owner' = [owner EXCEPT ![KeyOf[c]] = c]
  /\ slot' = [slot EXCEPT ![c] = KeyOf[c]]
  /\ Goto(c, "listening")
  /\ UNCHANGED <<result, chatVars, mark, ask_error_handlers, reported>>

Listen(c) ==
  /\ pc[c] = "found"
  /\ Slots!Claim(c, KeyOf[c])
  /\ Goto(c, "listening")
  /\ UNCHANGED <<chatVars, mark, ask_error_handlers, reported>>

\* cancel(), stop() or a listener of another session.
Cancel(c) ==
  /\ "cancel" \in Env /\ slot[c] # None /\ owner[KeyOf[c]] = c /\ result[c] = "pending"
  /\ Slots!Withdraw({KeyOf[c]}, {c})
  /\ UNCHANGED <<pc, chatVars, mark, ask_error_handlers, reported>>

GiveUp(c) ==
  /\ \/ "timeout" \in Env /\ Slots!GiveUp(c, "timeout")
     \/ "abort" \in Env /\ Slots!GiveUp(c, "aborted")
  /\ UNCHANGED <<pc, chatVars, mark, ask_error_handlers, reported>>

\* Mutant: the listener keeps its key.
ReleaseNothing(c) == UNCHANGED slotVars

\* listen() gives the key back, if it is still its own.
Release(c) == Slots!Withdraw({k \in Key : owner[k] = c}, {})

Return(c) ==
  /\ pc[c] = "listening" /\ result[c] \in Update
  /\ Release(c)
  /\ Goto(c, "returned")
  /\ UNCHANGED <<chatVars, mark, ask_error_handlers, reported>>

\* Mutant: the client's handlers come first.
MatchClientFirst(c) ==
  IF result[c] \in ask_error_handlers THEN "client"
  ELSE IF result[c] \in CallHandlers[c] THEN "call" ELSE "nobody"

\* handle_ask_error(): the call's handlers, then the client's.
Match(c) ==
  IF result[c] \in CallHandlers[c] THEN "call"
  ELSE IF result[c] \in ask_error_handlers THEN "client" ELSE "nobody"

\* listen() raised: a handler that matches is awaited.
Catch(c) ==
  /\ pc[c] = "listening" /\ result[c] \in Error
  /\ Release(c)
  /\ reported' = [reported EXCEPT ![c] = Match(c)]
  /\ Goto(c, IF Match(c) = "nobody" THEN "raised" ELSE "reporting")
  /\ UNCHANGED <<chatVars, mark, ask_error_handlers>>

\* The handler returned or failed: the error is raised again.
Reraise(c) ==
  /\ pc[c] = "reporting"
  /\ Goto(c, "raised")
  /\ UNCHANGED <<slotVars, chatVars, mark, ask_error_handlers, reported>>

\* CancelledError is no Exception: it passes by the error handlers.
Aborted(c) ==
  /\ pc[c] = "listening" /\ result[c] = "aborted"
  /\ Release(c)
  /\ Goto(c, "raised")
  /\ UNCHANGED <<chatVars, mark, ask_error_handlers, reported>>
-----------------------------------------------------------------------------
\* A user sends an update.
Reply(k, u) ==
  /\ \A j \in Key : u \notin Sent(j)
  /\ chat' = [chat EXCEPT ![k] = Append(@, u)]
  /\ UNCHANGED <<pc, slotVars, handled, mark, ask_error_handlers, reported>>

\* A worker takes an update to the listener or, when nobody waits for it, to
\* the handlers.  Workers run side by side, so that they may overtake.
HandleUpdate(k, u) ==
  /\ u \in Sent(k) \ handled
  /\ handled' = handled \cup {u}
  /\ \/ \E c \in Call : owner[k] = c /\ Slots!Deliver(c, u)
     \/ /\ ~\E c \in Call : owner[k] = c /\ result[c] = "pending"
        /\ UNCHANGED slotVars
  /\ UNCHANGED <<pc, chat, mark, ask_error_handlers, reported>>

RegisterAskErrorHandler(e) ==
  /\ "handlers" \in Env
  /\ ask_error_handlers' = ask_error_handlers \cup {e}
  /\ UNCHANGED <<pc, slotVars, chatVars, mark, reported>>

UnregisterAskErrorHandler(e) ==
  /\ "handlers" \in Env
  /\ ask_error_handlers' = ask_error_handlers \ {e}
  /\ UNCHANGED <<pc, slotVars, chatVars, mark, reported>>

Step(c) == \/ Send(c) \/ FindChat(c) \/ Replace(c) \/ Listen(c)
           \/ Return(c) \/ Catch(c) \/ Reraise(c) \/ Aborted(c)

Next ==
  \/ \E c \in Call : \/ Start(c) \/ Refuse(c) \/ Step(c) \/ Cancel(c) \/ GiveUp(c)
                    \/ SendFails(c) \/ FindChatFails(c)
  \/ \E k \in Key, u \in Update : Reply(k, u) \/ HandleUpdate(k, u)
  \/ \E e \in Error : RegisterAskErrorHandler(e) \/ UnregisterAskErrorHandler(e)

Spec == Init /\ [][Next]_vars

-----------------------------------------------------------------------------
\* A call that is over has no key any more, where it would take the next
\* update of the conversation away from the handlers.
OverIsReleased ==
  \A c \in Call : pc[c] \in {"reporting", "returned", "raised"} =>
    \A k \in Key : owner[k] # c

\* An error of which the call has a handler never reaches the client's, and
\* only an error of the listener reaches either (client.py:427).
CallHandlersFirst ==
  \A c \in Call :
    /\ reported[c] = "client" => result[c] \in Error \ CallHandlers[c]
    /\ result[c] \in CallHandlers[c] /\ pc[c] = "raised" => reported[c] = "call"
    /\ result[c] \in Update \cup {"aborted"} => reported[c] = "nobody"

\* The listeners keep their contract under the calls.
KeepsContract == Slots!Spec

PositionOf(k, u) == CHOOSE i \in DOMAIN chat[k] : chat[k][i] = u

\* What a call returns was sent after its message (client.py:379).
AnswerFollowsPrompt ==
  \A c \in Call : result[c] \in Update => PositionOf(KeyOf[c], result[c]) > mark[c]
=============================================================================
