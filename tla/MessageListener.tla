--------------------------- MODULE MessageListener ---------------------------
(***************************************************************************)
(* The message listener of one session and what ends its conversations     *)
(* beside the answer: a bot command, which bypasses the listener it finds  *)
(* (MessageListener._is_bypass, wired in as bypass_func), and a button     *)
(* under the message of an ask, which cancels it                           *)
(* (CallbackQueryListener.on_unresolved).  The list of the bot's commands  *)
(* is fetched from Telegram under the lock of a chat and shared by all.    *)
(*                                                                         *)
(* One session, so a local listener owns its key, and no listen() begins   *)
(* while the listener stops; UpdateListener has the registrations, several *)
(* sessions, and what can go wrong with them.                              *)
(***************************************************************************)
EXTENDS ListenerKeys

CONSTANTS
  Ask,              \* calls of listen()
  KeyOf,            \* the key of each
  Timed,            \* those that have a timeout, or whose task may be cancelled
  Prompt,           \* meta["message_id"]: the message it asked with, or Absent
  Message, Press,   \* updates: messages, buttons pressed
  KeyIn,            \* the key extracted from each
  Name,             \* the command each message is by its form, or None
  Official,         \* the commands registered at Telegram
  Env,              \* "refused": Telegram may refuse to list them
  Lives,            \* bound on the calls of start()
  None

Task == Message \cup Press
KeyUsed == {KeyOf[a] : a \in Ask}
Chat == {k.chat_id : k \in KeyUsed}
NoSuch == [chat_id |-> None, user_id |-> Absent, message_id |-> Absent]

ASSUME MessageListenerAssumption ==
  /\ Timed \subseteq Ask /\ KeyOf \in [Ask -> ListenerKey] /\ KeyIn \in [Task -> ListenerKey]
  /\ Prompt \in [Ask -> MessageId \cup {Absent}]
  /\ Message \cap Press = {} /\ None \notin Ask \cup Task \cup ChatId \cup Official
  /\ None \notin {Official, {}} /\ IsFiniteSet(Ask)

VARIABLES
  life, lives,  \* "up", "stopping", "down"; calls of start() so far
  sweep,        \* keys that stop() has still to cancel
  listeners,    \* the ask that waits under each key, or None
  got,          \* of each ask: "no", "pending", how it ended, or its answer
  lock,         \* of each chat: the update resolve() holds it for, or None
  pc,           \* of each update
  target,       \* the key it found a listener under, or NoSuch
  cache,        \* _bot_commands_cache: a set of commands, or None
  fetches       \* get_bot_commands() calls since the cache was empty

lifeVars == <<life, lives, sweep>>
askVars == <<listeners, got>>
taskVars == <<lock, pc, target>>
cacheVars == <<cache, fetches>>
vars == <<lifeVars, askVars, taskVars, cacheVars>>

Init ==
  /\ life = "up" /\ lives = 1 /\ sweep = {}
  /\ listeners = [k \in KeyUsed |-> None] /\ got = [a \in Ask |-> "no"]
  /\ lock = [c \in Chat |-> None]
  /\ pc = [t \in Task |-> "away"] /\ target = [t \in Task |-> NoSuch]
  /\ cache = None /\ fetches = 0

Goto(t, label) == pc' = [pc EXCEPT ![t] = label]
ChatIn(t) == KeyIn[t].chat_id
Locked(c) == c \in Chat /\ lock[c] # None
Listened == {k \in KeyUsed : listeners[k] # None}

\* The first of sub_keys() that has a listener.
FirstListened(key) ==
  LET candidates == SubKeysOf(key)
      hits == {i \in DOMAIN candidates : candidates[i] \in Listened}
  IN IF hits = {} THEN NoSuch ELSE candidates[Min(hits)]

\* _cancel(key): whoever waits under the key.
Cancelled(keys) ==
  /\ got' = [a \in Ask |-> IF \E k \in keys \cap KeyUsed : listeners[k] = a
                             THEN "cancelled" ELSE got[a]]
  /\ listeners' = [k \in KeyUsed |-> IF k \in keys THEN None ELSE listeners[k]]
-----------------------------------------------------------------------------
(* listen() *)

\* Under the lock, so in one step: what waits under the key is replaced.
Listen(a) ==
  LET k == KeyOf[a] IN
  /\ got[a] = "no" /\ life = "up" /\ ~Locked(k.chat_id)
  /\ got' = [b \in Ask |-> CASE b = a -> "pending"
                             [] b = listeners[k] -> "cancelled"
                             [] OTHER -> got[b]]
  /\ listeners' = [listeners EXCEPT ![k] = a]
  /\ UNCHANGED <<lifeVars, taskVars, cacheVars>>

\* The future ends, and its done callback takes the listener out: no lock.
Timeout(a) ==
  /\ a \in Timed /\ got[a] = "pending"
  /\ got' = [got EXCEPT ![a] = "timeout"]
  /\ listeners' = [listeners EXCEPT ![KeyOf[a]] = None]
  /\ UNCHANGED <<lifeVars, taskVars, cacheVars>>
-----------------------------------------------------------------------------
(* resolve() of a message *)

\* Nobody waits at all: the lock is not asked for.
Arrive(m) ==
  /\ pc[m] = "away"
  /\ Goto(m, IF Listened = {} THEN "done" ELSE "lock")
  /\ UNCHANGED <<lifeVars, askVars, lock, target, cacheVars>>

Seek(m) ==
  /\ pc[m] = "lock" /\ ~Locked(ChatIn(m))
  /\ target' = [target EXCEPT ![m] = FirstListened(KeyIn[m])]
  /\ IF FirstListened(KeyIn[m]) = NoSuch
       THEN Goto(m, "passed") /\ UNCHANGED lock
       ELSE Goto(m, "matched") /\ lock' = [lock EXCEPT ![ChatIn(m)] = m]
  /\ UNCHANGED <<lifeVars, askVars, cacheVars>>

\* is_bypass() said yes or no: the listener is cancelled and the handlers get
\* the message, or the listener does, if it still waits.
Bypass(m) == Cancelled({target[m]}) /\ Goto(m, "passed")

Resolve(m) ==
  LET a == listeners[target[m]] IN
  IF a = None
    THEN Goto(m, "passed") /\ UNCHANGED askVars
    ELSE /\ got' = [got EXCEPT ![a] = m]
         /\ listeners' = [listeners EXCEPT ![target[m]] = None]
         /\ Goto(m, "done")

Decide(m, commands) ==
  /\ lock' = [lock EXCEPT ![ChatIn(m)] = None]
  /\ IF Name[m] # None /\ Name[m] \in commands THEN Bypass(m) ELSE Resolve(m)

\* No command, or the list is at hand.
Match(m) ==
  /\ pc[m] = "matched" /\ (Name[m] = None \/ cache # None)
  /\ Decide(m, IF cache = None THEN {} ELSE cache)
  /\ UNCHANGED <<lifeVars, target, cacheVars>>

\* get_bot_commands() is called with the lock held, and other chats go on.
Fetch(m) ==
  /\ pc[m] = "matched" /\ Name[m] # None /\ cache = None
  /\ Goto(m, "fetching")
  /\ fetches' = fetches + 1
  /\ UNCHANGED <<lifeVars, askVars, lock, target, cache>>

\* Mutant: a refused list is asked for again.
FetchedNothing(m, commands) ==
  /\ pc[m] = "fetching"
  /\ cache' = IF commands = {} THEN cache ELSE commands
  /\ Decide(m, commands)
  /\ UNCHANGED <<lifeVars, target, fetches>>

\* Whatever was cached meanwhile is overwritten.
Fetched(m, commands) ==
  /\ pc[m] = "fetching"
  /\ cache' = commands
  /\ Decide(m, commands)
  /\ UNCHANGED <<lifeVars, target, fetches>>
-----------------------------------------------------------------------------
(* on_unresolved() of a callback query listener that has no listener for it *)

\* Not reached when no button is waited for at all.  The message listener's dict
\* is read without its lock; the first candidate that is listened for ends the
\* search.
SeekPrompt(p) ==
  LET k == FirstListened(KeyIn[p]) IN
  /\ pc[p] = "away"
  /\ IF k # NoSuch /\ Prompt[listeners[k]] = KeyIn[p].message_id
       THEN Goto(p, "cancelling") /\ target' = [target EXCEPT ![p] = k]
       ELSE Goto(p, "passed") /\ UNCHANGED target
  /\ UNCHANGED <<lifeVars, askVars, lock, cacheVars>>

\* Mutant: the lock of the chat is not given a chance to become free.
CancelPromptIfFree(p) ==
  /\ pc[p] = "cancelling"
  /\ IF Locked(ChatIn(p)) THEN UNCHANGED askVars ELSE Cancelled({target[p]})
  /\ Goto(p, "passed")
  /\ UNCHANGED <<lifeVars, lock, target, cacheVars>>

\* cancel(key) takes the lock and names no ownership token.
CancelPrompt(p) ==
  /\ pc[p] = "cancelling" /\ ~Locked(ChatIn(p))
  /\ Cancelled({target[p]})
  /\ Goto(p, "passed")
  /\ UNCHANGED <<lifeVars, lock, target, cacheVars>>
-----------------------------------------------------------------------------
(* stop() and start() *)

Stop ==
  /\ life = "up"
  /\ life' = "stopping" /\ sweep' = Listened
  /\ UNCHANGED <<lives, askVars, taskVars, cacheVars>>

StopCancel(k) ==
  /\ k \in sweep /\ ~Locked(k.chat_id)
  /\ sweep' = sweep \ {k}
  /\ Cancelled({k})
  /\ UNCHANGED <<life, lives, taskVars, cacheVars>>

\* A fetch whose listener has timed out is not waited for.
StopEnd ==
  /\ life = "stopping" /\ sweep = {}
  /\ life' = "down"
  /\ cache' = None /\ fetches' = 0
  /\ UNCHANGED <<lives, sweep, askVars, taskVars>>

Start ==
  /\ life = "down" /\ lives < Lives
  /\ life' = "up" /\ lives' = lives + 1
  /\ UNCHANGED <<sweep, askVars, taskVars, cacheVars>>
-----------------------------------------------------------------------------
MessageStep(m) ==
  \/ Arrive(m) \/ Seek(m) \/ Match(m) \/ Fetch(m)
  \/ Fetched(m, Official) \/ ("refused" \in Env /\ Fetched(m, {}))

PressStep(p) == SeekPrompt(p) \/ CancelPrompt(p)

Next ==
  \/ \E a \in Ask : Listen(a) \/ Timeout(a)
  \/ \E m \in Message : MessageStep(m)
  \/ \E p \in Press : PressStep(p)
  \/ Stop \/ StopEnd \/ Start \/ \E k \in KeyUsed : StopCancel(k)

Spec == Init /\ [][Next]_vars

\* What the loop runs, and Telegram's replies; a lock that is free again and
\* again is taken.
Fairness ==
  /\ \A m \in Message : WF_vars(Match(m)) /\ WF_vars(Fetch(m))
                        /\ WF_vars(\E commands \in {Official, {}} : Fetched(m, commands))
  /\ \A p \in Press : SF_vars(CancelPrompt(p))

FairSpec == Spec /\ Fairness
-----------------------------------------------------------------------------
(* What a match is, without masks, plans or combinations. *)

Matches(listener, update) ==
  /\ listener.chat_id = update.chat_id
  /\ listener.user_id \in {Absent, update.user_id}
  /\ listener.message_id \in {Absent, update.message_id}

\* More components first; of as many, the one that names the user.
Preferred(a, b) ==
  \/ Cardinality(Carried(a)) > Cardinality(Carried(b))
  \/ /\ Cardinality(Carried(a)) = Cardinality(Carried(b))
     /\ a.user_id # Absent /\ b.user_id = Absent

\* The search of resolve() ends at the listener preferred among all that match
\* at that moment, and fails only if none does.
SearchIsSound ==
  [][\A m \in Message : pc[m] = "lock" /\ pc'[m] # "lock" =>
       /\ target'[m] = NoSuch => \A k \in Listened : ~Matches(k, KeyIn[m])
       /\ target'[m] # NoSuch =>
            /\ target'[m] \in Listened /\ Matches(target'[m], KeyIn[m])
            /\ \A k \in Listened \ {target'[m]} :
                 Matches(k, KeyIn[m]) => Preferred(target'[m], k)]_vars

\* Telegram is asked for the list at most once by each chat in a lifetime of the
\* listener, refused or not, however many messages come meanwhile.
FetchesAreFew == fetches <= Cardinality(Chat)

\* The listener a button was found to belong to does not go on waiting, whatever
\* holds the lock of its chat.
PressEndsAsk ==
  \A p \in Press, a \in Ask :
    (pc[p] = "cancelling" /\ target[p] = KeyOf[a] /\ got[a] = "pending") ~> (got[a] # "pending")

\* The documentation: the list is fetched at most once.
FetchedOnce == fetches <= 1

\* The documentation: cleared in stop(), so what is cached was fetched since.
CachedSinceStop == cache # None => fetches > 0

\* A button only ends asks of its own message.
PressEndsItsAsk ==
  [][\A p \in Press : pc[p] = "cancelling" /\ pc'[p] = "passed" =>
       \A a \in Ask : got[a] = "pending" /\ got'[a] = "cancelled" =>
         Prompt[a] = KeyIn[p].message_id]_vars

\* A button ends the asks of its message that match it.
PressFindsItsAsk ==
  [][\A p \in Press : pc[p] = "away" /\ pc'[p] = "passed" =>
       \A k \in Listened : Matches(k, KeyIn[p]) => Prompt[listeners[k]] # KeyIn[p].message_id]_vars
=============================================================================
