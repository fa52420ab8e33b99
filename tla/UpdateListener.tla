--------------------------- MODULE UpdateListener ---------------------------
(***************************************************************************)
(* UpdateListener with its ListenerCoordinator: coroutines that listen()   *)
(* for an update, updates that resolve() them, and the registry of tokens  *)
(* the sessions of one bot share.                                          *)
(*                                                                         *)
(* A session is one process with one event loop.  Between two awaits a     *)
(* coroutine runs alone in its session, so one action is one stretch of    *)
(* code from an await to the next.  A coordinator call takes effect in the *)
(* action that awaits it; what it returned is acted on in a later action,  *)
(* other coroutines, timers and sessions having run between.  Short        *)
(* critical sections that make at most one call to the coordinator are one *)
(* action each, enabled when the chat lock is free: the finally block of   *)
(* listen(), the application of a cancel signal, and a cancel() that finds *)
(* nothing to tell the other sessions.                                     *)
(*                                                                         *)
(* The asyncio future of a listener is "pending" until it is given an      *)
(* update, times out, is aborted with its task, or is cancelled.           *)
(*                                                                         *)
(* A definition introduced as a mutant is not part of the specification:   *)
(* it is the one after it with a bug, and shows what a property catches.   *)
(***************************************************************************)
EXTENDS Naturals, Sequences

CONSTANTS
  Session,      \* processes running the bot
  Chat, Key,    \* chats and listener keys
  ChatOf,       \* the chat of each key: its lock serialises the operations
  SubKeys,      \* the candidates of each update key, see ListenerKeys
  Call,         \* calls of listen(), each made at most once
  Update,       \* updates handed to resolve(), each at most once
  None,         \* no listener, no holder
  Policy,       \* duplicate_policy of the listener of each session
  Backend,      \* "memory" or "redis": the listener coordinator
  MaxToken,     \* bound on the tokens issued (fairness quantifies over them)
  Env           \* what the environment may do, a subset of Events

Events == {"timeout",    \* a listen() has a timeout
           "cancel",     \* somebody calls cancel() for a key
           "bypass",     \* is_bypass() may be true of an update
           "abort",      \* a task is cancelled while it waits for its update,
                         \* or halfway through its cancel()
           "abort_any",  \* a task is cancelled at any of its awaits
           "late",       \* a timer or a cancel wins over a future already done
           "lose",       \* pub/sub drops a cancel signal
           "crash",      \* a session dies
           "stop",       \* a session stops
           "restart",    \* ... and starts again
           "fail",       \* the bulk unregister of stop() may fail
           "expire",     \* the chat lock outlives its TTL while it is held
           "block"}      \* a waiter gives up: lock_blocking_timeout

Errors == {"exists", "out_of_sync", "invalid_state", "key_error",
           "lock_error", "aborted_early"}
Pending == "pending"
Failures == {"timeout", "aborted", "cancelled"}

Proc == Call \cup Update
Future == {Pending} \cup Failures \cup Update
Outcome == {"none", "unresolved", "consumed"} \cup Future \cup Errors
Phase == {"up", "stopping", "closing", "swept", "down", "crashed"}
Label == {"idle", "lock", "checked", "replaced", "registered", "wait", "finally",
          "verified", "bypassed", "done", "crashed"}
Signal == [to : Session, key : Key, token : Nat]

\* A registration deleted by coordinator.cancel() on behalf of a listen(), of a
\* resolve(), or of a task of its own: a call of cancel(), or one that stop()
\* makes.  None: of a cancel() that was itself aborted.  Such a task has no other
\* name, so it is the cancellation that holds the lock of the chat.
Canceller == Session \X {"cancel", "stop"}
Cancellation == [by : Proc \cup Canceller \cup {None}, key : Key, token : Nat]

ASSUME ConstantsAssumption ==
  /\ ChatOf \in [Key -> Chat]
  /\ SubKeys \in [Key -> Seq(Key)]
  /\ \A k \in Key : \A i \in DOMAIN SubKeys[k] : ChatOf[SubKeys[k][i]] = ChatOf[k]
  /\ Call \cap Update = {}
  /\ None \notin Proc \cup Session \cup Key \cup Canceller
  /\ Proc \cap Canceller = {} /\ \A p \in Proc \cup {None} : p \notin Cancellation
  /\ Update \cap ({Pending, "none", "unresolved", "consumed"} \cup Failures \cup Errors) = {}
  /\ Policy \in [Session -> {"REPLACE", "REJECT"}]
  /\ Backend \in {"memory", "redis"}
  /\ Env \subseteq Events

VARIABLES
  phase,      \* of each session, see Stop: "closing" and "swept" lie in coordinator.stop()
  active,     \* keys a stopping session has yet to cancel
  local,      \* UpdateListener.listeners of each session
  owned,      \* _owned_registrations of each session, 0 = absent
  registry,   \* the token registered for each key, 0 = absent
  issued,     \* number of tokens issued so far
  lock,       \* holder of each chat's lock
  signals,    \* cancel signals published and not yet applied
  unsent,     \* cancellations whose signals have not been published
  pc, at, key,  \* where each coroutine is, its session and its key
  token,      \* coordinator_id of each call, 0 = not registered yet
  fut,        \* future of each call
  saw,        \* result of the coroutine's last registered()
  rung, cand, \* position of a resolve() in its sub_keys(), and the candidate
  outcome     \* how each coroutine ended

sessionVars == <<phase, active, local, owned>>
coordVars   == <<registry, issued, lock, signals, unsent>>
procVars    == <<pc, at, key>>
callVars    == <<token, fut>>
resolveVars == <<saw, rung, cand>>
vars == <<sessionVars, coordVars, procVars, callVars, resolveVars, outcome>>

TypeOK ==
  /\ phase \in [Session -> Phase]
  /\ active \in [Session -> SUBSET Key]
  /\ local \in [Session -> [Key -> Call \cup {None}]]
  /\ owned \in [Session -> [Key -> Nat]]
  /\ registry \in [Key -> Nat]
  /\ issued \in Nat
  /\ lock \in [Chat -> Proc \cup Cancellation \cup {None}]
  /\ signals \subseteq Signal
  /\ unsent \subseteq Cancellation
  /\ pc \in [Proc -> Label]
  /\ at \in [Proc -> Session \cup {None}]
  /\ key \in [Proc -> Key \cup {None}]
  /\ \A p \in Proc : pc[p] # "idle" => at[p] \in Session /\ key[p] \in Key
  /\ token \in [Call -> Nat]
  /\ fut \in [Call -> Future]
  /\ saw \in [Proc -> BOOLEAN]
  /\ rung \in [Update -> Nat]
  /\ cand \in [Update -> Call \cup {None}]
  /\ outcome \in [Proc -> Outcome]

Init ==
  /\ phase = [s \in Session |-> "up"]
  /\ active = [s \in Session |-> {}]
  /\ local = [s \in Session |-> [k \in Key |-> None]]
  /\ owned = [s \in Session |-> [k \in Key |-> 0]]
  /\ registry = [k \in Key |-> 0]
  /\ issued = 0
  /\ lock = [ch \in Chat |-> None]
  /\ signals = {}
  /\ unsent = {}
  /\ pc = [p \in Proc |-> "idle"]
  /\ at = [p \in Proc |-> None]
  /\ key = [p \in Proc |-> None]
  /\ token = [c \in Call |-> 0]
  /\ fut = [c \in Call |-> Pending]
  /\ saw = [p \in Proc |-> FALSE]
  /\ rung = [u \in Update |-> 0]
  /\ cand = [u \in Update |-> None]
  /\ outcome = [p \in Proc |-> "none"]
-----------------------------------------------------------------------------
(* The chat lock.  asyncio.Lock for the memory coordinator; a Redis lock   *)
(* with a TTL and a blocking timeout for the other, whose release fails    *)
(* once the TTL has given the lock away.                                   *)

Free(ch) == lock[ch] = None
Holds(p) == lock[ChatOf[key[p]]] = p

Acquire(p) ==
  /\ Free(ChatOf[key[p]])
  /\ lock' = [lock EXCEPT ![ChatOf[key[p]]] = p]

\* Mutant: the lock is not given back.
ReleaseForgotten(p) == UNCHANGED lock

Release(p) == lock' = [lock EXCEPT ![ChatOf[key[p]]] = IF @ = p THEN None ELSE @]

Goto(p, label) == pc' = [pc EXCEPT ![p] = label]

\* A coroutine's locals end with it.
Forget(p) ==
  /\ saw' = [saw EXCEPT ![p] = FALSE]
  /\ rung' = [u \in Update |-> IF u = p THEN 0 ELSE rung[u]]
  /\ cand' = [u \in Update |-> IF u = p THEN None ELSE cand[u]]

\* Coroutine p leaves its critical section and returns or raises result; an
\* expired lock raises LockNotOwnedError on the way out instead.
Leave(p, result) ==
  /\ Release(p)
  /\ Goto(p, "done")
  /\ Forget(p)
  /\ outcome' = [outcome EXCEPT ![p] = IF Holds(p) THEN result ELSE "lock_error"]

(* The coordinator's operations, called with the chat lock held. *)

Registered(k) == registry[k] # 0

\* Mutant: any registration of the key will do.
RegisteredByAnybody(k, t) == Registered(k)

RegisteredAs(k, t) == registry[k] # 0 /\ registry[k] = t

Subscribers ==
  IF Backend = "redis" THEN {s \in Session : phase[s] \in {"up", "stopping"}} ELSE {}

\* cancel() deletes the registration, whoever holds it, and in Redis it has a
\* generation to announce if there was one.
Announced(k) == Backend = "redis" /\ Registered(k)
CancellationOf(k, by) == [by |-> by, key |-> k, token |-> registry[k]]

\* Mutant: the sessions are not told.
CoordinatorCancelSilently(s, k, by) ==
  /\ registry' = [registry EXCEPT ![k] = 0]
  /\ owned' = [owned EXCEPT ![s][k] = 0]
  /\ UNCHANGED unsent

CoordinatorCancel(s, k, by) ==
  /\ registry' = [registry EXCEPT ![k] = 0]
  /\ owned' = [owned EXCEPT ![s][k] = 0]
  /\ unsent' = unsent \cup (IF Announced(k) THEN {CancellationOf(k, by)} ELSE {})

\* The second call of cancel(), one await later: tell the sessions which
\* generation is gone.  Whoever dies between the two never makes it.
Publish(m) ==
  /\ signals' = signals \cup [to : Subscribers, key : {m.key}, token : {m.token}]
  /\ unsent' = unsent \ {m}

Publishing(by) == \E m \in unsent : m.by = by

\* Mutant: the session forgets the registration, the registry keeps it.
CoordinatorUnregisterLocally(s, k, t) ==
  /\ owned' = [owned EXCEPT ![s][k] = IF @ = t THEN 0 ELSE @]
  /\ UNCHANGED registry

\* unregister(): delete the registration only if it is still this token's.
CoordinatorUnregister(s, k, t) ==
  /\ registry' = [registry EXCEPT ![k] = IF @ = t THEN 0 ELSE @]
  /\ owned' = [owned EXCEPT ![s][k] = IF @ = t THEN 0 ELSE @]

(* The lock-free _cancel(): drop the local listener and fail its future.   *)
(* A future that is already done raises InvalidStateError, which skips the *)
(* coordinator.                                                            *)

Listener(s, k) == local[s][k]
CanFail(s, k) == Listener(s, k) # None => fut[Listener(s, k)] = Pending

DropLocal(s, k) ==
  /\ local' = [local EXCEPT ![s][k] = None]
  /\ fut' = [c \in Call |-> IF c = Listener(s, k) /\ fut[c] = Pending
                            THEN "cancelled" ELSE fut[c]]

\* _cancel(key) with its coordinator half, on behalf of "by".
CancelKey(s, k, by) ==
  /\ DropLocal(s, k)
  /\ IF CanFail(s, k) THEN CoordinatorCancel(s, k, by)
                      ELSE UNCHANGED <<registry, owned, unsent>>
-----------------------------------------------------------------------------
(* listen() *)

\* Mutant: the coroutine starts before its session is known.
ListenNowhere(c, s, k) ==
  /\ pc[c] = "idle" /\ phase[s] # "crashed"
  /\ Goto(c, "lock")
  /\ key' = [key EXCEPT ![c] = k]
  /\ UNCHANGED <<sessionVars, coordVars, at, callVars, resolveVars, outcome>>

Listen(c, s, k) ==
  /\ pc[c] = "idle" /\ phase[s] # "crashed"
  /\ Goto(c, "lock")
  /\ at' = [at EXCEPT ![c] = s]
  /\ key' = [key EXCEPT ![c] = k]
  /\ UNCHANGED <<sessionVars, coordVars, callVars, resolveVars, outcome>>

ListenAcquire(c) ==
  /\ pc[c] = "lock"
  /\ Acquire(c)
  /\ saw' = [saw EXCEPT ![c] = Registered(key[c])]
  /\ Goto(c, "checked")
  /\ UNCHANGED <<sessionVars, registry, issued, signals, unsent, at, key, callVars,
                 rung, cand, outcome>>

ListenReject(c) ==
  /\ pc[c] = "checked" /\ saw[c] /\ Policy[at[c]] = "REJECT"
  /\ Leave(c, "exists")
  /\ UNCHANGED <<sessionVars, registry, issued, signals, unsent, at, key, callVars>>

\* Mutant: the policy is not asked before a listener is replaced.
ListenReplaceAlways(c) ==
  /\ pc[c] = "checked" /\ saw[c]
  /\ CancelKey(at[c], key[c], c)
  /\ IF CanFail(at[c], key[c])
       THEN Goto(c, "replaced") /\ Forget(c) /\ UNCHANGED <<lock, outcome>>
       ELSE Leave(c, "invalid_state")
  /\ UNCHANGED <<phase, active, issued, signals, at, key, token>>

ListenReplace(c) ==
  /\ pc[c] = "checked" /\ saw[c] /\ Policy[at[c]] = "REPLACE"
  /\ CancelKey(at[c], key[c], c)
  /\ IF CanFail(at[c], key[c])
       THEN Goto(c, "replaced") /\ Forget(c) /\ UNCHANGED <<lock, outcome>>
       ELSE Leave(c, "invalid_state")
  /\ UNCHANGED <<phase, active, issued, signals, at, key, token>>

ListenPublish(c) ==
  /\ pc[c] = "replaced"
  /\ \E m \in unsent : m.by = c /\ Publish(m)
  /\ UNCHANGED <<sessionVars, registry, issued, lock, procVars, callVars, resolveVars, outcome>>

ListenOutOfSync(c) ==
  /\ pc[c] = "checked" /\ ~saw[c] /\ Listener(at[c], key[c]) # None
  /\ Leave(c, "out_of_sync")
  /\ UNCHANGED <<sessionVars, registry, issued, signals, unsent, at, key, callVars>>

\* coordinator.register(): SET NX of a token nobody else was given.
ListenRegister(c) ==
  /\ \/ pc[c] = "checked" /\ ~saw[c] /\ Listener(at[c], key[c]) = None
     \/ pc[c] = "replaced" /\ ~Publishing(c)
  /\ IF Registered(key[c])
       THEN /\ Leave(c, "key_error")
            /\ UNCHANGED <<registry, issued, token>>
       ELSE /\ issued' = issued + 1
            /\ registry' = [registry EXCEPT ![key[c]] = issued + 1]
            /\ token' = [token EXCEPT ![c] = issued + 1]
            /\ Goto(c, "registered")
            /\ UNCHANGED <<lock, resolveVars, outcome>>
  /\ UNCHANGED <<sessionVars, signals, unsent, at, key, fut>>

\* register() returned: the listener becomes visible and the lock is released.
\* A release that fails leaves it visible and registered, with nobody waiting.
ListenStore(c) ==
  /\ pc[c] = "registered"
  /\ local' = [local EXCEPT ![at[c]][key[c]] = c]
  /\ owned' = [owned EXCEPT ![at[c]][key[c]] = token[c]]
  /\ Release(c)
  /\ IF Holds(c)
       THEN Goto(c, "wait") /\ UNCHANGED outcome
       ELSE Goto(c, "done") /\ outcome' = [outcome EXCEPT ![c] = "lock_error"]
  /\ UNCHANGED <<phase, active, registry, issued, signals, unsent, at, key, callVars, resolveVars>>

\* wait_for() gives up, or its task is cancelled: both cancel the future.
GiveUp(c, why) ==
  /\ pc[c] = "wait" /\ fut[c] = Pending
  /\ fut' = [fut EXCEPT ![c] = why]
  /\ UNCHANGED <<sessionVars, coordVars, procVars, token, resolveVars, outcome>>

Timeout(c) == "timeout" \in Env /\ GiveUp(c, "timeout")
Abort(c) == "abort" \in Env /\ GiveUp(c, "aborted")

\* Either may strike after the future was given its update and before the
\* waiter's turn.  wait_for() returns the update then, up to Python 3.11; from
\* 3.12 on it raises, and what the future holds is dropped.
GiveUpLate(c) ==
  /\ "late" \in Env /\ pc[c] = "wait" /\ fut[c] # Pending /\ outcome[c] = "none"
  /\ \E why \in {"timeout", "aborted"} : outcome' = [outcome EXCEPT ![c] = why]
  /\ UNCHANGED <<sessionVars, coordVars, procVars, callVars, resolveVars>>

\* The done callback _cleanup_listen, which the loop runs some time after the
\* future is done: until then the finished listener is still in the dict.
ForgetListener(c) ==
  local' = [local EXCEPT ![at[c]][key[c]] = IF @ = c THEN None ELSE @]

DoneCallback(c) ==
  /\ fut[c] # Pending /\ pc[c] \notin {"idle", "crashed"} /\ Listener(at[c], key[c]) = c
  /\ ForgetListener(c)
  /\ UNCHANGED <<phase, active, owned, coordVars, procVars, callVars, resolveVars, outcome>>

\* The waiter resumes: the finally block forgets the listener and asks for the
\* lock again.
Wake(c) ==
  /\ pc[c] = "wait" /\ fut[c] # Pending
  /\ ForgetListener(c)
  /\ Goto(c, "finally")
  /\ UNCHANGED <<phase, active, owned, coordVars, at, key, callVars, resolveVars, outcome>>

\* Mutant: a listen() whose registration was taken over meanwhile raises.
FinallyRaises(c) ==
  /\ pc[c] = "finally" /\ Free(ChatOf[key[c]])
  /\ CoordinatorUnregister(at[c], key[c], token[c])
  /\ Goto(c, "done")
  /\ outcome' = [outcome EXCEPT ![c] =
       IF @ # "none" THEN @
       ELSE IF RegisteredAs(key[c], token[c]) THEN fut[c] ELSE "cancelled"]
  /\ UNCHANGED <<phase, active, local, issued, lock, signals, unsent, at, key, callVars,
                 resolveVars>>

Finally(c) ==
  /\ pc[c] = "finally" /\ Free(ChatOf[key[c]])
  /\ CoordinatorUnregister(at[c], key[c], token[c])
  /\ Goto(c, "done")
  /\ outcome' = [outcome EXCEPT ![c] = IF @ = "none" THEN fut[c] ELSE @]
  /\ UNCHANGED <<phase, active, local, issued, lock, signals, unsent, at, key, callVars,
                 resolveVars>>
-----------------------------------------------------------------------------
(* resolve() *)

\* Mutant: the least specific candidate comes first.
LastMatch(u, i, j) ==
  LET candidates == SubKeys[key[u]] IN
  /\ j \in DOMAIN candidates /\ j >= i
  /\ Listener(at[u], candidates[j]) # None
  /\ \A m \in DOMAIN candidates :
       m >= i /\ Listener(at[u], candidates[m]) # None => m <= j

\* The first candidate at or after position i of u's sub_keys() that has a
\* local listener.
FirstMatch(u, i, j) ==
  LET candidates == SubKeys[key[u]] IN
  /\ j \in DOMAIN candidates /\ j >= i
  /\ Listener(at[u], candidates[j]) # None
  /\ \A m \in DOMAIN candidates :
       m >= i /\ Listener(at[u], candidates[m]) # None => j <= m

\* Mutant: the first of the candidates that are left is not looked at.
NoMatchAfter(u, i) ==
  \A m \in DOMAIN SubKeys[key[u]] : m > i => Listener(at[u], SubKeys[key[u]][m]) = None

NoMatch(u, i) ==
  \A m \in DOMAIN SubKeys[key[u]] : m >= i => Listener(at[u], SubKeys[key[u]][m]) = None

Slot(u) == SubKeys[key[u]][rung[u]]

\* An update that is not listenable raises UnresolvedUpdate at once.  A session
\* that listens for nothing at all skips the search ("if listeners") and the
\* on_unresolved() after it, and returns as if it had resolved.
Resolve(u, s, k) ==
  /\ pc[u] = "idle" /\ phase[s] # "crashed"
  /\ at' = [at EXCEPT ![u] = s]
  /\ key' = [key EXCEPT ![u] = k]
  /\ \/ Goto(u, "done") /\ outcome' = [outcome EXCEPT ![u] = "unresolved"]
     \/ /\ \A j \in Key : local[s][j] = None
        /\ Goto(u, "done") /\ outcome' = [outcome EXCEPT ![u] = "consumed"]
     \/ /\ \E j \in Key : local[s][j] # None
        /\ Goto(u, "lock") /\ UNCHANGED outcome
  /\ UNCHANGED <<sessionVars, coordVars, callVars, resolveVars>>

\* Ask the coordinator whether candidate j still owns its slot.
Verify(u, j) ==
  LET slot == SubKeys[key[u]][j] IN
  /\ rung' = [rung EXCEPT ![u] = j]
  /\ cand' = [cand EXCEPT ![u] = Listener(at[u], slot)]
  /\ saw' = [saw EXCEPT ![u] = RegisteredAs(slot, token[Listener(at[u], slot)])]
  /\ Goto(u, "verified")

ResolveAcquire(u) ==
  /\ pc[u] = "lock"
  /\ \/ /\ Acquire(u)
        /\ \E j \in DOMAIN SubKeys[key[u]] : FirstMatch(u, 1, j) /\ Verify(u, j)
        /\ UNCHANGED outcome
     \/ /\ Free(ChatOf[key[u]]) /\ NoMatch(u, 1)
        /\ Goto(u, "done")
        /\ outcome' = [outcome EXCEPT ![u] = "unresolved"]
        /\ UNCHANGED <<lock, resolveVars>>
  /\ UNCHANGED <<sessionVars, registry, issued, signals, unsent, at, key, callVars>>

\* A superseded listener is dropped, unless its key has a new one by now, and
\* the search goes on.
ResolveDiscard(u) ==
  /\ pc[u] = "verified" /\ ~saw[u]
  /\ LET k == Slot(u)
         l == Listener(at[u], k)
         stale == l # None /\ token[l] = token[cand[u]]
     IN /\ IF stale THEN DropLocal(at[u], k) ELSE UNCHANGED <<local, fut>>
        /\ IF stale /\ fut[l] # Pending
             THEN Leave(u, "invalid_state")
             ELSE \/ /\ \E j \in DOMAIN SubKeys[key[u]] :
                          FirstMatch(u, rung[u] + 1, j) /\ Verify(u, j)
                     /\ UNCHANGED <<lock, outcome>>
                  \/ /\ NoMatch(u, rung[u] + 1)
                     /\ Leave(u, "unresolved")
  /\ UNCHANGED <<phase, active, owned, registry, issued, signals, unsent, at, key, token>>

\* is_bypass(update): the listener is cancelled, here and in the coordinator,
\* and the update goes on to the handlers.
ResolveBypass(u) ==
  /\ pc[u] = "verified" /\ saw[u] /\ "bypass" \in Env
  /\ LET k == Slot(u)
         l == Listener(at[u], k)
     IN IF l # None /\ token[l] # token[cand[u]]
          THEN Leave(u, "unresolved") /\ UNCHANGED <<local, fut, registry, owned, unsent>>
          ELSE /\ CancelKey(at[u], k, u)
               /\ IF CanFail(at[u], k) /\ Announced(k)
                    THEN Goto(u, "bypassed") /\ Forget(u) /\ UNCHANGED <<lock, outcome>>
                    ELSE Leave(u, IF CanFail(at[u], k) THEN "unresolved" ELSE "invalid_state")
  /\ UNCHANGED <<phase, active, issued, signals, at, key, token>>

ResolvePublish(u) ==
  /\ pc[u] = "bypassed"
  /\ \E m \in unsent : m.by = u /\ Publish(m)
  /\ Leave(u, "unresolved")
  /\ UNCHANGED <<sessionVars, registry, issued, at, key, callVars>>

\* The candidate gets the update: it was looked up before the coordinator was
\* asked, so its future may be done by now.
ResolveDeliver(u) ==
  /\ pc[u] = "verified" /\ saw[u]
  /\ IF fut[cand[u]] = Pending
       THEN fut' = [fut EXCEPT ![cand[u]] = u] /\ Leave(u, "consumed")
       ELSE UNCHANGED fut /\ Leave(u, "invalid_state")
  /\ UNCHANGED <<sessionVars, registry, issued, signals, unsent, at, key, token>>
-----------------------------------------------------------------------------
(* cancel(), cancel signals, stop() and start() *)

\* A task that cancels key k of session s: it keeps the lock until it has
\* published, or gives it back in the same step if there is nothing to publish.
CancelAlone(s, k, by) ==
  /\ Free(ChatOf[k])
  /\ CancelKey(s, k, by)
  /\ lock' = IF CanFail(s, k) /\ Announced(k)
                THEN [lock EXCEPT ![ChatOf[k]] = CancellationOf(k, by)] ELSE lock

Cancel(s, k) ==
  /\ "cancel" \in Env /\ phase[s] # "crashed"
  /\ CancelAlone(s, k, <<s, "cancel">>)
  /\ UNCHANGED <<phase, active, issued, signals, procVars, token, resolveVars, outcome>>

ReleaseCancelled(m) ==
  lock' = [lock EXCEPT ![ChatOf[m.key]] = IF @ = m THEN None ELSE @]

\* Such a task lives on with its session.
CancelledBy(m, s) == m.by \in {<<s, "cancel">>, <<s, "stop">>}

CancelPublish(m) ==
  /\ m \in unsent /\ \E s \in Session : CancelledBy(m, s) /\ phase[s] # "crashed"
  /\ Publish(m)
  /\ ReleaseCancelled(m)
  /\ UNCHANGED <<sessionVars, registry, issued, procVars, callVars, resolveVars, outcome>>

\* Mutant: a signal cancels whatever generation it finds.
ApplySignalToAny(m) ==
  /\ m \in signals /\ Free(ChatOf[m.key])
  /\ signals' = signals \ {m}
  /\ DropLocal(m.to, m.key)
  /\ UNCHANGED <<phase, active, owned, registry, issued, lock, unsent, procVars, token,
                 resolveVars, outcome>>

\* _apply_cancel_signal: cancel(key, cancel_coordinator=False, coordinator_id).
ApplySignal(m) ==
  LET l == Listener(m.to, m.key) IN
  /\ m \in signals /\ Free(ChatOf[m.key])
  /\ signals' = signals \ {m}
  /\ IF l # None /\ token[l] = m.token THEN DropLocal(m.to, m.key)
                                       ELSE UNCHANGED <<local, fut>>
  /\ UNCHANGED <<phase, active, owned, registry, issued, lock, unsent, procVars, token,
                 resolveVars, outcome>>

\* stop(): the keys listened for now, each cancelled by a task of its own ...
Stop(s) ==
  /\ "stop" \in Env /\ phase[s] = "up"
  /\ phase' = [phase EXCEPT ![s] = "stopping"]
  /\ active' = [active EXCEPT ![s] = {k \in Key : local[s][k] # None}]
  /\ UNCHANGED <<local, owned, coordVars, procVars, callVars, resolveVars, outcome>>

StopCancel(s, k) ==
  /\ phase[s] = "stopping" /\ k \in active[s]
  /\ active' = [active EXCEPT ![s] = @ \ {k}]
  /\ CancelAlone(s, k, <<s, "stop">>)
  /\ UNCHANGED <<phase, issued, signals, procVars, token, resolveVars, outcome>>

\* ... then coordinator.stop(), which takes no lock.  Memory: forget every
\* registration and start the tokens over.
ActiveCancelled(s) ==
  phase[s] = "stopping" /\ active[s] = {} /\ ~Publishing(<<s, "stop">>)

StopMemory(s) ==
  /\ Backend = "memory" /\ ActiveCancelled(s)
  /\ phase' = [phase EXCEPT ![s] = "down"]
  /\ owned' = [owned EXCEPT ![s] = [k \in Key |-> 0]]
  /\ registry' = [k \in Key |-> 0] /\ issued' = 0
  /\ UNCHANGED <<active, local, lock, signals, unsent, procVars, callVars, resolveVars, outcome>>

\* Redis: no more signals from here on; those received have been applied.
Unsubscribe(s) ==
  /\ Backend = "redis" /\ ActiveCancelled(s)
  /\ phase' = [phase EXCEPT ![s] = "closing"]
  /\ signals' = {m \in signals : m.to # s}
  /\ UNCHANGED <<active, local, owned, registry, issued, lock, unsent, procVars, callVars,
                 resolveVars, outcome>>

OwnsNothing(s) == \A k \in Key : owned[s][k] = 0

\* Mutant: the sweep is not made.
BulkUnregisterNothing(s) ==
  /\ phase[s] = "closing"
  /\ phase' = [phase EXCEPT ![s] = IF OwnsNothing(s) THEN "down" ELSE "swept"]
  /\ UNCHANGED <<active, local, owned, coordVars, procVars, callVars, resolveVars, outcome>>

\* Compare-and-delete what the session owns at this moment, if anything ...
BulkUnregister(s) ==
  /\ phase[s] = "closing"
  /\ phase' = [phase EXCEPT ![s] = IF OwnsNothing(s) THEN "down" ELSE "swept"]
  /\ registry' = [k \in Key |-> IF registry[k] = owned[s][k] THEN 0 ELSE registry[k]]
  /\ UNCHANGED <<active, local, owned, issued, lock, signals, unsent, procVars, callVars,
                 resolveVars, outcome>>

\* ... and forget whatever it owns one await later, or when the sweep failed.
ForgetOwned(s) ==
  /\ \/ phase[s] = "swept"
     \/ phase[s] = "closing" /\ ~OwnsNothing(s) /\ "fail" \in Env
  /\ phase' = [phase EXCEPT ![s] = "down"]
  /\ owned' = [owned EXCEPT ![s] = [k \in Key |-> 0]]
  /\ UNCHANGED <<active, local, coordVars, procVars, callVars, resolveVars, outcome>>

Start(s) ==
  /\ "restart" \in Env /\ phase[s] = "down"
  /\ phase' = [phase EXCEPT ![s] = "up"]
  /\ UNCHANGED <<active, local, owned, coordVars, procVars, callVars, resolveVars, outcome>>
-----------------------------------------------------------------------------
(* Faults *)

\* A task cancelled anywhere else than in its wait: the lock is given back,
\* and the finally block runs only if the wait had been reached.
AbortAnywhere(c) ==
  /\ "abort_any" \in Env
  /\ pc[c] \in {"lock", "checked", "replaced", "registered", "finally"}
  /\ Release(c) /\ Forget(c)
  /\ Goto(c, "done")
  /\ outcome' = [outcome EXCEPT ![c] = "aborted_early"]
  /\ UNCHANGED <<sessionVars, registry, issued, signals, unsent, at, key, callVars>>

\* The task of a cancel() is cancelled between its two calls: nobody is told.
AbortCancel(m) ==
  /\ "abort" \in Env /\ m \in unsent
  /\ \E s \in Session : m.by = <<s, "cancel">> /\ phase[s] # "crashed"
  /\ unsent' = (unsent \ {m}) \cup {[m EXCEPT !.by = None]}
  /\ ReleaseCancelled(m)
  /\ UNCHANGED <<sessionVars, registry, issued, signals, procVars, callVars, resolveVars, outcome>>

\* LockError after lock_blocking_timeout: in the finally block it replaces what
\* listen() was about to return, and unregister() is never called.
GiveUpLock(p) ==
  /\ "block" \in Env
  /\ pc[p] \in {"lock", "finally"} /\ ~Free(ChatOf[key[p]])
  /\ Goto(p, "done")
  /\ outcome' = [outcome EXCEPT ![p] = "lock_error"]
  /\ UNCHANGED <<sessionVars, coordVars, at, key, callVars, resolveVars>>

LoseSignal(m) ==
  /\ "lose" \in Env /\ m \in signals
  /\ signals' = signals \ {m}
  /\ UNCHANGED <<sessionVars, registry, issued, lock, unsent, procVars, callVars,
                 resolveVars, outcome>>

\* The lock's TTL ends.  A dead holder's lock always goes this way.
Dead(holder) ==
  \/ holder \in Proc /\ pc[holder] = "crashed"
  \/ holder \in Cancellation
     /\ \E s \in Session : CancelledBy(holder, s) /\ phase[s] = "crashed"

LockExpires(ch) ==
  /\ ~Free(ch) /\ ("expire" \in Env \/ Dead(lock[ch]))
  /\ lock' = [lock EXCEPT ![ch] = None]
  /\ UNCHANGED <<sessionVars, registry, issued, signals, unsent, procVars, callVars,
                 resolveVars, outcome>>

Crash(s) ==
  /\ "crash" \in Env /\ phase[s] # "crashed"
  /\ phase' = [phase EXCEPT ![s] = "crashed"]
  /\ active' = [active EXCEPT ![s] = {}]
  /\ local' = [local EXCEPT ![s] = [k \in Key |-> None]]
  /\ owned' = [owned EXCEPT ![s] = [k \in Key |-> 0]]
  /\ signals' = {m \in signals : m.to # s}
  /\ pc' = [p \in Proc |-> IF at[p] = s /\ pc[p] \notin {"idle", "done"}
                           THEN "crashed" ELSE pc[p]]
  /\ UNCHANGED <<registry, issued, lock, unsent, at, key, callVars, resolveVars, outcome>>
-----------------------------------------------------------------------------
ListenStep(c) ==
  \/ ListenAcquire(c) \/ ListenReject(c) \/ ListenReplace(c) \/ ListenPublish(c)
  \/ ListenOutOfSync(c) \/ ListenRegister(c) \/ ListenStore(c)
  \/ DoneCallback(c) \/ Wake(c) \/ Finally(c)

ResolveStep(u) ==
  \/ ResolveAcquire(u) \/ ResolveDiscard(u) \/ ResolveBypass(u) \/ ResolvePublish(u)
  \/ ResolveDeliver(u)

SessionStep(s) ==
  \/ Stop(s) \/ StopMemory(s) \/ Unsubscribe(s) \/ BulkUnregister(s) \/ ForgetOwned(s)
  \/ Start(s) \/ Crash(s)
  \/ \E k \in Key : Cancel(s, k) \/ StopCancel(s, k)

Next ==
  \/ \E c \in Call : \/ \E s \in Session, k \in Key : Listen(c, s, k)
                     \/ ListenStep(c)
                     \/ Timeout(c) \/ Abort(c) \/ GiveUpLate(c) \/ AbortAnywhere(c)
  \/ \E u \in Update : \/ \E s \in Session, k \in Key : Resolve(u, s, k)
                       \/ ResolveStep(u)
  \/ \E p \in Proc : GiveUpLock(p)
  \/ \E s \in Session : SessionStep(s)
  \/ \E m \in signals : ApplySignal(m) \/ LoseSignal(m)
  \/ \E m \in unsent : CancelPublish(m) \/ AbortCancel(m)
  \/ \E ch \in Chat : LockExpires(ch)

Spec == Init /\ [][Next]_vars
-----------------------------------------------------------------------------
(* Fairness.  An event loop runs every coroutine and callback that is ready *)
(* (weak fairness), a timer fires, and a published signal is delivered.     *)
(* asyncio.Lock is first in first out, so a waiter gets a lock that is free *)
(* again and again (strong fairness).                                       *)

Fairness ==
  /\ \A c \in Call :
       /\ WF_vars(ListenReject(c) \/ ListenReplace(c) \/ ListenPublish(c)
                  \/ ListenOutOfSync(c) \/ ListenRegister(c) \/ ListenStore(c))
       /\ WF_vars(DoneCallback(c)) /\ WF_vars(Wake(c)) /\ WF_vars(Timeout(c))
       /\ SF_vars(ListenAcquire(c)) /\ SF_vars(Finally(c))
  /\ \A u \in Update :
       /\ WF_vars(ResolveDiscard(u) \/ ResolveBypass(u) \/ ResolvePublish(u)
                  \/ ResolveDeliver(u))
       /\ SF_vars(ResolveAcquire(u))
  /\ WF_vars(\E m \in unsent : CancelPublish(m))
  /\ \A s \in Session, k \in Key, t \in 1..MaxToken :
       SF_vars(ApplySignal([to |-> s, key |-> k, token |-> t]))

FairSpec == Spec /\ Fairness
-----------------------------------------------------------------------------
(* Properties *)

\* A listener is given an update only while its own token is the registered
\* one: whoever took its key over, and however late the signal about it is, the
\* registry is asked under the lock first.  Only stop(), which takes no lock,
\* may have withdrawn the token meanwhile; another token is never there.
ResolvedByOwner ==
  [][\A c \in Call : fut[c] = Pending /\ fut'[c] \in Update =>
       \/ registry[key[c]] = token[c]
       \/ registry[key[c]] = 0 /\ "stop" \in Env]_vars

\* Why it holds: the critical sections of a chat exclude each other, a listener
\* in a dict is the call that stored itself there, and what registered() said
\* of a candidate stays true until the lock is given back.
InCriticalSection(p) ==
  pc[p] \in {"checked", "replaced", "registered", "verified", "bypassed"}
Stored(c) == pc[c] \in {"wait", "finally", "done", "crashed"}

LockedInside ==
  /\ \A p \in Proc : InCriticalSection(p) => Holds(p)
  /\ \A m \in unsent, s \in Session :
       CancelledBy(m, s) /\ phase[s] # "crashed" => lock[ChatOf[m.key]] = m

DictsHoldStored ==
  \A s \in Session, k \in Key :
    Listener(s, k) # None => Stored(Listener(s, k)) /\ key[Listener(s, k)] = k

CandidateFound ==
  \A u \in Update : pc[u] = "verified" =>
    rung[u] \in DOMAIN SubKeys[key[u]] /\ cand[u] \in Call

CandidateStillOwns ==
  \A u \in Update : pc[u] = "verified" =>
    /\ Stored(cand[u]) /\ key[cand[u]] = Slot(u)
    /\ saw[u] => \/ registry[Slot(u)] = token[cand[u]]
                 \/ registry[Slot(u)] = 0 /\ "stop" \in Env

OwnershipInv ==
  LockedInside /\ DictsHoldStored /\ CandidateFound /\ CandidateStillOwns

\* A listener is cancelled only if its registration is gone by the end of the
\* step: a signal about an earlier generation of the key, or a discarded
\* candidate, never fails the listener that owns the key now.
CancelledOnlyIfInvalidated ==
  [][\A c \in Call : fut[c] = Pending /\ fut'[c] = "cancelled" =>
       registry'[key[c]] # token[c]]_vars

\* A listener that still waits although its registration is gone has a cancel
\* signal under way that names it, or whoever deleted the registration has its
\* very generation to publish: it is left to wait for nothing only when the other
\* one died, or was aborted, between its two calls.
SupersededIsTold ==
  \A c \in Call :
    pc[c] = "wait" /\ fut[c] = Pending /\ registry[key[c]] # token[c] =>
      \/ [to |-> at[c], key |-> key[c], token |-> token[c]] \in signals
      \/ \E m \in unsent : m.key = key[c] /\ m.token = token[c]

\* A listen() that has returned or raised left no registration behind: another
\* listen() on the key is not rejected, and no update is held for it.
NoLeakedRegistration ==
  \A c \in Call : pc[c] = "done" /\ token[c] # 0 => registry[key[c]] # token[c]

\* What a listener was given is what its listen() returns, whoever cancels or
\* replaces it between the delivery and the return: resolve() has consumed the
\* update, and no handler will see it.  It is lost only to what the code lets
\* win over a future already done: a timer or an abort from Python 3.12 on, an
\* abort in the finally block, a lock that is not had, or lost, in time.
Overriding ==
  (IF "late" \in Env THEN {"timeout", "aborted"} ELSE {})
  \cup (IF "abort_any" \in Env THEN {"aborted_early"} ELSE {})
  \cup (IF {"block", "expire"} \cap Env # {} THEN {"lock_error"} ELSE {})

DeliveredIsReturned ==
  \A c \in Call : pc[c] = "done" /\ fut[c] \in Update =>
    outcome[c] = fut[c] \/ outcome[c] \in Overriding

\* Without the exceptions, for a future that is done before its timer fires.
DeliveredIsAlwaysReturned ==
  \A c \in Call : pc[c] = "done" /\ fut[c] \in Update => outcome[c] = fut[c]

\* When coordinator.stop() has swept, no listener its session had stored by then
\* both waits and is registered: its key would stay taken, without a TTL, for as
\* long as it waits.  (One that stores itself while the sweep is awaited, having
\* been inside register() until then, is not swept and keeps its key.)
Sweeps(s) ==
  /\ phase[s] = "closing"
  /\ phase'[s] = "swept" \/ (phase'[s] = "down" /\ OwnsNothing(s))

StopLeavesNothing ==
  [][\A s \in Session, c \in Call :
       Sweeps(s) /\ at[c] = s /\ pc[c] = "wait" /\ fut[c] = Pending =>
         registry'[key[c]] # token[c]]_vars

\* Where nobody calls cancel(), two listeners wait for one key only because a
\* third call, or the newer one, replaced the older one for a session whose
\* policy is REPLACE: with REJECT alone a key has one listener in all sessions,
\* however late the signals are.
Replaced(c) ==
  \E d \in Call \ {c} :
    key[d] = key[c] /\ pc[d] \notin {"idle", "lock"} /\ Policy[at[d]] = "REPLACE"

OneListenerPerKey ==
  \A c, d \in Call :
    pc[c] = "wait" /\ pc[d] = "wait" /\ key[c] = key[d]
    /\ fut[c] = Pending /\ fut[d] = Pending /\ token[c] < token[d]
      => Replaced(c)

\* The assertion in listen(): the local dict and the registry never disagree
\* about a key that is not registered.
NeverOutOfSync == \A c \in Call : outcome[c] # "out_of_sync"

\* An update leaves the search unresolved only if no listener of the session
\* that matches it still waits with its registration intact.
UnresolvedMeansNobodyWaits ==
  [][\A u \in Update :
       pc[u] \in {"lock", "verified", "bypassed"} /\ outcome'[u] = "unresolved" =>
         \A i \in DOMAIN SubKeys[key[u]] :
           LET k == SubKeys[key[u]][i]
               l == Listener(at[u], k)
           IN l # None /\ fut[l] = Pending => registry'[k] # token[l]]_vars

\* An update goes to the most specific of the session's listeners that match it
\* and own their keys.
DeliveredToMostSpecific ==
  [][\A u \in Update, c \in Call :
       fut[c] = Pending /\ fut'[c] = u =>
         \A i \in 1..(rung[u] - 1) :
           LET k == SubKeys[key[u]][i]
               l == Listener(at[u], k)
           IN l # None /\ fut[l] = Pending => registry[k] # token[l]]_vars

\* on_unresolved() excepted, resolve() returns normally only when a listener
\* was given the update: that is what lets handle_listen() stop propagation.
ConsumedMeansDelivered ==
  \A u \in Update : outcome[u] = "consumed" => \E c \in Call : fut[c] = u

\* The cleanup of one listen() takes no registration away from another call that
\* waits: the token in it tells them apart.
CleanupTakesItsOwn ==
  [][\A c, d \in Call :
       /\ pc[d] = "finally" /\ pc'[d] = "done" /\ c # d
       /\ pc[c] = "wait" /\ fut[c] = Pending /\ registry[key[c]] = token[c]
       => registry'[key[c]] = token[c]]_vars

\* Every listen() with a timeout and every resolve() returns or raises in the
\* end: nobody keeps the lock of the chat from the others for ever.
EveryCallEnds == \A t \in Call \cup Update : pc[t] = "lock" ~> pc[t] = "done"
=============================================================================
