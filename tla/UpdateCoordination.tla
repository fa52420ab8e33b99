------------------------- MODULE UpdateCoordination -------------------------
(***************************************************************************)
(* Dispatcher.handle_update with an UpdateCoordinated: every session of a  *)
(* bot receives every update, takes the lock of the update's scope, asks   *)
(* the handled registry, runs the handlers and settles: registers the      *)
(* update as handled, or not, and releases the lock.  A handler may settle *)
(* early with mark_handled().                                              *)
(*                                                                         *)
(* One process per delivery of an update to a session, taken from the      *)
(* session's queue by a worker.  One action is one stretch between awaits. *)
(***************************************************************************)
EXTENDS Naturals, Sequences, FiniteSets

CONSTANTS
  Session,   \* processes running the bot, each with its own queue
  Update,
  Arrival,   \* the updates each session is sent, in order; one may come twice
  Scope,     \* what extract_key() locks
  ScopeOf,
  Id,        \* what extract_update_id() says the update is
  IdOf,
  Workers,   \* handler_worker tasks of a session
  Groups,    \* bound on the handlers run for one delivery
  NoOne,     \* nobody holds the lock
  Env        \* what may happen, a subset of Events

Events == {"bare",       \* is_coordinatable() is false
           "listener",   \* handle_listen() may resolve the update
           "untouched",  \* no handler may match
           "unhandled",  \* a handler may raise UnhandledUpdate
           "continue",   \* a handler may raise ContinuePropagation
           "claim",      \* a handler may call mark_handled()
           "thread",     \* a thread a handler left behind may call it
           "block",      \* a waiter gives up: blocking_timeout
           "error",      \* a coordinator or key call raises
           "expire",     \* the lock outlives lock_ttl while it is held
           "forget",     \* the registry forgets: handled_ttl, max_handled, stop()
           "crash"}      \* a session dies

Delivery == Session \X DOMAIN Arrival
Index(d) == d[2]
UpdateOf(d) == Arrival[d[2]]
ScopeAt(d) == ScopeOf[UpdateOf(d)]
IdAt(d) == IdOf[UpdateOf(d)]

Label == {"queued", "parsed", "lock", "identify", "check", "handling", "running",
          "settle", "taking", "waiting", "marking", "unlocking", "done", "crashed"}
Early == {"none", "scheduled", "marking", "unlocking", "done"}
Settled == {"no", "handled", "untouched"}
Outcome == {"none", "stopped", "handed_back", "ran_out", "duplicate", "skipped", "lost"}
Claims == {"none", "checked", "made", "replaced"}

ASSUME ConstantsAssumption ==
  /\ Arrival \in Seq(Update)
  /\ ScopeOf \in [Update -> Scope] /\ IdOf \in [Update -> Id]
  /\ Workers \in Nat \ {0} /\ Groups \in Nat \ {0}
  /\ NoOne \notin Delivery
  /\ Env \subseteq Events

VARIABLES
  pc,       \* where each delivery is
  lock,     \* holder of each scope's lock
  kept,     \* the deliveries whose release failed and whose lock is not yet over
  handled,  \* the handled registry
  bare,     \* processed without coordination: release is None
  known,    \* release.update_id is set
  group,    \* handlers started for the delivery
  ran,      \* handlers that returned or raised: handled_count + exc_count
  result,   \* the argument of the automatic settlement
  early,    \* release._early and the coroutine it stands for
  claims,   \* mark_handled() of a stray thread: its check, then its claim
  claimed,  \* some mark_handled() returned True
  settled,  \* release._released, and what it was settled as
  outcome   \* what became of the delivery

lockVars == <<lock, kept>>
handlerVars == <<group, ran>>
claimVars == <<early, claims, claimed>>
vars == <<pc, lockVars, handled, bare, known, handlerVars, result, claimVars, settled, outcome>>

TypeOK ==
  /\ pc \in [Delivery -> Label]
  /\ lock \in [Scope -> Delivery \cup {NoOne}]
  /\ kept \subseteq Delivery
  /\ handled \subseteq Id
  /\ bare \in [Delivery -> BOOLEAN] /\ known \in [Delivery -> BOOLEAN]
  /\ group \in [Delivery -> 0..Groups] /\ ran \in [Delivery -> Nat]
  /\ result \in [Delivery -> BOOLEAN]
  /\ early \in [Delivery -> Early]
  /\ claims \in [Delivery -> Claims]
  /\ claimed \in [Delivery -> BOOLEAN]
  /\ settled \in [Delivery -> Settled]
  /\ outcome \in [Delivery -> Outcome]

Init ==
  /\ pc = [d \in Delivery |-> "queued"]
  /\ lock = [sc \in Scope |-> NoOne]
  /\ kept = {} /\ handled = {}
  /\ bare = [d \in Delivery |-> FALSE] /\ known = [d \in Delivery |-> FALSE]
  /\ group = [d \in Delivery |-> 0] /\ ran = [d \in Delivery |-> 0]
  /\ result = [d \in Delivery |-> FALSE]
  /\ early = [d \in Delivery |-> "none"]
  /\ claims = [d \in Delivery |-> "none"] /\ claimed = [d \in Delivery |-> FALSE]
  /\ settled = [d \in Delivery |-> "no"]
  /\ outcome = [d \in Delivery |-> "none"]
-----------------------------------------------------------------------------
Goto(d, label) == pc' = [pc EXCEPT ![d] = label]
End(d, what) == Goto(d, "done") /\ outcome' = [outcome EXCEPT ![d] = what]

Busy(d) == pc[d] \notin {"queued", "done", "crashed"}

\* Mutant: the lock is not given back.
ReleaseForgotten(d) == UNCHANGED lockVars

\* lock.release(), whatever it raises logged: that it is not this delivery's lock
\* any more, or that the backend failed, and then the lock stays for its TTL.
Release(d) ==
  \/ /\ lock' = [lock EXCEPT ![ScopeAt(d)] = IF @ = d THEN NoOne ELSE @]
     /\ UNCHANGED kept
  \/ /\ "error" \in Env /\ lock[ScopeAt(d)] = d
     /\ kept' = kept \cup {d} /\ UNCHANGED lock

\* The exit of the try block: the finally block settles with this result.
ToSettle(d, handledFlag) ==
  /\ Goto(d, "settle")
  /\ result' = [result EXCEPT ![d] = handledFlag]

(* handle_update up to the handlers *)

\* A worker that is free takes the next packet of its session's queue.
Take(d) ==
  /\ pc[d] = "queued"
  /\ \A e \in Delivery : e[1] = d[1] /\ Index(e) < Index(d) => pc[e] # "queued"
  /\ Cardinality({e \in Delivery : e[1] = d[1] /\ Busy(e)}) < Workers
  /\ Goto(d, "parsed")
  /\ UNCHANGED <<lockVars, handled, bare, known, handlerVars, result, claimVars, settled, outcome>>

\* is_coordinatable() and lock(): whatever they raise, the update is processed
\* without coordination.
Setup(d) ==
  /\ pc[d] = "parsed"
  /\ \/ Goto(d, "lock") /\ UNCHANGED bare
     \/ /\ Env \cap {"bare", "error"} # {}
        /\ Goto(d, "handling") /\ bare' = [bare EXCEPT ![d] = TRUE]
  /\ UNCHANGED <<lockVars, handled, known, handlerVars, result, claimVars, settled, outcome>>

AcquireLock(d) ==
  /\ pc[d] = "lock" /\ lock[ScopeAt(d)] = NoOne
  /\ lock' = [lock EXCEPT ![ScopeAt(d)] = d]
  /\ Goto(d, "identify")
  /\ UNCHANGED <<kept, handled, bare, known, handlerVars, result, claimVars, settled, outcome>>

AcquireFails(d) ==
  /\ pc[d] = "lock" /\ "error" \in Env
  /\ Goto(d, "handling") /\ bare' = [bare EXCEPT ![d] = TRUE]
  /\ UNCHANGED <<lockVars, handled, known, handlerVars, result, claimVars, settled, outcome>>

SkipLocked(d) ==
  /\ pc[d] = "lock" /\ lock[ScopeAt(d)] # NoOne /\ "block" \in Env
  /\ End(d, "skipped")
  /\ UNCHANGED <<lockVars, handled, bare, known, handlerVars, result, claimVars, settled>>

\* extract_update_id(); raising leaves nothing to register.
Identify(d) ==
  /\ pc[d] = "identify"
  /\ \/ /\ known' = [known EXCEPT ![d] = TRUE]
        /\ Goto(d, "check") /\ UNCHANGED <<result, outcome>>
     \/ /\ "error" \in Env /\ UNCHANGED known
        /\ ToSettle(d, FALSE) /\ outcome' = [outcome EXCEPT ![d] = "lost"]
  /\ UNCHANGED <<lockVars, handled, bare, handlerVars, claimVars, settled>>

\* Mutant: the registry is not asked.
CheckHandledNever(d) ==
  /\ pc[d] = "check"
  /\ Goto(d, "handling")
  /\ UNCHANGED <<lockVars, handled, bare, known, handlerVars, result, claimVars, settled, outcome>>

\* Mutant: a duplicate returns without settling.
CheckHandledReturns(d) ==
  /\ pc[d] = "check"
  /\ \/ IdAt(d) \in handled /\ End(d, "duplicate")
     \/ IdAt(d) \notin handled /\ Goto(d, "handling") /\ UNCHANGED outcome
  /\ UNCHANGED <<lockVars, handled, bare, known, handlerVars, result, claimVars, settled>>

CheckHandled(d) ==
  /\ pc[d] = "check"
  /\ \/ /\ IdAt(d) \in handled
        /\ ToSettle(d, FALSE) /\ outcome' = [outcome EXCEPT ![d] = "duplicate"]
     \/ /\ IdAt(d) \notin handled
        /\ Goto(d, "handling") /\ UNCHANGED <<result, outcome>>
     \/ /\ "error" \in Env
        /\ ToSettle(d, FALSE) /\ outcome' = [outcome EXCEPT ![d] = "lost"]
  /\ UNCHANGED <<lockVars, handled, bare, known, handlerVars, claimVars, settled>>
-----------------------------------------------------------------------------
(* _handle_update *)

\* The handlers are over: a bare delivery is done, the others settle, as handled
\* if the propagation was stopped or one of them returned or raised.  Handed back,
\* an update is settled as untouched whatever ran before.
Leave(d, how) ==
  IF bare[d]
    THEN End(d, how) /\ UNCHANGED result
    ELSE /\ ToSettle(d, how = "stopped" \/ (how = "ran_out" /\ ran[d] >= 1))
         /\ outcome' = [outcome EXCEPT ![d] = how]

\* A resolved listener stops propagation, which counts as handled.
ListenerTakes(d) ==
  /\ pc[d] = "handling" /\ group[d] = 0 /\ "listener" \in Env
  /\ Leave(d, "stopped")
  /\ UNCHANGED <<lockVars, handled, bare, known, handlerVars, claimVars, settled>>

StartHandler(d) ==
  /\ pc[d] = "handling" /\ group[d] < Groups
  /\ group' = [group EXCEPT ![d] = @ + 1]
  /\ Goto(d, "running")
  /\ UNCHANGED <<lockVars, handled, bare, known, ran, result, claimVars, settled, outcome>>

\* It returns or raises, which both count; or it passes the update on, which
\* does not; or it stops the propagation; or it hands the update back, and what
\* ran before it is forgotten.
EndHandler(d) ==
  /\ pc[d] = "running"
  /\ \/ /\ ran' = [ran EXCEPT ![d] = @ + 1]
        /\ Goto(d, "handling") /\ UNCHANGED <<result, outcome>>
     \/ "continue" \in Env /\ Goto(d, "handling") /\ UNCHANGED <<ran, result, outcome>>
     \/ Leave(d, "stopped") /\ UNCHANGED ran
     \/ "unhandled" \in Env /\ Leave(d, "handed_back") /\ UNCHANGED ran
  /\ UNCHANGED <<lockVars, handled, bare, known, group, claimVars, settled>>

NoMoreHandlers(d) ==
  /\ pc[d] = "handling" /\ (group[d] > 0 \/ "untouched" \in Env)
  /\ Leave(d, "ran_out")
  /\ UNCHANGED <<lockVars, handled, bare, known, handlerVars, claimVars, settled>>
-----------------------------------------------------------------------------
(* _CoordinatedRelease *)

Open(d) == early[d] = "none" /\ settled[d] = "no"

\* mark_handled() from a handler or from a task it started.
Claim(d) ==
  /\ "claim" \in Env /\ ~bare[d] /\ group[d] > 0 /\ pc[d] \in {"running", "handling"}
  /\ Open(d)
  /\ early' = [early EXCEPT ![d] = "scheduled"]
  /\ claimed' = [claimed EXCEPT ![d] = TRUE]
  /\ UNCHANGED <<pc, lockVars, handled, bare, known, handlerVars, result, claims, settled, outcome>>

\* mark_handled() from a thread that outlived its handler: the check and the
\* assignment of _early are not one step there.
ThreadCheck(d) ==
  /\ "thread" \in Env /\ ~bare[d] /\ group[d] > 0 /\ claims[d] = "none"
  /\ pc[d] # "crashed" /\ Open(d)
  /\ claims' = [claims EXCEPT ![d] = "checked"]
  /\ UNCHANGED <<pc, lockVars, handled, bare, known, handlerVars, result, early, claimed, settled,
                 outcome>>

\* An _early that is there by now is replaced by a coroutine that will find the
\* update settled; a settle() that has not read _early waits for that one.
ThreadClaim(d) ==
  /\ claims[d] = "checked" /\ pc[d] # "crashed"
  /\ claims' = [claims EXCEPT ![d] =
       IF early[d] # "none" /\ pc[d] \in {"running", "handling", "settle"} THEN "replaced"
                                                                         ELSE "made"]
  /\ claimed' = [claimed EXCEPT ![d] = TRUE]
  /\ early' = [early EXCEPT ![d] = IF @ = "none" THEN "scheduled" ELSE @]
  /\ UNCHANGED <<pc, lockVars, handled, bare, known, handlerVars, result, settled, outcome>>

\* The early settlement, a task of its own.
EarlyTake(d) ==
  /\ early[d] = "scheduled" /\ pc[d] # "crashed"
  /\ early' = [early EXCEPT ![d] = IF settled[d] = "no" THEN "marking" ELSE "done"]
  /\ settled' = [settled EXCEPT ![d] = IF @ = "no" THEN "handled" ELSE @]
  /\ UNCHANGED <<pc, lockVars, handled, bare, known, handlerVars, result, claims, claimed, outcome>>

\* Mutant: the key of the lock is registered, not the id of the update.
RegisterKey(d) ==
  \/ handled' = handled \cup {ScopeAt(d)}
  \/ "error" \in Env /\ UNCHANGED handled

\* mark_handled() of the coordinator; an error is logged and no more.
Register(d) ==
  \/ handled' = handled \cup {IdAt(d)}
  \/ "error" \in Env /\ UNCHANGED handled

EarlyMark(d) ==
  /\ early[d] = "marking" /\ pc[d] # "crashed"
  /\ Register(d)
  /\ early' = [early EXCEPT ![d] = "unlocking"]
  /\ UNCHANGED <<pc, lockVars, bare, known, handlerVars, result, claims, claimed, settled, outcome>>

EarlyUnlock(d) ==
  /\ early[d] = "unlocking" /\ pc[d] # "crashed"
  /\ Release(d)
  /\ early' = [early EXCEPT ![d] = "done"]
  /\ UNCHANGED <<pc, handled, bare, known, handlerVars, result, claims, claimed, settled, outcome>>

\* Mutant: an early settlement is not waited for.
SettleAtOnce(d) ==
  /\ pc[d] = "settle"
  /\ Goto(d, "taking")
  /\ UNCHANGED <<lockVars, handled, bare, known, handlerVars, result, claimVars, settled, outcome>>

\* settle(): wait for the early settlement if there is one ...
Settle(d) ==
  /\ pc[d] = "settle"
  /\ Goto(d, IF early[d] = "none" THEN "taking" ELSE "waiting")
  /\ UNCHANGED <<lockVars, handled, bare, known, handlerVars, result, claimVars, settled, outcome>>

SettleWait(d) ==
  /\ pc[d] = "waiting"
  /\ early[d] = "done" \/ (claims[d] = "replaced" /\ settled[d] # "no")
  /\ Goto(d, "done")
  /\ UNCHANGED <<lockVars, handled, bare, known, handlerVars, result, claimVars, settled, outcome>>

\* ... and _settle(handled): only a thread can have come between.
SettleTake(d) ==
  /\ pc[d] = "taking"
  /\ IF settled[d] # "no"
       THEN Goto(d, "done") /\ UNCHANGED settled
       ELSE LET marks == result[d] /\ known[d] IN
            /\ settled' = [settled EXCEPT ![d] = IF marks THEN "handled" ELSE "untouched"]
            /\ Goto(d, IF marks THEN "marking" ELSE "unlocking")
  /\ UNCHANGED <<lockVars, handled, bare, known, handlerVars, result, claimVars, outcome>>

SettleMark(d) ==
  /\ pc[d] = "marking"
  /\ Register(d)
  /\ Goto(d, "unlocking")
  /\ UNCHANGED <<lockVars, bare, known, handlerVars, result, claimVars, settled, outcome>>

SettleUnlock(d) ==
  /\ pc[d] = "unlocking"
  /\ Release(d)
  /\ Goto(d, "done")
  /\ UNCHANGED <<handled, bare, known, handlerVars, result, claimVars, settled, outcome>>
-----------------------------------------------------------------------------
(* Faults *)

\* The TTL of the lock ends: always, in time, when its holder is dead or failed
\* to release it.
LockExpires(sc) ==
  /\ lock[sc] # NoOne
  /\ "expire" \in Env \/ pc[lock[sc]] = "crashed" \/ lock[sc] \in kept
  /\ lock' = [lock EXCEPT ![sc] = NoOne]
  /\ kept' = kept \ {lock[sc]}
  /\ UNCHANGED <<pc, handled, bare, known, handlerVars, result, claimVars, settled, outcome>>

ForgetHandled(id) ==
  /\ "forget" \in Env /\ id \in handled
  /\ handled' = handled \ {id}
  /\ UNCHANGED <<pc, lockVars, bare, known, handlerVars, result, claimVars, settled, outcome>>

\* Nothing is left to run for the delivery.
Over(d) == pc[d] = "done" /\ early[d] \notin {"scheduled", "marking", "unlocking"}

Crash(s) ==
  /\ "crash" \in Env /\ \E d \in Delivery : d[1] = s /\ pc[d] # "crashed"
  /\ pc' = [d \in Delivery |-> IF d[1] = s /\ ~Over(d) THEN "crashed" ELSE pc[d]]
  /\ UNCHANGED <<lockVars, handled, bare, known, handlerVars, result, claimVars, settled, outcome>>

WorkerStep(d) ==
  \/ Setup(d) \/ AcquireLock(d) \/ AcquireFails(d) \/ SkipLocked(d) \/ Identify(d)
  \/ CheckHandled(d) \/ ListenerTakes(d) \/ StartHandler(d) \/ EndHandler(d)
  \/ NoMoreHandlers(d) \/ Settle(d) \/ SettleWait(d) \/ SettleTake(d) \/ SettleMark(d)
  \/ SettleUnlock(d)

EarlyStep(d) == EarlyTake(d) \/ EarlyMark(d) \/ EarlyUnlock(d)

Next ==
  \/ \E d \in Delivery : \/ Take(d) \/ WorkerStep(d) \/ EarlyStep(d)
                         \/ Claim(d) \/ ThreadCheck(d) \/ ThreadClaim(d)
  \/ \E sc \in Scope : LockExpires(sc)
  \/ \E id \in Id : ForgetHandled(id)
  \/ \E s \in Session : Crash(s)

Spec == Init /\ [][Next]_vars

\* The event loop runs what is ready, handlers end, a dead holder's lock
\* expires, and nobody is starved of a lock that is free again and again.
Fairness ==
  /\ \A d \in Delivery :
       WF_vars(Take(d)) /\ WF_vars(EarlyStep(d)) /\ SF_vars(AcquireLock(d))
       /\ WF_vars(Setup(d) \/ Identify(d) \/ CheckHandled(d) \/ StartHandler(d) \/ EndHandler(d)
                  \/ NoMoreHandlers(d) \/ Settle(d) \/ SettleWait(d) \/ SettleTake(d)
                  \/ SettleMark(d) \/ SettleUnlock(d))
  /\ \A sc \in Scope : WF_vars(LockExpires(sc))

FairSpec == Spec /\ Fairness
-----------------------------------------------------------------------------
(* Properties *)

\* The part of a delivery that is under the lock: from its acquisition until
\* the settlement, whoever settles, gives it back.
Unsettled(d) ==
  pc[d] \in {"identify", "check", "handling", "running", "settle", "taking", "waiting"}
  /\ ~bare[d] /\ settled[d] = "no"
Settling(d) ==
  pc[d] \in {"marking", "unlocking"}
  \/ (early[d] \in {"marking", "unlocking"} /\ pc[d] # "crashed")
Critical(d) == Unsettled(d) \/ Settling(d)

\* The lock is held exactly by the deliveries in their critical part, and by those
\* whose release the backend refused, until the TTL: two sessions never process
\* one scope together, and no path through the handlers, an early settlement, a
\* stray thread or an error forgets to give the lock back.
LockIffCritical ==
  \A d \in Delivery :
    pc[d] # "crashed" => (lock[ScopeAt(d)] = d <=> Critical(d) \/ d \in kept)

\* Why it holds: the settlement is taken once, by the early coroutine or by
\* settle(), and nobody claims it before a handler has started or for a delivery
\* that has no release.
Waiting(d) == pc[d] \in {"queued", "parsed", "lock"}

ReleaseAgrees(d) ==
  /\ Waiting(d) \/ bare[d] => settled[d] = "no" /\ early[d] = "none"
  /\ Waiting(d) \/ pc[d] \in {"identify", "check"} => group[d] = 0 /\ ~bare[d]
  /\ group[d] = 0 \/ bare[d] => claims[d] = "none" /\ early[d] = "none"
  /\ bare[d] => pc[d] \in {"handling", "running", "done", "crashed"}
  /\ early[d] \in {"marking", "unlocking", "done"} => settled[d] # "no"
  /\ pc[d] \in {"marking", "unlocking"} =>
       settled[d] # "no" /\ early[d] \notin {"marking", "unlocking"}
  /\ pc[d] \in {"identify", "check"} => settled[d] = "no"
  /\ pc[d] = "done" /\ group[d] > 0 /\ ~bare[d] => settled[d] # "no"
  /\ d \in kept => settled[d] # "no" /\ ~Settling(d) /\ lock[ScopeAt(d)] = d

ReleaseInv ==
  /\ "error" \notin Env => kept = {}
  /\ \A sc \in Scope : lock[sc] # NoOne => ScopeAt(lock[sc]) = sc
  /\ \A d \in Delivery : ReleaseAgrees(d)

\* An update is settled as handled by one delivery only, in one session.
HandledOnce ==
  \A d, e \in Delivery :
    d # e /\ UpdateOf(d) = UpdateOf(e) =>
      ~(settled[d] = "handled" /\ settled[e] = "handled")

\* An early settlement sticks: once mark_handled() has returned True, what the
\* handler does afterwards cannot hand the update back.
EarlySticks ==
  \A d \in Delivery : pc[d] = "done" /\ claimed[d] => settled[d] = "handled"

\* What the end of its handlers asks of a delivery that settled nothing early:
\* the propagation was stopped, or it went through and a handler returned or
\* raised.  A duplicate, an error before the handlers, an update that was handed
\* back or only passed on ask for nothing.
Demanded(d) == outcome[d] = "stopped" \/ (outcome[d] = "ran_out" /\ ran[d] > 0)

\* Every delivery under coordination ends with its update settled as handled if
\* some mark_handled() returned True or its end demands it, and as untouched
\* otherwise; an early settlement that was only scheduled is over by then, and the
\* lock is given back, unless that failed.
EndsSettled ==
  \A d \in Delivery :
    pc[d] = "done" /\ ~bare[d] /\ outcome[d] # "skipped" =>
      /\ settled[d] = IF claimed[d] \/ Demanded(d) THEN "handled" ELSE "untouched"
      /\ early[d] \in {"none", "done"}
      /\ lock[ScopeAt(d)] = d => d \in kept

\* The documentation: left unregistered only when no handler ran at all.
RanIsRegistered ==
  \A d \in Delivery :
    pc[d] = "done" /\ ran[d] > 0 /\ ~bare[d] => settled[d] = "handled"

\* The documentation: an error falls through to the handlers, the update is not
\* lost.
NoneLost == \A d \in Delivery : outcome[d] # "lost"

\* The documentation: what the registry drops is the same update, that a peer
\* processed.
DuplicateIsSame ==
  \A d \in Delivery : outcome[d] = "duplicate" =>
    \E e \in Delivery : UpdateOf(e) = UpdateOf(d) /\ settled[e] = "handled"

\* The documentation: under a wide scope updates are processed in order.
InArrivalOrder ==
  \A d, e \in Delivery :
    d[1] = e[1] /\ ScopeAt(d) = ScopeAt(e) /\ Index(d) < Index(e) /\ group[e] > 0 =>
      pc[d] \notin {"parsed", "lock"} \/ IdAt(d) \in handled

\* A dead session's lock is not for ever, and every delivery gets its turn.
EveryDeliveryEnds ==
  \A d \in Delivery : pc[d] = "queued" ~> pc[d] \in {"done", "crashed"}
=============================================================================
