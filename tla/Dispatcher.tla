----------------------------- MODULE Dispatcher -----------------------------
(***************************************************************************)
(* The dispatchers of the sessions of a bot, from start() to stop(): the   *)
(* queue and the handler_worker tasks of each, and the pipeline a worker   *)
(* takes an update through: the scope of the update first, the listener    *)
(* under it, the handlers last.  Some handlers hold a conversation: they   *)
(* wait for an answer, which is an update of the same queue.               *)
(*                                                                         *)
(* Coordination and listeners are here as their contracts, ProcessOnce and *)
(* ListenerSlots, which UpdateCoordination and UpdateListener implement: a *)
(* step that takes, registers or gives back is a step of the contract.     *)
(***************************************************************************)
EXTENDS Naturals, Sequences, FiniteSets

CONSTANTS
  Session,
  Workers,   \* handler_worker tasks of a session
  Opening,   \* deliveries whose handler asks; no listener is for their type
  Answer,    \* deliveries of the type that is listened for
  At,        \* the session of each delivery
  Update, UpdateOf,  \* the update it brings, which every session is sent
  Key, KeyOf,        \* the listener key its handler asks with, or it answers
  Scope, ScopeOf,    \* what is locked for it
  Settles,   \* openings whose handler calls mark_handled() before it asks
  Endless,   \* openings whose handler may listen without a timeout
  Removable, \* what unregister_*() may be called for in each session
  Restarted, \* the sessions that start and stop meanwhile; the others run
  Starts,    \* bound on the calls of start() of a session
  Backend,   \* "memory": coordination in one process; or "redis"
  None, NoOne

Delivery == Opening \cup Answer
Call == Opening  \* the listen() of its handler
Sentinel == None
Part == {"listener", "coordinated"}

Label == {"away", "queued", "parsed", "holding", "listen", "handlers", "running",
          "waiting", "settling", "done"}

ASSUME ConstantsAssumption ==
  /\ Opening \cap Answer = {}
  /\ At \in [Delivery -> Session] /\ UpdateOf \in [Delivery -> Update]
  /\ KeyOf \in [Delivery -> Key] /\ ScopeOf \in [Delivery -> Scope]
  /\ Settles \subseteq Opening /\ Endless \subseteq Opening
  /\ Removable \in [Session -> SUBSET Part]
  /\ Restarted \subseteq Session /\ Workers \in Nat \ {0} /\ Starts \in Nat
  /\ Backend \in {"memory", "redis"}
  /\ Backend = "memory" => \A s, t \in Session : s = t
  /\ None \notin Delivery \cup Key /\ NoOne \notin Delivery

VARIABLES
  life,      \* of each dispatcher: "down", "up", "stopping", "draining"
  starts,    \* calls of start() so far
  parts,     \* what is registered: listeners, coordinateds
  sweep,     \* keys that stop() of the listener is about to cancel; None: no stop()
  queue,     \* updates_queue of each session
  ended,     \* workers of a session that took their sentinel
  pc,        \* where each delivery is
  handled,   \* the argument of its automatic settlement
  early,     \* its handler called mark_handled()
  patient,   \* its handler listens without a timeout
  holder, registered, stage,   \* ProcessOnce
  owner, slot, result          \* ListenerSlots

lifeVars == <<life, starts, parts, sweep>>
poolVars == <<queue, ended>>
workVars == <<pc, handled, early, patient>>
onceVars == <<holder, registered, stage>>
slotVars == <<owner, slot, result>>
vars == <<lifeVars, poolVars, workVars, onceVars, slotVars>>

Once == INSTANCE ProcessOnce WITH Id <- Update, IdIn <- UpdateOf, ScopeIn <- ScopeOf

Slots == INSTANCE ListenerSlots WITH Update <- Delivery

Init ==
  /\ life = [s \in Session |-> IF s \in Restarted THEN "down" ELSE "up"]
  /\ starts = [s \in Session |-> 0]
  /\ parts = [s \in Session |-> Part]
  /\ sweep = [s \in Session |-> None]
  /\ queue = [s \in Session |-> <<>>] /\ ended = [s \in Session |-> 0]
  /\ pc = [d \in Delivery |-> "away"]
  /\ handled = [d \in Delivery |-> FALSE] /\ early = [d \in Delivery |-> FALSE]
  /\ patient = [d \in Delivery |-> FALSE]
  /\ Once!Init /\ Slots!Init

Goto(d, label) == pc' = [pc EXCEPT ![d] = label]
Busy(d) == pc[d] \notin {"away", "queued", "done"}
IsStarted(s) == life[s] # "down"

\* The calls of a session that wait for their update.
Waiting(s) == {c \in Call : At[c] = s /\ slot[c] # None /\ result[c] = "pending"}
Listening(s) == {slot[c] : c \in Waiting(s)}
-----------------------------------------------------------------------------
(* start(), stop(), register_*() and unregister_*() *)

\* The workers run before the listeners are started, and before is_started says
\* so; nothing below depends on either.
Start(s) ==
  /\ life[s] = "down" /\ starts[s] < Starts
  /\ life' = [life EXCEPT ![s] = "up"]
  /\ starts' = [starts EXCEPT ![s] = @ + 1]
  /\ ended' = [ended EXCEPT ![s] = 0]
  /\ UNCHANGED <<parts, sweep, queue, workVars, onceVars, slotVars>>

\* stop() of a coordinated whose registry is in memory clears it, at once.
StopRegistry(stops) ==
  /\ registered' = IF stops /\ Backend = "memory" THEN {} ELSE registered
  /\ UNCHANGED <<holder, stage>>

\* The listener's stop() lists what it will cancel ...
Stop(s) ==
  /\ s \in Restarted /\ life[s] = "up"
  /\ life' = [life EXCEPT ![s] = "stopping"]
  /\ sweep' = [sweep EXCEPT ![s] = IF "listener" \in parts[s] THEN Listening(s) ELSE @]
  /\ StopRegistry("coordinated" \in parts[s])
  /\ UNCHANGED <<starts, parts, poolVars, workVars, slotVars>>

\* ... cancels it, and withdraws whatever the session has registered by then.
EndSweep(s) ==
  /\ sweep[s] # None
  /\ sweep' = [sweep EXCEPT ![s] = None]
  /\ Slots!Withdraw({k \in Key : owner[k] # None /\ At[owner[k]] = s},
                    {c \in Waiting(s) : slot[c] \in sweep[s]})
  /\ UNCHANGED <<life, starts, parts, poolVars, workVars, onceVars>>

\* Mutant: one sentinel too few.
DrainAllButOne(s) ==
  /\ life[s] = "stopping" /\ (sweep[s] = None \/ "listener" \notin parts[s])
  /\ life' = [life EXCEPT ![s] = "draining"]
  /\ queue' = [queue EXCEPT ![s] = @ \o [i \in 1..(Workers - 1) |-> Sentinel]]
  /\ UNCHANGED <<starts, parts, sweep, ended, workVars, onceVars, slotVars>>

\* oldstop(): a sentinel for each worker, behind what is queued, and then it
\* waits for the workers.
Drain(s) ==
  /\ life[s] = "stopping" /\ (sweep[s] = None \/ "listener" \notin parts[s])
  /\ life' = [life EXCEPT ![s] = "draining"]
  /\ queue' = [queue EXCEPT ![s] = @ \o [i \in 1..Workers |-> Sentinel]]
  /\ UNCHANGED <<starts, parts, sweep, ended, workVars, onceVars, slotVars>>

\* Mutant: the workers are not waited for.
EndStopAtOnce(s) ==
  /\ life[s] = "draining"
  /\ life' = [life EXCEPT ![s] = "down"]
  /\ UNCHANGED <<starts, parts, sweep, poolVars, workVars, onceVars, slotVars>>

EndStop(s) ==
  /\ life[s] = "draining" /\ ended[s] = Workers
  /\ life' = [life EXCEPT ![s] = "down"]
  /\ UNCHANGED <<starts, parts, sweep, poolVars, workVars, onceVars, slotVars>>

Register(s, part) ==
  /\ ~IsStarted(s) /\ part \notin parts[s] /\ sweep[s] = None
  /\ parts' = [parts EXCEPT ![s] = @ \cup {part}]
  /\ UNCHANGED <<life, starts, sweep, poolVars, workVars, onceVars, slotVars>>

\* Taken out first, at any time, and stopped after.
Unregister(s, part) ==
  /\ part \in Removable[s] \cap parts[s] /\ sweep[s] = None
  /\ parts' = [parts EXCEPT ![s] = @ \ {part}]
  /\ sweep' = [sweep EXCEPT ![s] = IF part = "listener" THEN Listening(s) ELSE @]
  /\ StopRegistry(part = "coordinated")
  /\ UNCHANGED <<life, starts, poolVars, workVars, slotVars>>
-----------------------------------------------------------------------------
(* handler_worker *)

Arrive(d) ==
  /\ pc[d] = "away"
  /\ Goto(d, "queued")
  /\ queue' = [queue EXCEPT ![At[d]] = Append(@, d)]
  /\ UNCHANGED <<lifeVars, ended, handled, early, patient, onceVars, slotVars>>

HasWorker(s) ==
  /\ IsStarted(s)
  /\ ended[s] + Cardinality({d \in Delivery : At[d] = s /\ Busy(d)}) < Workers

Take(s) ==
  /\ HasWorker(s) /\ queue[s] # <<>>
  /\ queue' = [queue EXCEPT ![s] = Tail(@)]
  /\ IF Head(queue[s]) = Sentinel
       THEN ended' = [ended EXCEPT ![s] = @ + 1] /\ UNCHANGED pc
       ELSE Goto(Head(queue[s]), "parsed") /\ UNCHANGED ended
  /\ UNCHANGED <<lifeVars, handled, early, patient, onceVars, slotVars>>
-----------------------------------------------------------------------------
(* handle_update *)

\* Nothing coordinates the update: straight to _handle_update().
Bypass(d) ==
  /\ pc[d] = "parsed" /\ "coordinated" \notin parts[At[d]]
  /\ Goto(d, "listen")
  /\ UNCHANGED <<lifeVars, poolVars, handled, early, patient, onceVars, slotVars>>

Lock(d) ==
  /\ pc[d] = "parsed" /\ "coordinated" \in parts[At[d]]
  /\ Once!Enter(d)
  /\ Goto(d, "holding")
  /\ UNCHANGED <<lifeVars, poolVars, handled, early, patient, slotVars>>

\* Mutant: the listener and the handlers get what a peer has handled.
CheckNothing(d) ==
  /\ pc[d] = "holding"
  /\ Goto(d, "listen") /\ stage' = [stage EXCEPT ![d] = "processing"]
  /\ UNCHANGED <<lifeVars, poolVars, handled, early, patient, holder, registered, slotVars>>

Check(d) ==
  /\ pc[d] = "holding"
  /\ \/ UpdateOf[d] \in registered /\ Goto(d, "settling") /\ UNCHANGED onceVars
     \/ Once!Begin(d) /\ Goto(d, "listen")
  /\ UNCHANGED <<lifeVars, poolVars, handled, early, patient, slotVars>>

\* mark_handled(), scheduled early or called by the automatic settlement.
MarkHandled(d) ==
  /\ early[d] \/ (pc[d] = "settling" /\ handled[d])
  /\ Once!Register(d)
  /\ UNCHANGED <<lifeVars, poolVars, workVars, slotVars>>

\* Mutant: the early settlement keeps the lock for the automatic one.
UnlockLate(d) ==
  /\ pc[d] = "settling"
  /\ stage[d] = "registered" \/ ~(early[d] \/ handled[d]) \/ stage[d] = "holding"
  /\ Once!Leave(d)
  /\ UNCHANGED <<lifeVars, poolVars, workVars, slotVars>>

\* Mutant: what a peer has handled is dropped without a settlement.
UnlockUnlessDuplicate(d) ==
  /\ stage[d] = "registered" \/ (pc[d] = "settling" /\ stage[d] = "processing" /\ ~handled[d])
  /\ Once!Leave(d)
  /\ UNCHANGED <<lifeVars, poolVars, workVars, slotVars>>

Unlock(d) ==
  /\ \/ stage[d] = "registered"
     \/ pc[d] = "settling" /\ (~(early[d] \/ handled[d]) \/ stage[d] = "holding")
  /\ Once!Leave(d)
  /\ UNCHANGED <<lifeVars, poolVars, workVars, slotVars>>

\* The worker is free again once the settlement, whoever made it, is over.
Finish(d) ==
  /\ pc[d] = "settling" /\ stage[d] \in {"outside", "left"}
  /\ Goto(d, "done")
  /\ UNCHANGED <<lifeVars, poolVars, handled, early, patient, onceVars, slotVars>>
-----------------------------------------------------------------------------
(* handle_listen *)

Settle(d, handledFlag) ==
  /\ Goto(d, "settling")
  /\ handled' = [handled EXCEPT ![d] = handledFlag]

Listenable(d) == d \in Answer /\ "listener" \in parts[At[d]]

\* The listener that owns the key of the update waits in this session.
Taker(d) == owner[KeyOf[d]] \in Waiting(At[d])

Resolve(d) ==
  /\ pc[d] = "listen" /\ Listenable(d) /\ Taker(d)
  /\ Slots!Deliver(owner[KeyOf[d]], d)
  /\ Settle(d, TRUE)
  /\ UNCHANGED <<lifeVars, poolVars, early, patient, onceVars>>

\* The dict of the listener is not empty, as far as the contract tells: a call
\* waits, or one that has its result is not yet back in its handler.  What has
\* lost its key is dropped on the way.
Unresolved(d) ==
  LET s == At[d] IN
  /\ pc[d] = "listen" /\ Listenable(d) /\ ~Taker(d)
  /\ \E c \in Call : At[c] = s /\ pc[c] = "waiting"
  /\ Slots!Withdraw({}, {c \in Waiting(s) : slot[c] = KeyOf[d]})
  /\ Goto(d, "handlers")
  /\ UNCHANGED <<lifeVars, poolVars, handled, early, patient, onceVars>>

\* The dict is empty, and resolve() returns as if it had resolved.
Swallow(d) ==
  /\ pc[d] = "listen" /\ Listenable(d) /\ Waiting(At[d]) = {}
  /\ Settle(d, TRUE)
  /\ UNCHANGED <<lifeVars, poolVars, early, patient, onceVars, slotVars>>
-----------------------------------------------------------------------------
(* The handlers *)

\* Nothing listens for the type of the update, or nobody waited for it.  A
\* handler takes an opening; an answer may find none, and is left untouched.
RunHandler(d) ==
  /\ pc[d] = "handlers" \/ (pc[d] = "listen" /\ ~Listenable(d))
  /\ \/ d \in Answer /\ Settle(d, FALSE) /\ UNCHANGED early
     \/ d \in Answer /\ Settle(d, TRUE) /\ UNCHANGED early
     \/ /\ d \in Opening /\ Goto(d, "running") /\ UNCHANGED handled
        /\ early' = [early EXCEPT ![d] = d \in Settles /\ stage[d] # "outside"]
  /\ UNCHANGED <<lifeVars, poolVars, patient, onceVars, slotVars>>

\* listen() without a listener of that type raises: the handler fails, but ran.
AskFails(c) ==
  /\ pc[c] = "running" /\ "listener" \notin parts[At[c]]
  /\ Settle(c, TRUE)
  /\ UNCHANGED <<lifeVars, poolVars, early, patient, onceVars, slotVars>>

\* The key is taken from its owner, who learns at once in its own session and
\* by a signal in another.
Replace(c) ==
  /\ pc[c] = "running" /\ "listener" \in parts[At[c]] /\ owner[KeyOf[c]] # None
  /\ Slots!Withdraw({KeyOf[c]}, {owner[KeyOf[c]]} \cap Waiting(At[c]))
  /\ UNCHANGED <<lifeVars, poolVars, workVars, onceVars>>

Ask(c) ==
  /\ pc[c] = "running" /\ "listener" \in parts[At[c]]
  /\ Slots!Claim(c, KeyOf[c])
  /\ Goto(c, "waiting")
  /\ \E p \in BOOLEAN : (p => c \in Endless) /\ patient' = [patient EXCEPT ![c] = p]
  /\ UNCHANGED <<lifeVars, poolVars, handled, early, onceVars>>

\* A cancel signal about a key another session took.
Superseded(c) ==
  /\ c \in Waiting(At[c]) /\ owner[slot[c]] \notin {None, c}
  /\ Slots!Withdraw({}, {c})
  /\ UNCHANGED <<lifeVars, poolVars, workVars, onceVars>>

Timeout(c) ==
  /\ c \in Waiting(At[c]) /\ ~patient[c]
  /\ Slots!GiveUp(c, "timeout")
  /\ UNCHANGED <<lifeVars, poolVars, workVars, onceVars>>

\* listen() is over: the key is given back if it is still the call's.
Resume(c) ==
  /\ pc[c] = "waiting" /\ result[c] # "pending"
  /\ Slots!Withdraw({k \in Key : owner[k] = c}, {})
  /\ Settle(c, TRUE)
  /\ UNCHANGED <<lifeVars, poolVars, early, patient, onceVars>>
-----------------------------------------------------------------------------
LifeStep(s) ==
  \/ Start(s) \/ Stop(s)
  \/ \E part \in Part : Register(s, part) \/ Unregister(s, part)

StopStep(s) == EndSweep(s) \/ Drain(s) \/ EndStop(s)

\* What the worker of a delivery does by itself, and its settlement.
Work(d) ==
  \/ Bypass(d) \/ Check(d) \/ Finish(d) \/ Resolve(d) \/ Unresolved(d)
  \/ Swallow(d) \/ RunHandler(d)
  \/ d \in Call /\ (AskFails(d) \/ Replace(d) \/ Ask(d) \/ Resume(d))

SettleStep(d) == MarkHandled(d) \/ Unlock(d)

Next ==
  \/ \E s \in Session : LifeStep(s) \/ StopStep(s) \/ Take(s)
  \/ \E d \in Delivery : Arrive(d) \/ Lock(d) \/ Work(d) \/ SettleStep(d)
  \/ \E c \in Call : Superseded(c) \/ Timeout(c)

Spec == Init /\ [][Next]_vars

\* The loop runs what is ready, timers fire, signals arrive, and a waiter gets a
\* lock that is free again and again.  Nobody has to start, stop or write.
Fairness ==
  /\ \A s \in Session : WF_vars(StopStep(s)) /\ WF_vars(Take(s))
  /\ \A d \in Delivery : SF_vars(Lock(d)) /\ WF_vars(Work(d)) /\ WF_vars(SettleStep(d))
  /\ \A c \in Call : WF_vars(Superseded(c) \/ Timeout(c))

FairSpec == Spec /\ Fairness
-----------------------------------------------------------------------------
(* Properties *)

\* An update was given to a listener, to a handler, or to resolve(), which
\* takes it though nobody waits.
Taken(d) == handled[d] \/ pc[d] \in {"running", "waiting"}

\* Whatever is started, stopped or unregistered meanwhile, an update that is
\* coordinated is taken in one session: what a listener of one is given reaches
\* no handler of another.  Not said where stop() clears the registry.
TakenOnce ==
  \A d, e \in Delivery :
    /\ UpdateOf[d] = UpdateOf[e] /\ Taken(d) /\ Taken(e)
    /\ stage[d] # "outside" /\ stage[e] # "outside"
    => d = e

\* A dispatcher that is down has left nothing behind that keeps its peers from
\* a scope or a key, and no sentinel that would end a worker of the next start.
DownLeavesNothing ==
  \A s \in Session : ~IsStarted(s) =>
    /\ \A d \in Delivery : At[d] = s => ~Busy(d) /\ \A sc \in Scope : holder[sc] # d
    /\ \A k \in Key : owner[k] # None => At[owner[k]] # s
    /\ \A i \in DOMAIN queue[s] : queue[s][i] # Sentinel

\* A handler waits without a timeout, perhaps for ever.
Patient(s) == \E c \in Waiting(s) : patient[c]

\* stop() ends: it cancels what waits when it begins, and only a handler that
\* begins to wait without a timeout after that can keep it.
StopEnds ==
  \A s \in Restarted :
    (life[s] = "stopping") ~> (life[s] = "down" \/ (life[s] = "draining" /\ Patient(s)))

\* A queued update is processed to its end, be it by the workers that stop()
\* waits for, unless a handler waits without a timeout.
UpdateEnds ==
  \A d \in Delivery :
    (pc[d] = "queued" /\ life[At[d]] = "up")
      ~> (pc[d] = "done" \/ (life[At[d]] = "down" /\ pc[d] = "queued") \/ Patient(At[d]))

\* All the workers of a session are inside handlers that wait.
Exhausted(s) == Cardinality(Waiting(s)) >= Workers

\* An answer that is queued reaches the handler that waits for it, though other
\* updates of its scope, and the opening itself, are processed meanwhile: the
\* handler loses it to a peer, to stop() or unregister_listener(), or with no
\* worker left.
AnswerReachesAsker ==
  \A c \in Call, d \in Answer : At[d] = At[c] /\ KeyOf[d] = KeyOf[c] =>
    (c \in Waiting(At[c]) /\ pc[d] = "queued" /\ UpdateOf[d] \notin registered)
      ~> \/ c \notin Waiting(At[c])
         \/ \E e \in Delivery \ {d} : UpdateOf[e] = UpdateOf[d] /\ Taken(e)
         \/ life[At[c]] # "up" \/ "listener" \notin parts[At[c]] \/ Exhausted(At[c])

\* What a handler that asks without a timeout counts on, and does not have: a
\* peer may take the answer, all the workers may be waiting, and a handler that
\* does not settle keeps the scope that its own answer needs.
AskerIsAnswered ==
  \A c \in Call, d \in Answer : At[d] = At[c] /\ KeyOf[d] = KeyOf[c] =>
    (c \in Waiting(At[c]) /\ pc[d] = "queued" /\ UpdateOf[d] \notin registered)
      ~> \/ c \notin Waiting(At[c])
         \/ life[At[c]] # "up" \/ "listener" \notin parts[At[c]]

\* stop() ends whatever the handlers do that run meanwhile.
StopAlwaysEnds == \A s \in Restarted : (life[s] = "stopping") ~> (life[s] = "down")
=============================================================================
