----------------------------- MODULE BotCommands -----------------------------
(***************************************************************************)
(* BotCommandsMixin: the commands marked on handlers are collected as the  *)
(* handlers are registered and published to Telegram by start(), by        *)
(* push_bot_commands() and withdrawn by stop().                            *)
(*                                                                         *)
(* add_handler() and remove_handler() create two tasks, Pyrogram's, which  *)
(* changes dispatcher.groups under every worker's lock, and apply() of     *)
(* _track_bot_commands(), which keeps the collection.  Both tasks, the     *)
(* publishers and the workers share asyncio locks, which are FIFO: a lock  *)
(* is the sequence of the tasks that asked for it, its head the holder.    *)
(*                                                                         *)
(* An action is one stretch between awaits.  A Mutant is not part of the   *)
(* specification.                                                          *)
(***************************************************************************)
EXTENDS Integers, Sequences, FiniteSets

CONSTANTS
  Handler,
  Group,     \* handler groups of the dispatcher
  Key,       \* (language_code, scope) pairs
  Command,
  Declares,  \* the (key, command) pairs marked on each handler
  Workers,   \* number of handler_worker tasks
  Pushes,    \* calls of push_bot_commands() besides the one of start()
  MaxCalls,  \* bound on the calls of add_handler() and remove_handler()
  Env        \* what may happen, a subset of Events

Events == {"busy",    \* a worker may be inside a handler
           "any",     \* a handler may be removed that is not registered
           "nested",  \* a handler may call push_bot_commands()
           "cancel",  \* an apply() task may be cancelled while it waits
           "fail",    \* Telegram may refuse a call
           "stop"}    \* the client may be stopped

Entry == Key \X Command
Worker == 1..Workers
BotLock == 0                  \* bot_command_groups_lock
Lock == {BotLock} \cup Worker \* and dispatcher.locks_list
Calls == [op : {"add", "remove"}, handler : Handler, group : Group]
Publisher == {"start", "stop"} \cup Pushes

Pyrogram(n) == <<"pyrogram", n>>
Track(n) == <<"track", n>>
Publish(p) == <<"publish", p>>
Handling(w) == <<"worker", w>>
Task == ({"pyrogram", "track"} \X (1..MaxCalls)) \cup ({"publish"} \X Publisher)
          \cup ({"worker"} \X Worker)

ASSUME ConstantsAssumption ==
  /\ Declares \in [Handler -> SUBSET Entry]
  /\ Workers \in Nat \ {0} /\ MaxCalls \in Nat
  /\ Env \subseteq Events
  /\ Pushes \cap {"start", "stop"} = {}

VARIABLES
  calls,      \* the calls made, in order
  ready,      \* tasks the event loop has yet to give their first turn
  queue,      \* who asked for each lock
  inside,     \* the workers inside a handler
  groups,     \* dispatcher.groups
  collected,  \* bot_command_groups: how often each command is in its group
  life,       \* of the client
  pub,        \* where each publisher is
  by,         \* the worker whose handler called it; 0: none
  outbox,     \* requests on their way to Telegram
  published   \* external: what Telegram shows

pubVars == <<pub, by, outbox, published>>
vars == <<calls, ready, queue, inside, groups, collected, life, pubVars>>

TypeOK ==
  /\ calls \in Seq(Calls) /\ Len(calls) <= MaxCalls
  /\ ready \in Seq(Task)
  /\ queue \in [Lock -> Seq(Task)]
  /\ inside \subseteq Worker
  /\ groups \in [Group -> SUBSET Handler]
  /\ collected \in [Entry -> Nat]
  /\ life \in {"off", "on", "stopped"}
  /\ pub \in [Publisher -> {"none", "asking", "sending", "done", "failed"}]
  /\ by \in [Publisher -> 0..Workers]
  /\ outbox \in [Publisher -> SUBSET (Key \X SUBSET Command)]
  /\ published \in [Key -> SUBSET Command]

Init ==
  /\ calls = <<>> /\ ready = <<>>
  /\ queue = [l \in Lock |-> <<>>]
  /\ inside = {}
  /\ groups = [g \in Group |-> {}]
  /\ collected = [e \in Entry |-> 0]
  /\ life = "off"
  /\ pub = [p \in Publisher |-> "none"] /\ by = [p \in Publisher |-> 0]
  /\ outbox = [p \in Publisher |-> {}]
  /\ published = [k \in Key |-> {}]
-----------------------------------------------------------------------------
\* The locks.  q stands for the queue before or after some stretch.
InQueue(q, l, t) == \E i \in DOMAIN q[l] : q[l][i] = t
Holds(q, l, t) == q[l] # <<>> /\ Head(q[l]) = t
Waits(t) == \E l \in Lock : InQueue(queue, l, t)

\* Mutant: apply() takes the workers' locks only.
PlanWithoutBotLock(t) ==
  IF t[1] = "publish" THEN <<BotLock>>
  ELSE IF t[1] = "worker" THEN <<t[2]>> ELSE [i \in 1..Workers |-> i]

\* The locks a task takes, in order.
Plan(t) ==
  CASE t[1] = "pyrogram" -> [i \in 1..Workers |-> i]
    [] t[1] = "track"    -> [i \in 1..(Workers + 1) |-> i - 1]
    [] t[1] = "publish"  -> <<BotLock>>
    [] t[1] = "worker"   -> <<t[2]>>

HoldsAll(q, t) == \A i \in DOMAIN Plan(t) : Holds(q, Plan(t)[i], t)

\* lock.acquire() along the plan, as far as the locks are free, and then the
\* first one that is not.
Asked(q, t) ==
  LET Reached(i) == /\ ~InQueue(q, Plan(t)[i], t)
                    /\ \A j \in 1..(i - 1) : q[Plan(t)[j]] = <<>> \/ Holds(q, Plan(t)[j], t)
  IN [l \in Lock |-> IF \E i \in DOMAIN Plan(t) : Plan(t)[i] = l /\ Reached(i)
                     THEN Append(q[l], t) ELSE q[l]]

\* Mutant: the finally clause releases every lock of the plan.
ReleasedAll(q, t) ==
  [l \in Lock |-> IF (\E i \in DOMAIN Plan(t) : Plan(t)[i] = l) /\ q[l] # <<>>
                  THEN Tail(q[l]) ELSE q[l]]

Dropped(s, i) == [j \in 1..(Len(s) - 1) |-> s[IF j < i THEN j ELSE j + 1]]

\* Release what is held, stop waiting for the rest.
Released(q, t) ==
  [l \in Lock |-> IF InQueue(q, l, t)
                  THEN Dropped(q[l], CHOOSE i \in DOMAIN q[l] : q[l][i] = t) ELSE q[l]]
-----------------------------------------------------------------------------
Registered(gs, h) == \E g \in Group : h \in gs[g]
Declared(gs) == UNION {Declares[h] : h \in {h \in Handler : Registered(gs, h)}}

\* External: the body of Pyrogram's task.  Removing what is not there raises.
Changed(gs, call) ==
  [gs EXCEPT ![call.group] = IF call.op = "add" THEN @ \cup {call.handler}
                                                ELSE @ \ {call.handler}]

\* Mutant: the removal of a handler is not tracked.
TrackedAdds(coll, call) ==
  [e \in Entry |-> IF e \in Declares[call.handler] /\ call.op = "add"
                   THEN coll[e] + 1 ELSE coll[e]]

\* _collect_bot_commands(), _discard_bot_commands(): list.remove() takes one
\* occurrence, a missing one is ignored, and an empty group is dropped.
Tracked(coll, call) ==
  [e \in Entry |->
     IF e \notin Declares[call.handler] THEN coll[e]
     ELSE IF call.op = "add" THEN coll[e] + 1
     ELSE IF coll[e] > 0 THEN coll[e] - 1 ELSE 0]

\* Mutant: nothing is pruned.
PrunedNothing(coll, gs) == coll

\* _prune_bot_commands()
Pruned(coll, gs) == [e \in Entry |-> IF e \in Declared(gs) THEN coll[e] ELSE 0]

\* The condition apply() tests before it takes any lock.
Landed(gs, call) == Registered(gs, call.handler) = (call.op = "add")

\* Of the first n calls, the last one for h added it to g.
Added(n, h, g) ==
  \E i \in 1..n : /\ calls[i] = [op |-> "add", handler |-> h, group |-> g]
                  /\ \A j \in (i + 1)..n : calls[j].handler # h

\* A program that registers a handler in one group at a time and removes it
\* from there.
Sensible(call) ==
  IF call.op = "add" THEN \A g \in Group : ~Added(Len(calls), call.handler, g)
                     ELSE Added(Len(calls), call.handler, call.group)

\* add_handler() or remove_handler(), by a handler or by anybody.
Call(call) ==
  /\ Len(calls) < MaxCalls
  /\ Sensible(call) \/ ("any" \in Env /\ call.op = "remove")
  /\ calls' = Append(calls, call)
  /\ ready' = Append(ready, Pyrogram(Len(calls) + 1))
  /\ UNCHANGED <<queue, inside, groups, collected, life, pubVars>>

\* The first turns of the two tasks of the oldest call.  They were created
\* together, so nothing runs between them.
FirstTurn ==
  /\ ready # <<>> /\ Head(ready)[1] = "pyrogram"
  /\ LET n == Head(ready)[2]
         call == calls[n]
         asked == Asked(queue, Pyrogram(n))
         free == HoldsAll(asked, Pyrogram(n))
         gs == IF free THEN Changed(groups, call) ELSE groups
         before == IF free THEN queue ELSE asked
         after == Asked(before, Track(n))
     IN /\ groups' = gs
        /\ IF ~Landed(gs, call) \/ Declares[call.handler] = {}
           THEN queue' = before /\ UNCHANGED collected
           ELSE IF HoldsAll(after, Track(n))
           THEN queue' = before /\ collected' = Tracked(collected, call)
           ELSE queue' = after /\ UNCHANGED collected
  /\ ready' = Tail(ready)
  /\ UNCHANGED <<calls, inside, life, pubVars>>

\* A waiting task got a lock.  It takes the rest of its plan in one go, or
\* waits again further on.
GotAll(t) == Waits(t) /\ HoldsAll(Asked(queue, t), t)

GoOn(t) ==
  /\ Waits(t) /\ Asked(queue, t) # queue /\ ~GotAll(t)
  /\ queue' = Asked(queue, t)
  /\ UNCHANGED <<calls, ready, inside, groups, collected, life, pubVars>>

PyrogramLands(n) ==
  /\ GotAll(Pyrogram(n))
  /\ groups' = Changed(groups, calls[n])
  /\ queue' = Released(queue, Pyrogram(n))
  /\ UNCHANGED <<calls, ready, inside, collected, life, pubVars>>

TrackLands(n) ==
  /\ GotAll(Track(n))
  /\ collected' = Tracked(collected, calls[n])
  /\ queue' = Released(queue, Track(n))
  /\ UNCHANGED <<calls, ready, inside, groups, life, pubVars>>

TrackCancelled(n) ==
  /\ "cancel" \in Env
  /\ Waits(Track(n)) /\ ~GotAll(Track(n))
  /\ queue' = Released(queue, Track(n))
  /\ UNCHANGED <<calls, ready, inside, groups, collected, life, pubVars>>
-----------------------------------------------------------------------------
\* handler_worker: an update is handled under the worker's lock.
TakeUpdate(w) ==
  /\ "busy" \in Env /\ life = "on"
  /\ w \notin inside /\ ~InQueue(queue, w, Handling(w))
  /\ queue' = Asked(queue, Handling(w))
  /\ UNCHANGED <<calls, ready, inside, groups, collected, life, pubVars>>

Handle(w) ==
  /\ w \notin inside /\ Holds(queue, w, Handling(w))
  /\ inside' = inside \cup {w}
  /\ UNCHANGED <<calls, ready, queue, groups, collected, life, pubVars>>

EndUpdate(w) ==
  /\ w \in inside
  /\ \A p \in Publisher : by[p] = w => pub[p] \in {"done", "failed"}
  /\ queue' = Released(queue, Handling(w)) /\ inside' = inside \ {w}
  /\ UNCHANGED <<calls, ready, groups, collected, life, pubVars>>
-----------------------------------------------------------------------------
\* push_bot_commands() and remove_bot_commands() yield once, so that the
\* tasks created before them have had their turn, and ask for the lock.
Enter(p, w) ==
  /\ pub[p] = "none"
  /\ pub' = [pub EXCEPT ![p] = "asking"] /\ by' = [by EXCEPT ![p] = w]
  /\ ready' = Append(ready, Publish(p))

Push(p) ==
  /\ life = "on"
  /\ \/ Enter(p, 0)
     \/ \E w \in Worker : "nested" \in Env /\ w \in inside /\ Enter(p, w)
  /\ UNCHANGED <<calls, queue, inside, groups, collected, life, outbox, published>>

AskBotLock ==
  /\ ready # <<>> /\ Head(ready)[1] = "publish"
  /\ queue' = Asked(queue, Head(ready))
  /\ ready' = Tail(ready)
  /\ UNCHANGED <<calls, inside, groups, collected, life, pubVars>>

CommandsAt(coll, k) == {c \in Command : coll[<<k, c>>] > 0}

\* Mutant: a group that is already published is not sent again.
RequestsOfNew(p) ==
  {<<k, IF p = "stop" THEN {} ELSE CommandsAt(Pruned(collected, groups), k)>> :
     k \in {k \in Key : CommandsAt(collected, k) # {} /\ published[k] = {}}}

\* One call per group, each command once.
Requests(p) ==
  LET coll == IF p = "stop" THEN collected ELSE Pruned(collected, groups)
  IN {<<k, IF p = "stop" THEN {} ELSE CommandsAt(coll, k)>> :
        k \in {k \in Key : CommandsAt(coll, k) # {}}}

Send(p) ==
  /\ pub[p] = "asking" /\ Holds(queue, BotLock, Publish(p))
  /\ collected' = IF p = "stop" THEN collected ELSE Pruned(collected, groups)
  /\ outbox' = [outbox EXCEPT ![p] = Requests(p)]
  /\ pub' = [pub EXCEPT ![p] = "sending"]
  /\ UNCHANGED <<calls, ready, queue, inside, groups, life, by, published>>

\* External: Telegram carries a request out.
Deliver(p) ==
  /\ \E r \in outbox[p] :
       /\ published' = [published EXCEPT ![r[1]] = r[2]]
       /\ outbox' = [outbox EXCEPT ![p] = @ \ {r}]
  /\ UNCHANGED <<calls, ready, queue, inside, groups, collected, life, pub, by>>

\* Mutant: the lock is not given back.
LeaveHolding(p, result) ==
  /\ pub' = [pub EXCEPT ![p] = result]
  /\ UNCHANGED queue

Leave(p, result) ==
  /\ pub' = [pub EXCEPT ![p] = result]
  /\ queue' = Released(queue, Publish(p))

Finish(p) ==
  /\ pub[p] = "sending" /\ outbox[p] = {}
  /\ Leave(p, "done")
  /\ UNCHANGED <<calls, ready, inside, groups, collected, life, by, outbox, published>>

\* gather_abort(): one call fails, the others are cancelled.
Fail(p) ==
  /\ "fail" \in Env
  /\ pub[p] = "sending" /\ outbox[p] # {}
  /\ Leave(p, "failed")
  /\ outbox' = [outbox EXCEPT ![p] = {}]
  /\ UNCHANGED <<calls, ready, inside, groups, collected, life, by, published>>

Start ==
  /\ life = "off"
  /\ Enter("start", 0)
  /\ life' = "on"
  /\ UNCHANGED <<calls, queue, inside, groups, collected, outbox, published>>

\* stop(), with and without remove_commands.
Stop ==
  /\ "stop" \in Env /\ life = "on" /\ pub["start"] \in {"done", "failed"}
  /\ \/ Enter("stop", 0)
     \/ /\ pub["stop"] = "none"
        /\ pub' = [pub EXCEPT !["stop"] = "done"]
        /\ by' = [by EXCEPT !["stop"] = 0] /\ UNCHANGED ready
  /\ UNCHANGED <<calls, queue, inside, groups, collected, life, outbox, published>>

\* Pyrogram's stop() lets the workers end and forgets the handlers.
Stopped ==
  /\ life = "on" /\ pub["stop"] = "done"
  /\ \A w \in Worker : ~InQueue(queue, w, Handling(w))
  /\ life' = "stopped"
  /\ groups' = [g \in Group |-> {}]
  /\ collected' = Pruned(collected, [g \in Group |-> {}])
  /\ UNCHANGED <<calls, ready, queue, inside, pubVars>>

LoopStep ==
  \/ FirstTurn \/ AskBotLock
  \/ \E n \in DOMAIN calls : \/ GoOn(Pyrogram(n)) \/ GoOn(Track(n))
                             \/ PyrogramLands(n) \/ TrackLands(n)
  \/ \E p \in Publisher : Send(p) \/ Deliver(p) \/ Finish(p)
  \/ \E w \in Worker : Handle(w) \/ EndUpdate(w)

Next ==
  \/ LoopStep
  \/ \E call \in Calls : Call(call)
  \/ \E n \in DOMAIN calls : TrackCancelled(n)
  \/ \E w \in Worker : TakeUpdate(w)
  \/ \E p \in Pushes : Push(p)
  \/ \E p \in Publisher : Fail(p)
  \/ Start \/ Stop \/ Stopped

Spec == Init /\ [][Next]_vars

\* The loop runs what is ready, Telegram answers and handlers end.
Fairness ==
  /\ WF_vars(FirstTurn) /\ WF_vars(AskBotLock)
  /\ \A n \in 1..MaxCalls :
       /\ WF_vars(n \in DOMAIN calls /\ (GoOn(Pyrogram(n)) \/ PyrogramLands(n)))
       /\ WF_vars(n \in DOMAIN calls /\ (GoOn(Track(n)) \/ TrackLands(n)))
  /\ \A p \in Publisher : WF_vars(Send(p) \/ Deliver(p) \/ Finish(p))
  /\ \A w \in Worker : WF_vars(Handle(w) \/ EndUpdate(w))

FairSpec == Spec /\ Fairness
-----------------------------------------------------------------------------
\* No bookkeeping task is under way.
Quiet ==
  /\ \A i \in DOMAIN ready : ready[i][1] = "publish"
  /\ \A n \in DOMAIN calls : ~Waits(Pyrogram(n)) /\ ~Waits(Track(n))

\* Once every registration has landed, the commands collected are those of
\* the registered handlers: the bookkeeping follows the real registration
\* whatever the publishers and the other tasks do meanwhile (client.py:560).
CollectedIsDeclared ==
  Quiet /\ life # "stopped" => {e \in Entry : collected[e] > 0} = Declared(groups)

\* Pyrogram changes the handlers only while no worker is inside one, and
\* nothing the bookkeeping releases lets it do otherwise (client.py:622).
HandlersAreStable ==
  [][inside # {} => groups' = groups]_vars

\* While a publisher has the lock, whose groups it is sending, nobody changes
\* the collection: a prune runs with the lock held and no bookkeeping task
\* can be running (client.py:678-684).
CollectionIsStable ==
  [][\A p \in Publisher :
       pub[p] = "sending" /\ pub'[p] = "sending" => collected' = collected]_vars

\* A push that succeeds while no registration is under way leaves no command
\* published whose handler is gone (client.py:674).
PushLeavesNoGhost ==
  [][\A p \in Publisher \ {"stop"} :
       pub[p] = "sending" /\ pub'[p] = "done" /\ Quiet
         => \A k \in Key : {k} \X published[k] \subseteq Declared(groups)]_vars

\* A push that succeeds while no registration is under way has published the
\* commands of every registered handler (client.py:562).
PushPublishesAll ==
  [][\A p \in Publisher \ {"stop"} :
       pub[p] = "sending" /\ pub'[p] = "done" /\ Quiet
         => \A e \in Declared(groups) : e[2] \in published[e[1]]]_vars

\* Whatever the bookkeeping missed, a push sends no command whose handler is
\* gone when it prunes (client.py:674).
SentIsDeclared ==
  [][\A p \in Publisher \ {"stop"} :
       outbox[p] = {} => \A r \in outbox'[p] : {r[1]} \X r[2] \subseteq Declared(groups)]_vars

\* A publisher ends, with an answer or an error.
PublisherEnds ==
  \A p \in Publisher : pub[p] = "asking" ~> pub[p] \in {"done", "failed"}

\* The bookkeeping of a call ends, so that no lock is kept from the workers.
TracksEnd == \A n \in 1..MaxCalls : (n \in DOMAIN calls /\ Waits(Track(n))) ~> ~Waits(Track(n))

\* Publishers and bookkeeping, which take the same locks, all get through.
EverybodyEnds == PublisherEnds /\ TracksEnd
=============================================================================
