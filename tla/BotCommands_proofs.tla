-------------------------- MODULE BotCommands_proofs --------------------------
(* Proofs about BotCommands, for every value of its constants: what the locks *)
(* of the publishers, of the bookkeeping and of the workers keep apart, and,  *)
(* as long as no handler runs meanwhile, that the bookkeeping counts for each *)
(* command the registered handlers that declare it, however late it comes.    *)
EXTENDS BotCommands, SequenceTheorems, FiniteSetTheorems, TLAPS

USE ConstantsAssumption

Queues == [Lock -> Seq(Task)]
-----------------------------------------------------------------------------
(* The locks *)

LEMMA LockType == BotLock \in Lock /\ Worker \subseteq Lock /\ BotLock \notin Worker
  BY DEF Lock, BotLock, Worker

LEMMA TaskType ==
  /\ \A n \in 1..MaxCalls : Pyrogram(n) \in Task /\ Track(n) \in Task
  /\ \A p \in Publisher : Publish(p) \in Task
  /\ \A w \in Worker : Handling(w) \in Task
BY DEF Task, Pyrogram, Track, Publish, Handling

\* Tasks of different kinds are different.
LEMMA TasksDiffer ==
  ASSUME NEW n, NEW m, NEW p, NEW r, NEW w, NEW v
  PROVE  /\ Pyrogram(n) # Track(m) /\ Pyrogram(n) # Publish(p) /\ Pyrogram(n) # Handling(w)
         /\ Track(n) # Publish(p) /\ Track(n) # Handling(w) /\ Publish(p) # Handling(w)
         /\ (Publish(p) = Publish(r) => p = r) /\ (Handling(w) = Handling(v) => w = v)
         /\ (Track(n) = Track(m) => n = m) /\ (Pyrogram(n) = Pyrogram(m) => n = m)
<1>1. /\ Pyrogram(n)[1] = "pyrogram" /\ Track(m)[1] = "track" /\ Track(n)[1] = "track"
      /\ Publish(p)[1] = "publish" /\ Handling(w)[1] = "worker"
      /\ Pyrogram(n)[2] = n /\ Pyrogram(m)[2] = m /\ Track(n)[2] = n /\ Track(m)[2] = m
      /\ Publish(p)[2] = p /\ Publish(r)[2] = r /\ Handling(w)[2] = w /\ Handling(v)[2] = v
  BY DEF Pyrogram, Track, Publish, Handling
<1> QED
  BY <1>1

\* The plan of each kind of task.
LEMMA Plans ==
  /\ \A n : Plan(Pyrogram(n)) = [i \in 1..Workers |-> i]
  /\ \A n : Plan(Track(n)) = [i \in 1..(Workers + 1) |-> i - 1]
  /\ \A p : Plan(Publish(p)) = <<BotLock>>
  /\ \A w : Plan(Handling(w)) = <<w>>
<1>1. /\ \A n : Pyrogram(n)[1] = "pyrogram" /\ Track(n)[1] = "track"
      /\ \A n : Publish(n)[1] = "publish" /\ Handling(n)[1] = "worker" /\ Handling(n)[2] = n
  BY DEF Pyrogram, Track, Publish, Handling
<1> QED
  BY <1>1 DEF Plan

\* Who asks joins the end of a queue.
LEMMA AskedIs ==
  ASSUME NEW q \in Queues, NEW t \in Task
  PROVE  /\ Asked(q, t) \in Queues
         /\ \A l \in Lock : Asked(q, t)[l] \in {q[l], Append(q[l], t)}
<1>1. \A l \in Lock : q[l] \in Seq(Task) /\ Append(q[l], t) \in Seq(Task)
  BY AppendProperties DEF Queues
<1> QED
  BY <1>1 DEF Asked, Queues

\* ... and so leaves the holder of a lock where it is.
LEMMA AskedKeeps ==
  ASSUME NEW q \in Queues, NEW t \in Task, NEW l \in Lock, NEW u, Holds(q, l, u)
  PROVE  Holds(Asked(q, t), l, u)
<1>1. q[l] \in Seq(Task) /\ q[l] # <<>>
  BY DEF Queues, Holds
<1>2. Append(q[l], t) # <<>> /\ Head(Append(q[l], t)) = Head(q[l])
  BY <1>1, AppendProperties, HeadTailAppend
<1> QED
  BY <1>1, <1>2, AskedIs DEF Holds

LEMMA DroppedIs ==
  ASSUME NEW S, NEW s \in Seq(S), NEW i \in DOMAIN s
  PROVE  /\ Dropped(s, i) \in Seq(S)
         /\ Len(Dropped(s, i)) = Len(s) - 1
         /\ \A j \in 1..(Len(s) - 1) : Dropped(s, i)[j] = s[IF j < i THEN j ELSE j + 1]
<1>1. Len(s) \in Nat /\ DOMAIN s = 1..Len(s) /\ Len(s) - 1 \in Nat
  BY LenProperties
<1>2. \A j \in 1..(Len(s) - 1) : s[IF j < i THEN j ELSE j + 1] \in S
  BY <1>1, ElementOfSeq
<1>3. Dropped(s, i) \in Seq(S)
  BY <1>1, <1>2, IsASeq DEF Dropped
<1>4. DOMAIN Dropped(s, i) = 1..(Len(s) - 1)
  BY DEF Dropped
<1>5. Len(Dropped(s, i)) \in Nat /\ 1..Len(Dropped(s, i)) = 1..(Len(s) - 1)
  BY <1>3, <1>4, LenProperties
<1>6. \A a, b \in Nat : 1..a = 1..b => a = b
  OBVIOUS
<1>7. Len(Dropped(s, i)) = Len(s) - 1
  BY <1>1, <1>5, <1>6
<1> QED
  BY <1>1, <1>3, <1>7 DEF Dropped

\* A task takes itself out of a queue; the others keep their order.
LEMMA ReleasedIs ==
  ASSUME NEW q \in Queues, NEW t \in Task, NEW l \in Lock
  PROVE  /\ Released(q, t) \in Queues
         /\ ~InQueue(q, l, t) => Released(q, t)[l] = q[l]
         /\ InQueue(q, l, t) =>
              \E i \in DOMAIN q[l] : q[l][i] = t /\ Released(q, t)[l] = Dropped(q[l], i)
<1>1. \A k \in Lock : q[k] \in Seq(Task)
  BY DEF Queues
<1>2. \A k \in Lock : InQueue(q, k, t) =>
        \E i \in DOMAIN q[k] : q[k][i] = t /\ Released(q, t)[k] = Dropped(q[k], i)
  BY DEF Released, InQueue
<1>3. \A k \in Lock : ~InQueue(q, k, t) => Released(q, t)[k] = q[k]
  BY DEF Released
<1>4. \A k \in Lock : Released(q, t)[k] \in Seq(Task)
  BY <1>1, <1>2, <1>3, DroppedIs
<1>5. Released(q, t) \in Queues
  BY <1>4 DEF Queues, Released
<1> QED
  BY <1>2, <1>3, <1>5

\* ... and what one task gives back, no other loses.
LEMMA ReleasedKeeps ==
  ASSUME NEW q \in Queues, NEW t \in Task, NEW l \in Lock, NEW u, Holds(q, l, u), u # t
  PROVE  Holds(Released(q, t), l, u)
<1>1. CASE ~InQueue(q, l, t)
  BY <1>1, ReleasedIs DEF Holds
<1>2. ASSUME NEW i \in DOMAIN q[l], q[l][i] = t, Released(q, t)[l] = Dropped(q[l], i)
      PROVE  Holds(Released(q, t), l, u)
  <2>1. q[l] \in Seq(Task) /\ q[l] # <<>> /\ q[l][1] = u
    BY HeadTailProperties DEF Queues, Holds
  <2>2. Len(q[l]) \in Nat /\ DOMAIN q[l] = 1..Len(q[l]) /\ i > 1 /\ 1 \in 1..(Len(q[l]) - 1)
    BY <1>2, <2>1, LenProperties
  <2>3. /\ Dropped(q[l], i) \in Seq(Task) /\ Len(Dropped(q[l], i)) = Len(q[l]) - 1
        /\ Dropped(q[l], i)[1] = q[l][IF 1 < i THEN 1 ELSE 1 + 1]
    BY <2>1, <2>2, DroppedIs
  <2> QED
    BY <1>2, <2>1, <2>2, <2>3, EmptySeq, HeadTailProperties DEF Holds
<1> QED
  BY <1>1, <1>2, ReleasedIs
-----------------------------------------------------------------------------
(* The type invariant *)

\* What the loop has yet to run is the Pyrogram task of a call, or a publisher.
ReadyIsCalled ==
  \A i \in DOMAIN ready :
    \/ \E n \in DOMAIN calls : ready[i] = Pyrogram(n)
    \/ \E p \in Publisher : ready[i] = Publish(p)

TypeInv == TypeOK /\ ReadyIsCalled

LEMMA CallType ==
  ASSUME TypeOK
  PROVE  /\ Len(calls) \in Nat /\ DOMAIN calls = 1..Len(calls)
         /\ \A n \in DOMAIN calls : calls[n] \in Calls /\ n \in 1..MaxCalls
BY LenProperties, ElementOfSeq DEF TypeOK

LEMMA CallFields ==
  ASSUME NEW call \in Calls
  PROVE  call.op \in {"add", "remove"} /\ call.handler \in Handler /\ call.group \in Group
BY DEF Calls

LEMMA ChangedType ==
  ASSUME NEW gs \in [Group -> SUBSET Handler], NEW call \in Calls
  PROVE  Changed(gs, call) \in [Group -> SUBSET Handler]
BY CallFields DEF Changed

LEMMA TrackedType ==
  ASSUME NEW coll \in [Entry -> Nat], NEW call \in Calls
  PROVE  Tracked(coll, call) \in [Entry -> Nat]
BY CallFields DEF Tracked

LEMMA PrunedType ==
  ASSUME NEW coll \in [Entry -> Nat], NEW gs
  PROVE  Pruned(coll, gs) \in [Entry -> Nat]
BY DEF Pruned

\* The head of what is ready, and the rest.
LEMMA ReadyHead ==
  ASSUME TypeOK, ready # <<>>
  PROVE  /\ Head(ready) = ready[1] /\ 1 \in DOMAIN ready /\ Len(ready) \in Nat
         /\ Tail(ready) \in Seq(Task) /\ DOMAIN Tail(ready) = 1..(Len(ready) - 1)
         /\ DOMAIN ready = 1..Len(ready)
         /\ \A i \in DOMAIN Tail(ready) : i + 1 \in DOMAIN ready /\ Tail(ready)[i] = ready[i + 1]
<1>1. /\ ready \in Seq(Task) /\ Tail(ready) \in Seq(Task) /\ Len(Tail(ready)) = Len(ready) - 1
      /\ Len(ready) \in Nat /\ Len(ready) # 0 /\ DOMAIN ready = 1..Len(ready)
      /\ \A i \in 1..Len(Tail(ready)) : Tail(ready)[i] = ready[i + 1]
      /\ Head(ready) = ready[1]
  BY HeadTailProperties, LenProperties, EmptySeq DEF TypeOK
<1>2. DOMAIN Tail(ready) = 1..Len(Tail(ready))
  BY <1>1, LenProperties
<1> QED
  BY <1>1, <1>2

\* A task that is ready at the end of the others.
LEMMA ReadyAppended ==
  ASSUME TypeInv, NEW t \in Task
  PROVE  /\ Append(ready, t) \in Seq(Task)
         /\ DOMAIN Append(ready, t) = 1..(Len(ready) + 1)
         /\ DOMAIN ready = 1..Len(ready) /\ Len(ready) \in Nat
         /\ Append(ready, t)[Len(ready) + 1] = t
         /\ \A i \in DOMAIN ready : Append(ready, t)[i] = ready[i]
<1>1. ready \in Seq(Task)
  BY DEF TypeInv, TypeOK
<1>2. Append(ready, t) \in Seq(Task) /\ Len(Append(ready, t)) = Len(ready) + 1
  BY <1>1, AppendProperties
<1>3. DOMAIN Append(ready, t) = 1..Len(Append(ready, t))
  BY <1>2, LenProperties
<1> QED
  BY <1>1, <1>2, <1>3, AppendProperties, LenProperties

\* The call whose tasks are first.
LEMMA FirstOfReady ==
  ASSUME TypeInv, ready # <<>>
  PROVE  /\ Head(ready)[1] = "pyrogram" =>
              /\ Head(ready)[2] \in DOMAIN calls /\ Head(ready) = Pyrogram(Head(ready)[2])
         /\ Head(ready)[1] = "publish" => \E p \in Publisher : Head(ready) = Publish(p)
<1>1. \/ \E n \in DOMAIN calls : Head(ready) = Pyrogram(n)
      \/ \E p \in Publisher : Head(ready) = Publish(p)
  BY ReadyHead DEF TypeInv, ReadyIsCalled
<1>2. \A n : Pyrogram(n)[1] = "pyrogram" /\ Pyrogram(n)[2] = n /\ Publish(n)[1] = "publish"
  BY DEF Pyrogram, Publish
<1> QED
  BY <1>1, <1>2

LEMMA InitTyped == Init => TypeInv
<1> SUFFICES ASSUME Init PROVE TypeInv
  OBVIOUS
<1>1. ready = <<>> /\ calls = <<>> /\ \A l \in Lock : queue[l] = <<>>
  BY DEF Init
<1>2. ready \in Seq(Task) /\ calls \in Seq(Calls) /\ Len(calls) = 0 /\ DOMAIN ready = {}
  BY <1>1, EmptySeq
<1>3. queue \in [Lock -> Seq(Task)]
  BY EmptySeq DEF Init
<1> QED
  BY <1>2, <1>3 DEF Init, TypeInv, TypeOK, ReadyIsCalled, Publisher

\* Both tasks of the oldest call, whatever they find.
LEMMA FirstTurnIs ==
  ASSUME TypeInv, FirstTurn
  PROVE  \E n \in DOMAIN calls : \E before \in {queue, Asked(queue, Pyrogram(n))} :
           /\ Head(ready) = Pyrogram(n) /\ ready # <<>> /\ ready' = Tail(ready)
           /\ groups' \in {groups, Changed(groups, calls[n])}
           /\ groups' # groups => HoldsAll(Asked(queue, Pyrogram(n)), Pyrogram(n))
           /\ queue' \in {before, Asked(before, Track(n))}
           /\ collected' \in {collected, Tracked(collected, calls[n])}
           /\ collected' # collected => HoldsAll(Asked(before, Track(n)), Track(n))
           /\ UNCHANGED <<calls, inside, life, pubVars>>
<1>1. ready # <<>> /\ Head(ready)[1] = "pyrogram"
  BY DEF FirstTurn
<1>2. PICK n \in DOMAIN calls : n = Head(ready)[2] /\ Head(ready) = Pyrogram(n)
  BY <1>1, FirstOfReady
<1> DEFINE free == HoldsAll(Asked(queue, Pyrogram(n)), Pyrogram(n))
           before == IF free THEN queue ELSE Asked(queue, Pyrogram(n))
<1>3. /\ groups' = IF free THEN Changed(groups, calls[n]) ELSE groups
      /\ \/ queue' = before /\ UNCHANGED collected
         \/ /\ HoldsAll(Asked(before, Track(n)), Track(n))
            /\ queue' = before /\ collected' = Tracked(collected, calls[n])
         \/ queue' = Asked(before, Track(n)) /\ UNCHANGED collected
      /\ ready' = Tail(ready)
      /\ UNCHANGED <<calls, inside, life, pubVars>>
  BY <1>2 DEF FirstTurn
<1>4. before \in {queue, Asked(queue, Pyrogram(n))}
  OBVIOUS
<1> HIDE DEF before
<1> QED
  BY <1>1, <1>2, <1>3, <1>4

LEMMA AskedType ==
  ASSUME TypeInv, NEW t \in Task
  PROVE  Asked(queue, t) \in Queues /\ Released(queue, t) \in Queues
<1>1. queue \in Queues
  BY DEF TypeInv, TypeOK, Queues
<1> QED
  BY <1>1, AskedIs, ReleasedIs, LockType

LEMMA TypeStep == TypeInv /\ [Next]_vars => TypeInv'
<1> SUFFICES ASSUME TypeInv, [Next]_vars PROVE TypeInv'
  OBVIOUS
<1>t. TypeOK /\ queue \in Queues
  BY DEF TypeInv, TypeOK, Queues
<1> DEFINE ReadyStays == UNCHANGED <<calls, ready>>
<1>0. ASSUME ReadyStays, TypeOK' PROVE TypeInv'
  BY <1>0 DEF TypeInv, ReadyIsCalled
<1>lands. /\ groups \in [Group -> SUBSET Handler] /\ collected \in [Entry -> Nat]
          /\ \A n \in DOMAIN calls : /\ Changed(groups, calls[n]) \in [Group -> SUBSET Handler]
                                     /\ Tracked(collected, calls[n]) \in [Entry -> Nat]
  <2>1. groups \in [Group -> SUBSET Handler] /\ collected \in [Entry -> Nat]
    BY <1>t DEF TypeOK
  <2> QED
    BY <1>t, <2>1, CallType, ChangedType, TrackedType
<1>1. CASE UNCHANGED vars
  <2>1. TypeOK' /\ ReadyStays
    BY <1>1, <1>t DEF vars, pubVars, TypeOK
  <2> QED
    BY <2>1, <1>0
<1>2. CASE FirstTurn
  <2>1. PICK n \in DOMAIN calls : \E before \in {queue, Asked(queue, Pyrogram(n))} :
           /\ Head(ready) = Pyrogram(n) /\ ready # <<>> /\ ready' = Tail(ready)
           /\ groups' \in {groups, Changed(groups, calls[n])}
           /\ queue' \in {before, Asked(before, Track(n))}
           /\ collected' \in {collected, Tracked(collected, calls[n])}
           /\ UNCHANGED <<calls, inside, life, pubVars>>
    BY <1>2, FirstTurnIs
  <2>2. calls[n] \in Calls /\ Pyrogram(n) \in Task /\ Track(n) \in Task
    BY <1>t, CallType, TaskType
  <2>3. Asked(queue, Pyrogram(n)) \in Queues
    BY <1>t, <2>2, AskedIs, LockType
  <2>4. queue' \in Queues
    BY <1>t, <2>1, <2>2, <2>3, AskedIs, LockType
  <2>5. groups' \in [Group -> SUBSET Handler] /\ collected' \in [Entry -> Nat]
    BY <1>lands, <2>1
  <2>6. TypeOK'
    BY <1>t, <2>1, <2>4, <2>5, ReadyHead DEF TypeOK, Queues, pubVars
  <2>7. ReadyIsCalled'
    BY <1>t, <2>1, ReadyHead DEF TypeInv, ReadyIsCalled
  <2> QED
    BY <2>6, <2>7 DEF TypeInv
<1>3. CASE AskBotLock
  <2>1. PICK p \in Publisher : Head(ready) = Publish(p) /\ queue' = Asked(queue, Publish(p))
    BY <1>3, FirstOfReady DEF AskBotLock
  <2>2. queue' \in Queues
    BY <2>1, AskedType, TaskType
  <2>3. TypeOK'
    BY <1>3, <1>t, <2>2, ReadyHead DEF TypeOK, AskBotLock, Queues, pubVars
  <2>4. ReadyIsCalled'
    BY <1>3, <1>t, ReadyHead DEF AskBotLock, TypeInv, ReadyIsCalled
  <2> QED
    BY <2>3, <2>4 DEF TypeInv
<1>4. ASSUME NEW n \in DOMAIN calls,
             GoOn(Pyrogram(n)) \/ GoOn(Track(n)) \/ PyrogramLands(n) \/ TrackLands(n)
               \/ TrackCancelled(n)
      PROVE  TypeInv'
  <2>1. calls[n] \in Calls /\ Pyrogram(n) \in Task /\ Track(n) \in Task
    BY <1>t, CallType, TaskType
  <2>2. queue' \in Queues
    BY <1>4, <2>1, AskedType DEF GoOn, PyrogramLands, TrackLands, TrackCancelled
  <2>3. groups' \in [Group -> SUBSET Handler] /\ collected' \in [Entry -> Nat]
    BY <1>4, <1>lands DEF GoOn, PyrogramLands, TrackLands, TrackCancelled
  <2>4. UNCHANGED <<calls, ready, inside, life, pubVars>>
    BY <1>4 DEF GoOn, PyrogramLands, TrackLands, TrackCancelled
  <2> QED
    BY <1>0, <1>t, <2>2, <2>3, <2>4 DEF TypeOK, Queues, pubVars
<1>5. ASSUME NEW p \in Publisher, Send(p) PROVE TypeInv'
  <2>1. Requests(p) \subseteq Key \X SUBSET Command
    <3>1. \A coll, k : CommandsAt(coll, k) \in SUBSET Command
      BY DEF CommandsAt
    <3> QED
      BY <3>1 DEF Requests
  <2>2. collected' \in [Entry -> Nat]
    BY <1>5, <1>t, PrunedType DEF Send, TypeOK
  <2> QED
    BY <1>0, <1>5, <1>t, <2>1, <2>2 DEF Send, TypeOK
<1>6. ASSUME NEW p \in Publisher, Deliver(p) PROVE TypeInv'
  <2>1. PICK r \in outbox[p] : /\ published' = [published EXCEPT ![r[1]] = r[2]]
                               /\ outbox' = [outbox EXCEPT ![p] = @ \ {r}]
    BY <1>6 DEF Deliver
  <2>2. r \in Key \X SUBSET Command
    BY <1>t, <2>1 DEF TypeOK
  <2> QED
    BY <1>0, <1>6, <1>t, <2>1, <2>2 DEF Deliver, TypeOK
<1>7. ASSUME NEW p \in Publisher, Finish(p) \/ Fail(p) PROVE TypeInv'
  <2>1. queue' \in Queues
    BY <1>7, AskedType, TaskType DEF Finish, Fail, Leave
  <2> QED
    BY <1>0, <1>7, <1>t, <2>1 DEF Finish, Fail, Leave, TypeOK, Queues
<1>8. ASSUME NEW w \in Worker, Handle(w) \/ EndUpdate(w) \/ TakeUpdate(w) PROVE TypeInv'
  <2>1. queue' \in Queues
    BY <1>8, <1>t, AskedType, TaskType DEF Handle, EndUpdate, TakeUpdate
  <2> QED
    BY <1>0, <1>8, <1>t, <2>1 DEF Handle, EndUpdate, TakeUpdate, TypeOK, Queues, pubVars
<1>9. ASSUME NEW call \in Calls, Call(call) PROVE TypeInv'
  <2>1. Len(calls) \in Nat /\ DOMAIN calls = 1..Len(calls) /\ Len(calls) + 1 \in 1..MaxCalls
    BY <1>9, <1>t, CallType DEF Call
  <2>2. /\ calls' \in Seq(Calls) /\ Len(calls') = Len(calls) + 1
        /\ DOMAIN calls' = 1..(Len(calls) + 1)
    <3>1. calls \in Seq(Calls) /\ calls' = Append(calls, call)
      BY <1>9, <1>t DEF Call, TypeOK
    <3>2. calls' \in Seq(Calls) /\ Len(calls') = Len(calls) + 1
      BY <3>1, AppendProperties
    <3> QED
      BY <3>2, LenProperties
  <2>3. Pyrogram(Len(calls) + 1) \in Task
    BY <2>1, TaskType
  <2>4. TypeOK'
    BY <1>9, <1>t, <2>1, <2>2, <2>3, ReadyAppended DEF Call, TypeOK, pubVars
  <2>5. ReadyIsCalled'
    <3>1. \A i \in DOMAIN ready' : \/ i \in DOMAIN ready /\ ready'[i] = ready[i]
                                   \/ ready'[i] = Pyrogram(Len(calls) + 1)
      BY <1>9, <2>3, ReadyAppended DEF Call
    <3>2. Len(calls) + 1 \in DOMAIN calls' /\ DOMAIN calls \subseteq DOMAIN calls'
      BY <2>1, <2>2
    <3> QED
      BY <3>1, <3>2 DEF TypeInv, ReadyIsCalled
  <2> QED
    BY <2>4, <2>5 DEF TypeInv
<1>10. ASSUME NEW p \in Publisher, NEW w \in 0..Workers, Enter(p, w)
       PROVE  /\ ready' \in Seq(Task) /\ pub' \in [Publisher -> {"none", "asking", "sending", "done", "failed"}]
              /\ by' \in [Publisher -> 0..Workers]
              /\ \A i \in DOMAIN ready' : \/ i \in DOMAIN ready /\ ready'[i] = ready[i]
                                          \/ ready'[i] = Publish(p)
  <2>1. Publish(p) \in Task
    BY TaskType
  <2> QED
    BY <1>10, <1>t, <2>1, ReadyAppended DEF Enter, TypeOK
<1>11. ASSUME NEW p \in Publisher, NEW w \in 0..Workers, Enter(p, w),
              UNCHANGED <<calls, queue, inside, groups, collected, outbox, published>>,
              life' \in {"off", "on", "stopped"}
       PROVE  TypeInv'
  BY <1>10, <1>11, <1>t DEF TypeInv, TypeOK, ReadyIsCalled
<1>12. CASE \E p \in Pushes : Push(p)
  <2>1. PICK p \in Publisher : Enter(p, 0) \/ \E w \in Worker : Enter(p, w)
    BY <1>12 DEF Push, Publisher
  <2>2. PICK w \in 0..Workers : Enter(p, w)
    BY <2>1 DEF Worker
  <2> QED
    BY <1>11, <1>12, <1>t, <2>2 DEF Push, TypeOK
<1>13. CASE Start
  BY <1>11, <1>13 DEF Start, Publisher
<1>14. CASE Stop
  <2>1. CASE Enter("stop", 0)
    BY <1>11, <1>14, <1>t, <2>1 DEF Stop, Publisher, TypeOK
  <2>2. CASE ~Enter("stop", 0)
    <3>1. /\ pub' = [pub EXCEPT !["stop"] = "done"] /\ by' = [by EXCEPT !["stop"] = 0]
          /\ UNCHANGED <<calls, ready, queue, inside, groups, collected, life, outbox, published>>
      BY <1>14, <2>2 DEF Stop
    <3>2. /\ pub' \in [Publisher -> {"none", "asking", "sending", "done", "failed"}]
          /\ by' \in [Publisher -> 0..Workers]
      <4>1. pub \in [Publisher -> {"none", "asking", "sending", "done", "failed"}]
        BY <1>t DEF TypeOK
      <4>2. by \in [Publisher -> 0..Workers] /\ 0 \in 0..Workers
        BY <1>t DEF TypeOK
      <4>3. by' \in [Publisher -> 0..Workers]
        BY <3>1, <4>2
      <4> QED
        BY <3>1, <4>1, <4>3
    <3> QED
      BY <1>0, <1>t, <3>1, <3>2 DEF TypeOK
  <2> QED
    BY <2>1, <2>2
<1>15. CASE Stopped
  BY <1>0, <1>15, <1>t, PrunedType DEF Stopped, TypeOK, pubVars
<1> QED
  BY <1>1, <1>2, <1>3, <1>4, <1>5, <1>6, <1>7, <1>8, <1>9, <1>12, <1>13, <1>14, <1>15
     DEF Next, LoopStep
-----------------------------------------------------------------------------
(* Who holds the locks *)

\* A worker inside a handler holds its lock, a publisher that sends holds that
\* of the collection, and requests are on their way only then.
LockInv ==
  /\ \A w \in inside : Holds(queue, w, Handling(w))
  /\ \A p \in Publisher : pub[p] = "sending" => Holds(queue, BotLock, Publish(p))
  /\ \A p \in Publisher : outbox[p] # {} => pub[p] = "sending"

\* Who gets all of its locks has taken none of them from anybody.
LEMMA TakesFromNobody ==
  ASSUME NEW q \in Queues, NEW t \in Task, HoldsAll(Asked(q, t), t),
         NEW i \in DOMAIN Plan(t), Plan(t)[i] \in Lock, NEW u, Holds(q, Plan(t)[i], u)
  PROVE  u = t
<1>1. Holds(Asked(q, t), Plan(t)[i], u)
  BY AskedKeeps
<1> QED
  BY <1>1 DEF HoldsAll, Holds

\* ... a worker its own,
LEMMA GroupsNeedWorkers ==
  ASSUME NEW q \in Queues, NEW n \in 1..MaxCalls, HoldsAll(Asked(q, Pyrogram(n)), Pyrogram(n)),
         NEW w \in Worker
  PROVE  ~Holds(q, w, Handling(w))
<1>1. /\ w \in DOMAIN Plan(Pyrogram(n)) /\ Plan(Pyrogram(n))[w] = w /\ w \in Lock
      /\ Pyrogram(n) \in Task
  BY Plans, LockType, TaskType DEF Worker
<1>2. Handling(w) # Pyrogram(n)
  BY TasksDiffer
<1> QED
  BY <1>1, <1>2, TakesFromNobody

\* ... a publisher that of the collection.
LEMMA CollectionNeedsLock ==
  ASSUME NEW q \in Queues, NEW n \in 1..MaxCalls, HoldsAll(Asked(q, Track(n)), Track(n)), NEW p
  PROVE  ~Holds(q, BotLock, Publish(p))
<1>1. /\ 1 \in DOMAIN Plan(Track(n)) /\ Plan(Track(n))[1] = BotLock /\ BotLock \in Lock
      /\ Track(n) \in Task
  BY Plans, LockType, TaskType DEF BotLock
<1>2. Publish(p) # Track(n)
  BY TasksDiffer
<1> QED
  BY <1>1, <1>2, TakesFromNobody

\* A lock changes hands only when its holder gives it back.
LEMMA HolderStays ==
  ASSUME TypeInv, [Next]_vars, NEW l \in Lock, NEW u, Holds(queue, l, u)
  PROVE  \/ Holds(queue', l, u)
         \/ \E n \in DOMAIN calls : u = Pyrogram(n) \/ u = Track(n)
         \/ \E w \in inside : u = Handling(w) /\ w \notin inside'
         \/ \E p \in Publisher : u = Publish(p) /\ pub'[p] \in {"done", "failed"}
<1>t. TypeOK /\ queue \in Queues
  BY DEF TypeInv, TypeOK, Queues
<1>a. ASSUME NEW t \in Task, queue' = Asked(queue, t) PROVE Holds(queue', l, u)
  BY <1>t, <1>a, AskedKeeps
<1>r. ASSUME NEW t \in Task, queue' = Released(queue, t), u # t PROVE Holds(queue', l, u)
  BY <1>t, <1>r, ReleasedKeeps
<1>1. CASE UNCHANGED queue
  BY <1>1
<1>2. CASE FirstTurn
  <2>1. PICK n \in DOMAIN calls : \E before \in {queue, Asked(queue, Pyrogram(n))} :
           queue' \in {before, Asked(before, Track(n))}
    BY <1>2, FirstTurnIs
  <2>2. Pyrogram(n) \in Task /\ Track(n) \in Task
    BY <1>t, CallType, TaskType
  <2>3. Asked(queue, Pyrogram(n)) \in Queues /\ Holds(Asked(queue, Pyrogram(n)), l, u)
    BY <1>t, <2>2, AskedIs, AskedKeeps
  <2>4. Holds(Asked(Asked(queue, Pyrogram(n)), Track(n)), l, u) /\ Holds(Asked(queue, Track(n)), l, u)
    BY <1>t, <2>2, <2>3, AskedKeeps
  <2> QED
    BY <2>1, <2>3, <2>4
<1>3. CASE AskBotLock
  <2>1. PICK p \in Publisher : Head(ready) = Publish(p) /\ queue' = Asked(queue, Publish(p))
    BY <1>3, FirstOfReady DEF AskBotLock
  <2> QED
    BY <1>a, <2>1, TaskType
<1>4. ASSUME NEW n \in DOMAIN calls,
             GoOn(Pyrogram(n)) \/ GoOn(Track(n)) \/ PyrogramLands(n) \/ TrackLands(n)
               \/ TrackCancelled(n)
      PROVE  Holds(queue', l, u) \/ u = Pyrogram(n) \/ u = Track(n)
  <2>1. Pyrogram(n) \in Task /\ Track(n) \in Task
    BY <1>t, CallType, TaskType
  <2> QED
    BY <1>4, <1>a, <1>r, <2>1 DEF GoOn, PyrogramLands, TrackLands, TrackCancelled
<1>5. ASSUME NEW p \in Publisher, Finish(p) \/ Fail(p)
      PROVE  Holds(queue', l, u) \/ (u = Publish(p) /\ pub'[p] \in {"done", "failed"})
  <2>1. pub'[p] \in {"done", "failed"} /\ queue' = Released(queue, Publish(p))
    BY <1>5, <1>t DEF Finish, Fail, Leave, TypeOK
  <2> QED
    BY <1>r, <2>1, TaskType
<1>6. ASSUME NEW w \in Worker, EndUpdate(w)
      PROVE  Holds(queue', l, u) \/ (u = Handling(w) /\ w \in inside /\ w \notin inside')
  BY <1>6, <1>r, TaskType DEF EndUpdate
<1>7. ASSUME NEW w \in Worker, TakeUpdate(w) PROVE Holds(queue', l, u)
  BY <1>7, <1>a, TaskType DEF TakeUpdate
<1> QED
  BY <1>1, <1>2, <1>3, <1>4, <1>5, <1>6, <1>7
     DEF Next, LoopStep, Call, Push, Start, Stop, Stopped, Send, Deliver, Handle, vars

\* A publisher begins to send with the lock, and what it sends is sent then.
LEMMA SendsWhileHolding ==
  ASSUME TypeInv, LockInv, [Next]_vars, NEW p \in Publisher
  PROVE  /\ pub'[p] = "sending" => pub[p] = "sending" \/ Send(p)
         /\ pub[p] = "sending" => pub'[p] \in {"sending", "done", "failed"}
         /\ outbox'[p] # {} => Send(p) \/ (outbox[p] # {} /\ pub'[p] = pub[p])
         /\ outbox'[p] \subseteq outbox[p] \/ Send(p)
<1>t. TypeOK
  BY DEF TypeInv
<1>p. /\ pub \in [Publisher -> {"none", "asking", "sending", "done", "failed"}]
      /\ outbox \in [Publisher -> SUBSET (Key \X SUBSET Command)]
  BY <1>t DEF TypeOK
<1> DEFINE P == /\ pub'[p] = "sending" => pub[p] = "sending" \/ Send(p)
                /\ pub[p] = "sending" => pub'[p] \in {"sending", "done", "failed"}
                /\ outbox'[p] # {} => Send(p) \/ (outbox[p] # {} /\ pub'[p] = pub[p])
                /\ outbox'[p] \subseteq outbox[p] \/ Send(p)
<1>1. CASE UNCHANGED <<pub, outbox>>
  BY <1>1
<1>2. ASSUME NEW r \in Publisher, Send(r) PROVE P
  <2>1. CASE r = p
    BY <1>2, <2>1, <1>p DEF Send
  <2>2. CASE r # p
    BY <1>2, <2>2, <1>p DEF Send
  <2> QED
    BY <2>1, <2>2
<1>3. ASSUME NEW r \in Publisher, Deliver(r) PROVE P
  BY <1>3, <1>p DEF Deliver
<1>4. ASSUME NEW r \in Publisher, Finish(r) PROVE P
  <2>1. pub' = [pub EXCEPT ![r] = "done"] /\ outbox' = outbox /\ outbox[r] = {}
    BY <1>4 DEF Finish, Leave
  <2> QED
    BY <2>1, <1>p
<1>5. ASSUME NEW r \in Publisher, Fail(r) PROVE P
  <2>1. pub' = [pub EXCEPT ![r] = "failed"] /\ outbox' = [outbox EXCEPT ![r] = {}]
    BY <1>5 DEF Fail, Leave
  <2> QED
    BY <2>1, <1>p
<1>6. ASSUME NEW r \in Publisher, NEW w, Enter(r, w), outbox' = outbox PROVE P
  <2>1. pub[r] = "none" /\ pub' = [pub EXCEPT ![r] = "asking"]
    BY <1>6 DEF Enter
  <2> QED
    BY <2>1, <1>6, <1>p DEF LockInv
<1>7. ASSUME NEW r \in Pushes, Push(r) PROVE P
  BY <1>6, <1>7 DEF Push, Publisher
<1>8. CASE Start
  BY <1>6, <1>8 DEF Start, Publisher
<1>9. CASE Stop
  <2>1. CASE Enter("stop", 0)
    BY <1>6, <1>9, <2>1 DEF Stop, Publisher
  <2>2. CASE pub["stop"] = "none" /\ pub' = [pub EXCEPT !["stop"] = "done"]
    BY <1>9, <2>2, <1>p DEF Stop, LockInv
  <2> QED
    BY <1>9, <2>1, <2>2 DEF Stop
<1> QED
  <2>1. CASE \/ FirstTurn \/ AskBotLock \/ UNCHANGED vars \/ Stopped
             \/ \E call \in Calls : Call(call)
             \/ \E n \in DOMAIN calls : \/ GoOn(Pyrogram(n)) \/ GoOn(Track(n))
                                        \/ PyrogramLands(n) \/ TrackLands(n) \/ TrackCancelled(n)
             \/ \E w \in Worker : Handle(w) \/ EndUpdate(w) \/ TakeUpdate(w)
    BY <1>1, <2>1 DEF FirstTurn, AskBotLock, vars, Stopped, Call, GoOn, PyrogramLands, TrackLands,
                      TrackCancelled, Handle, EndUpdate, TakeUpdate, pubVars
  <2> QED
    BY <1>2, <1>3, <1>4, <1>5, <1>7, <1>8, <1>9, <2>1 DEF Next, LoopStep

LEMMA LockStep == TypeInv /\ LockInv /\ [Next]_vars => LockInv'
<1> SUFFICES ASSUME TypeInv, LockInv, [Next]_vars PROVE LockInv'
  OBVIOUS
<1>t. inside \subseteq Worker
  BY DEF TypeInv, TypeOK
<1>1. ASSUME NEW w \in inside' PROVE Holds(queue', w, Handling(w))
  <2>1. CASE w \in inside
    <3>1. w \in Lock /\ Holds(queue, w, Handling(w))
      BY <1>t, <2>1, LockType DEF LockInv
    <3>2. \A n : Handling(w) # Pyrogram(n) /\ Handling(w) # Track(n) /\ Handling(w) # Publish(n)
                 /\ (Handling(w) = Handling(n) => w = n)
      BY TasksDiffer
    <3> QED
      BY <1>1, <3>1, <3>2, HolderStays
  <2>2. CASE w \notin inside
    <3>1. Handle(w)
      BY <1>1, <2>2, SMTT(30) DEF Next, LoopStep, FirstTurn, AskBotLock, vars, Stopped, Call, GoOn,
         PyrogramLands, TrackLands, TrackCancelled, Handle, EndUpdate, TakeUpdate, Send, Deliver,
         Finish, Fail, Push, Start, Stop
    <3> QED
      BY <3>1 DEF Handle
  <2> QED
    BY <2>1, <2>2
<1>2. ASSUME NEW p \in Publisher, pub'[p] = "sending" PROVE Holds(queue', BotLock, Publish(p))
  <2>1. CASE pub[p] = "sending"
    <3>1. BotLock \in Lock /\ Holds(queue, BotLock, Publish(p))
      BY <2>1, LockType DEF LockInv
    <3>2. \A n : Publish(p) # Pyrogram(n) /\ Publish(p) # Track(n) /\ Publish(p) # Handling(n)
                 /\ (Publish(p) = Publish(n) => p = n)
      BY TasksDiffer
    <3> QED
      BY <1>2, <3>1, <3>2, HolderStays
  <2>2. CASE Send(p)
    BY <2>2 DEF Send
  <2> QED
    BY <1>2, <2>1, <2>2, SendsWhileHolding
<1>3. ASSUME NEW p \in Publisher, outbox'[p] # {} PROVE pub'[p] = "sending"
  <2>1. Send(p) => pub'[p] = "sending"
    BY DEF Send, TypeInv, TypeOK
  <2> QED
    BY <1>3, <2>1, SendsWhileHolding DEF LockInv
<1> QED
  BY <1>1, <1>2, <1>3 DEF LockInv

LEMMA Locking == Spec => [](TypeInv /\ LockInv)
<1>1. Init => LockInv
  BY DEF Init, LockInv
<1> QED
  BY <1>1, InitTyped, TypeStep, LockStep, PTL DEF Spec

\* Pyrogram changes the handlers only while no worker is inside one, in every
\* program and whatever else takes the locks (client.py:622).
THEOREM Stable == Spec => HandlersAreStable
<1>1. ASSUME TypeInv, LockInv, [Next]_vars, inside # {} PROVE groups' = groups
  <2>t. queue \in Queues /\ DOMAIN calls \subseteq 1..MaxCalls
    BY <1>1, CallType DEF TypeInv, TypeOK, Queues
  <2>1. PICK w \in Worker : w \in inside /\ Holds(queue, w, Handling(w))
    BY <1>1 DEF LockInv, TypeInv, TypeOK
  <2>2. CASE FirstTurn
    BY <1>1, <2>t, <2>1, <2>2, FirstTurnIs, GroupsNeedWorkers
  <2>3. ASSUME NEW n \in DOMAIN calls, PyrogramLands(n) PROVE FALSE
    BY <2>t, <2>1, <2>3, GroupsNeedWorkers DEF PyrogramLands, GotAll
  <2>4. CASE Stopped
    <3>1. queue[w] # <<>> /\ Head(queue[w]) = Handling(w) /\ queue[w] \in Seq(Task)
      BY <2>t, <2>1, LockType DEF Holds, Queues
    <3>2. 1 \in DOMAIN queue[w] /\ queue[w][1] = Handling(w)
      BY <3>1, HeadTailProperties, LenProperties, EmptySeq
    <3> QED
      BY <2>4, <3>2 DEF Stopped, InQueue
  <2> QED
    BY <1>1, <2>2, <2>3, <2>4 DEF Next, LoopStep, AskBotLock, vars, Call, GoOn,
       TrackLands, TrackCancelled, Handle, EndUpdate, TakeUpdate, Send, Deliver,
       Finish, Fail, Push, Start, Stop
<1> QED
  BY <1>1, Locking, PTL DEF Spec, HandlersAreStable

\* While a publisher sends, nobody changes the collection, unless the client
\* is stopped under it: stop() prunes without the lock (client.py:678-684).
LEMMA CollectedStays ==
  ASSUME TypeInv, LockInv, [Next]_vars, NEW p \in Publisher, pub[p] = "sending", ~Stopped
  PROVE  collected' = collected
<1>t. queue \in Queues /\ DOMAIN calls \subseteq 1..MaxCalls
  BY CallType DEF TypeInv, TypeOK, Queues
<1>1. Holds(queue, BotLock, Publish(p))
  BY DEF LockInv
<1>2. CASE FirstTurn
  <2>1. PICK n \in DOMAIN calls : \E before \in {queue, Asked(queue, Pyrogram(n))} :
           collected' # collected => HoldsAll(Asked(before, Track(n)), Track(n))
    BY <1>2, FirstTurnIs
  <2>2. Pyrogram(n) \in Task
    BY <1>t, TaskType
  <2>3. /\ Asked(queue, Pyrogram(n)) \in Queues
        /\ Holds(Asked(queue, Pyrogram(n)), BotLock, Publish(p))
    BY <1>t, <1>1, <2>2, AskedIs, AskedKeeps, LockType
  <2> QED
    BY <1>t, <1>1, <2>1, <2>3, CollectionNeedsLock
<1>3. ASSUME NEW n \in DOMAIN calls, TrackLands(n) PROVE FALSE
  BY <1>t, <1>1, <1>3, CollectionNeedsLock DEF TrackLands, GotAll
<1>4. ASSUME NEW r \in Publisher, Send(r) PROVE FALSE
  <2>1. Publish(r) = Publish(p) /\ pub[r] = "asking"
    BY <1>1, <1>4 DEF Send, Holds
  <2> QED
    BY <2>1, TasksDiffer
<1> QED
  BY <1>2, <1>3, <1>4 DEF Next, LoopStep, AskBotLock, vars, Call, GoOn, PyrogramLands,
     TrackCancelled, Handle, EndUpdate, TakeUpdate, Deliver, Finish, Fail, Push, Start, Stop

\* A client that is never stopped.
Unstopped == "stop" \notin Env => pub["stop"] = "none" /\ life # "stopped"

LEMMA UnstoppedStep == TypeInv /\ Unstopped /\ [Next]_vars => Unstopped'
<1> SUFFICES ASSUME TypeInv, Unstopped, [Next]_vars, "stop" \notin Env
             PROVE  pub'["stop"] = "none" /\ life' # "stopped"
  BY DEF Unstopped
<1>p. /\ pub \in [Publisher -> {"none", "asking", "sending", "done", "failed"}]
      /\ outbox \in [Publisher -> SUBSET (Key \X SUBSET Command)]
      /\ pub["stop"] = "none" /\ life # "stopped" /\ "stop" \in Publisher
  BY DEF TypeInv, TypeOK, Unstopped, Publisher
<1>1. ASSUME NEW p \in Publisher, Send(p) \/ Finish(p) \/ Fail(p) PROVE pub'["stop"] = "none"
  BY <1>1, <1>p DEF Send, Finish, Fail, Leave
<1>2. ASSUME NEW p \in Publisher \ {"stop"}, NEW w, Enter(p, w) PROVE pub'["stop"] = "none"
  BY <1>2, <1>p DEF Enter
<1>3. ASSUME NEW p \in Pushes, Push(p) PROVE pub'["stop"] = "none"
  BY <1>2, <1>3 DEF Push, Publisher
<1>4. CASE Start
  BY <1>2, <1>4 DEF Start, Publisher
<1> QED
  BY <1>p, <1>1, <1>3, <1>4 DEF Next, LoopStep, FirstTurn, AskBotLock, vars, pubVars, Call, GoOn,
     PyrogramLands, TrackLands, TrackCancelled, Handle, EndUpdate, TakeUpdate, Deliver, Stop,
     Stopped, Send, Finish, Fail, Push, Start

LEMMA NeverStopped == Spec => []Unstopped
<1>1. Init => Unstopped
  BY DEF Init, Unstopped, Publisher
<1> QED
  BY <1>1, UnstoppedStep, Locking, PTL DEF Spec

\* A publisher keeps the collection to itself while it sends, in a client that
\* is not stopped (client.py:678-684).
THEOREM KeptToItself == ASSUME "stop" \notin Env PROVE Spec => CollectionIsStable
<1>1. Unstopped => ~Stopped
  BY DEF Unstopped, Stopped
<1>2. TypeInv /\ LockInv /\ Unstopped /\ [Next]_vars =>
        [\A p \in Publisher :
           pub[p] = "sending" /\ pub'[p] = "sending" => collected' = collected]_vars
  BY <1>1, CollectedStays
<1> QED
  BY <1>2, Locking, NeverStopped, PTL DEF Spec, CollectionIsStable

\* A push sends no command whose handler is gone when it prunes, whatever the
\* bookkeeping missed (client.py:674).
THEOREM SentDeclared == Spec => SentIsDeclared
<1>1. ASSUME TypeInv, LockInv, [Next]_vars, NEW p \in Publisher \ {"stop"}, outbox[p] = {},
             NEW r \in outbox'[p]
      PROVE  {r[1]} \X r[2] \subseteq Declared(groups)
  <2>1. Send(p)
    BY <1>1, SendsWhileHolding
  <2>2. r \in Requests(p)
    BY <1>1, <2>1 DEF Send, TypeInv, TypeOK
  <2>3. PICK k \in Key : r = <<k, CommandsAt(Pruned(collected, groups), k)>>
    BY <1>1, <2>2 DEF Requests
  <2>4. \A c \in CommandsAt(Pruned(collected, groups), k) : <<k, c>> \in Declared(groups)
    BY DEF CommandsAt, Pruned, Entry
  <2> QED
    BY <2>3, <2>4
<1>2. TypeInv /\ LockInv /\ [Next]_vars =>
        [\A p \in Publisher \ {"stop"} :
           outbox[p] = {} => \A r \in outbox'[p] : {r[1]} \X r[2] \subseteq Declared(groups)]_vars
  BY <1>1
<1> QED
  BY <1>2, Locking, PTL DEF Spec, SentIsDeclared
-----------------------------------------------------------------------------
(* The history of the calls *)

\* Who is registered after the first n calls and declares the command.
Registrants(n, e) == {h \in Handler : e \in Declares[h] /\ \E g \in Group : Added(n, h, g)}
Count(n, e) == Cardinality(Registrants(n, e))

\* A handler is added where it is not, and removed from where it is.
History ==
  \A n \in DOMAIN calls :
    IF calls[n].op = "add" THEN \A g \in Group : ~Added(n - 1, calls[n].handler, g)
                           ELSE Added(n - 1, calls[n].handler, calls[n].group)

FewRegistered ==
  \A n \in 0..Len(calls), e \in Entry : IsFiniteSet(Registrants(n, e))

\* Calls about others change nothing for a handler.
LEMMA OthersCalls ==
  ASSUME TypeInv, NEW m \in 0..Len(calls), NEW n \in m..Len(calls), NEW h \in Handler,
         NEW g \in Group, \A i \in (m + 1)..n : calls[i].handler # h
  PROVE  Added(n, h, g) <=> Added(m, h, g)
<1>1. Len(calls) \in Nat /\ m \in Nat /\ n \in Nat /\ m <= n
  BY CallType DEF TypeInv
<1>2. ASSUME Added(n, h, g) PROVE Added(m, h, g)
  <2>1. PICK i \in 1..n : /\ calls[i] = [op |-> "add", handler |-> h, group |-> g]
                          /\ \A j \in (i + 1)..n : calls[j].handler # h
    BY <1>2 DEF Added
  <2>2. calls[i].handler = h
    BY <2>1
  <2>3. i \in 1..m
    BY <1>1, <2>1, <2>2
  <2>4. \A j \in (i + 1)..m : calls[j].handler # h
    BY <1>1, <2>1, <2>3
  <2> QED
    BY <2>1, <2>3, <2>4 DEF Added
<1>3. ASSUME Added(m, h, g) PROVE Added(n, h, g)
  <2>1. PICK i \in 1..m : /\ calls[i] = [op |-> "add", handler |-> h, group |-> g]
                          /\ \A j \in (i + 1)..m : calls[j].handler # h
    BY <1>3 DEF Added
  <2>2. i \in 1..n /\ \A j \in (i + 1)..n : j \in (i + 1)..m \/ j \in (m + 1)..n
    BY <1>1, <2>1
  <2>3. \A j \in (i + 1)..n : calls[j].handler # h
    BY <2>1, <2>2
  <2> QED
    BY <2>1, <2>2, <2>3 DEF Added
<1> QED
  BY <1>2, <1>3

\* The last call about a handler settles where it is.
LEMMA OwnCall ==
  ASSUME TypeInv, NEW n \in DOMAIN calls, NEW g \in Group
  PROVE  Added(n, calls[n].handler, g) <=> calls[n].op = "add" /\ calls[n].group = g
<1>1. n \in Nat /\ n \in 1..n /\ (n + 1)..n = {} /\ calls[n] \in Calls
  BY CallType DEF TypeInv
<1> DEFINE h == calls[n].handler
<1>2. ASSUME Added(n, h, g) PROVE calls[n].op = "add" /\ calls[n].group = g
  <2>1. PICK i \in 1..n : /\ calls[i] = [op |-> "add", handler |-> h, group |-> g]
                          /\ \A j \in (i + 1)..n : calls[j].handler # h
    BY <1>2 DEF Added
  <2>2. i = n
    BY <1>1, <2>1
  <2> QED
    BY <2>1, <2>2
<1>3. ASSUME calls[n].op = "add", calls[n].group = g PROVE Added(n, h, g)
  <2>1. calls[n] = [op |-> "add", handler |-> h, group |-> g]
    BY <1>1, <1>3 DEF Calls
  <2> QED
    BY <1>1, <2>1 DEF Added
<1> QED
  BY <1>2, <1>3

\* One call more.
LEMMA OneCall ==
  ASSUME TypeInv, NEW n \in DOMAIN calls, NEW h \in Handler, NEW g \in Group, calls[n].handler # h
  PROVE  Added(n, h, g) <=> Added(n - 1, h, g)
<1>1. n - 1 \in 0..Len(calls) /\ n \in (n - 1)..Len(calls) /\ n \in Nat
  BY CallType DEF TypeInv
<1>2. \A i \in ((n - 1) + 1)..n : calls[i].handler # h
  BY <1>1
<1> QED
  BY <1>1, <1>2, OthersCalls

LEMMA RegistrantsOf ==
  ASSUME TypeInv, History, NEW n \in DOMAIN calls, NEW e \in Entry
  PROVE  LET h == calls[n].handler IN
         /\ e \notin Declares[h] => Registrants(n, e) = Registrants(n - 1, e)
         /\ e \in Declares[h] /\ calls[n].op = "add" =>
              h \notin Registrants(n - 1, e) /\ Registrants(n, e) = Registrants(n - 1, e) \cup {h}
         /\ e \in Declares[h] /\ calls[n].op = "remove" =>
              h \in Registrants(n - 1, e) /\ Registrants(n, e) = Registrants(n - 1, e) \ {h}
<1> DEFINE h == calls[n].handler
<1>1. h \in Handler /\ calls[n].group \in Group /\ calls[n].op \in {"add", "remove"}
  BY CallType, CallFields DEF TypeInv
<1>2. \A k \in Handler, g \in Group : k # h => (Added(n, k, g) <=> Added(n - 1, k, g))
  BY OneCall
<1>3. \A g \in Group : Added(n, h, g) <=> calls[n].op = "add" /\ calls[n].group = g
  BY OwnCall
<1>4. calls[n].op = "add" => \A g \in Group : ~Added(n - 1, h, g)
  BY DEF History
<1>5. calls[n].op = "remove" => Added(n - 1, h, calls[n].group)
  BY DEF History
<1> HIDE DEF h
<1>6. ASSUME e \notin Declares[h] PROVE Registrants(n, e) = Registrants(n - 1, e)
  BY <1>1, <1>2, <1>6 DEF Registrants
<1>7. ASSUME e \in Declares[h], calls[n].op = "add"
      PROVE  h \notin Registrants(n - 1, e) /\ Registrants(n, e) = Registrants(n - 1, e) \cup {h}
  BY <1>1, <1>2, <1>3, <1>4, <1>7 DEF Registrants
<1>8. ASSUME e \in Declares[h], calls[n].op = "remove"
      PROVE  h \in Registrants(n - 1, e) /\ Registrants(n, e) = Registrants(n - 1, e) \ {h}
  BY <1>1, <1>2, <1>3, <1>5, <1>8 DEF Registrants
<1> QED
  BY <1>6, <1>7, <1>8 DEF h

EachCallMovesOne ==
  \A n \in DOMAIN calls, e \in Entry :
    \/ Registrants(n, e) = Registrants(n - 1, e)
    \/ Registrants(n, e) = Registrants(n - 1, e) \cup {calls[n].handler}
    \/ Registrants(n, e) = Registrants(n - 1, e) \ {calls[n].handler}

LEMMA OneMoved == TypeInv /\ History => EachCallMovesOne
<1> SUFFICES ASSUME TypeInv, History, NEW n \in DOMAIN calls PROVE calls[n].op \in {"add", "remove"}
  BY RegistrantsOf DEF EachCallMovesOne
<1> QED
  BY CallType, CallFields DEF TypeInv

\* The number of those who declare a command follows the calls one by one.
LEMMA CountOf ==
  ASSUME TypeInv, History, FewRegistered, NEW n \in DOMAIN calls, NEW e \in Entry
  PROVE  LET h == calls[n].handler IN
         /\ Count(n, e) \in Nat /\ Count(n - 1, e) \in Nat
         /\ e \notin Declares[h] => Count(n, e) = Count(n - 1, e)
         /\ e \in Declares[h] /\ calls[n].op = "add" => Count(n, e) = Count(n - 1, e) + 1
         /\ e \in Declares[h] /\ calls[n].op = "remove" =>
              Count(n - 1, e) > 0 /\ Count(n, e) = Count(n - 1, e) - 1
<1>1. IsFiniteSet(Registrants(n - 1, e)) /\ IsFiniteSet(Registrants(n, e))
  BY CallType DEF FewRegistered, TypeInv
<1>2. Count(n, e) \in Nat /\ Count(n - 1, e) \in Nat
  BY <1>1, FS_CardinalityType DEF Count
<1>3. calls[n].op \in {"add", "remove"}
  BY CallType, CallFields DEF TypeInv
<1>4. CASE e \notin Declares[calls[n].handler]
  BY <1>2, <1>4, RegistrantsOf DEF Count
<1>5. CASE e \in Declares[calls[n].handler] /\ calls[n].op = "add"
  BY <1>1, <1>2, <1>5, RegistrantsOf, FS_AddElement DEF Count
<1>6. CASE e \in Declares[calls[n].handler] /\ calls[n].op = "remove"
  <2>1. /\ calls[n].handler \in Registrants(n - 1, e)
        /\ Registrants(n, e) = Registrants(n - 1, e) \ {calls[n].handler}
    BY <1>6, RegistrantsOf
  <2>2. Cardinality(Registrants(n, e)) = Cardinality(Registrants(n - 1, e)) - 1
    BY <1>1, <2>1, FS_RemoveElement
  <2> QED
    BY <1>2, <1>6, <2>2 DEF Count
<1> QED
  BY <1>3, <1>4, <1>5, <1>6

\* Calls of handlers that declare nothing count for nothing.
LEMMA CountGap ==
  ASSUME TypeInv, NEW m \in 0..Len(calls), NEW n \in m..Len(calls), NEW e \in Entry,
         \A i \in (m + 1)..n : Declares[calls[i].handler] = {}
  PROVE  Count(n, e) = Count(m, e)
<1>1. \A h \in Handler, g \in Group : e \in Declares[h] => (Added(n, h, g) <=> Added(m, h, g))
  <2> SUFFICES ASSUME NEW h \in Handler, NEW g \in Group, e \in Declares[h]
               PROVE  Added(n, h, g) <=> Added(m, h, g)
    OBVIOUS
  <2>1. \A i \in (m + 1)..n : calls[i].handler # h
    OBVIOUS
  <2> QED
    BY <2>1, OthersCalls
<1>2. Registrants(n, e) = Registrants(m, e)
  BY <1>1 DEF Registrants
<1> QED
  BY <1>2 DEF Count
-----------------------------------------------------------------------------
\* One more call leaves the history as it was.
LEMMA CallAppends ==
  ASSUME TypeInv, NEW call \in Calls, Call(call)
  PROVE  /\ Len(calls) \in Nat /\ Len(calls') = Len(calls) + 1
         /\ DOMAIN calls = 1..Len(calls) /\ DOMAIN calls' = 1..(Len(calls) + 1)
         /\ calls'[Len(calls) + 1] = call
         /\ \A n \in DOMAIN calls : calls'[n] = calls[n]
<1>1. calls \in Seq(Calls) /\ calls' = Append(calls, call)
  BY DEF TypeInv, TypeOK, Call
<1>2. calls' \in Seq(Calls) /\ Len(calls') = Len(calls) + 1
  BY <1>1, AppendProperties
<1> QED
  BY <1>1, <1>2, AppendProperties, LenProperties

LEMMA AddedKept ==
  ASSUME TypeInv, NEW call \in Calls, Call(call), NEW n \in 0..Len(calls), NEW h, NEW g
  PROVE  Added(n, h, g)' <=> Added(n, h, g)
BY CallAppends DEF Added

LEMMA CountKept ==
  ASSUME TypeInv, NEW call \in Calls, Call(call), NEW n \in 0..Len(calls), NEW e \in Entry
  PROVE  Registrants(n, e)' = Registrants(n, e) /\ Count(n, e)' = Count(n, e)
BY AddedKept DEF Registrants, Count

\* In a program that removes only what it added.
LEMMA HistoryStep ==
  ASSUME "any" \notin Env, TypeInv, TypeInv', History, FewRegistered, [Next]_vars
  PROVE  History' /\ FewRegistered'
<1>1. CASE calls' = calls
  <2>1. \A n, h, g : Added(n, h, g)' <=> Added(n, h, g)
    BY <1>1 DEF Added
  <2>2. \A n, e : Registrants(n, e)' = Registrants(n, e)
    BY <2>1 DEF Registrants
  <2>3. FewRegistered'
    BY <1>1, <2>2 DEF FewRegistered
  <2> QED
    BY <1>1, <2>1, <2>3 DEF History
<1>2. ASSUME NEW call \in Calls, Call(call) PROVE History' /\ FewRegistered'
  <2>N. PICK N \in Nat : N = Len(calls) + 1
    BY <1>2, CallAppends
  <2>1. /\ Len(calls) = N - 1 /\ Len(calls') = N /\ calls'[N] = call
        /\ DOMAIN calls = 1..(N - 1) /\ DOMAIN calls' = 1..N
        /\ \A n \in 1..(N - 1) : calls'[n] = calls[n]
    BY <1>2, <2>N, CallAppends
  <2>2. \A n \in 0..(N - 1) : \A h, g : Added(n, h, g)' <=> Added(n, h, g)
    BY <1>2, <2>1, AddedKept
  <2>3. IF call.op = "add" THEN \A g \in Group : ~Added(N - 1, call.handler, g)
                           ELSE Added(N - 1, call.handler, call.group)
    BY <1>2, <2>1 DEF Call, Sensible
  <2>4. History'
    <3> SUFFICES ASSUME NEW n \in 1..N, NEW c, c = calls'[n]
                 PROVE  IF c.op = "add" THEN \A g \in Group : ~Added(n - 1, c.handler, g)'
                                        ELSE Added(n - 1, c.handler, c.group)'
      BY <2>1 DEF History
    <3>1. n - 1 \in 0..(N - 1)
      BY <2>N
    <3>2. IF c.op = "add" THEN \A g \in Group : ~Added(n - 1, c.handler, g)
                          ELSE Added(n - 1, c.handler, c.group)
      <4>1. CASE n = N
        BY <2>1, <2>3, <4>1
      <4>2. CASE n \in 1..(N - 1)
        BY <2>1, <4>2 DEF History
      <4> QED
        BY <2>N, <4>1, <4>2
    <3> QED
      BY <2>2, <3>1, <3>2
  <2>5. FewRegistered'
    <3> SUFFICES ASSUME NEW n \in 0..N, NEW e \in Entry
                 PROVE  IsFiniteSet(Registrants(n, e)')
      BY <2>1 DEF FewRegistered
    <3>1. \A m \in 0..(N - 1) : IsFiniteSet(Registrants(m, e)')
      BY <1>2, <2>1, CountKept DEF FewRegistered
    <3>2. CASE n = N
      <4>1. N \in 1..N /\ N - 1 \in 0..(N - 1)
        BY <2>N, <3>2
      <4>2. \/ Registrants(N, e)' = Registrants(N - 1, e)'
            \/ Registrants(N, e)' = Registrants(N - 1, e)' \cup {call.handler}
            \/ Registrants(N, e)' = Registrants(N - 1, e)' \ {call.handler}
        <5>1. EachCallMovesOne'
          BY <2>4, OneMoved, PTL
        <5> QED
          BY <2>1, <4>1, <5>1 DEF EachCallMovesOne
      <4> QED
        BY <3>1, <3>2, <4>1, <4>2, FS_AddElement, FS_RemoveElement, SMTT(30)
    <3> QED
      BY <2>N, <3>1, <3>2
  <2> QED
    BY <2>4, <2>5
<1> QED
  BY <1>1, <1>2 DEF Next, LoopStep, FirstTurn, AskBotLock, vars, pubVars, GoOn,
     PyrogramLands, TrackLands, TrackCancelled, Handle, EndUpdate, TakeUpdate, Deliver, Stop,
     Stopped, Send, Finish, Fail, Push, Start
-----------------------------------------------------------------------------
(* The bookkeeping, as long as no handler runs meanwhile *)

Waiting(n) == InQueue(queue, BotLock, Track(n))

\* The first L calls have had their first turn, the others will in order.
Turned(L) ==
  /\ \A n \in DOMAIN calls : n > L <=> \E i \in DOMAIN ready : ready[i] = Pyrogram(n)
  /\ \A i, j \in DOMAIN ready, n, m \in DOMAIN calls :
       i < j /\ ready[i] = Pyrogram(n) /\ ready[j] = Pyrogram(m) => n < m

InOrder(s) ==
  \A i, j \in DOMAIN s, n, m \in Nat : i < j /\ s[i] = Track(n) /\ s[j] = Track(m) => n < m

\* Nobody waits for a worker, and the bookkeeping waits in order.
Queued(L) ==
  /\ inside = {} /\ \A w \in Worker : queue[w] = <<>>
  /\ \A i \in DOMAIN queue[BotLock] : \/ \E n \in 1..L : queue[BotLock][i] = Track(n)
                                      \/ \E p \in Publisher : queue[BotLock][i] = Publish(p)
  /\ InOrder(queue[BotLock])

\* They have landed.
Landing(L) == \A g \in Group : groups[g] = {h \in Handler : Added(L, h, g)}

\* Up to call m the count is right, or so low as it gets when a prune has
\* forgotten what nobody declared at some call since.
Owed(count, m, L, e) ==
  \/ count = Count(m, e)
  \/ \E j \in m..L : Count(j, e) = 0 /\ count <= Count(m, e)

\* m is the last call the bookkeeping has come to.
CountedTo(m, L) ==
  /\ \A n \in 1..m : ~Waiting(n)
  /\ \A n \in (m + 1)..L : Declares[calls[n].handler] # {} => Waiting(n)
  /\ \A e \in Entry : Owed(collected[e], m, L, e)

Ahead(L) ==
  /\ Turned(L) /\ Queued(L)
  /\ life # "stopped" => Landing(L) /\ \E m \in 0..L : CountedTo(m, L)

BookInv == History /\ FewRegistered /\ \E L \in 0..Len(calls) : Ahead(L)
-----------------------------------------------------------------------------
LEMMA LineDropped ==
  ASSUME NEW s \in Seq(Task), NEW i \in DOMAIN s
  PROVE  /\ \A a, b \in DOMAIN Dropped(s, i) : a < b =>
              \E c, d \in DOMAIN s : c < d /\ Dropped(s, i)[a] = s[c] /\ Dropped(s, i)[b] = s[d]
         /\ \A a \in DOMAIN Dropped(s, i) :
              \E c \in DOMAIN s : c # i /\ Dropped(s, i)[a] = s[c]
         /\ \A c \in DOMAIN s : c # i =>
              \E a \in DOMAIN Dropped(s, i) : Dropped(s, i)[a] = s[c]
<1>1. /\ DOMAIN s = 1..Len(s) /\ Len(s) \in Nat /\ DOMAIN Dropped(s, i) = 1..(Len(s) - 1)
      /\ \A a \in DOMAIN Dropped(s, i) : Dropped(s, i)[a] = s[IF a < i THEN a ELSE a + 1]
  BY LenProperties DEF Dropped
<1>2. \A a, b \in DOMAIN Dropped(s, i) : a < b =>
        \E c, d \in DOMAIN s : c < d /\ Dropped(s, i)[a] = s[c] /\ Dropped(s, i)[b] = s[d]
  <2> SUFFICES ASSUME NEW a \in DOMAIN Dropped(s, i), NEW b \in DOMAIN Dropped(s, i), a < b
               PROVE  \E c, d \in DOMAIN s : /\ c < d /\ Dropped(s, i)[a] = s[c]
                                             /\ Dropped(s, i)[b] = s[d]
    OBVIOUS
  <2> DEFINE c == IF a < i THEN a ELSE a + 1
             d == IF b < i THEN b ELSE b + 1
  <2>1. c \in DOMAIN s /\ d \in DOMAIN s /\ c < d
    BY <1>1
  <2>2. Dropped(s, i)[a] = s[c] /\ Dropped(s, i)[b] = s[d]
    BY <1>1
  <2> HIDE DEF c, d
  <2> QED
    BY <2>1, <2>2
<1>3. \A a \in DOMAIN Dropped(s, i) : \E c \in DOMAIN s : c # i /\ Dropped(s, i)[a] = s[c]
  <2> SUFFICES ASSUME NEW a \in DOMAIN Dropped(s, i)
               PROVE  \E c \in DOMAIN s : c # i /\ Dropped(s, i)[a] = s[c]
    OBVIOUS
  <2>1. CASE a < i
    BY <1>1, <2>1
  <2>2. CASE ~(a < i)
    <3>1. a + 1 \in DOMAIN s /\ a + 1 # i /\ Dropped(s, i)[a] = s[a + 1]
      BY <1>1, <2>2
    <3> QED
      BY <3>1
  <2> QED
    BY <2>1, <2>2
<1>4. ASSUME NEW c \in DOMAIN s, c # i
      PROVE  \E a \in DOMAIN Dropped(s, i) : Dropped(s, i)[a] = s[c]
  <2>1. CASE c < i
    <3>1. c \in DOMAIN Dropped(s, i) /\ Dropped(s, i)[c] = s[c]
      BY <1>1, <2>1
    <3> QED
      BY <3>1
  <2>2. CASE c > i
    <3>1. c - 1 \in DOMAIN Dropped(s, i) /\ ~(c - 1 < i) /\ (c - 1) + 1 = c
      BY <1>1, <2>2
    <3>2. Dropped(s, i)[c - 1] = s[c]
      BY <1>1, <3>1
    <3> QED
      BY <3>1, <3>2
  <2> QED
    BY <1>1, <1>4, <2>1, <2>2
<1> QED
  BY <1>2, <1>3, <1>4

\* A task in one place only.
LEMMA OnePlace ==
  ASSUME NEW n \in Nat, NEW h, NEW g, NEW k, Added(n, h, g), Added(n, h, k)
  PROVE  g = k
<1>1. PICK i \in 1..n : /\ calls[i] = [op |-> "add", handler |-> h, group |-> g]
                        /\ \A j \in (i + 1)..n : calls[j].handler # h
  BY DEF Added
<1>2. PICK i2 \in 1..n : /\ calls[i2] = [op |-> "add", handler |-> h, group |-> k]
                         /\ \A j \in (i2 + 1)..n : calls[j].handler # h
  BY DEF Added
<1>3. calls[i].handler = h /\ calls[i].group = g /\ calls[i2].handler = h /\ calls[i2].group = k
  BY <1>1, <1>2
<1>4. i = i2
  BY <1>1, <1>2, <1>3
<1> QED
  BY <1>3, <1>4

\* Locks that are free, or one's own, are all got.
LEMMA GetsAll ==
  ASSUME NEW q \in Queues, NEW t \in Task, NEW k \in Nat, DOMAIN Plan(t) = 1..k,
         \A i \in 1..k : Plan(t)[i] \in Lock /\ (q[Plan(t)[i]] = <<>> \/ Holds(q, Plan(t)[i], t))
  PROVE  HoldsAll(Asked(q, t), t)
<1> SUFFICES ASSUME NEW i \in 1..k PROVE Holds(Asked(q, t), Plan(t)[i], t)
  BY DEF HoldsAll
<1>1. CASE Holds(q, Plan(t)[i], t)
  BY <1>1, AskedKeeps
<1>2. CASE q[Plan(t)[i]] = <<>>
  <2> DEFINE l == Plan(t)[i]
  <2>1. l \in Lock /\ ~InQueue(q, l, t)
    BY <1>2 DEF InQueue
  <2>2. \A j \in 1..(i - 1) : j \in 1..k
    OBVIOUS
  <2>3. \A j \in 1..(i - 1) : q[Plan(t)[j]] = <<>> \/ Holds(q, Plan(t)[j], t)
    BY <2>2
  <2>4. Asked(q, t)[l] = Append(q[l], t)
    BY <2>1, <2>3 DEF Asked
  <2>5. q[l] \in Seq(Task) /\ q[l] = <<>>
    BY <1>2, <2>1 DEF Queues
  <2>6. Append(q[l], t) \in Seq(Task) /\ Len(Append(q[l], t)) = 1 /\ Append(q[l], t)[1] = t
    BY <2>5, AppendProperties, EmptySeq
  <2>7. PICK s \in Seq(Task) : s = Append(q[l], t) /\ Len(s) = 1 /\ s[1] = t
    BY <2>6
  <2>8. s # <<>>
    BY <2>7, EmptySeq
  <2>9. Head(s) = t
    BY <2>7, <2>8, HeadTailProperties
  <2> QED
    BY <2>4, <2>7, <2>8, <2>9 DEF Holds
<1> QED
  BY <1>1, <1>2

\* Who only asks for the collection, or waits for it, asks for nothing else.
LEMMA AsksForCollection ==
  ASSUME NEW q \in Queues, NEW t \in Task, Plan(t)[1] = BotLock, 1 \in DOMAIN Plan(t),
         DOMAIN Plan(t) \subseteq Nat \ {0},
         DOMAIN Plan(t) = {1} \/ (q[BotLock] # <<>> /\ ~Holds(q, BotLock, t)),
         \A i \in DOMAIN Plan(t) : Plan(t)[i] = BotLock => i = 1
  PROVE  Asked(q, t) = [l \in Lock |-> IF l = BotLock /\ ~InQueue(q, BotLock, t)
                                       THEN Append(q[l], t) ELSE q[l]]
<1>1. \A i \in DOMAIN Plan(t) : i # 1 =>
        1 \in 1..(i - 1) /\ ~(q[Plan(t)[1]] = <<>> \/ Holds(q, Plan(t)[1], t))
  OBVIOUS
<1>2. 1..(1 - 1) = {}
  OBVIOUS
<1> QED
  BY <1>1, <1>2 DEF Asked

\* The first Owed after the bookkeeping of a call, n, that is next to it.
LEMMA OwedNext ==
  ASSUME TypeInv, History, FewRegistered, NEW n \in DOMAIN calls, NEW m \in 0..(n - 1),
         NEW L \in n..Len(calls), \A i \in (m + 1)..(n - 1) : Declares[calls[i].handler] = {},
         NEW e \in Entry, NEW K \in (L - 1)..L, Owed(collected[e], m, K, e)
  PROVE  Owed(Tracked(collected, calls[n])[e], n, L, e)
<1>1. Len(calls) \in Nat /\ n \in 1..Len(calls) /\ collected[e] \in Nat /\ m \in 0..Len(calls)
      /\ n - 1 \in m..Len(calls)
  BY CallType, SMTT(30) DEF TypeInv, TypeOK
<1>2. Count(n - 1, e) = Count(m, e)
  BY <1>1, CountGap
<1> DEFINE h == calls[n].handler
<1>3. /\ Count(n, e) \in Nat /\ Count(n - 1, e) \in Nat
      /\ e \notin Declares[h] => Count(n, e) = Count(n - 1, e)
      /\ e \in Declares[h] /\ calls[n].op = "add" => Count(n, e) = Count(n - 1, e) + 1
      /\ e \in Declares[h] /\ calls[n].op = "remove" =>
           Count(n - 1, e) > 0 /\ Count(n, e) = Count(n - 1, e) - 1
  BY CountOf
<1>4. calls[n].op \in {"add", "remove"}
  BY CallType, CallFields DEF TypeInv
<1> DEFINE t == Tracked(collected, calls[n])[e]
<1>5. t = IF e \notin Declares[h] THEN collected[e]
          ELSE IF calls[n].op = "add" THEN collected[e] + 1
          ELSE IF collected[e] > 0 THEN collected[e] - 1 ELSE 0
  BY DEF Tracked
<1> HIDE DEF t, h
<1>6. CASE collected[e] = Count(m, e)
  <2>1. t = Count(n, e)
    BY <1>1, <1>2, <1>3, <1>4, <1>5, <1>6
  <2> QED
    BY <2>1 DEF Owed, t
<1>7. ASSUME NEW j \in m..K, Count(j, e) = 0, collected[e] <= Count(m, e)
      PROVE  Owed(t, n, L, e)
  <2>1. CASE j >= n
    <3>1. j \in n..L /\ t <= Count(n, e)
      BY <1>1, <1>2, <1>3, <1>4, <1>5, <1>7, <2>1, SMTT(30)
    <3> QED
      BY <1>7, <3>1 DEF Owed
  <2>2. CASE j < n
    <3>1. j \in m..Len(calls) /\ \A i \in (m + 1)..j : Declares[calls[i].handler] = {}
      BY <1>1, <1>7, <2>2
    <3>2. Count(m, e) = 0
      BY <1>1, <1>7, <3>1, CountGap
    <3>3. collected[e] = Count(m, e)
      BY <1>1, <1>7, <3>2
    <3> QED
      BY <1>6, <3>3 DEF t
  <2> QED
    BY <1>1, <2>1, <2>2
<1> QED
  BY <1>6, <1>7 DEF Owed, t

\* What is registered is what the collection counts once nothing is owed.
LEMMA OwedNothing ==
  ASSUME TypeInv, FewRegistered, NEW L \in 0..Len(calls), Landing(L), NEW m \in 0..L, CountedTo(m, L),
         \A n \in 1..L : ~Waiting(n)
  PROVE  {e \in Entry : collected[e] > 0} = Declared(groups)
<1>1. Len(calls) \in Nat /\ L \in m..Len(calls) /\ m \in 0..Len(calls)
  BY CallType DEF TypeInv
<1>2. \A i \in (m + 1)..L : Declares[calls[i].handler] = {}
  BY DEF CountedTo
<1>3. ASSUME NEW e \in Entry PROVE collected[e] = Count(L, e)
  <2>1. Count(L, e) = Count(m, e)
    BY <1>1, <1>2, CountGap
  <2>2. Owed(collected[e], m, L, e) /\ collected[e] \in Nat
    BY DEF CountedTo, TypeInv, TypeOK
  <2>3. ASSUME NEW j \in m..L, Count(j, e) = 0, collected[e] <= Count(m, e)
        PROVE  collected[e] = Count(m, e)
    <3>1. j \in m..Len(calls) /\ \A i \in (m + 1)..j : Declares[calls[i].handler] = {}
      BY <1>1, <1>2
    <3>2. Count(m, e) = 0
      BY <1>1, <2>3, <3>1, CountGap
    <3> QED
      BY <2>2, <2>3, <3>2
  <2> QED
    BY <2>1, <2>2, <2>3 DEF Owed
<1>4. ASSUME NEW e \in Entry PROVE Count(L, e) > 0 <=> Registrants(L, e) # {}
  <2>1. IsFiniteSet(Registrants(L, e))
    BY <1>1 DEF FewRegistered
  <2> QED
    BY <2>1, FS_EmptySet, FS_CardinalityType DEF Count
<1>5. ASSUME NEW e \in Entry PROVE Registrants(L, e) # {} <=> e \in Declared(groups)
  <2>1. \A h \in Handler : Registered(groups, h) <=> \E g \in Group : Added(L, h, g)
    BY DEF Landing, Registered
  <2> QED
    BY <2>1 DEF Registrants, Declared
<1>6. Declared(groups) \subseteq Entry
  BY DEF Declared
<1> QED
  BY <1>3, <1>4, <1>5, <1>6

\* The prune forgets what the registered handlers do not declare, and that is
\* owed until the bookkeeping has come to where it was.
LEMMA OwedPruned ==
  ASSUME TypeInv, FewRegistered, NEW L \in 0..Len(calls), Landing(L), NEW m \in 0..L, CountedTo(m, L),
         NEW e \in Entry
  PROVE  Owed(Pruned(collected, groups)[e], m, L, e)
<1>1. CASE e \in Declared(groups)
  BY <1>1 DEF CountedTo, Pruned
<1>2. CASE e \notin Declared(groups)
  <2>1. \A h \in Handler : Registered(groups, h) <=> \E g \in Group : Added(L, h, g)
    BY DEF Landing, Registered
  <2>2. Registrants(L, e) = {}
    BY <1>2, <2>1 DEF Registrants, Declared
  <2>3. Count(L, e) = 0 /\ Len(calls) \in Nat
    BY <2>2, FS_EmptySet, CallType DEF Count, TypeInv
  <2>4. Count(m, e) \in Nat
    BY <2>3, FS_CardinalityType DEF Count, FewRegistered
  <2>5. Pruned(collected, groups)[e] = 0 /\ L \in m..L
    BY <1>2, <2>3 DEF Pruned
  <2> QED
    BY <2>3, <2>4, <2>5 DEF Owed
<1> QED
  BY <1>1, <1>2
-----------------------------------------------------------------------------
(* The steps *)

\* No handler runs while registrations are made, the program removes only what
\* it has added, and nobody cancels the bookkeeping.
Plain == Env \cap {"any", "busy", "cancel"} = {}

LEMMA CountFrame ==
  ASSUME UNCHANGED calls
  PROVE  \A n, e, h, g : /\ Added(n, h, g)' <=> Added(n, h, g)
                         /\ Registrants(n, e)' = Registrants(n, e) /\ Count(n, e)' = Count(n, e)
<1>1. \A n, h, g : Added(n, h, g)' <=> Added(n, h, g)
  BY DEF Added
<1> QED
  BY <1>1 DEF Registrants, Count

\* Nothing but the line of tasks that are ready changes, and only publishers
\* come and go there.
LEMMA SameBooks ==
  ASSUME NEW L \in 0..Len(calls), Ahead(L),
         UNCHANGED <<calls, queue, inside, groups, collected>>,
         life' = "stopped" \/ life' = life \/ (life = "off" /\ life' = "on"), Turned(L)'
  PROVE  Ahead(L)'
<1>1. Queued(L)'
  BY DEF Ahead, Queued, InOrder
<1>2. ASSUME life' # "stopped" PROVE Landing(L)' /\ (\E m \in 0..L : CountedTo(m, L))'
  <2>1. Landing(L) /\ \E m \in 0..L : CountedTo(m, L)
    BY <1>2 DEF Ahead
  <2>2. Landing(L)'
    BY <2>1, CountFrame DEF Landing
  <2>3. ASSUME NEW m \in 0..L, CountedTo(m, L) PROVE CountedTo(m, L)'
    BY <2>3, CountFrame DEF CountedTo, Owed, Waiting, InQueue
  <2> QED
    BY <2>1, <2>2, <2>3
<1> QED
  BY <1>1, <1>2 DEF Ahead

LEMMA PublisherIsReady ==
  ASSUME TypeInv, NEW L, Turned(L), NEW p \in Publisher, ready' = Append(ready, Publish(p)),
         calls' = calls
  PROVE  Turned(L)'
<1>1. Publish(p) \in Task /\ \A n : Pyrogram(n) # Publish(p)
  BY TaskType, TasksDiffer
<1>2. /\ DOMAIN ready' = 1..(Len(ready) + 1) /\ DOMAIN ready = 1..Len(ready) /\ Len(ready) \in Nat
      /\ ready'[Len(ready) + 1] = Publish(p) /\ \A i \in DOMAIN ready : ready'[i] = ready[i]
  BY <1>1, ReadyAppended
<1>3. \A i \in DOMAIN ready' : \A n : ready'[i] = Pyrogram(n) => i \in DOMAIN ready /\ ready[i] = Pyrogram(n)
  BY <1>1, <1>2
<1>4. \A i \in DOMAIN ready : i \in DOMAIN ready' /\ ready'[i] = ready[i]
  BY <1>2
<1> QED
  BY <1>3, <1>4 DEF Turned

\* A task that is done leaves the line.
LEMMA RestIsReady ==
  ASSUME TypeInv, ready # <<>>, ready' = Tail(ready), NEW n \in Int
  PROVE  /\ (\E i \in DOMAIN ready' : ready'[i] = Pyrogram(n)) =>
              \E i \in DOMAIN ready : i > 1 /\ ready[i] = Pyrogram(n)
         /\ (\E i \in DOMAIN ready : i > 1 /\ ready[i] = Pyrogram(n)) =>
              \E i \in DOMAIN ready' : ready'[i] = Pyrogram(n)
<1>1. /\ DOMAIN ready' = 1..(Len(ready) - 1) /\ DOMAIN ready = 1..Len(ready) /\ Len(ready) \in Nat
      /\ \A i \in DOMAIN ready' : i + 1 \in DOMAIN ready /\ ready'[i] = ready[i + 1]
  BY ReadyHead DEF TypeInv
<1>2. ASSUME NEW i \in DOMAIN ready', ready'[i] = Pyrogram(n)
      PROVE  \E k \in DOMAIN ready : k > 1 /\ ready[k] = Pyrogram(n)
  <2>1. i + 1 \in DOMAIN ready /\ i + 1 > 1 /\ ready[i + 1] = Pyrogram(n)
    BY <1>1, <1>2
  <2> QED
    BY <2>1
<1>3. ASSUME NEW i \in DOMAIN ready, i > 1, ready[i] = Pyrogram(n)
      PROVE  \E k \in DOMAIN ready' : ready'[k] = Pyrogram(n)
  <2>1. i - 1 \in DOMAIN ready' /\ ready'[i - 1] = ready[(i - 1) + 1] /\ (i - 1) + 1 = i
    BY <1>1, <1>3
  <2> QED
    BY <1>3, <2>1
<1> QED
  BY <1>2, <1>3

LEMMA RestInOrder ==
  ASSUME TypeInv, NEW L, Turned(L), ready # <<>>, ready' = Tail(ready), calls' = calls
  PROVE  \A i, j \in DOMAIN ready', n, m \in DOMAIN calls :
           i < j /\ ready'[i] = Pyrogram(n) /\ ready'[j] = Pyrogram(m) => n < m
<1>1. /\ DOMAIN ready' = 1..(Len(ready) - 1) /\ DOMAIN ready = 1..Len(ready) /\ Len(ready) \in Nat
      /\ \A i \in DOMAIN ready' : i + 1 \in DOMAIN ready /\ ready'[i] = ready[i + 1]
  BY ReadyHead DEF TypeInv
<1>2. \A i, j \in DOMAIN ready' : i < j => i + 1 < j + 1
  BY <1>1
<1> QED
  BY <1>1, <1>2 DEF Turned

\* The oldest call is the next one.
LEMMA NextToTurn ==
  ASSUME TypeInv, NEW L \in 0..Len(calls), Turned(L), ready # <<>>, NEW n \in DOMAIN calls,
         Head(ready) = Pyrogram(n)
  PROVE  n = L + 1
<1>1. ready[1] = Pyrogram(n) /\ 1 \in DOMAIN ready /\ Len(calls) \in Nat /\ n \in 1..Len(calls)
      /\ DOMAIN ready = 1..Len(ready) /\ DOMAIN calls = 1..Len(calls)
  BY ReadyHead, CallType DEF TypeInv
<1>2. n > L
  BY <1>1 DEF Turned
<1>3. L + 1 \in DOMAIN calls
  BY <1>1, <1>2
<1>4. PICK i \in DOMAIN ready : ready[i] = Pyrogram(L + 1)
  <2>1. L + 1 > L
    OBVIOUS
  <2> QED
    BY <1>3, <2>1 DEF Turned
<1>5. CASE i = 1
  <2>1. Pyrogram(L + 1) = Pyrogram(n)
    BY <1>1, <1>4, <1>5
  <2> QED
    BY <2>1, TasksDiffer
<1>6. CASE i # 1
  <2>1. 1 < i
    BY <1>1, <1>6
  <2>2. n < L + 1
    BY <1>1, <1>3, <1>4, <2>1 DEF Turned
  <2> QED
    BY <1>1, <1>2, <2>2
<1> QED
  BY <1>5, <1>6

LEMMA FirstHasTurned ==
  ASSUME TypeInv, NEW L \in 0..Len(calls), Turned(L), ready # <<>>, NEW n \in DOMAIN calls,
         Head(ready) = Pyrogram(n), ready' = Tail(ready), calls' = calls
  PROVE  Turned(n)'
<1>1. n = L + 1
  BY NextToTurn
<1>2. /\ ready[1] = Pyrogram(n) /\ 1 \in DOMAIN ready /\ Len(calls) \in Nat
      /\ DOMAIN ready = 1..Len(ready) /\ DOMAIN calls = 1..Len(calls)
  BY ReadyHead, CallType DEF TypeInv
<1>3. ASSUME NEW k \in DOMAIN calls
      PROVE  k > n <=> \E i \in DOMAIN ready' : ready'[i] = Pyrogram(k)
  <2>1. ASSUME k > n PROVE \E i \in DOMAIN ready' : ready'[i] = Pyrogram(k)
    <3>1. k > L
      BY <1>1, <1>2, <2>1
    <3>2. PICK i \in DOMAIN ready : ready[i] = Pyrogram(k)
      BY <3>1 DEF Turned
    <3>3. Pyrogram(k) # Pyrogram(n)
      BY <1>2, <2>1, TasksDiffer
    <3>4. i # 1 /\ i > 1
      BY <1>2, <3>2, <3>3
    <3> QED
      BY <1>2, <3>2, <3>4, RestIsReady, SMTT(30)
  <2>2. ASSUME \E i \in DOMAIN ready' : ready'[i] = Pyrogram(k) PROVE k > n
    <3>1. PICK i \in DOMAIN ready : i > 1 /\ ready[i] = Pyrogram(k)
      BY <1>2, <2>2, RestIsReady
    <3> QED
      BY <1>2, <3>1 DEF Turned
  <2> QED
    BY <2>1, <2>2
<1> QED
  BY <1>3, RestInOrder, ZenonT(30) DEF Turned

LEMMA PublisherHasTurned ==
  ASSUME TypeInv, NEW L \in 0..Len(calls), Turned(L), ready # <<>>, NEW p \in Publisher,
         Head(ready) = Publish(p), ready' = Tail(ready), calls' = calls
  PROVE  Turned(L)'
<1>1. /\ ready[1] = Publish(p) /\ DOMAIN ready = 1..Len(ready) /\ DOMAIN calls = 1..Len(calls)
      /\ Len(ready) \in Nat
  BY ReadyHead, CallType DEF TypeInv
<1>2. \A k : Pyrogram(k) # Publish(p)
  BY TasksDiffer
<1>3. \A i \in DOMAIN ready : \A k : ready[i] = Pyrogram(k) => i > 1
  BY <1>1, <1>2
<1>4. ASSUME NEW k \in DOMAIN calls
      PROVE  k > L <=> \E i \in DOMAIN ready' : ready'[i] = Pyrogram(k)
  <2>1. k \in Int
    BY <1>1
  <2>2. (\E i \in DOMAIN ready : ready[i] = Pyrogram(k)) <=> k > L
    BY DEF Turned
  <2> QED
    BY <1>3, <2>1, <2>2, RestIsReady
<1> QED
  BY <1>4, RestInOrder, ZenonT(30) DEF Turned

LEMMA CallHasYetToTurn ==
  ASSUME TypeInv, NEW L \in 0..Len(calls), Turned(L), NEW call \in Calls, Call(call)
  PROVE  Turned(L)'
<1>c. /\ Len(calls) \in Nat /\ DOMAIN calls = 1..Len(calls) /\ DOMAIN calls' = 1..(Len(calls) + 1)
  BY CallAppends
<1>N. PICK N \in Nat : N = Len(calls) + 1
  BY <1>c
<1>1. Pyrogram(N) \in Task /\ ready' = Append(ready, Pyrogram(N))
  BY <1>c, <1>N, TaskType DEF Call
<1>2. /\ DOMAIN ready' = 1..(Len(ready) + 1) /\ DOMAIN ready = 1..Len(ready) /\ Len(ready) \in Nat
      /\ ready'[Len(ready) + 1] = Pyrogram(N) /\ \A i \in DOMAIN ready : ready'[i] = ready[i]
  BY <1>1, ReadyAppended
<1>3. \A n, m : Pyrogram(n) = Pyrogram(m) => n = m
  BY TasksDiffer
<1>4. \A i \in DOMAIN ready' : \A n : ready'[i] = Pyrogram(n) =>
        (i \in DOMAIN ready /\ ready[i] = Pyrogram(n)) \/ (i = Len(ready) + 1 /\ n = N)
  BY <1>2, <1>3
<1>5. \A i \in DOMAIN ready : \A n : ready[i] = Pyrogram(n) => n \in DOMAIN calls
  <2>1. \A n, p : Pyrogram(n) # Publish(p)
    BY TasksDiffer
  <2> QED
    BY <1>3, <2>1 DEF TypeInv, ReadyIsCalled
<1>6. ASSUME NEW n \in DOMAIN calls'
      PROVE  n > L <=> \E i \in DOMAIN ready' : ready'[i] = Pyrogram(n)
  <2>1. CASE n = N
    <3>1. n > L /\ Len(ready) + 1 \in DOMAIN ready'
      BY <1>c, <1>N, <1>2, <2>1
    <3> QED
      BY <1>2, <2>1, <3>1
  <2>2. CASE n # N
    <3>1. n \in DOMAIN calls
      BY <1>c, <1>N, <2>2
    <3>2. (\E i \in DOMAIN ready : ready[i] = Pyrogram(n)) <=> n > L
      BY <3>1 DEF Turned
    <3>3. \A i \in DOMAIN ready : i \in DOMAIN ready'
      BY <1>2
    <3> QED
      BY <1>2, <1>4, <2>2, <3>2, <3>3
  <2> QED
    BY <2>1, <2>2
<1>7. ASSUME NEW i \in DOMAIN ready', NEW j \in DOMAIN ready', NEW n \in DOMAIN calls',
             NEW m \in DOMAIN calls', i < j, ready'[i] = Pyrogram(n), ready'[j] = Pyrogram(m)
      PROVE  n < m
  <2>1. i \in DOMAIN ready /\ ready[i] = Pyrogram(n) /\ n \in DOMAIN calls
    BY <1>2, <1>4, <1>5, <1>7
  <2>2. CASE j \in DOMAIN ready /\ ready[j] = Pyrogram(m)
    BY <1>5, <1>7, <2>1, <2>2 DEF Turned
  <2>3. CASE m = N
    BY <1>c, <1>N, <2>1, <2>3
  <2> QED
    BY <1>4, <1>7, <2>2, <2>3
<1> QED
  BY <1>6, <1>7 DEF Turned

\* The locks of the workers are free.
LEMMA WorkersAreFree ==
  ASSUME TypeInv, NEW L, Queued(L)
  PROVE  /\ queue \in Queues /\ \A w \in Worker : queue[w] = <<>> /\ \A t : ~InQueue(queue, w, t)
         /\ queue[BotLock] \in Seq(Task)
         /\ \A n \in 1..MaxCalls : HoldsAll(Asked(queue, Pyrogram(n)), Pyrogram(n))
         /\ \A n \in 1..MaxCalls : queue[BotLock] = <<>> \/ Holds(queue, BotLock, Track(n))
              => HoldsAll(Asked(queue, Track(n)), Track(n))
<1>1. /\ queue \in Queues /\ queue[BotLock] \in Seq(Task) /\ \A w \in Worker : queue[w] = <<>>
  BY LockType DEF TypeInv, TypeOK, Queues, Queued
<1>2. \A w \in Worker : \A t : ~InQueue(queue, w, t)
  BY <1>1 DEF InQueue
<1>3. ASSUME NEW n \in 1..MaxCalls PROVE HoldsAll(Asked(queue, Pyrogram(n)), Pyrogram(n))
  <2>1. /\ DOMAIN Plan(Pyrogram(n)) = 1..Workers /\ Workers \in Nat /\ Pyrogram(n) \in Task
        /\ \A i \in 1..Workers : Plan(Pyrogram(n))[i] = i /\ i \in Worker /\ i \in Lock
    BY Plans, TaskType, LockType DEF Worker
  <2> QED
    BY <1>1, <2>1, GetsAll
<1>4. ASSUME NEW n \in 1..MaxCalls, queue[BotLock] = <<>> \/ Holds(queue, BotLock, Track(n))
      PROVE  HoldsAll(Asked(queue, Track(n)), Track(n))
  <2>1. /\ DOMAIN Plan(Track(n)) = 1..(Workers + 1) /\ Workers + 1 \in Nat /\ Track(n) \in Task
        /\ \A i \in 1..(Workers + 1) : Plan(Track(n))[i] = i - 1
    BY Plans, TaskType
  <2>2. \A i \in 1..(Workers + 1) : i - 1 = BotLock \/ i - 1 \in Worker
    BY DEF BotLock, Worker
  <2>3. \A i \in 1..(Workers + 1) :
          /\ Plan(Track(n))[i] \in Lock
          /\ queue[Plan(Track(n))[i]] = <<>> \/ Holds(queue, Plan(Track(n))[i], Track(n))
    BY <1>1, <1>4, <2>1, <2>2, LockType
  <2> QED
    BY <1>1, <2>1, <2>3, GetsAll
<1> QED
  BY <1>1, <1>2, <1>3, <1>4

\* A task at the end of those that wait for the collection.
LEMMA LineGrows ==
  ASSUME TypeInv, NEW L, Queued(L), NEW t \in Task,
         queue' = [l \in Lock |-> IF l = BotLock /\ ~InQueue(queue, BotLock, t)
                                  THEN Append(queue[l], t) ELSE queue[l]]
  PROVE  /\ \A w \in Worker : queue'[w] = <<>>
         /\ \A u : InQueue(queue', BotLock, u) <=> InQueue(queue, BotLock, u) \/ u = t
         /\ \A i \in DOMAIN queue[BotLock] :
              i \in DOMAIN queue'[BotLock] /\ queue'[BotLock][i] = queue[BotLock][i]
         /\ \A j \in DOMAIN queue'[BotLock] : \/ j \in DOMAIN queue[BotLock]
                                              \/ /\ queue'[BotLock][j] = t
                                                 /\ \A i \in DOMAIN queue'[BotLock] : i <= j
<1>1. queue[BotLock] \in Seq(Task) /\ \A w \in Worker : queue'[w] = <<>>
  BY WorkersAreFree, LockType DEF BotLock
<1>2. CASE InQueue(queue, BotLock, t)
  <2>1. queue'[BotLock] = queue[BotLock]
    BY <1>2, LockType
  <2> QED
    BY <1>1, <1>2, <2>1 DEF InQueue
<1>3. CASE ~InQueue(queue, BotLock, t)
  <2>1. queue'[BotLock] = Append(queue[BotLock], t)
    BY <1>3, LockType
  <2>2. PICK s \in Seq(Task) : s = queue[BotLock]
    BY <1>1
  <2>3. PICK d : d = Append(s, t)
    OBVIOUS
  <2>4. /\ d \in Seq(Task) /\ Len(d) = Len(s) + 1 /\ d[Len(s) + 1] = t
        /\ \A i \in 1..Len(s) : d[i] = s[i]
    BY <2>3, AppendProperties
  <2>5. DOMAIN s = 1..Len(s) /\ Len(s) \in Nat /\ DOMAIN d = 1..(Len(s) + 1)
    BY <2>4, LenProperties
  <2>6. /\ \A u : (\E i \in DOMAIN d : d[i] = u) <=> (\E i \in DOMAIN s : s[i] = u) \/ u = t
        /\ \A i \in DOMAIN s : i \in DOMAIN d /\ d[i] = s[i]
        /\ \A j \in DOMAIN d : j \in DOMAIN s \/ (d[j] = t /\ \A i \in DOMAIN d : i <= j)
    BY <2>4, <2>5, SMTT(30)
  <2>7. queue'[BotLock] = d /\ queue[BotLock] = s
    BY <2>1, <2>2, <2>3
  <2> QED
    BY <1>1, <2>6, <2>7, ZenonT(30) DEF InQueue
<1> QED
  BY <1>2, <1>3

\* ... or one that leaves.
LEMMA LineShrinks ==
  ASSUME TypeInv, NEW L, Queued(L), NEW t \in Task, queue' = Released(queue, t)
  PROVE  /\ \A w \in Worker : queue'[w] = <<>>
         /\ \A u : u # t => (InQueue(queue', BotLock, u) <=> InQueue(queue, BotLock, u))
         /\ \A i \in DOMAIN queue'[BotLock] : \E j \in DOMAIN queue[BotLock] :
              queue'[BotLock][i] = queue[BotLock][j]
         /\ InOrder(queue'[BotLock])
         /\ \A n \in Nat : t = Track(n) => ~InQueue(queue', BotLock, t)
<1>0. /\ queue \in Queues /\ queue[BotLock] \in Seq(Task)
      /\ \A w \in Worker : w \in Lock /\ queue[w] = <<>> /\ ~InQueue(queue, w, t)
  BY WorkersAreFree, LockType
<1>1. /\ queue \in Queues /\ queue[BotLock] \in Seq(Task) /\ InOrder(queue[BotLock])
      /\ \A w \in Worker : queue'[w] = <<>>
  BY <1>0, ReleasedIs DEF Queued
<1>2. CASE ~InQueue(queue, BotLock, t)
  <2>1. queue'[BotLock] = queue[BotLock]
    BY <1>1, <1>2, ReleasedIs, LockType
  <2> QED
    BY <1>1, <1>2, <2>1 DEF InQueue
<1>3. ASSUME NEW i \in DOMAIN queue[BotLock], queue[BotLock][i] = t,
             queue'[BotLock] = Dropped(queue[BotLock], i)
      PROVE  /\ \A u : u # t => (InQueue(queue', BotLock, u) <=> InQueue(queue, BotLock, u))
             /\ \A a \in DOMAIN queue'[BotLock] : \E j \in DOMAIN queue[BotLock] :
                  queue'[BotLock][a] = queue[BotLock][j]
             /\ InOrder(queue'[BotLock])
             /\ \A n \in Nat : t = Track(n) => ~InQueue(queue', BotLock, t)
  <2>s. PICK s \in Seq(Task) : s = queue[BotLock]
    BY <1>1
  <2>d. PICK d : d = queue'[BotLock]
    OBVIOUS
  <2>0. i \in DOMAIN s /\ d = Dropped(s, i) /\ InOrder(s) /\ s[i] = t
    BY <1>1, <1>3, <2>s, <2>d
  <2>1. /\ \A a, b \in DOMAIN d : a < b => \E x, y \in DOMAIN s : x < y /\ d[a] = s[x] /\ d[b] = s[y]
        /\ \A a \in DOMAIN d : \E c \in DOMAIN s : c # i /\ d[a] = s[c]
        /\ \A c \in DOMAIN s : c # i => \E a \in DOMAIN d : d[a] = s[c]
    BY <2>0, LineDropped
  <2>2. DOMAIN s = 1..Len(s) /\ Len(s) \in Nat
    BY LenProperties
  <2>3. InOrder(d)
    <3> SUFFICES ASSUME NEW a \in DOMAIN d, NEW b \in DOMAIN d, NEW n \in Nat, NEW m \in Nat,
                        a < b, d[a] = Track(n), d[b] = Track(m)
                 PROVE  n < m
      BY DEF InOrder
    <3>1. PICK x \in DOMAIN s, y \in DOMAIN s : x < y /\ d[a] = s[x] /\ d[b] = s[y]
      BY <2>1
    <3> QED
      BY <2>0, <3>1 DEF InOrder
  <2>4. ASSUME NEW n \in Nat, t = Track(n) PROVE \A a \in DOMAIN d : d[a] # t
    <3> SUFFICES ASSUME NEW a \in DOMAIN d, d[a] = t PROVE FALSE
      OBVIOUS
    <3>1. PICK c \in DOMAIN s : c # i /\ s[c] = Track(n)
      BY <2>1, <2>4
    <3>2. s[i] = Track(n)
      BY <2>0, <2>4
    <3>3. \/ c < i
          \/ i < c
      BY <2>0, <2>2, <3>1
    <3>4. n < n
      BY <2>0, <3>1, <3>2, <3>3 DEF InOrder
    <3> QED
      BY <3>4
  <2>5. \A u : u # t => (InQueue(queue', BotLock, u) <=> InQueue(queue, BotLock, u))
    BY <2>s, <2>d, <2>0, <2>1 DEF InQueue
  <2>6. \A n \in Nat : t = Track(n) => ~InQueue(queue', BotLock, t)
    BY <2>d, <2>4 DEF InQueue
  <2> QED
    BY <2>s, <2>d, <2>1, <2>3, <2>5, <2>6
<1>4. InQueue(queue, BotLock, t) =>
        \E i \in DOMAIN queue[BotLock] : queue[BotLock][i] = t
                                         /\ queue'[BotLock] = Dropped(queue[BotLock], i)
  BY <1>1, ReleasedIs, LockType
<1> QED
  BY <1>1, <1>2, <1>3, <1>4
-----------------------------------------------------------------------------
LEMMA AheadCall ==
  ASSUME TypeInv, NEW L \in 0..Len(calls), Ahead(L), NEW call \in Calls, Call(call)
  PROVE  Ahead(L)'
<1>1. Turned(L)'
  BY CallHasYetToTurn DEF Ahead
<1>2. Queued(L)'
  BY DEF Ahead, Queued, Call
<1>3. /\ Len(calls) \in Nat /\ \A n \in 1..Len(calls) : calls'[n] = calls[n]
      /\ \A n \in 0..Len(calls) : \A h, g : Added(n, h, g)' <=> Added(n, h, g)
      /\ \A n \in 0..Len(calls), e \in Entry : Count(n, e)' = Count(n, e)
  BY CallAppends, AddedKept, CountKept
<1>4. ASSUME life' # "stopped" PROVE Landing(L)' /\ (\E m \in 0..L : CountedTo(m, L))'
  <2>1. Landing(L) /\ \E m \in 0..L : CountedTo(m, L)
    BY <1>4 DEF Ahead, Call
  <2>2. Landing(L)'
    BY <1>3, <2>1 DEF Landing, Call
  <2>3. ASSUME NEW m \in 0..L, CountedTo(m, L) PROVE CountedTo(m, L)'
    <3>1. \A n \in (m + 1)..L : calls'[n] = calls[n]
      BY <1>3
    <3>2. \A j \in m..L : j \in 0..Len(calls)
      BY <1>3
    <3>3. \A n : Waiting(n)' <=> Waiting(n)
      BY DEF Waiting, InQueue, Call
    <3>4. \A e \in Entry : Owed(collected[e], m, L, e)'
      BY <1>3, <2>3, <3>2 DEF CountedTo, Owed, Call
    <3> QED
      BY <2>3, <3>1, <3>3, <3>4 DEF CountedTo
  <2> QED
    BY <2>1, <2>2, <2>3
<1> QED
  BY <1>1, <1>2, <1>4 DEF Ahead

\* Without a handler in the way the registration lands in its first turn.
LEMMA LandsAtOnce ==
  ASSUME TypeInv, NEW L \in 0..Len(calls), Turned(L), Queued(L), FirstTurn
  PROVE  \E n \in DOMAIN calls :
           /\ n = L + 1 /\ ready # <<>> /\ Head(ready) = Pyrogram(n) /\ ready' = Tail(ready)
           /\ groups' = Changed(groups, calls[n])
           /\ UNCHANGED <<calls, inside, life>>
           /\ \/ /\ ~Landed(groups', calls[n]) \/ Declares[calls[n].handler] = {}
                 /\ UNCHANGED <<queue, collected>>
              \/ /\ queue[BotLock] = <<>>
                 /\ collected' = Tracked(collected, calls[n]) /\ UNCHANGED queue
              \/ /\ queue[BotLock] # <<>> /\ ~Holds(queue, BotLock, Track(n))
                 /\ queue' = Asked(queue, Track(n)) /\ UNCHANGED collected
<1>1. ready # <<>> /\ Head(ready)[1] = "pyrogram" /\ ready' = Tail(ready)
  BY DEF FirstTurn
<1>2. PICK n \in DOMAIN calls : n = Head(ready)[2] /\ Head(ready) = Pyrogram(n)
  BY <1>1, FirstOfReady
<1>3. n = L + 1 /\ n \in 1..MaxCalls
  BY <1>1, <1>2, NextToTurn, CallType DEF TypeInv
<1>4. HoldsAll(Asked(queue, Pyrogram(n)), Pyrogram(n))
  BY <1>3, WorkersAreFree
<1>5. groups' = Changed(groups, calls[n]) /\ UNCHANGED <<calls, inside, life>>
  BY <1>2, <1>4 DEF FirstTurn
<1>6. \/ /\ ~Landed(groups', calls[n]) \/ Declares[calls[n].handler] = {}
         /\ UNCHANGED <<queue, collected>>
      \/ /\ HoldsAll(Asked(queue, Track(n)), Track(n))
         /\ collected' = Tracked(collected, calls[n]) /\ UNCHANGED queue
      \/ /\ ~HoldsAll(Asked(queue, Track(n)), Track(n))
         /\ queue' = Asked(queue, Track(n)) /\ UNCHANGED collected
  BY <1>2, <1>4 DEF FirstTurn
<1>7. ASSUME HoldsAll(Asked(queue, Track(n)), Track(n)), queue[BotLock] # <<>> PROVE FALSE
  <2>1. /\ 1 \in DOMAIN Plan(Track(n)) /\ Plan(Track(n))[1] = BotLock /\ BotLock \in Lock
        /\ Track(n) \in Task /\ queue \in Queues /\ queue[BotLock] \in Seq(Task)
    <3>1. 1 \in 1..(Workers + 1) /\ BotLock = 0
      BY DEF BotLock
    <3>2. 1 \in DOMAIN Plan(Track(n)) /\ Plan(Track(n))[1] = BotLock
      BY <3>1, Plans
    <3>3. BotLock \in Lock /\ Track(n) \in Task
      BY <1>3, LockType, TaskType
    <3>4. queue \in Queues /\ queue[BotLock] \in Seq(Task)
      BY WorkersAreFree
    <3> QED
      BY <3>2, <3>3, <3>4
  <2>2. Holds(queue, BotLock, Head(queue[BotLock]))
    BY <1>7 DEF Holds
  <2>3. Head(queue[BotLock]) = Track(n)
    BY <1>7, <2>1, <2>2, TakesFromNobody
  <2>4. 1 \in DOMAIN queue[BotLock] /\ queue[BotLock][1] = Track(n)
    BY <1>7, <2>1, <2>3, HeadTailProperties, LenProperties, EmptySeq
  <2>5. \E k \in 1..L : Track(n) = Track(k)
    <3>1. \A p : Track(n) # Publish(p)
      BY TasksDiffer
    <3> QED
      BY <2>4, <3>1 DEF Queued
  <2>6. n \in 1..L
    BY <2>5, TasksDiffer
  <2> QED
    BY <1>3, <2>6
<1>8. ASSUME ~HoldsAll(Asked(queue, Track(n)), Track(n))
      PROVE  queue[BotLock] # <<>> /\ ~Holds(queue, BotLock, Track(n))
  BY <1>3, <1>8, WorkersAreFree
<1> QED
  BY <1>1, <1>2, <1>3, <1>5, <1>6, <1>7, <1>8

\* Where the handlers are, once the call has landed.
LEMMA LandingNext ==
  ASSUME TypeInv, History, NEW n \in DOMAIN calls, Landing(n - 1),
         groups' = Changed(groups, calls[n]), UNCHANGED calls
  PROVE  Landing(n)' /\ Landed(groups', calls[n])
<1> DEFINE h == calls[n].handler
<1>1. /\ h \in Handler /\ calls[n].group \in Group /\ calls[n].op \in {"add", "remove"}
      /\ n - 1 \in Nat /\ groups \in [Group -> SUBSET Handler]
  BY CallType, CallFields DEF TypeInv, TypeOK
<1>2. \A k \in Handler, g \in Group : k # h => (Added(n, k, g) <=> Added(n - 1, k, g))
  BY OneCall
<1>3. \A g \in Group : Added(n, h, g) <=> calls[n].op = "add" /\ calls[n].group = g
  BY OwnCall
<1>4. calls[n].op = "add" => \A g \in Group : ~Added(n - 1, h, g)
  BY DEF History
<1>5. calls[n].op = "remove" => \A g \in Group : Added(n - 1, h, g) => g = calls[n].group
  BY <1>1, OnePlace DEF History
<1>6. \A g \in Group : groups[g] = {k \in Handler : Added(n - 1, k, g)}
  BY DEF Landing
<1> HIDE DEF h
<1>7. ASSUME NEW g \in Group PROVE groups'[g] = {k \in Handler : Added(n, k, g)}
  <2>1. groups'[g] = IF g # calls[n].group THEN groups[g]
                     ELSE IF calls[n].op = "add" THEN groups[g] \cup {h} ELSE groups[g] \ {h}
    BY <1>1 DEF Changed, h
  <2>2. CASE calls[n].op = "add"
    BY <1>1, <1>2, <1>3, <1>4, <1>6, <2>1, <2>2
  <2>3. CASE calls[n].op = "remove"
    BY <1>1, <1>2, <1>3, <1>5, <1>6, <2>1, <2>3
  <2> QED
    BY <1>1, <2>2, <2>3
<1>9. Landing(n)'
  BY <1>7, CountFrame DEF Landing
<1>10. Registered(groups', h) <=> calls[n].op = "add"
  BY <1>1, <1>3, <1>7 DEF Registered
<1>11. Registered(groups', h) \in BOOLEAN
  BY DEF Registered
<1>12. Registered(groups', h) = (calls[n].op = "add")
  BY <1>10, <1>11
<1> QED
  BY <1>9, <1>12 DEF Landed, h

LEMMA AheadFirstTurn ==
  ASSUME TypeInv, History, FewRegistered, NEW L \in 0..Len(calls), Ahead(L), FirstTurn
  PROVE  \E n \in 0..Len(calls) : Ahead(n)'
<1>0. Turned(L) /\ Queued(L)
  BY DEF Ahead
<1>1. PICK n \in DOMAIN calls :
           /\ n = L + 1 /\ ready # <<>> /\ Head(ready) = Pyrogram(n) /\ ready' = Tail(ready)
           /\ groups' = Changed(groups, calls[n])
           /\ UNCHANGED <<calls, inside, life>>
           /\ \/ /\ ~Landed(groups', calls[n]) \/ Declares[calls[n].handler] = {}
                 /\ UNCHANGED <<queue, collected>>
              \/ /\ queue[BotLock] = <<>>
                 /\ collected' = Tracked(collected, calls[n]) /\ UNCHANGED queue
              \/ /\ queue[BotLock] # <<>> /\ ~Holds(queue, BotLock, Track(n))
                 /\ queue' = Asked(queue, Track(n)) /\ UNCHANGED collected
  BY <1>0, LandsAtOnce
<1>2. n \in 0..Len(calls) /\ Len(calls) \in Nat /\ n \in 1..MaxCalls /\ L = n - 1 /\ L \in Nat
  BY <1>1, CallType DEF TypeInv
<1>3. Turned(n)'
  BY <1>0, <1>1, FirstHasTurned
<1>4. ASSUME queue' = Asked(queue, Track(n)), queue[BotLock] # <<>>, ~Holds(queue, BotLock, Track(n))
      PROVE  queue' = [l \in Lock |-> IF l = BotLock /\ ~InQueue(queue, BotLock, Track(n))
                                      THEN Append(queue[l], Track(n)) ELSE queue[l]]
  <2>1. /\ Track(n) \in Task /\ queue \in Queues /\ Plan(Track(n)) = [i \in 1..(Workers + 1) |-> i - 1]
    BY <1>0, <1>2, TaskType, WorkersAreFree, Plans
  <2>2. /\ Plan(Track(n))[1] = BotLock /\ 1 \in DOMAIN Plan(Track(n))
        /\ DOMAIN Plan(Track(n)) \subseteq Nat \ {0}
        /\ \A i \in DOMAIN Plan(Track(n)) : Plan(Track(n))[i] = BotLock => i = 1
    BY <2>1 DEF BotLock
  <2> QED
    BY <1>4, <2>1, <2>2, AsksForCollection
<1>5. \A k : InQueue(queue, BotLock, Track(k)) => k \in 1..L
  <2>1. \A k, p, m : Track(k) # Publish(p) /\ (Track(k) = Track(m) => k = m)
    BY TasksDiffer
  <2> QED
    BY <1>0, <2>1 DEF Queued, InQueue
<1>6. Queued(n)'
  <2>1. CASE UNCHANGED queue
    <3>1. \A k \in 1..L : k \in 1..n
      BY <1>2
    <3> QED
      BY <1>0, <1>1, <2>1, <3>1 DEF Queued, InOrder
  <2>2. CASE queue' = Asked(queue, Track(n)) /\ queue[BotLock] # <<>> /\ ~Holds(queue, BotLock, Track(n))
    <3>1. Track(n) \in Task
      BY <1>2, TaskType
    <3>2. /\ \A w \in Worker : queue'[w] = <<>>
          /\ \A i \in DOMAIN queue[BotLock] :
               i \in DOMAIN queue'[BotLock] /\ queue'[BotLock][i] = queue[BotLock][i]
          /\ \A j \in DOMAIN queue'[BotLock] : \/ j \in DOMAIN queue[BotLock]
                                               \/ /\ queue'[BotLock][j] = Track(n)
                                                  /\ \A i \in DOMAIN queue'[BotLock] : i <= j
      BY <1>0, <1>4, <2>2, <3>1, LineGrows
    <3>3. \A i \in DOMAIN queue'[BotLock] : \/ \E k \in 1..n : queue'[BotLock][i] = Track(k)
                                            \/ \E p \in Publisher : queue'[BotLock][i] = Publish(p)
      <4>1. n \in 1..n /\ \A k \in 1..L : k \in 1..n
        BY <1>2
      <4> QED
        BY <1>0, <3>2, <4>1 DEF Queued
    <3>4. InOrder(queue'[BotLock])
      <4> SUFFICES ASSUME NEW i \in DOMAIN queue'[BotLock], NEW j \in DOMAIN queue'[BotLock],
                          NEW k \in Nat, NEW m \in Nat, i < j,
                          queue'[BotLock][i] = Track(k), queue'[BotLock][j] = Track(m)
                   PROVE  k < m
        BY DEF InOrder
      <4>d. i \in Int /\ j \in Int
        <5>1. queue'[BotLock] \in Seq(Task)
          BY <1>0, <2>2, <3>1, AskedType, LockType DEF Queues
        <5> QED
          BY <5>1, LenProperties
      <4>1. i \in DOMAIN queue[BotLock]
        BY <3>2, <4>d
      <4>2. k \in 1..L
        BY <1>5, <3>2, <4>1 DEF InQueue
      <4>3. CASE j \in DOMAIN queue[BotLock]
        BY <1>0, <3>2, <4>1, <4>3 DEF Queued, InOrder
      <4>4. CASE queue'[BotLock][j] = Track(n)
        <5>0. \A k2 : Track(k2) = Track(n) => k2 = n
          BY TasksDiffer
        <5>1. m = n
          BY <4>4, <5>0
        <5> QED
          BY <1>2, <4>2, <5>1
      <4> QED
        BY <3>2, <4>3, <4>4
    <3> QED
      BY <1>0, <1>1, <3>2, <3>3, <3>4 DEF Queued
  <2> QED
    BY <1>1, <2>1, <2>2
<1>7. ASSUME life' # "stopped" PROVE Landing(n)' /\ (\E m \in 0..n : CountedTo(m, n))'
  <2>1. Landing(L) /\ \E m \in 0..L : CountedTo(m, L)
    BY <1>1, <1>7 DEF Ahead
  <2>2. Landing(n)' /\ Landed(groups', calls[n])
    BY <1>1, <1>2, <2>1, LandingNext
  <2>3. PICK m \in 0..L : CountedTo(m, L)
    BY <2>1
  <2>m. m \in 0..n /\ \A j \in m..L : j \in m..n
    BY <1>2
  <2>4. CASE Declares[calls[n].handler] = {} /\ UNCHANGED <<queue, collected>>
    <3>1. \A i \in (m + 1)..n : i \in (m + 1)..L \/ i = n
      BY <1>2
    <3>2. CountedTo(m, n)'
      BY <1>1, <2>3, <2>4, <2>m, <3>1, CountFrame, ZenonT(30) DEF CountedTo, Owed, Waiting, InQueue
    <3> QED
      BY <2>2, <2>m, <3>2
  <2>5. CASE queue[BotLock] = <<>> /\ collected' = Tracked(collected, calls[n]) /\ UNCHANGED queue
    <3>1. \A k : ~Waiting(k)
      BY <2>5 DEF Waiting, InQueue
    <3>2. \A i \in (m + 1)..(n - 1) : Declares[calls[i].handler] = {}
      BY <1>2, <2>3, <3>1 DEF CountedTo
    <3>3. m \in 0..(n - 1) /\ n \in n..Len(calls) /\ L \in (n - 1)..n
      BY <1>2
    <3>4. \A e \in Entry : Owed(collected[e], m, L, e)
      BY <2>3 DEF CountedTo
    <3>5. \A e \in Entry : Owed(Tracked(collected, calls[n])[e], n, n, e)
      BY <3>2, <3>3, <3>4, OwedNext
    <3>6. \A e \in Entry : Owed(collected[e], n, n, e)'
      BY <1>1, <2>5, <3>5, CountFrame DEF Owed
    <3>7. (n + 1)..n = {} /\ n \in 0..n
      BY <1>2
    <3>8. CountedTo(n, n)'
      BY <2>5, <3>1, <3>6, <3>7 DEF CountedTo, Waiting, InQueue
    <3> QED
      BY <2>2, <3>7, <3>8
  <2>6. CASE /\ queue[BotLock] # <<>> /\ ~Holds(queue, BotLock, Track(n))
             /\ queue' = Asked(queue, Track(n)) /\ UNCHANGED collected
    <3>1. Track(n) \in Task
      BY <1>2, TaskType
    <3>2. \A u : InQueue(queue', BotLock, u) <=> InQueue(queue, BotLock, u) \/ u = Track(n)
      BY <1>0, <1>4, <2>6, <3>1, LineGrows
    <3>3. \A k : Waiting(k)' <=> Waiting(k) \/ k = n
      <4>1. \A k : Track(k) = Track(n) => k = n
        BY TasksDiffer
      <4> QED
        BY <3>2, <4>1 DEF Waiting
    <3>4. \A i \in (m + 1)..n : i \in (m + 1)..L \/ i = n
      BY <1>2
    <3>5. \A i \in 1..m : i # n
      BY <1>2
    <3>6. \A e \in Entry : Owed(collected[e], m, n, e)'
      BY <1>1, <2>3, <2>6, <2>m, CountFrame, ZenonT(30) DEF CountedTo, Owed
    <3>7. CountedTo(m, n)'
      BY <1>1, <2>3, <3>3, <3>4, <3>5, <3>6 DEF CountedTo
    <3> QED
      BY <2>2, <2>m, <3>7
  <2> QED
    BY <1>1, <2>2, <2>4, <2>5, <2>6
<1> QED
  BY <1>2, <1>3, <1>6, <1>7 DEF Ahead

\* Who waits for the collection.
LEMMA WaitersTurned ==
  ASSUME TypeInv, NEW L, Queued(L)
  PROVE  /\ \A k : Waiting(k) => k \in 1..L
         /\ \A k : Waits(Pyrogram(k)) => FALSE
         /\ \A k : Waits(Track(k)) => Waiting(k)
<1>1. \A k, p, m : /\ Track(k) # Publish(p) /\ (Track(k) = Track(m) => k = m)
                   /\ Pyrogram(k) # Track(m) /\ Pyrogram(k) # Publish(p)
  BY TasksDiffer
<1>2. \A l \in Lock : l = BotLock \/ l \in Worker
  BY DEF Lock
<1>3. \A w \in Worker : \A t : ~InQueue(queue, w, t)
  BY WorkersAreFree
<1>4. \A k : ~InQueue(queue, BotLock, Pyrogram(k))
  BY <1>1 DEF Queued, InQueue
<1>5. \A k : Waiting(k) => k \in 1..L
  BY <1>1 DEF Queued, InQueue, Waiting
<1> QED
  BY <1>2, <1>3, <1>4, <1>5 DEF Waits, Waiting

\* What is released was not the last that waits.
LEMMA AheadAskBotLock ==
  ASSUME TypeInv, NEW L \in 0..Len(calls), Ahead(L), AskBotLock
  PROVE  Ahead(L)'
<1>0. Turned(L) /\ Queued(L)
  BY DEF Ahead
<1>1. PICK p \in Publisher : Head(ready) = Publish(p)
  BY FirstOfReady DEF AskBotLock
<1>2. /\ ready # <<>> /\ ready' = Tail(ready) /\ queue' = Asked(queue, Publish(p))
      /\ UNCHANGED <<calls, inside, groups, collected, life>>
  BY <1>1 DEF AskBotLock
<1>3. Publish(p) \in Task /\ queue \in Queues /\ Plan(Publish(p)) = <<BotLock>>
  BY <1>0, TaskType, WorkersAreFree, Plans
<1>4. /\ Plan(Publish(p))[1] = BotLock /\ DOMAIN Plan(Publish(p)) = {1}
      /\ 1 \in DOMAIN Plan(Publish(p)) /\ DOMAIN Plan(Publish(p)) \subseteq Nat \ {0}
      /\ \A i \in DOMAIN Plan(Publish(p)) : Plan(Publish(p))[i] = BotLock => i = 1
  BY <1>3
<1>5. queue' = [l \in Lock |-> IF l = BotLock /\ ~InQueue(queue, BotLock, Publish(p))
                               THEN Append(queue[l], Publish(p)) ELSE queue[l]]
  BY <1>2, <1>3, <1>4, AsksForCollection
<1>6. Turned(L)'
  BY <1>0, <1>1, <1>2, PublisherHasTurned
<1>7. /\ \A w \in Worker : queue'[w] = <<>>
      /\ \A u : InQueue(queue', BotLock, u) <=> InQueue(queue, BotLock, u) \/ u = Publish(p)
      /\ \A i \in DOMAIN queue[BotLock] :
           i \in DOMAIN queue'[BotLock] /\ queue'[BotLock][i] = queue[BotLock][i]
      /\ \A j \in DOMAIN queue'[BotLock] : j \in DOMAIN queue[BotLock]
                                           \/ queue'[BotLock][j] = Publish(p)
  BY <1>0, <1>3, <1>5, LineGrows
<1>8. \A k : Track(k) # Publish(p)
  BY TasksDiffer
<1>9. Queued(L)'
  <2>1. \A i \in DOMAIN queue'[BotLock] : \/ \E k \in 1..L : queue'[BotLock][i] = Track(k)
                                          \/ \E r \in Publisher : queue'[BotLock][i] = Publish(r)
    BY <1>0, <1>7 DEF Queued
  <2>2. InOrder(queue'[BotLock])
    BY <1>0, <1>7, <1>8 DEF Queued, InOrder
  <2> QED
    BY <1>0, <1>2, <1>7, <2>1, <2>2 DEF Queued
<1>10. \A k : Waiting(k)' <=> Waiting(k)
  BY <1>7, <1>8 DEF Waiting
<1>11. ASSUME life' # "stopped" PROVE Landing(L)' /\ (\E m \in 0..L : CountedTo(m, L))'
  <2>1. Landing(L) /\ \E m \in 0..L : CountedTo(m, L)
    BY <1>2, <1>11 DEF Ahead
  <2>2. Landing(L)'
    BY <1>2, <2>1, CountFrame DEF Landing
  <2>3. ASSUME NEW m \in 0..L, CountedTo(m, L) PROVE CountedTo(m, L)'
    BY <1>2, <1>10, <2>3, CountFrame DEF CountedTo, Owed
  <2> QED
    BY <2>1, <2>2, <2>3
<1> QED
  BY <1>6, <1>9, <1>11 DEF Ahead

\* A publisher that leaves is no bookkeeping task.
LEMMA AheadLeave ==
  ASSUME TypeInv, NEW L \in 0..Len(calls), Ahead(L), NEW p \in Publisher,
         queue' = Released(queue, Publish(p)),
         UNCHANGED <<calls, ready, inside, groups, collected, life>>
  PROVE  Ahead(L)'
<1>0. Turned(L) /\ Queued(L)
  BY DEF Ahead
<1>1. Publish(p) \in Task /\ \A k : Track(k) # Publish(p)
  BY TaskType, TasksDiffer
<1>2. /\ \A w \in Worker : queue'[w] = <<>>
      /\ \A u : u # Publish(p) => (InQueue(queue', BotLock, u) <=> InQueue(queue, BotLock, u))
      /\ \A i \in DOMAIN queue'[BotLock] : \E j \in DOMAIN queue[BotLock] :
           queue'[BotLock][i] = queue[BotLock][j]
      /\ InOrder(queue'[BotLock])
  BY <1>0, <1>1, LineShrinks
<1>3. Queued(L)'
  BY <1>0, <1>2 DEF Queued
<1>4. Turned(L)'
  BY <1>0 DEF Turned
<1>5. \A k : Waiting(k)' <=> Waiting(k)
  BY <1>1, <1>2 DEF Waiting
<1>6. ASSUME life' # "stopped" PROVE Landing(L)' /\ (\E m \in 0..L : CountedTo(m, L))'
  <2>1. Landing(L) /\ \E m \in 0..L : CountedTo(m, L)
    BY <1>6 DEF Ahead
  <2>2. Landing(L)'
    BY <2>1, CountFrame DEF Landing
  <2>3. ASSUME NEW m \in 0..L, CountedTo(m, L) PROVE CountedTo(m, L)'
    BY <1>5, <2>3, CountFrame DEF CountedTo, Owed
  <2> QED
    BY <2>1, <2>2, <2>3
<1> QED
  BY <1>3, <1>4, <1>6 DEF Ahead

\* The bookkeeping goes on with the next call.
LEMMA AheadTrackLands ==
  ASSUME TypeInv, History, FewRegistered, NEW L \in 0..Len(calls), Ahead(L), NEW n \in DOMAIN calls,
         TrackLands(n)
  PROVE  Ahead(L)'
<1>0. Turned(L) /\ Queued(L)
  BY DEF Ahead
<1>t. n \in 1..MaxCalls /\ Track(n) \in Task /\ queue \in Queues /\ queue[BotLock] \in Seq(Task)
      /\ Len(calls) \in Nat /\ BotLock \in Lock
  BY <1>0, CallType, TaskType, WorkersAreFree, LockType DEF TypeInv
<1>1. /\ collected' = Tracked(collected, calls[n]) /\ queue' = Released(queue, Track(n))
      /\ UNCHANGED <<calls, ready, inside, groups, life>>
      /\ Waits(Track(n)) /\ HoldsAll(Asked(queue, Track(n)), Track(n))
  BY DEF TrackLands, GotAll
<1>2. Waiting(n) /\ n \in 1..L
  BY <1>0, <1>1, WaitersTurned
<1>3. Holds(queue, BotLock, Track(n))
  <2>1. queue[BotLock] # <<>>
    BY <1>2 DEF Waiting, InQueue
  <2>2. Holds(queue, BotLock, Head(queue[BotLock]))
    BY <2>1 DEF Holds
  <2>3. 1 \in DOMAIN Plan(Track(n)) /\ Plan(Track(n))[1] = BotLock
    BY Plans DEF BotLock
  <2>4. Head(queue[BotLock]) = Track(n)
    BY <1>t, <1>1, <2>2, <2>3, TakesFromNobody
  <2> QED
    BY <2>1, <2>4 DEF Holds
<1>4. ASSUME NEW k, Waiting(k) PROVE k = n \/ n < k
  <2>1. PICK s \in Seq(Task) : s = queue[BotLock]
    BY <1>t
  <2>2. s # <<>> /\ Head(s) = Track(n) /\ InOrder(s) /\ \E i \in DOMAIN s : s[i] = Track(k)
    BY <1>0, <1>3, <1>4, <2>1 DEF Holds, Queued, Waiting, InQueue
  <2>3. 1 \in DOMAIN s /\ s[1] = Track(n) /\ DOMAIN s = 1..Len(s) /\ Len(s) \in Nat
    BY <2>2, HeadTailProperties, LenProperties, EmptySeq
  <2>4. PICK i \in DOMAIN s : s[i] = Track(k)
    BY <2>2
  <2>5. k \in 1..L
    BY <1>0, <1>4, WaitersTurned
  <2>6. CASE i = 1
    BY <2>3, <2>4, <2>6, TasksDiffer
  <2>7. CASE i # 1
    <3>1. 1 < i
      BY <2>3, <2>7
    <3> QED
      BY <1>2, <2>2, <2>3, <2>4, <2>5, <3>1 DEF InOrder
  <2> QED
    BY <2>6, <2>7
<1>5. /\ \A w \in Worker : queue'[w] = <<>>
      /\ \A u : u # Track(n) => (InQueue(queue', BotLock, u) <=> InQueue(queue, BotLock, u))
      /\ \A i \in DOMAIN queue'[BotLock] : \E j \in DOMAIN queue[BotLock] :
           queue'[BotLock][i] = queue[BotLock][j]
      /\ InOrder(queue'[BotLock])
      /\ ~InQueue(queue', BotLock, Track(n))
  BY <1>0, <1>t, <1>1, LineShrinks
<1>6. Queued(L)'
  BY <1>0, <1>1, <1>5 DEF Queued
<1>7. Turned(L)'
  BY <1>0, <1>1 DEF Turned
<1>8. \A k : Waiting(k)' <=> Waiting(k) /\ k # n
  <2>1. \A k : Track(k) = Track(n) => k = n
    BY TasksDiffer
  <2> QED
    BY <1>5, <2>1 DEF Waiting
<1>9. ASSUME life' # "stopped" PROVE Landing(L)' /\ (\E m \in 0..L : CountedTo(m, L))'
  <2>1. Landing(L) /\ \E m \in 0..L : CountedTo(m, L)
    BY <1>1, <1>9 DEF Ahead
  <2>2. Landing(L)'
    BY <1>1, <2>1, CountFrame DEF Landing
  <2>3. PICK m \in 0..L : CountedTo(m, L)
    BY <2>1
  <2>4. n \in (m + 1)..L /\ m \in 0..(n - 1) /\ L \in n..Len(calls) /\ L \in (L - 1)..L /\ n \in 0..L
    <3>1. ~(n \in 1..m)
      BY <1>2, <2>3 DEF CountedTo
    <3> QED
      BY <1>t, <1>2, <3>1
  <2>5. \A i \in (m + 1)..(n - 1) : Declares[calls[i].handler] = {}
    <3> SUFFICES ASSUME NEW i \in (m + 1)..(n - 1) PROVE Declares[calls[i].handler] = {}
      OBVIOUS
    <3>1. i \in (m + 1)..L /\ i # n /\ ~(n < i)
      BY <2>4
    <3>2. ~Waiting(i)
      BY <1>4, <3>1
    <3> QED
      BY <2>3, <3>1, <3>2 DEF CountedTo
  <2>6. \A e \in Entry : Owed(collected[e], m, L, e)
    BY <2>3 DEF CountedTo
  <2>7. \A e \in Entry : Owed(Tracked(collected, calls[n])[e], n, L, e)
    BY <2>4, <2>5, <2>6, OwedNext
  <2>8. \A e \in Entry : Owed(collected[e], n, L, e)'
    BY <1>1, <2>7, CountFrame DEF Owed
  <2>9. \A i \in (n + 1)..L : Declares[calls'[i].handler] # {} => Waiting(i)'
    <3>1. \A i \in (n + 1)..L : i \in (m + 1)..L /\ i # n
      BY <2>4
    <3> QED
      BY <1>1, <1>8, <2>3, <3>1 DEF CountedTo
  <2>10. \A i \in 1..n : ~Waiting(i)'
    <3>1. \A i \in 1..n : i = n \/ ~(n < i)
      BY <2>4
    <3> QED
      BY <1>4, <1>8, <3>1
  <2>11. CountedTo(n, L)'
    BY <2>8, <2>9, <2>10 DEF CountedTo
  <2> QED
    BY <2>2, <2>4, <2>11
<1> QED
  BY <1>6, <1>7, <1>9 DEF Ahead

LEMMA AheadSend ==
  ASSUME TypeInv, FewRegistered, NEW L \in 0..Len(calls), Ahead(L), NEW p \in Publisher, Send(p)
  PROVE  Ahead(L)'
<1>1. /\ collected' \in {collected, Pruned(collected, groups)}
      /\ UNCHANGED <<calls, ready, queue, inside, groups, life>>
  BY DEF Send
<1>2. Turned(L)' /\ Queued(L)'
  BY <1>1 DEF Ahead, Turned, Queued
<1>3. ASSUME life' # "stopped" PROVE Landing(L)' /\ (\E m \in 0..L : CountedTo(m, L))'
  <2>1. Landing(L) /\ \E m \in 0..L : CountedTo(m, L)
    BY <1>1, <1>3 DEF Ahead
  <2>2. Landing(L)'
    BY <1>1, <2>1, CountFrame DEF Landing
  <2>3. PICK m \in 0..L : CountedTo(m, L)
    BY <2>1
  <2>4. \A e \in Entry : Owed(collected'[e], m, L, e)
    BY <1>1, <2>1, <2>3, OwedPruned DEF CountedTo
  <2>5. \A e \in Entry : Owed(collected[e], m, L, e)'
    BY <1>1, <2>4, CountFrame DEF Owed
  <2>6. CountedTo(m, L)'
    BY <1>1, <2>3, <2>5 DEF CountedTo, Waiting, InQueue
  <2> QED
    BY <2>2, <2>6
<1> QED
  BY <1>2, <1>3 DEF Ahead

\* A worker is never in the way.
LEMMA NobodyGoesOn ==
  ASSUME Plain, TypeInv, NEW L, Queued(L)
  PROVE  /\ \A n \in DOMAIN calls : /\ ~GoOn(Pyrogram(n)) /\ ~PyrogramLands(n)
                                    /\ ~GoOn(Track(n)) /\ ~TrackCancelled(n)
         /\ \A w \in Worker : ~Handle(w) /\ ~EndUpdate(w) /\ ~TakeUpdate(w)
<1>1. \A n : ~Waits(Pyrogram(n))
  BY WaitersTurned
<1>2. ASSUME NEW n \in DOMAIN calls, GoOn(Track(n)) PROVE FALSE
  <2>1. Waiting(n) /\ Asked(queue, Track(n)) # queue /\ ~HoldsAll(Asked(queue, Track(n)), Track(n))
    BY <1>2, WaitersTurned DEF GoOn, GotAll
  <2>2. n \in 1..MaxCalls /\ queue \in Queues /\ Track(n) \in Task
    BY CallType, WorkersAreFree, TaskType DEF TypeInv
  <2>3. queue[BotLock] # <<>> /\ ~Holds(queue, BotLock, Track(n))
    BY <2>1, <2>2, WorkersAreFree
  <2>4. Plan(Track(n)) = [i \in 1..(Workers + 1) |-> i - 1]
    BY Plans
  <2>5. /\ Plan(Track(n))[1] = BotLock /\ 1 \in DOMAIN Plan(Track(n))
        /\ DOMAIN Plan(Track(n)) \subseteq Nat \ {0}
        /\ \A i \in DOMAIN Plan(Track(n)) : Plan(Track(n))[i] = BotLock => i = 1
    BY <2>4 DEF BotLock
  <2>6. Asked(queue, Track(n)) = [l \in Lock |-> IF l = BotLock /\ ~InQueue(queue, BotLock, Track(n))
                                                 THEN Append(queue[l], Track(n)) ELSE queue[l]]
    BY <2>2, <2>3, <2>5, AsksForCollection
  <2>7. Asked(queue, Track(n)) = queue
    BY <2>1, <2>2, <2>6 DEF Waiting, Queues
  <2> QED
    BY <2>1, <2>7
<1>3. \A w \in Worker : queue[w] = <<>> /\ inside = {}
  BY DEF Queued
<1> QED
  BY <1>1, <1>2, <1>3
     DEF GoOn, PyrogramLands, GotAll, TrackCancelled, Handle, Holds, EndUpdate, TakeUpdate, Plain

LEMMA BookStep == ASSUME Plain PROVE TypeInv /\ TypeInv' /\ BookInv /\ [Next]_vars => BookInv'
<1> SUFFICES ASSUME TypeInv, TypeInv', BookInv, [Next]_vars PROVE BookInv'
  OBVIOUS
<1>1. History' /\ FewRegistered'
  BY HistoryStep DEF BookInv, Plain
<1>2. PICK L \in 0..Len(calls) : Ahead(L)
  BY DEF BookInv
<1>3. Turned(L) /\ Queued(L) /\ History /\ FewRegistered
  BY <1>2 DEF Ahead, BookInv
<1>4. ASSUME Ahead(L)' PROVE \E n \in 0..Len(calls') : Ahead(n)'
  <2>1. Len(calls) \in Nat /\ Len(calls') \in Nat /\ Len(calls) <= Len(calls')
    <3>1. Len(calls) \in Nat
      BY CallType DEF TypeInv
    <3>2. CASE calls' = calls
      BY <3>1, <3>2
    <3>3. CASE \E call \in Calls : Call(call)
      BY <3>1, <3>3, CallAppends
    <3> QED
      BY <3>2, <3>3 DEF Next, LoopStep, FirstTurn, AskBotLock, vars, pubVars, GoOn,
         PyrogramLands, TrackLands, TrackCancelled, Handle, EndUpdate, TakeUpdate, Deliver, Stop,
         Stopped, Send, Finish, Fail, Push, Start
  <2> QED
    BY <1>4, <2>1
<1>5. CASE UNCHANGED vars \/ \E p \in Publisher : Deliver(p)
  <2>1. UNCHANGED <<calls, ready, queue, inside, groups, collected, life>>
    BY <1>5 DEF vars, Deliver
  <2>2. Turned(L)'
    BY <1>3, <2>1 DEF Turned
  <2> QED
    BY <1>1, <1>2, <1>4, <2>1, <2>2, SameBooks DEF BookInv
<1>6. CASE FirstTurn
  <2>1. calls' = calls /\ \E n \in 0..Len(calls) : Ahead(n)'
    BY <1>2, <1>3, <1>6, AheadFirstTurn DEF FirstTurn
  <2> QED
    BY <1>1, <2>1 DEF BookInv
<1>7. CASE AskBotLock
  BY <1>1, <1>2, <1>4, <1>7, AheadAskBotLock DEF BookInv
<1>8. ASSUME NEW n \in DOMAIN calls, TrackLands(n) PROVE BookInv'
  BY <1>1, <1>2, <1>3, <1>4, <1>8, AheadTrackLands DEF BookInv
<1>9. ASSUME NEW p \in Publisher, Send(p) PROVE BookInv'
  BY <1>1, <1>2, <1>3, <1>4, <1>9, AheadSend DEF BookInv
<1>10. ASSUME NEW p \in Publisher, Finish(p) \/ Fail(p) PROVE BookInv'
  <2>1. /\ queue' = Released(queue, Publish(p))
        /\ UNCHANGED <<calls, ready, inside, groups, collected, life>>
    BY <1>10 DEF Finish, Fail, Leave
  <2> QED
    BY <1>1, <1>2, <1>4, <2>1, AheadLeave DEF BookInv
<1>11. ASSUME NEW call \in Calls, Call(call) PROVE BookInv'
  BY <1>1, <1>2, <1>4, <1>11, AheadCall DEF BookInv
<1>12. ASSUME NEW p \in Publisher, NEW w, Enter(p, w),
              UNCHANGED <<calls, queue, inside, groups, collected>>,
              life' = life \/ (life = "off" /\ life' = "on")
       PROVE  BookInv'
  <2>1. Turned(L)'
    BY <1>3, <1>12, PublisherIsReady DEF Enter
  <2> QED
    BY <1>1, <1>2, <1>4, <1>12, <2>1, SameBooks DEF BookInv
<1>13. ASSUME NEW p \in Pushes, Push(p) PROVE BookInv'
  <2>1. p \in Publisher /\ UNCHANGED <<calls, queue, inside, groups, collected, life>>
        /\ \E w : Enter(p, w)
    BY <1>13 DEF Push, Publisher
  <2> QED
    BY <1>12, <2>1
<1>14. CASE Start
  BY <1>12, <1>14 DEF Start, Publisher
<1>15. CASE Stop
  <2>1. CASE Enter("stop", 0)
    BY <1>12, <1>15, <2>1 DEF Stop, Publisher
  <2>2. CASE ready' = ready
    <3>1. UNCHANGED <<calls, queue, inside, groups, collected, life>>
      BY <1>15 DEF Stop
    <3>2. Turned(L)'
      BY <1>3, <2>2, <3>1 DEF Turned
    <3> QED
      BY <1>1, <1>2, <1>4, <3>1, <3>2, SameBooks DEF BookInv
  <2> QED
    BY <1>15, <2>1, <2>2 DEF Stop
<1>16. CASE Stopped
  <2>1. life' = "stopped" /\ UNCHANGED <<calls, ready, queue, inside>>
    BY <1>16 DEF Stopped
  <2>2. Turned(L)' /\ Queued(L)'
    BY <1>3, <2>1 DEF Turned, Queued
  <2> QED
    BY <1>1, <1>4, <2>1, <2>2 DEF Ahead, BookInv
<1> QED
  BY <1>3, <1>5, <1>6, <1>7, <1>8, <1>9, <1>10, <1>11, <1>13, <1>14, <1>15, <1>16, NobodyGoesOn
     DEF Next, LoopStep

LEMMA InitBooks == Init => BookInv
<1> SUFFICES ASSUME Init PROVE BookInv
  OBVIOUS
<1>1. /\ calls = <<>> /\ ready = <<>> /\ \A l \in Lock : queue[l] = <<>>
      /\ inside = {} /\ (\A g \in Group : groups[g] = {}) /\ (\A e \in Entry : collected[e] = 0)
  BY DEF Init
<1>2. Len(calls) = 0 /\ DOMAIN calls = {} /\ DOMAIN ready = {} /\ 1..0 = {} /\ 0 \in 0..0
  BY <1>1
<1>3. \A h, g : ~Added(0, h, g)
  BY <1>2 DEF Added
<1>4. \A e : Registrants(0, e) = {}
  BY <1>3 DEF Registrants
<1>5. FewRegistered
  <2>1. \A n \in 0..Len(calls) : n = 0
    BY <1>2
  <2> QED
    BY <1>4, <2>1, FS_EmptySet DEF FewRegistered
<1>6. \A e : Count(0, e) = 0
  BY <1>4, FS_EmptySet DEF Count
<1>7. Turned(0) /\ Queued(0)
  BY <1>1, <1>2, LockType DEF Turned, Queued, InOrder
<1>8. Landing(0)
  BY <1>1, <1>3 DEF Landing
<1>9. CountedTo(0, 0)
  <2>1. (0 + 1)..0 = {}
    OBVIOUS
  <2>2. \A e \in Entry : Owed(collected[e], 0, 0, e)
    <3> SUFFICES ASSUME NEW e \in Entry PROVE collected[e] = Count(0, e)
      BY DEF Owed
    <3>1. collected[e] = 0
      BY <1>1
    <3>2. Count(0, e) = 0
      BY <1>6
    <3> QED
      BY <3>1, <3>2
  <2> QED
    BY <1>2, <2>1, <2>2 DEF CountedTo
<1> QED
  BY <1>2, <1>5, <1>7, <1>8, <1>9 DEF BookInv, Ahead, History

LEMMA Books == ASSUME Plain PROVE Spec => []BookInv
<1>1. Spec => [](TypeInv /\ LockInv)
  BY Locking
<1>2. TypeInv /\ TypeInv' /\ BookInv /\ [Next]_vars => BookInv'
  BY BookStep
<1> QED
  BY <1>1, <1>2, InitBooks, PTL DEF Spec

\* Nothing is owed when no bookkeeping task is under way.
LEMMA QuietIsCounted ==
  ASSUME TypeInv, BookInv, Quiet, life # "stopped"
  PROVE  {e \in Entry : collected[e] > 0} = Declared(groups)
<1>1. PICK L \in 0..Len(calls) : Ahead(L)
  BY DEF BookInv
<1>2. /\ Turned(L) /\ Queued(L) /\ Landing(L) /\ FewRegistered
      /\ \E m \in 0..L : CountedTo(m, L)
  BY <1>1 DEF Ahead, BookInv
<1>3. Len(calls) \in Nat /\ DOMAIN calls = 1..Len(calls)
  BY CallType DEF TypeInv
<1>4. \A n \in DOMAIN calls : ~Waiting(n)
  <2>1. BotLock \in Lock
    BY LockType
  <2> QED
    BY <2>1 DEF Quiet, Waits, Waiting
<1>5. \A n \in 1..L : ~Waiting(n)
  BY <1>3, <1>4
<1> QED
  BY <1>2, <1>5, OwedNothing

\* Once the registrations have landed, the commands collected are those of the
\* registered handlers, though publishers prune the collection meanwhile and
\* the bookkeeping comes late, as long as no handler holds up the registration
\* (client.py:560).
THEOREM Collected == ASSUME Plain PROVE Spec => []CollectedIsDeclared
<1>1. TypeInv /\ BookInv => CollectedIsDeclared
  BY QuietIsCounted DEF CollectedIsDeclared
<1> QED
  BY <1>1, Locking, Books, PTL
-----------------------------------------------------------------------------
(* What a push has published *)

\* While it sends, what a publisher has not yet sent of the collection is
\* still to be sent.
SendingInv ==
  \A p \in Publisher \ {"stop"} : pub[p] = "sending" =>
    /\ \A r \in outbox[p] : r[2] = CommandsAt(collected, r[1])
    /\ \A k \in Key : CommandsAt(collected, k) # {} =>
         <<k, CommandsAt(collected, k)>> \in outbox[p] \/ published[k] = CommandsAt(collected, k)

\* Nobody else sends anything meanwhile.
LEMMA SendsAlone ==
  ASSUME TypeInv, LockInv, NEW p \in Publisher, pub[p] = "sending", NEW r \in Publisher, r # p
  PROVE  pub[r] # "sending" /\ outbox[r] = {} /\ ~Holds(queue, BotLock, Publish(r))
<1>1. Holds(queue, BotLock, Publish(p))
  BY DEF LockInv
<1>2. Publish(r) # Publish(p)
  BY TasksDiffer
<1> QED
  BY <1>1, <1>2 DEF LockInv, Holds

LEMMA SendingStep ==
  ASSUME "stop" \notin Env
  PROVE  TypeInv /\ LockInv /\ Unstopped /\ SendingInv /\ [Next]_vars => SendingInv'
<1> SUFFICES ASSUME TypeInv, LockInv, Unstopped, SendingInv, [Next]_vars,
                    NEW p \in Publisher \ {"stop"}, pub'[p] = "sending"
             PROVE  /\ \A r \in outbox'[p] : r[2] = CommandsAt(collected', r[1])
                    /\ \A k \in Key : CommandsAt(collected', k) # {} =>
                         \/ <<k, CommandsAt(collected', k)>> \in outbox'[p]
                         \/ published'[k] = CommandsAt(collected', k)
  BY DEF SendingInv
<1>t. /\ outbox \in [Publisher -> SUBSET (Key \X SUBSET Command)]
      /\ published \in [Key -> SUBSET Command]
      /\ pub \in [Publisher -> {"none", "asking", "sending", "done", "failed"}]
  BY DEF TypeInv, TypeOK
<1>1. CASE Send(p)
  <2>1. collected' = Pruned(collected, groups) /\ outbox'[p] = Requests(p)
    BY <1>1, <1>t DEF Send
  <2>2. Requests(p) = {<<k, CommandsAt(collected', k)>> :
                         k \in {k \in Key : CommandsAt(collected', k) # {}}}
    BY <2>1 DEF Requests
  <2> QED
    BY <2>1, <2>2
<1>2. CASE pub[p] = "sending"
  <2>1. collected' = collected
    <3>1. ~Stopped
      BY DEF Unstopped, Stopped
    <3> QED
      BY <1>2, <3>1, CollectedStays
  <2>2. /\ \A r \in outbox[p] : r[2] = CommandsAt(collected, r[1])
        /\ \A k \in Key : CommandsAt(collected, k) # {} =>
             \/ <<k, CommandsAt(collected, k)>> \in outbox[p]
             \/ published[k] = CommandsAt(collected, k)
    BY <1>2 DEF SendingInv
  <2>3. CASE Deliver(p)
    <3>1. PICK r \in outbox[p] : /\ published' = [published EXCEPT ![r[1]] = r[2]]
                                 /\ outbox' = [outbox EXCEPT ![p] = @ \ {r}]
      BY <2>3 DEF Deliver
    <3>2. outbox'[p] = outbox[p] \ {r}
      BY <1>t, <3>1
    <3>3. r[2] = CommandsAt(collected, r[1]) /\ r[1] \in Key
      BY <1>t, <2>2
    <3>4. \A k \in Key : published'[k] = IF k = r[1] THEN r[2] ELSE published[k]
      BY <1>t, <3>1
    <3> QED
      BY <2>1, <2>2, <3>2, <3>3, <3>4
  <2>4. CASE outbox'[p] = outbox[p] /\ published' = published
    BY <2>1, <2>2, <2>4
  <2>5. ASSUME NEW r \in Publisher, r # p, Send(r) \/ Deliver(r) \/ Fail(r) \/ Finish(r)
        PROVE  FALSE
    BY <1>2, <2>5, SendsAlone DEF Send, Deliver, Fail, Finish
  <2>6. CASE Send(p) \/ Fail(p)
    BY <1>1, <2>6, <1>t, <1>2 DEF Fail, Leave
  <2> QED
    BY <2>3, <2>4, <2>5, <2>6 DEF Next, LoopStep, FirstTurn, AskBotLock, vars, pubVars, Call,
       GoOn, PyrogramLands, TrackLands, TrackCancelled, Handle, EndUpdate, TakeUpdate, Stop,
       Stopped, Finish, Push, Start
<1> QED
  BY <1>1, <1>2, SendsWhileHolding

\* A push that succeeds while no registration is under way has published the
\* commands of every registered handler, in a client that is not stopped and
\* whose handlers do not hold up the registrations (client.py:562).
THEOREM Published ==
  ASSUME Plain, "stop" \notin Env PROVE Spec => PushPublishesAll
<1>1. ASSUME TypeInv, LockInv, Unstopped, BookInv, SendingInv, [Next]_vars,
             NEW p \in Publisher \ {"stop"}, pub[p] = "sending", pub'[p] = "done", Quiet,
             NEW e \in Declared(groups)
      PROVE  e[2] \in published[e[1]]
  <2>t. /\ pub \in [Publisher -> {"none", "asking", "sending", "done", "failed"}]
        /\ groups \in [Group -> SUBSET Handler]
    BY <1>1 DEF TypeInv, TypeOK
  <2>1. Finish(p)
    <3>1. ASSUME NEW r \in Publisher, r # p, Send(r) \/ Finish(r) \/ Fail(r) PROVE FALSE
      BY <1>1, <3>1, SendsAlone DEF Send, Finish, Fail
    <3>2. ASSUME NEW r \in Publisher, NEW w, Enter(r, w) PROVE FALSE
      BY <1>1, <2>t, <3>2 DEF Enter
    <3>3. ~Send(p) /\ ~Fail(p)
      BY <1>1, <2>t DEF Send, Fail, Leave
    <3>4. ASSUME NEW r \in Pushes, Push(r) PROVE FALSE
      BY <3>2, <3>4 DEF Push, Publisher
    <3>5. ~Start
      BY <3>2 DEF Start, Publisher
    <3>6. ~Stop
      BY <1>1 DEF Stop
    <3> QED
      BY <1>1, <3>1, <3>3, <3>4, <3>5, <3>6 DEF Next, LoopStep, FirstTurn, AskBotLock, vars,
         pubVars, Call, GoOn, PyrogramLands, TrackLands, TrackCancelled, Handle, EndUpdate,
         TakeUpdate, Deliver, Stopped
  <2>2. outbox[p] = {}
    BY <2>1 DEF Finish
  <2>3. e \in Entry /\ collected[e] > 0
    BY <1>1, QuietIsCounted DEF Unstopped
  <2>4. PICK k \in Key, c \in Command : e = <<k, c>>
    BY <2>3 DEF Entry
  <2>5. c \in CommandsAt(collected, k)
    BY <2>3, <2>4 DEF CommandsAt
  <2>6. published[k] = CommandsAt(collected, k)
    BY <1>1, <2>2, <2>5 DEF SendingInv
  <2> QED
    BY <2>4, <2>5, <2>6
<1>2. TypeInv /\ LockInv /\ Unstopped /\ BookInv /\ SendingInv /\ [Next]_vars =>
        [\A p \in Publisher \ {"stop"} :
           pub[p] = "sending" /\ pub'[p] = "done" /\ Quiet
             => \A e \in Declared(groups) : e[2] \in published[e[1]]]_vars
  BY <1>1
<1>3. Init => SendingInv
  BY DEF Init, SendingInv
<1>4. TypeInv /\ LockInv /\ Unstopped /\ SendingInv /\ [Next]_vars => SendingInv'
  BY SendingStep
<1> QED
  BY <1>2, <1>3, <1>4, Locking, NeverStopped, Books, PTL DEF Spec, PushPublishesAll
===============================================================================
