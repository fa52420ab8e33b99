-------------------------- MODULE Dispatcher_proofs --------------------------
(* Proofs about Dispatcher, for every value of its constants: that one        *)
(* session takes an update, that a session that is down has left nothing      *)
(* behind, and that the contracts of coordination and listeners are kept.     *)
(* The pool comes first: a sentinel is queued for each worker that has to     *)
(* end, so that stop() waits for what the workers still have.                 *)
EXTENDS Dispatcher, SequenceTheorems, FiniteSetTheorems, TLAPS

USE ConstantsAssumption
-----------------------------------------------------------------------------
(* The queues and the workers *)

Item == Delivery \cup {Sentinel}

PoolTyped ==
  /\ life \in [Session -> {"down", "up", "stopping", "draining"}]
  /\ queue \in [Session -> Seq(Item)]
  /\ ended \in [Session -> Nat]
  /\ pc \in [Delivery -> Label]

\* What is queued waits to be taken, once.
Queued ==
  \A s \in Session :
    /\ \A i \in DOMAIN queue[s] : queue[s][i] # Sentinel =>
         pc[queue[s][i]] = "queued" /\ At[queue[s][i]] = s
    /\ \A i, j \in DOMAIN queue[s] : queue[s][i] = queue[s][j] /\ queue[s][i] # Sentinel => i = j

BusyAt(s) == {d \in Delivery : At[d] = s /\ Busy(d)}
SentinelsOf(q) == {i \in DOMAIN q : q[i] = Sentinel}

\* The workers of a session that have ended and those that have an update are
\* no more than it has, and a sentinel is there for each that has to end.
Staffed(s) ==
  /\ IsFiniteSet(BusyAt(s)) /\ ended[s] + Cardinality(BusyAt(s)) <= Workers
  /\ life[s] = "down" => BusyAt(s) = {}
  /\ life[s] \in {"up", "stopping"} => ended[s] = 0
  /\ life[s] # "draining" => SentinelsOf(queue[s]) = {}
  /\ life[s] = "draining" => /\ IsFiniteSet(SentinelsOf(queue[s]))
                             /\ ended[s] + Cardinality(SentinelsOf(queue[s])) = Workers

PoolInv == PoolTyped /\ Queued /\ \A s \in Session : Staffed(s)

\* Of a sequence that grows or loses its first.
LEMMA SentinelAppended ==
  ASSUME NEW q \in Seq(Item), NEW d \in Delivery
  PROVE  SentinelsOf(Append(q, d)) = SentinelsOf(q)
<1>1. d # Sentinel
  BY DEF Sentinel
<1>2. /\ DOMAIN Append(q, d) = 1..(Len(q) + 1) /\ DOMAIN q = 1..Len(q) /\ Len(q) \in Nat
      /\ Append(q, d)[Len(q) + 1] = d /\ \A i \in 1..Len(q) : Append(q, d)[i] = q[i]
  BY AppendProperties, LenProperties DEF Item
<1> QED
  BY <1>1, <1>2 DEF SentinelsOf

LEMMA SentinelsAdded ==
  ASSUME NEW q \in Seq(Item), SentinelsOf(q) = {}
  PROVE  /\ q \o [i \in 1..Workers |-> Sentinel] \in Seq(Item)
         /\ IsFiniteSet(SentinelsOf(q \o [i \in 1..Workers |-> Sentinel]))
         /\ Cardinality(SentinelsOf(q \o [i \in 1..Workers |-> Sentinel])) = Workers
<1> DEFINE new == [i \in 1..Workers |-> Sentinel]
<1>1. new \in Seq(Item) /\ Len(new) = Workers
  <2>1. \A i \in 1..Workers : Sentinel \in Item
    BY DEF Item
  <2> QED
    BY <2>1, IsASeq
<1>2. /\ q \o new \in Seq(Item) /\ DOMAIN (q \o new) = 1..(Len(q) + Workers) /\ Len(q) \in Nat
      /\ \A i \in 1..(Len(q) + Workers) : (q \o new)[i] = IF i <= Len(q) THEN q[i] ELSE Sentinel
  BY <1>1, ConcatProperties, LenProperties
<1>3. \A i \in 1..Len(q) : q[i] # Sentinel
  BY LenProperties DEF SentinelsOf
<1>4. SentinelsOf(q \o new) = (Len(q) + 1)..(Len(q) + Workers)
  BY <1>2, <1>3 DEF SentinelsOf
<1>5. /\ IsFiniteSet((Len(q) + 1)..(Len(q) + Workers))
      /\ Cardinality((Len(q) + 1)..(Len(q) + Workers)) = Workers
  <2>1. PICK n \in Nat : n = Len(q)
    BY <1>2
  <2>2. n + 1 \in Int /\ n + Workers \in Int /\ ~(n + 1 > n + Workers)
    BY <2>1
  <2>3. /\ IsFiniteSet((n + 1)..(n + Workers))
        /\ Cardinality((n + 1)..(n + Workers)) = n + Workers - (n + 1) + 1
    BY <2>2, FS_Interval
  <2> QED
    BY <2>1, <2>3
<1> QED
  BY <1>2, <1>4, <1>5

\* The first item gone, the others are one place nearer.
LEMMA FirstGone ==
  ASSUME NEW q \in Seq(Item), q # <<>>
  PROVE  /\ Head(q) \in Item /\ Head(q) = q[1] /\ Tail(q) \in Seq(Item)
         /\ \A i \in DOMAIN Tail(q) : i + 1 \in DOMAIN q /\ Tail(q)[i] = q[i + 1] /\ i \in Nat \ {0}
         /\ \A i \in DOMAIN q : i # 1 => i - 1 \in DOMAIN Tail(q) /\ Tail(q)[i - 1] = q[i]
         /\ 1 \in DOMAIN q /\ DOMAIN q \subseteq Nat \ {0}
  BY HeadTailProperties, LenProperties, EmptySeq

LEMMA SentinelTaken ==
  ASSUME NEW q \in Seq(Item), q # <<>>
  PROVE  /\ Head(q) # Sentinel /\ SentinelsOf(q) = {} => SentinelsOf(Tail(q)) = {}
         /\ IsFiniteSet(SentinelsOf(q)) =>
              /\ IsFiniteSet(SentinelsOf(Tail(q)))
              /\ Cardinality(SentinelsOf(q)) =
                   Cardinality(SentinelsOf(Tail(q))) + (IF Head(q) = Sentinel THEN 1 ELSE 0)
<1> DEFINE S == SentinelsOf(q) \ {1}
           T == SentinelsOf(Tail(q))
<1>f. /\ \A i \in DOMAIN Tail(q) : i + 1 \in DOMAIN q /\ Tail(q)[i] = q[i + 1] /\ i \in Nat \ {0}
      /\ \A i \in DOMAIN q : i # 1 => i - 1 \in DOMAIN Tail(q) /\ Tail(q)[i - 1] = q[i]
      /\ 1 \in DOMAIN q /\ DOMAIN q \subseteq Nat \ {0} /\ Head(q) = q[1]
  BY FirstGone
<1>1. ExistsBijection(S, T)
  <2> DEFINE f == [i \in S |-> i - 1]
  <2>1. f \in [S -> T]
    BY <1>f DEF SentinelsOf
  <2>2. \A i, j \in S : f[i] = f[j] => i = j
    BY <1>f DEF SentinelsOf
  <2>3. \A t \in T : \E i \in S : f[i] = t
    <3> SUFFICES ASSUME NEW t \in T PROVE \E i \in S : f[i] = t
      OBVIOUS
    <3>1. t + 1 \in S /\ t \in Nat
      BY <1>f DEF SentinelsOf
    <3>2. f[t + 1] = t
      BY <3>1
    <3> QED
      BY <3>1, <3>2
  <2>4. f \in Bijection(S, T)
    BY <2>1, <2>2, <2>3 DEF Bijection, Injection, Surjection, IsInjective
  <2> QED
    BY <2>4 DEF ExistsBijection
<1>2. Head(q) = Sentinel <=> 1 \in SentinelsOf(q)
  BY <1>f DEF SentinelsOf
<1>3. ASSUME IsFiniteSet(SentinelsOf(q))
      PROVE  /\ IsFiniteSet(T)
             /\ Cardinality(SentinelsOf(q)) = Cardinality(T) + (IF Head(q) = Sentinel THEN 1 ELSE 0)
  <2>1. /\ IsFiniteSet(S) /\ Cardinality(S) \in Nat
        /\ Cardinality(S) = IF 1 \in SentinelsOf(q) THEN Cardinality(SentinelsOf(q)) - 1
                                                    ELSE Cardinality(SentinelsOf(q))
    BY <1>3, FS_RemoveElement, FS_CardinalityType
  <2>2. Cardinality(SentinelsOf(q)) \in Nat
    BY <1>3, FS_CardinalityType
  <2>3. IsFiniteSet(T) /\ Cardinality(T) = Cardinality(S)
    BY <1>1, <2>1, FS_Bijection
  <2> QED
    BY <1>2, <2>1, <2>2, <2>3
<1>4. ASSUME SentinelsOf(q) = {} PROVE T = {}
  BY <1>4, <1>f DEF SentinelsOf
<1> QED
  BY <1>3, <1>4

LEMMA FirstQueued ==
  ASSUME PoolInv, NEW s \in Session, queue[s] # <<>>, Head(queue[s]) # Sentinel
  PROVE  Head(queue[s]) \in Delivery /\ pc[Head(queue[s])] = "queued" /\ At[Head(queue[s])] = s
<1>1. PICK q \in Seq(Item) : q = queue[s]
  BY DEF PoolInv, PoolTyped
<1>2. Head(q) \in Item /\ Head(q) = q[1] /\ 1 \in DOMAIN q
  BY <1>1, FirstGone
<1> QED
  BY <1>1, <1>2 DEF PoolInv, Queued, Item

\* A busy delivery that goes on or ends takes no worker.
LEMMA BusyGoesOn ==
  ASSUME PoolInv, UNCHANGED <<life, queue, ended>>, NEW d \in Delivery, Busy(d), NEW label \in Label,
         pc' = [pc EXCEPT ![d] = label], label \notin {"away", "queued"}
  PROVE  PoolInv'
<1>1. PoolTyped'
  BY DEF PoolInv, PoolTyped
<1>2. Queued'
  BY DEF PoolInv, PoolTyped, Queued, Busy
<1>3. ASSUME NEW s \in Session PROVE Staffed(s)'
  <2>1. Staffed(s) /\ ended[s] \in Nat
    BY DEF PoolInv, PoolTyped
  <2>2. BusyAt(s)' \subseteq BusyAt(s)
    BY DEF BusyAt, Busy, PoolInv, PoolTyped
  <2>3. /\ IsFiniteSet(BusyAt(s)') /\ Cardinality(BusyAt(s)') <= Cardinality(BusyAt(s))
        /\ Cardinality(BusyAt(s)') \in Nat /\ Cardinality(BusyAt(s)) \in Nat
    BY <2>1, <2>2, FS_Subset, FS_CardinalityType DEF Staffed
  <2>4. ended'[s] + Cardinality(BusyAt(s)') <= Workers
    BY <2>1, <2>3 DEF Staffed
  <2>5. SentinelsOf(queue'[s]) = SentinelsOf(queue[s])
    OBVIOUS
  <2> QED
    BY <2>1, <2>2, <2>3, <2>4, <2>5 DEF Staffed
<1> QED
  BY <1>1, <1>2, <1>3 DEF PoolInv

LEMMA PoolFrame == ASSUME PoolInv, UNCHANGED <<life, queue, ended, pc>> PROVE PoolInv'
<1>1. PoolTyped' /\ Queued'
  BY DEF PoolInv, PoolTyped, Queued
<1>2. ASSUME NEW s \in Session PROVE Staffed(s)'
  <2>1. Staffed(s)
    BY DEF PoolInv
  <2>2. BusyAt(s)' = BusyAt(s) /\ SentinelsOf(queue[s])' = SentinelsOf(queue[s])
    BY DEF BusyAt, Busy, SentinelsOf
  <2> QED
    BY <2>1, <2>2 DEF Staffed
<1> QED
  BY <1>1, <1>2 DEF PoolInv

LEMMA PoolStarts ==
  ASSUME PoolInv, NEW s \in Session, Start(s)
  PROVE  PoolInv'
<1>1. /\ life[s] = "down" /\ life' = [life EXCEPT ![s] = "up"] /\ ended' = [ended EXCEPT ![s] = 0]
      /\ UNCHANGED <<queue, pc>>
  BY DEF Start, workVars
<1>2. PoolTyped' /\ Queued'
  BY <1>1 DEF PoolInv, PoolTyped, Queued
<1>3. \A z : BusyAt(z)' = BusyAt(z)
  BY <1>1 DEF BusyAt, Busy
<1>4. ASSUME NEW z \in Session, z # s PROVE Staffed(z)'
  <2>1. life'[z] = life[z] /\ ended'[z] = ended[z] /\ SentinelsOf(queue[z])' = SentinelsOf(queue[z])
    BY <1>1, <1>4 DEF PoolInv, PoolTyped, SentinelsOf
  <2>2. Staffed(z)
    BY DEF PoolInv
  <2> QED
    BY <1>3, <2>1, <2>2 DEF Staffed
<1>5. Staffed(s)'
  <2>1. BusyAt(s) = {} /\ SentinelsOf(queue[s]) = {} /\ life'[s] = "up" /\ ended'[s] = 0
    BY <1>1 DEF PoolInv, PoolTyped, Staffed
  <2>2. IsFiniteSet({}) /\ Cardinality({}) = 0
    BY FS_EmptySet
  <2>3. SentinelsOf(queue[s])' = {}
    BY <1>1, <2>1 DEF SentinelsOf
  <2>4. BusyAt(s)' = {}
    BY <1>3, <2>1
  <2>5. IsFiniteSet(BusyAt(s)') /\ ended'[s] + Cardinality(BusyAt(s)') <= Workers
    BY <2>1, <2>2, <2>4
  <2> QED
    BY <2>1, <2>3, <2>4, <2>5 DEF Staffed
<1> QED
  BY <1>2, <1>4, <1>5 DEF PoolInv

LEMMA PoolStops ==
  ASSUME PoolInv, NEW s \in Session, Stop(s)
  PROVE  PoolInv'
<1>1. /\ life[s] = "up" /\ life' = [life EXCEPT ![s] = "stopping"]
      /\ UNCHANGED <<queue, ended, pc>>
  BY DEF Stop, workVars, poolVars
<1>2. PoolTyped' /\ Queued'
  BY <1>1 DEF PoolInv, PoolTyped, Queued
<1>3. ASSUME NEW z \in Session PROVE Staffed(z)'
  <2>1. BusyAt(z)' = BusyAt(z) /\ SentinelsOf(queue[z])' = SentinelsOf(queue[z])
        /\ ended'[z] = ended[z] /\ Staffed(z)
    BY <1>1 DEF BusyAt, Busy, SentinelsOf, PoolInv
  <2>2. life'[z] = life[z] \/ (life[z] = "up" /\ life'[z] = "stopping")
    BY <1>1 DEF PoolInv, PoolTyped
  <2> QED
    BY <2>1, <2>2 DEF Staffed
<1> QED
  BY <1>2, <1>3 DEF PoolInv

LEMMA PoolDrains ==
  ASSUME PoolInv, NEW s \in Session, Drain(s)
  PROVE  PoolInv'
<1> DEFINE new == [i \in 1..Workers |-> Sentinel]
<1>1. /\ life[s] = "stopping" /\ life' = [life EXCEPT ![s] = "draining"]
      /\ queue' = [queue EXCEPT ![s] = @ \o new]
      /\ UNCHANGED <<ended, pc>>
  BY DEF Drain, workVars
<1>2. PICK q \in Seq(Item) : q = queue[s]
  BY DEF PoolInv, PoolTyped
<1>3. SentinelsOf(q) = {} /\ ended[s] = 0
  BY <1>1, <1>2 DEF PoolInv, Staffed
<1>4. /\ q \o new \in Seq(Item) /\ IsFiniteSet(SentinelsOf(q \o new))
      /\ Cardinality(SentinelsOf(q \o new)) = Workers
  BY <1>3, SentinelsAdded
<1>5. queue'[s] = q \o new /\ \A z \in Session : z # s => queue'[z] = queue[z]
  BY <1>1, <1>2 DEF PoolInv, PoolTyped
<1>6. PoolTyped'
  BY <1>1, <1>4, <1>5 DEF PoolInv, PoolTyped
<1>7. Queued'
  <2>1. new \in Seq(Item) /\ Len(new) = Workers
    <3>1. \A i \in 1..Workers : Sentinel \in Item
      BY DEF Item
    <3> QED
      BY <3>1, IsASeq
  <2>2. /\ DOMAIN (q \o new) = 1..(Len(q) + Workers) /\ Len(q) \in Nat /\ DOMAIN q = 1..Len(q)
        /\ \A i \in 1..(Len(q) + Workers) : (q \o new)[i] = IF i <= Len(q) THEN q[i] ELSE Sentinel
    BY <2>1, ConcatProperties, LenProperties
  <2>3. \A i \in DOMAIN (q \o new) : (q \o new)[i] # Sentinel => i \in DOMAIN q /\ (q \o new)[i] = q[i]
    BY <2>2
  <2> HIDE DEF new
  <2>4. ASSUME NEW z \in Session
        PROVE  /\ \A i \in DOMAIN queue'[z] : queue'[z][i] # Sentinel =>
                    pc[queue'[z][i]] = "queued" /\ At[queue'[z][i]] = z
               /\ \A i, j \in DOMAIN queue'[z] :
                    queue'[z][i] = queue'[z][j] /\ queue'[z][i] # Sentinel => i = j
    <3>1. CASE z = s
      <4>1. /\ \A i \in DOMAIN q : q[i] # Sentinel => pc[q[i]] = "queued" /\ At[q[i]] = s
            /\ \A i, j \in DOMAIN q : q[i] = q[j] /\ q[i] # Sentinel => i = j
        BY <1>2 DEF PoolInv, Queued
      <4>2. PICK r : r = q \o new
        OBVIOUS
      <4>3. \A i \in DOMAIN r : r[i] # Sentinel => i \in DOMAIN q /\ r[i] = q[i]
        BY <2>3, <4>2
      <4>4. queue'[z] = r
        BY <1>5, <3>1, <4>2
      <4> QED
        BY <3>1, <4>1, <4>3, <4>4
    <3>2. CASE z # s
      BY <1>5, <3>2 DEF PoolInv, Queued
    <3> QED
      BY <3>1, <3>2
  <2> QED
    BY <1>1, <2>4 DEF Queued
<1>8. \A z : BusyAt(z)' = BusyAt(z)
  BY <1>1 DEF BusyAt, Busy
<1>9. ASSUME NEW z \in Session, z # s PROVE Staffed(z)'
  <2>1. life'[z] = life[z] /\ ended'[z] = ended[z] /\ queue'[z] = queue[z]
    BY <1>1, <1>5, <1>9 DEF PoolInv, PoolTyped
  <2>2. SentinelsOf(queue[z])' = SentinelsOf(queue[z])
    BY <2>1 DEF SentinelsOf
  <2>3. Staffed(z)
    BY DEF PoolInv
  <2> QED
    BY <1>8, <2>1, <2>2, <2>3 DEF Staffed
<1>10. Staffed(s)'
  <2>1. SentinelsOf(queue[s])' = SentinelsOf(q \o new)
    BY <1>5 DEF SentinelsOf
  <2>2. life'[s] = "draining" /\ ended'[s] = 0
    BY <1>1, <1>3 DEF PoolInv, PoolTyped
  <2>3. IsFiniteSet(BusyAt(s)) /\ ended[s] + Cardinality(BusyAt(s)) <= Workers
    BY DEF PoolInv, Staffed
  <2> HIDE DEF new
  <2> QED
    BY <1>1, <1>3, <1>4, <1>8, <2>1, <2>2, <2>3 DEF Staffed
<1> QED
  BY <1>6, <1>7, <1>9, <1>10 DEF PoolInv

\* All its workers have ended: none is left with an update, nor a sentinel.
LEMMA PoolEnds ==
  ASSUME PoolInv, NEW s \in Session, EndStop(s)
  PROVE  PoolInv'
<1>1. /\ life[s] = "draining" /\ ended[s] = Workers /\ life' = [life EXCEPT ![s] = "down"]
      /\ UNCHANGED <<queue, ended, pc>>
  BY DEF EndStop, workVars, poolVars
<1>2. PoolTyped' /\ Queued'
  BY <1>1 DEF PoolInv, PoolTyped, Queued
<1>3. \A z \in Session : BusyAt(z)' = BusyAt(z) /\ SentinelsOf(queue[z])' = SentinelsOf(queue[z])
        /\ ended'[z] = ended[z] /\ Staffed(z)
  BY <1>1 DEF BusyAt, Busy, SentinelsOf, PoolInv
<1>4. ASSUME NEW z \in Session, z # s PROVE Staffed(z)'
  <2>1. life'[z] = life[z]
    BY <1>1, <1>4 DEF PoolInv, PoolTyped
  <2> QED
    BY <1>3, <2>1 DEF Staffed
<1>5. Staffed(s)'
  <2>1. /\ IsFiniteSet(BusyAt(s)) /\ Workers + Cardinality(BusyAt(s)) <= Workers
        /\ IsFiniteSet(SentinelsOf(queue[s])) /\ Workers + Cardinality(SentinelsOf(queue[s])) = Workers
    BY <1>1, <1>3 DEF Staffed
  <2>2. Cardinality(BusyAt(s)) \in Nat /\ Cardinality(SentinelsOf(queue[s])) \in Nat
    BY <2>1, FS_CardinalityType
  <2>3. Cardinality(BusyAt(s)) = 0 /\ Cardinality(SentinelsOf(queue[s])) = 0
    BY <2>1, <2>2
  <2>4. BusyAt(s) = {} /\ SentinelsOf(queue[s]) = {}
    BY <2>1, <2>3, FS_EmptySet
  <2>5. life'[s] = "down"
    BY <1>1 DEF PoolInv, PoolTyped
  <2> QED
    BY <1>1, <1>3, <2>1, <2>4, <2>5 DEF Staffed
<1> QED
  BY <1>2, <1>4, <1>5 DEF PoolInv

LEMMA PoolArrives ==
  ASSUME PoolInv, NEW d \in Delivery, Arrive(d)
  PROVE  PoolInv'
<1> DEFINE s == At[d]
<1>1. /\ pc[d] = "away" /\ pc' = [pc EXCEPT ![d] = "queued"]
      /\ queue' = [queue EXCEPT ![s] = Append(@, d)] /\ UNCHANGED <<life, ended>>
      /\ s \in Session
  BY DEF Arrive, Goto, lifeVars
<1> HIDE DEF s
<1>2. PICK q \in Seq(Item) : q = queue[s]
  BY <1>1 DEF PoolInv, PoolTyped
<1>3. queue'[s] = Append(q, d) /\ \A z \in Session : z # s => queue'[z] = queue[z]
  BY <1>1, <1>2 DEF PoolInv, PoolTyped
<1>4. /\ Append(q, d) \in Seq(Item)
      /\ DOMAIN Append(q, d) = 1..(Len(q) + 1) /\ DOMAIN q = 1..Len(q) /\ Len(q) \in Nat
      /\ Append(q, d)[Len(q) + 1] = d /\ \A i \in 1..Len(q) : Append(q, d)[i] = q[i]
  BY AppendProperties, LenProperties DEF Item
<1>5. PoolTyped'
  BY <1>1, <1>3, <1>4 DEF PoolInv, PoolTyped, Label
<1>6. \A e \in Delivery : /\ pc[e] = "queued" => pc'[e] = "queued" /\ e # d
                          /\ pc'[d] = "queued"
  BY <1>1 DEF PoolInv, PoolTyped
<1>7. Queued'
  <2>1. ASSUME NEW z \in Session
        PROVE  /\ \A i \in DOMAIN queue[z] : queue[z][i] # Sentinel =>
                    /\ pc[queue[z][i]] = "queued" /\ At[queue[z][i]] = z
                    /\ pc'[queue[z][i]] = "queued" /\ queue[z][i] # d
               /\ \A i, j \in DOMAIN queue[z] :
                    queue[z][i] = queue[z][j] /\ queue[z][i] # Sentinel => i = j
    <3>1. \A i \in DOMAIN queue[z] : queue[z][i] # Sentinel => queue[z][i] \in Delivery
      BY ElementOfSeq, LenProperties DEF PoolInv, PoolTyped, Item
    <3> QED
      BY <1>6, <3>1 DEF PoolInv, Queued
  <2>2. PICK r : r = Append(q, d)
    OBVIOUS
  <2>3. /\ DOMAIN r = 1..(Len(q) + 1) /\ r[Len(q) + 1] = d
        /\ \A i \in DOMAIN q : i \in DOMAIN r /\ r[i] = q[i]
        /\ \A i \in DOMAIN r : i = Len(q) + 1 \/ i \in DOMAIN q
    BY <1>4, <2>2
  <2>4. ASSUME NEW z \in Session
        PROVE  /\ \A i \in DOMAIN queue'[z] : queue'[z][i] # Sentinel =>
                    pc'[queue'[z][i]] = "queued" /\ At[queue'[z][i]] = z
               /\ \A i, j \in DOMAIN queue'[z] :
                    queue'[z][i] = queue'[z][j] /\ queue'[z][i] # Sentinel => i = j
    <3>1. CASE z = s
      <4>1. queue'[z] = r /\ queue[z] = q
        BY <1>2, <1>3, <2>2, <3>1
      <4>2. pc'[d] = "queued" /\ At[d] = z
        BY <1>6, <3>1 DEF s
      <4> QED
        BY <2>1, <2>3, <4>1, <4>2
    <3>2. CASE z # s
      <4>1. queue'[z] = queue[z]
        BY <1>3, <3>2
      <4> QED
        BY <2>1, <4>1
    <3> QED
      BY <3>1, <3>2
  <2> QED
    BY <2>4 DEF Queued
<1>8. ASSUME NEW z \in Session PROVE Staffed(z)'
  <2>1. Staffed(z)
    BY DEF PoolInv
  <2>2. BusyAt(z)' = BusyAt(z)
    BY <1>1 DEF BusyAt, Busy, PoolInv, PoolTyped
  <2>3. SentinelsOf(queue[z])' = SentinelsOf(queue[z])
    <3>1. CASE z = s
      <4>1. SentinelsOf(Append(q, d)) = SentinelsOf(q)
        BY SentinelAppended
      <4> QED
        BY <1>2, <1>3, <3>1, <4>1 DEF SentinelsOf
    <3>2. CASE z # s
      BY <1>3, <3>2 DEF SentinelsOf
    <3> QED
      BY <3>1, <3>2
  <2> QED
    BY <1>1, <2>1, <2>2, <2>3 DEF Staffed
<1> QED
  BY <1>5, <1>7, <1>8 DEF PoolInv

\* A worker takes the first in the queue, or its sentinel.
LEMMA PoolTakes ==
  ASSUME PoolInv, NEW s \in Session, Take(s)
  PROVE  PoolInv'
<1>1. /\ life[s] # "down" /\ ended[s] + Cardinality(BusyAt(s)) < Workers /\ queue[s] # <<>>
      /\ queue' = [queue EXCEPT ![s] = Tail(@)] /\ UNCHANGED life
  BY DEF Take, HasWorker, IsStarted, BusyAt, lifeVars
<1>2. PICK q \in Seq(Item) : q = queue[s]
  BY DEF PoolInv, PoolTyped
<1>3. queue'[s] = Tail(q) /\ \A z \in Session : z # s => queue'[z] = queue[z]
  BY <1>1, <1>2 DEF PoolInv, PoolTyped
<1>4. /\ Tail(q) \in Seq(Item) /\ Head(q) = q[1] /\ 1 \in DOMAIN q
      /\ \A i \in DOMAIN Tail(q) : i + 1 \in DOMAIN q /\ Tail(q)[i] = q[i + 1] /\ i \in Nat \ {0}
  BY <1>1, <1>2, FirstGone
<1>5. ASSUME NEW z \in Session
      PROVE  \A i \in DOMAIN queue[z] : queue[z][i] # Sentinel => queue[z][i] \in Delivery
  BY ElementOfSeq, LenProperties DEF PoolInv, PoolTyped, Item
<1>6. /\ Head(q) # Sentinel /\ SentinelsOf(q) = {} => SentinelsOf(Tail(q)) = {}
      /\ IsFiniteSet(SentinelsOf(q)) =>
           /\ IsFiniteSet(SentinelsOf(Tail(q)))
           /\ Cardinality(SentinelsOf(q)) =
                Cardinality(SentinelsOf(Tail(q))) + (IF Head(q) = Sentinel THEN 1 ELSE 0)
  BY <1>1, <1>2, SentinelTaken
<1>7. ASSUME NEW z \in Session, z # s
      PROVE  SentinelsOf(queue[z])' = SentinelsOf(queue[z]) /\ life'[z] = life[z]
  BY <1>1, <1>3, <1>7 DEF SentinelsOf
<1>8. SentinelsOf(queue[s])' = SentinelsOf(Tail(q)) /\ SentinelsOf(queue[s]) = SentinelsOf(q)
  BY <1>2, <1>3 DEF SentinelsOf
<1>9. /\ IsFiniteSet(BusyAt(s)) /\ Cardinality(BusyAt(s)) \in Nat /\ ended[s] \in Nat /\ Staffed(s)
  BY FS_CardinalityType DEF PoolInv, PoolTyped, Staffed
<1>10. CASE Head(q) = Sentinel
  <2>1. ended' = [ended EXCEPT ![s] = @ + 1] /\ UNCHANGED pc
    BY <1>2, <1>10 DEF Take
  <2>2. PoolTyped'
    BY <1>1, <1>3, <1>4, <2>1 DEF PoolInv, PoolTyped
  <2>3. Queued'
    <3>1. ASSUME NEW z \in Session
          PROVE  /\ \A i \in DOMAIN queue'[z] : queue'[z][i] # Sentinel =>
                      pc[queue'[z][i]] = "queued" /\ At[queue'[z][i]] = z
                 /\ \A i, j \in DOMAIN queue'[z] :
                      queue'[z][i] = queue'[z][j] /\ queue'[z][i] # Sentinel => i = j
      <4>1. CASE z = s
        <5>1. PICK r : r = Tail(q)
          OBVIOUS
        <5>2. queue'[z] = r /\ queue[z] = q
          BY <1>2, <1>3, <4>1, <5>1
        <5>3. \A i \in DOMAIN r : i + 1 \in DOMAIN q /\ r[i] = q[i + 1] /\ i \in Nat \ {0}
          BY <1>4, <5>1
        <5>4. /\ \A i \in DOMAIN q : q[i] # Sentinel => pc[q[i]] = "queued" /\ At[q[i]] = z
              /\ \A i, j \in DOMAIN q : q[i] = q[j] /\ q[i] # Sentinel => i = j
          BY <5>2 DEF PoolInv, Queued
        <5> QED
          BY <5>2, <5>3, <5>4
      <4>2. CASE z # s
        BY <1>3, <4>2 DEF PoolInv, Queued
      <4> QED
        BY <4>1, <4>2
    <3> QED
      BY <2>1, <3>1 DEF Queued
  <2>4. \A z : BusyAt(z)' = BusyAt(z)
    BY <2>1 DEF BusyAt, Busy
  <2>5. ASSUME NEW z \in Session, z # s PROVE Staffed(z)'
    <3>1. Staffed(z) /\ ended'[z] = ended[z]
      BY <2>1, <2>5 DEF PoolInv, PoolTyped
    <3> QED
      BY <1>7, <2>4, <2>5, <3>1 DEF Staffed
  <2>6. Staffed(s)'
    <3>1. SentinelsOf(q) # {} /\ ended'[s] = ended[s] + 1
      BY <1>4, <1>10, <2>1 DEF SentinelsOf, PoolInv, PoolTyped
    <3>2. life[s] = "draining"
      BY <1>8, <1>9, <3>1 DEF Staffed
    <3>3. /\ IsFiniteSet(SentinelsOf(q)) /\ ended[s] + Cardinality(SentinelsOf(q)) = Workers
      BY <1>8, <1>9, <3>2 DEF Staffed
    <3>4. /\ IsFiniteSet(SentinelsOf(Tail(q))) /\ Cardinality(SentinelsOf(Tail(q))) \in Nat
          /\ Cardinality(SentinelsOf(q)) = Cardinality(SentinelsOf(Tail(q))) + 1
      BY <1>6, <1>10, <3>3, FS_CardinalityType
    <3>5. ended'[s] + Cardinality(SentinelsOf(Tail(q))) = Workers
      BY <1>9, <3>1, <3>3, <3>4
    <3>6. ended'[s] + Cardinality(BusyAt(s)) <= Workers
      BY <1>1, <1>9, <3>1
    <3> QED
      BY <1>1, <1>8, <1>9, <2>4, <3>2, <3>4, <3>5, <3>6 DEF Staffed
  <2> QED
    BY <2>2, <2>3, <2>5, <2>6 DEF PoolInv
<1>11. CASE Head(q) # Sentinel
  <2>1. PICK d \in Delivery : d = Head(q) /\ pc[d] = "queued" /\ At[d] = s
    BY <1>1, <1>2, <1>11, FirstQueued
  <2>2. pc' = [pc EXCEPT ![d] = "parsed"] /\ UNCHANGED ended
    BY <1>2, <1>11, <2>1 DEF Take, Goto
  <2>3. PoolTyped'
    BY <1>1, <1>3, <1>4, <2>2 DEF PoolInv, PoolTyped, Label
  <2>4. Queued'
    <3>1. ASSUME NEW z \in Session
          PROVE  /\ \A i \in DOMAIN queue'[z] : queue'[z][i] # Sentinel =>
                      pc'[queue'[z][i]] = "queued" /\ At[queue'[z][i]] = z
                 /\ \A i, j \in DOMAIN queue'[z] :
                      queue'[z][i] = queue'[z][j] /\ queue'[z][i] # Sentinel => i = j
      <4>1. /\ \A i \in DOMAIN queue[z] : queue[z][i] # Sentinel =>
                 pc[queue[z][i]] = "queued" /\ At[queue[z][i]] = z /\ queue[z][i] \in Delivery
            /\ \A i, j \in DOMAIN queue[z] :
                 queue[z][i] = queue[z][j] /\ queue[z][i] # Sentinel => i = j
        BY <1>5 DEF PoolInv, Queued
      <4>2. \A e \in Delivery : e # d => pc'[e] = pc[e]
        BY <2>2 DEF PoolInv, PoolTyped
      <4>3. CASE z = s
        <5>1. PICK r : r = Tail(q)
          OBVIOUS
        <5>2. queue'[z] = r /\ queue[z] = q
          BY <1>2, <1>3, <4>3, <5>1
        <5>3. \A i \in DOMAIN r : i + 1 \in DOMAIN q /\ r[i] = q[i + 1] /\ i \in Nat \ {0}
          BY <1>4, <5>1
        <5>4. \A i \in DOMAIN q : q[i] = d => i = 1
          BY <1>4, <1>11, <2>1, <4>1, <5>2
        <5>5. \A i \in DOMAIN r : r[i] # d
          BY <5>3, <5>4
        <5> QED
          BY <4>1, <4>2, <5>2, <5>3, <5>5
      <4>4. CASE z # s
        <5>1. \A i \in DOMAIN queue[z] : queue[z][i] # Sentinel => queue[z][i] # d
          BY <2>1, <4>1, <4>4
        <5>2. queue'[z] = queue[z]
          BY <1>3, <4>4
        <5> QED
          BY <4>1, <4>2, <5>1, <5>2
      <4> QED
        BY <4>3, <4>4
    <3> QED
      BY <3>1 DEF Queued
  <2>5. ASSUME NEW z \in Session, z # s PROVE Staffed(z)'
    <3>1. Staffed(z) /\ BusyAt(z)' = BusyAt(z)
      BY <2>1, <2>2, <2>5 DEF PoolInv, PoolTyped, BusyAt, Busy
    <3> QED
      BY <1>7, <2>2, <2>5, <3>1 DEF Staffed
  <2>6. Staffed(s)'
    <3>1. BusyAt(s)' = BusyAt(s) \cup {d}
      BY <2>1, <2>2 DEF PoolInv, PoolTyped, BusyAt, Busy
    <3>2. IsFiniteSet(BusyAt(s)') /\ Cardinality(BusyAt(s)') <= Cardinality(BusyAt(s)) + 1
          /\ Cardinality(BusyAt(s)') \in Nat
      <4>1. PICK B : B = BusyAt(s)
        OBVIOUS
      <4>2. IsFiniteSet(B) /\ Cardinality(B) \in Nat
        BY <1>9, <4>1
      <4>3. /\ IsFiniteSet(B \cup {d})
            /\ Cardinality(B \cup {d}) = IF d \in B THEN Cardinality(B) ELSE Cardinality(B) + 1
        BY <4>2, FS_AddElement
      <4> QED
        BY <3>1, <4>1, <4>2, <4>3
    <3>3. ended'[s] + Cardinality(BusyAt(s)') <= Workers
      BY <1>1, <1>9, <2>2, <3>2
    <3>4. life[s] # "draining" => SentinelsOf(Tail(q)) = {}
      BY <1>6, <1>8, <1>9, <1>11 DEF Staffed
    <3>5. life[s] = "draining" => /\ IsFiniteSet(SentinelsOf(Tail(q)))
                                  /\ ended[s] + Cardinality(SentinelsOf(Tail(q))) = Workers
      <4> SUFFICES ASSUME life[s] = "draining"
                   PROVE  /\ IsFiniteSet(SentinelsOf(Tail(q)))
                          /\ ended[s] + Cardinality(SentinelsOf(Tail(q))) = Workers
        OBVIOUS
      <4>1. IsFiniteSet(SentinelsOf(q)) /\ ended[s] + Cardinality(SentinelsOf(q)) = Workers
        BY <1>8, <1>9 DEF Staffed
      <4>2. /\ IsFiniteSet(SentinelsOf(Tail(q))) /\ Cardinality(SentinelsOf(Tail(q))) \in Nat
            /\ Cardinality(SentinelsOf(q)) = Cardinality(SentinelsOf(Tail(q))) + 0
        BY <1>6, <1>11, <4>1, FS_CardinalityType
      <4> QED
        BY <4>1, <4>2
    <3> QED
      BY <1>1, <1>8, <1>9, <2>2, <3>2, <3>3, <3>4, <3>5 DEF Staffed
  <2> QED
    BY <2>3, <2>4, <2>5, <2>6 DEF PoolInv
<1> QED
  BY <1>10, <1>11

LEMMA PoolStep == PoolInv /\ [Next]_vars => PoolInv'
<1> SUFFICES ASSUME PoolInv, [Next]_vars PROVE PoolInv'
  OBVIOUS
<1>1. CASE UNCHANGED <<life, queue, ended, pc>>
  BY <1>1, PoolFrame
<1>2. ASSUME NEW s \in Session, LifeStep(s) \/ StopStep(s) PROVE PoolInv'
  <2>1. CASE Start(s) \/ Stop(s) \/ Drain(s) \/ EndStop(s)
    BY <2>1, PoolStarts, PoolStops, PoolDrains, PoolEnds
  <2>2. CASE EndSweep(s) \/ \E part \in Part : Register(s, part) \/ Unregister(s, part)
    BY <1>1, <2>2 DEF EndSweep, Register, Unregister, poolVars, workVars
  <2> QED
    BY <1>2, <2>1, <2>2 DEF LifeStep, StopStep
<1>3. ASSUME NEW d \in Delivery, NEW label \in Label \ {"away", "queued"},
             Goto(d, label), pc[d] \in Label \ {"away", "queued", "done"},
             UNCHANGED <<life, queue, ended>>
      PROVE  PoolInv'
  BY <1>3, BusyGoesOn DEF Goto, Busy
<1>4. ASSUME NEW d \in Delivery,
             \/ Lock(d) \/ Bypass(d) \/ Check(d) \/ Finish(d) \/ Resolve(d) \/ Unresolved(d)
             \/ Swallow(d) \/ RunHandler(d) \/ AskFails(d) \/ Ask(d) \/ Resume(d)
      PROVE  PoolInv'
  <2>1. UNCHANGED <<life, queue, ended>> /\ pc[d] \in Label \ {"away", "queued", "done"}
    BY <1>4 DEF Lock, Bypass, Check, Finish, Resolve, Unresolved, Swallow, RunHandler, AskFails,
                Ask, Resume, lifeVars, poolVars, Label
  <2>2. \E label \in Label \ {"away", "queued"} : Goto(d, label)
    BY <1>4 DEF Lock, Bypass, Check, Finish, Resolve, Unresolved, Swallow, RunHandler, AskFails,
                Ask, Resume, Settle, Label
  <2> QED
    BY <1>3, <2>1, <2>2
<1>5. ASSUME NEW d \in Delivery, Replace(d) \/ Superseded(d) \/ Timeout(d) \/ SettleStep(d)
      PROVE  PoolInv'
  BY <1>1, <1>5 DEF Replace, Superseded, Timeout, SettleStep, MarkHandled, Unlock, lifeVars,
                    poolVars, workVars
<1>6. Call \subseteq Delivery
  BY DEF Call, Delivery
<1> QED
  BY <1>1, <1>2, <1>4, <1>5, <1>6, PoolTakes, PoolArrives
     DEF Next, Work, vars, lifeVars, poolVars, workVars
-----------------------------------------------------------------------------
(* The listener keys *)

\* A key is owned by a call that waits in its handler.
OwnerWaits ==
  /\ owner \in [Key -> Call \cup {None}]
  /\ \A k \in Key : owner[k] # None => pc[owner[k]] = "waiting"

\* Who owns a key keeps it until its handler goes on.
LEMMA OwnerStep == PoolInv /\ PoolInv' /\ OwnerWaits /\ [Next]_vars => OwnerWaits'
<1> SUFFICES ASSUME PoolInv, PoolInv', OwnerWaits, [Next]_vars PROVE OwnerWaits'
  OBVIOUS
<1>t. pc \in [Delivery -> Label] /\ Call \subseteq Delivery
  BY DEF PoolInv, PoolTyped, Call, Delivery
<1>1. ASSUME UNCHANGED pc, \A k \in Key : owner'[k] \in {None, owner[k]},
             owner' \in [Key -> Call \cup {None}]
      PROVE  OwnerWaits'
  BY <1>1 DEF OwnerWaits
<1>2. CASE UNCHANGED <<pc, owner>>
  BY <1>2 DEF OwnerWaits
<1>3. ASSUME NEW d \in Delivery, NEW label, Goto(d, label), pc[d] # "waiting", UNCHANGED owner
      PROVE  OwnerWaits'
  BY <1>t, <1>3 DEF OwnerWaits, Goto
<1>4. ASSUME NEW vacated, NEW cancelled, Slots!Withdraw(vacated, cancelled)
      PROVE  /\ \A k \in Key : owner'[k] = IF k \in vacated THEN None ELSE owner[k]
             /\ owner' \in [Key -> Call \cup {None}]
  BY <1>4 DEF Slots!Withdraw, OwnerWaits
<1>5. ASSUME NEW s \in Session, LifeStep(s) \/ StopStep(s) PROVE OwnerWaits'
  <2>1. CASE EndSweep(s)
    <3>1. UNCHANGED pc /\ \E vacated, cancelled : Slots!Withdraw(vacated, cancelled)
      BY <2>1 DEF EndSweep, workVars
    <3> QED
      BY <1>1, <1>4, <3>1
  <2> QED
    BY <1>2, <1>5, <2>1 DEF LifeStep, StopStep, Start, Stop, Drain, EndStop, Register, Unregister,
       workVars, slotVars
<1>6. ASSUME NEW s \in Session, Take(s) PROVE OwnerWaits'
  <2>1. CASE UNCHANGED pc
    BY <1>2, <1>6, <2>1 DEF Take, slotVars
  <2>2. CASE Head(queue[s]) # Sentinel
    <3>1. Head(queue[s]) \in Delivery /\ pc[Head(queue[s])] = "queued"
      BY <1>6, <2>2, FirstQueued DEF Take
    <3> QED
      BY <1>3, <1>6, <2>2, <3>1 DEF Take, slotVars
  <2> QED
    BY <1>6, <2>1, <2>2 DEF Take
<1>7. ASSUME NEW d \in Delivery,
             \/ Arrive(d) \/ Lock(d) \/ Bypass(d) \/ Check(d) \/ Finish(d) \/ Resolve(d)
             \/ Swallow(d) \/ RunHandler(d) \/ AskFails(d)
      PROVE  OwnerWaits'
  <2>1. UNCHANGED owner /\ pc[d] # "waiting"
    BY <1>7 DEF Arrive, Lock, Bypass, Check, Finish, Resolve, Swallow, RunHandler, AskFails,
                slotVars, Slots!Deliver
  <2>2. \E label : Goto(d, label)
    BY <1>7 DEF Arrive, Lock, Bypass, Check, Finish, Resolve, Swallow, RunHandler, AskFails, Settle
  <2> QED
    BY <1>3, <2>1, <2>2
<1>8. ASSUME NEW d \in Delivery, Unresolved(d) PROVE OwnerWaits'
  <2>1. pc[d] = "listen" /\ pc' = [pc EXCEPT ![d] = "handlers"]
        /\ \E cancelled : Slots!Withdraw({}, cancelled)
    BY <1>8 DEF Unresolved, Goto
  <2> QED
    BY <1>t, <1>4, <2>1 DEF OwnerWaits
<1>9. ASSUME NEW d \in Delivery, Replace(d) \/ Superseded(d) PROVE OwnerWaits'
  <2>1. UNCHANGED pc /\ \E vacated, cancelled : Slots!Withdraw(vacated, cancelled)
    BY <1>9 DEF Replace, Superseded, workVars
  <2> QED
    BY <1>1, <1>4, <2>1
<1>10. ASSUME NEW d \in Delivery, Timeout(d) \/ SettleStep(d) PROVE OwnerWaits'
  BY <1>2, <1>10 DEF Timeout, Slots!GiveUp, SettleStep, MarkHandled, Unlock, workVars, slotVars
<1>11. ASSUME NEW c \in Call, Ask(c) PROVE OwnerWaits'
  <2>1. /\ pc' = [pc EXCEPT ![c] = "waiting"] /\ owner' = [owner EXCEPT ![KeyOf[c]] = c]
    BY <1>11 DEF Ask, Goto, Slots!Claim
  <2> QED
    BY <1>t, <2>1 DEF OwnerWaits
<1>12. ASSUME NEW c \in Call, Resume(c) PROVE OwnerWaits'
  <2>1. /\ pc' = [pc EXCEPT ![c] = "settling"] /\ Slots!Withdraw({k \in Key : owner[k] = c}, {})
    BY <1>12 DEF Resume, Settle, Goto
  <2>2. \A k \in Key : owner'[k] # None => owner'[k] = owner[k] /\ owner[k] # c
    BY <1>4, <2>1
  <2>3. owner' \in [Key -> Call \cup {None}]
    BY <1>4, <2>1
  <2> QED
    BY <1>t, <2>1, <2>2, <2>3 DEF OwnerWaits
<1> QED
  BY <1>t, <1>2, <1>5, <1>6, <1>7, <1>8, <1>9, <1>10, <1>11, <1>12
     DEF Next, Work, vars, workVars, slotVars
-----------------------------------------------------------------------------
(* Where a delivery is, and what it holds *)

Inside == {"holding", "processing", "registered"}
Stages == Inside \cup {"outside", "left"}

\* The scope of a delivery is that of its update.
SameScope == \A d, e \in Delivery : UpdateOf[d] = UpdateOf[e] => ScopeOf[d] = ScopeOf[e]

\* No stop() clears the registry: it is in Redis, or nothing is stopped.
RegistryLasts ==
  Backend = "redis" \/ (Restarted = {} /\ \A s \in Session : "coordinated" \notin Removable[s])

WorkTyped ==
  /\ pc \in [Delivery -> Label]
  /\ handled \in [Delivery -> BOOLEAN] /\ early \in [Delivery -> BOOLEAN]
  /\ holder \in [Scope -> Delivery \cup {NoOne}]
  /\ registered \subseteq Update
  /\ stage \in [Delivery -> Stages]

\* What the place in the pipeline says of the stage.
Pipeline ==
  \A d \in Delivery :
    /\ pc[d] \in {"away", "queued", "parsed"} => stage[d] = "outside"
    /\ pc[d] = "holding" => stage[d] = "holding"
    /\ pc[d] \in {"listen", "handlers"} => stage[d] \in {"outside", "processing"}
    /\ pc[d] \in {"running", "waiting"} => stage[d] # "holding"
    /\ pc[d] = "done" => stage[d] \in {"outside", "left"}
    /\ pc[d] \notin {"settling", "done"} => ~handled[d]
    /\ early[d] => /\ pc[d] \in {"running", "waiting", "settling", "done"}
                   /\ stage[d] \notin {"outside", "holding"}
    /\ stage[d] = "holding" => ~handled[d]

\* What holds a scope is inside, and the other way round.
Holders ==
  /\ \A d \in Delivery : stage[d] \in Inside => holder[ScopeOf[d]] = d
  /\ \A sc \in Scope : holder[sc] # NoOne =>
       stage[holder[sc]] \in Inside /\ ScopeOf[holder[sc]] = sc

\* An update is known to be handled exactly when the delivery that took it has
\* settled: no other is between its check and its settlement.
Settled(d) == stage[d] = "registered" \/ (stage[d] = "left" /\ Taken(d))

Registration ==
  SameScope /\ RegistryLasts =>
    \A d \in Delivery : /\ Settled(d) => UpdateOf[d] \in registered
                        /\ stage[d] = "processing" => UpdateOf[d] \notin registered

SettledOnce ==
  SameScope /\ RegistryLasts =>
    \A d, e \in Delivery : UpdateOf[d] = UpdateOf[e] /\ Settled(d) /\ Settled(e) => d = e

OnceInv == WorkTyped /\ Pipeline /\ Holders /\ Registration /\ SettledOnce

workOnce == <<pc, handled, early, onceVars>>

LEMMA OnceFrame == OnceInv /\ UNCHANGED workOnce => OnceInv'
  BY DEF OnceInv, WorkTyped, Pipeline, Holders, Registration, SettledOnce, Settled, Taken,
         workOnce, onceVars

\* A delivery moves on without its coordination.
LEMMA Moves ==
  ASSUME OnceInv, NEW d \in Delivery, NEW label \in Label, NEW flag \in BOOLEAN, NEW early1 \in BOOLEAN,
         pc' = [pc EXCEPT ![d] = label], handled' = [handled EXCEPT ![d] = flag],
         early' = [early EXCEPT ![d] = early1], UNCHANGED onceVars,
         Pipeline', Taken(d)' => Taken(d) \/ stage[d] \in {"outside", "processing"}
  PROVE  OnceInv'
<1> USE DEF OnceInv, onceVars
<1>1. WorkTyped'
  BY DEF WorkTyped
<1>2. Holders'
  BY DEF Holders
<1>3. \A e \in Delivery : e # d => (Taken(e)' <=> Taken(e))
  BY DEF Taken, WorkTyped
<1>4. \A e \in Delivery : Settled(e)' => Settled(e)
  BY <1>3 DEF Settled
<1>5. Registration' /\ SettledOnce'
  BY <1>4 DEF Registration, SettledOnce
<1> QED
  BY <1>1, <1>2, <1>5

LEMMA Advances ==
  ASSUME OnceInv, NEW d \in Delivery,
         \/ Arrive(d) \/ Bypass(d) \/ Finish(d) \/ Resolve(d) \/ Unresolved(d)
         \/ Swallow(d) \/ RunHandler(d) \/ AskFails(d) \/ Ask(d) \/ Resume(d)
         \/ (Check(d) /\ UNCHANGED onceVars)
  PROVE  OnceInv'
<1>t. WorkTyped /\ Pipeline
  BY DEF OnceInv
<1>1. ASSUME NEW label \in Label, Goto(d, label), UNCHANGED <<handled, early, onceVars>>,
             \/ pc[d] = "away" /\ label = "queued"
             \/ pc[d] = "parsed" /\ label = "listen"
             \/ pc[d] = "holding" /\ label = "settling"
             \/ pc[d] = "settling" /\ label = "done" /\ stage[d] \in {"outside", "left"}
             \/ pc[d] = "listen" /\ label = "handlers"
             \/ pc[d] = "running" /\ label = "waiting"
      PROVE  OnceInv'
  <2>1. /\ pc' = [pc EXCEPT ![d] = label] /\ handled' = [handled EXCEPT ![d] = handled[d]]
        /\ early' = [early EXCEPT ![d] = early[d]]
    BY <1>t, <1>1 DEF Goto, WorkTyped
  <2>2. Pipeline'
    BY <1>t, <1>1 DEF Goto, WorkTyped, Pipeline, onceVars
  <2>3. Taken(d)' => Taken(d) \/ stage[d] \in {"outside", "processing"}
    BY <1>t, <1>1 DEF Goto, WorkTyped, Pipeline, Taken
  <2>4. handled[d] \in BOOLEAN /\ early[d] \in BOOLEAN
    BY <1>t DEF WorkTyped
  <2> QED
    BY <1>1, <2>1, <2>2, <2>3, <2>4, Moves
<1>2. ASSUME NEW flag \in BOOLEAN, Settle(d, flag), UNCHANGED <<early, onceVars>>,
             pc[d] \in {"listen", "handlers", "running", "waiting"},
             ~flag => pc[d] \in {"listen", "handlers"}
      PROVE  OnceInv'
  <2>1. /\ pc' = [pc EXCEPT ![d] = "settling"] /\ handled' = [handled EXCEPT ![d] = flag]
        /\ early' = [early EXCEPT ![d] = early[d]]
    BY <1>t, <1>2 DEF Goto, WorkTyped, Settle
  <2>2. Pipeline'
    BY <1>t, <1>2 DEF Goto, Settle, WorkTyped, Pipeline, onceVars
  <2>3. Taken(d)' => Taken(d) \/ stage[d] \in {"outside", "processing"}
    BY <1>t, <1>2 DEF Goto, Settle, WorkTyped, Pipeline, Taken
  <2>4. early[d] \in BOOLEAN /\ "settling" \in Label
    BY <1>t DEF WorkTyped, Label
  <2> QED
    BY <1>2, <2>1, <2>2, <2>3, <2>4, Moves
<1>3. ASSUME NEW flag \in BOOLEAN, Goto(d, "running"), UNCHANGED <<handled, onceVars>>,
             early' = [early EXCEPT ![d] = flag], flag => stage[d] # "outside",
             pc[d] \in {"listen", "handlers"}
      PROVE  OnceInv'
  <2>1. /\ pc' = [pc EXCEPT ![d] = "running"] /\ handled' = [handled EXCEPT ![d] = handled[d]]
    BY <1>t, <1>3 DEF Goto, WorkTyped
  <2>2. Pipeline'
    BY <1>t, <1>3 DEF Goto, WorkTyped, Pipeline, onceVars
  <2>3. Taken(d)' => Taken(d) \/ stage[d] \in {"outside", "processing"}
    BY <1>t, <1>3 DEF Goto, WorkTyped, Pipeline, Taken
  <2>4. handled[d] \in BOOLEAN /\ "running" \in Label
    BY <1>t DEF WorkTyped, Label
  <2> QED
    BY <1>3, <2>1, <2>2, <2>3, <2>4, Moves
<1>4. CASE Arrive(d) \/ Bypass(d) \/ Finish(d) \/ Unresolved(d) \/ Ask(d) \/ (Check(d) /\ UNCHANGED onceVars)
  <2>1. CASE Check(d) /\ UNCHANGED onceVars
    <3>1. pc[d] = "holding" /\ Goto(d, "settling") /\ UNCHANGED <<handled, early, onceVars>>
      BY <1>t, <2>1 DEF Check, Once!Begin, Once!Becomes, onceVars, WorkTyped
    <3> QED
      BY <1>1, <3>1 DEF Label
  <2> QED
    BY <1>1, <1>4, <2>1 DEF Arrive, Bypass, Finish, Unresolved, Ask, Label
<1>5. CASE Resolve(d) \/ Swallow(d) \/ AskFails(d) \/ Resume(d)
  BY <1>2, <1>5 DEF Resolve, Swallow, AskFails, Resume
<1>6. CASE RunHandler(d)
  <2>1. pc[d] \in {"listen", "handlers"} /\ UNCHANGED onceVars
    BY <1>6 DEF RunHandler
  <2>2. CASE \E flag \in BOOLEAN : Settle(d, flag) /\ UNCHANGED early
    BY <1>2, <2>1, <2>2
  <2>3. CASE /\ Goto(d, "running") /\ UNCHANGED handled
             /\ early' = [early EXCEPT ![d] = d \in Settles /\ stage[d] # "outside"]
    BY <1>3, <2>1, <2>3
  <2> QED
    BY <1>6, <2>2, <2>3 DEF RunHandler
<1> QED
  BY <1>4, <1>5, <1>6

\* ... or with it.
LEMMA Locks ==
  ASSUME OnceInv, NEW d \in Delivery, Lock(d)
  PROVE  OnceInv'
<1>1. /\ pc[d] = "parsed" /\ pc' = [pc EXCEPT ![d] = "holding"] /\ UNCHANGED <<handled, early, registered>>
      /\ stage[d] = "outside" /\ holder[ScopeOf[d]] = NoOne
      /\ holder' = [holder EXCEPT ![ScopeOf[d]] = d] /\ stage' = [stage EXCEPT ![d] = "holding"]
  BY DEF Lock, Goto, Once!Enter, Once!Becomes
<1>2. WorkTyped'
  BY <1>1 DEF OnceInv, WorkTyped, Label, Stages, Inside
<1>3. Pipeline'
  BY <1>1 DEF OnceInv, WorkTyped, Pipeline
<1>4. Holders'
  BY <1>1 DEF OnceInv, WorkTyped, Holders, Inside
<1>5. \A e \in Delivery : /\ Settled(e)' => Settled(e)
                          /\ stage'[e] = "processing" => stage[e] = "processing"
  BY <1>1 DEF OnceInv, WorkTyped, Settled, Taken
<1>6. Registration' /\ SettledOnce'
  BY <1>1, <1>5 DEF OnceInv, Registration, SettledOnce
<1> QED
  BY <1>2, <1>3, <1>4, <1>6 DEF OnceInv

LEMMA Begins ==
  ASSUME OnceInv, NEW d \in Delivery, Check(d), Once!Begin(d), Goto(d, "listen")
  PROVE  OnceInv'
<1>1. /\ pc[d] = "holding" /\ pc' = [pc EXCEPT ![d] = "listen"]
      /\ UNCHANGED <<handled, early, registered, holder>>
      /\ stage[d] = "holding" /\ stage' = [stage EXCEPT ![d] = "processing"]
      /\ UpdateOf[d] \notin registered
  BY DEF Check, Goto, Once!Begin, Once!Becomes
<1>2. WorkTyped'
  BY <1>1 DEF OnceInv, WorkTyped, Label, Stages, Inside
<1>3. Pipeline'
  BY <1>1 DEF OnceInv, WorkTyped, Pipeline
<1>4. Holders'
  BY <1>1 DEF OnceInv, WorkTyped, Holders, Inside
<1>5. \A e \in Delivery : /\ Settled(e)' => Settled(e)
                          /\ stage'[e] = "processing" => stage[e] = "processing" \/ e = d
  BY <1>1 DEF OnceInv, WorkTyped, Settled, Taken
<1>6. Registration' /\ SettledOnce'
  BY <1>1, <1>5 DEF OnceInv, Registration, SettledOnce
<1> QED
  BY <1>2, <1>3, <1>4, <1>6 DEF OnceInv

\* Who registers has the scope, and so no other delivery of the update is
\* processed.
LEMMA Registers ==
  ASSUME OnceInv, NEW d \in Delivery, MarkHandled(d)
  PROVE  OnceInv'
<1>1. /\ stage[d] = "processing" /\ stage' = [stage EXCEPT ![d] = "registered"]
      /\ UpdateOf[d] \notin registered /\ registered' = registered \cup {UpdateOf[d]}
      /\ UNCHANGED <<pc, handled, early, holder>>
  BY DEF MarkHandled, Once!Register, Once!Becomes, workVars
<1>t. WorkTyped /\ Pipeline /\ Holders /\ Registration /\ SettledOnce
  BY DEF OnceInv
<1>2. WorkTyped'
  BY <1>t, <1>1 DEF WorkTyped, Stages, Inside
<1>3. pc[d] \in {"running", "waiting", "settling"}
  BY <1>t, <1>1 DEF MarkHandled, Pipeline
<1>4. Pipeline'
  BY <1>t, <1>1, <1>3 DEF WorkTyped, Pipeline
<1>5. Holders'
  BY <1>t, <1>1 DEF WorkTyped, Holders, Inside
<1>6. \A e \in Delivery : Settled(e)' => Settled(e) \/ e = d
  BY <1>t, <1>1 DEF WorkTyped, Settled, Taken
<1>7. ASSUME SameScope, NEW e \in Delivery, stage'[e] = "processing" PROVE UpdateOf[e] # UpdateOf[d]
  <2>1. e # d /\ stage[e] = "processing"
    BY <1>t, <1>1, <1>7 DEF WorkTyped
  <2>2. ScopeOf[e] # ScopeOf[d]
    BY <1>t, <1>1, <2>1 DEF Holders, Inside
  <2> QED
    BY <1>7, <2>2 DEF SameScope
<1>8. \A e \in Delivery : stage'[e] = "processing" => stage[e] = "processing"
  BY <1>t, <1>1 DEF WorkTyped
<1>9. Registration'
  BY <1>t, <1>1, <1>6, <1>7, <1>8 DEF Registration
<1>10. SettledOnce'
  BY <1>t, <1>1, <1>6 DEF Registration, SettledOnce
<1> QED
  BY <1>2, <1>4, <1>5, <1>9, <1>10 DEF OnceInv

\* Who leaves has registered its update, or nothing has taken it.
LEMMA Leaves ==
  ASSUME OnceInv, NEW d \in Delivery, Unlock(d)
  PROVE  OnceInv'
<1>1. /\ stage[d] \in Inside /\ stage' = [stage EXCEPT ![d] = "left"] /\ holder[ScopeOf[d]] = d
      /\ holder' = [holder EXCEPT ![ScopeOf[d]] = NoOne] /\ UNCHANGED <<pc, handled, early, registered>>
  BY DEF Unlock, Once!Leave, Once!Becomes, Once!Holds, workVars, Inside
<1>t. WorkTyped /\ Pipeline /\ Holders /\ Registration /\ SettledOnce
  BY DEF OnceInv
<1>2. WorkTyped'
  BY <1>t, <1>1 DEF WorkTyped, Stages
<1>3. pc[d] \in {"running", "waiting", "settling"}
  BY <1>t, <1>1 DEF Unlock, Pipeline, WorkTyped, Label
<1>4. Pipeline'
  BY <1>t, <1>1, <1>3 DEF WorkTyped, Pipeline, Inside
<1>5. Holders'
  <2>1. \A e \in Delivery : stage'[e] \in Inside => e # d /\ stage[e] \in Inside
    BY <1>t, <1>1 DEF WorkTyped, Inside
  <2>2. \A e \in Delivery : stage'[e] \in Inside => holder'[ScopeOf[e]] = e
    BY <1>t, <1>1, <2>1 DEF Holders, WorkTyped
  <2>3. \A sc \in Scope : holder'[sc] # NoOne =>
          stage'[holder'[sc]] \in Inside /\ ScopeOf[holder'[sc]] = sc
    BY <1>t, <1>1 DEF WorkTyped, Holders
  <2> QED
    BY <2>2, <2>3 DEF Holders
<1>6. Settled(d)' => Settled(d)
  BY <1>t, <1>1 DEF Unlock, Settled, Taken, Inside, WorkTyped, Pipeline
<1>7. \A e \in Delivery : e # d => (Settled(e)' <=> Settled(e))
  BY <1>t, <1>1 DEF Settled, Taken, WorkTyped
<1>8. \A e \in Delivery : stage'[e] = "processing" => stage[e] = "processing"
  BY <1>t, <1>1 DEF WorkTyped
<1>9. Registration' /\ SettledOnce'
  BY <1>t, <1>1, <1>6, <1>7, <1>8 DEF Registration, SettledOnce
<1> QED
  BY <1>2, <1>4, <1>5, <1>9 DEF OnceInv

LEMMA Takes ==
  ASSUME PoolInv, OnceInv, NEW s \in Session, Take(s)
  PROVE  OnceInv'
<1>1. UNCHANGED <<handled, early, onceVars>>
  BY DEF Take
<1>2. CASE UNCHANGED pc
  BY <1>1, <1>2, OnceFrame DEF workOnce
<1>3. CASE Head(queue[s]) # Sentinel
  <2>1. PICK d \in Delivery : Head(queue[s]) = d /\ pc[d] = "queued"
    BY <1>3, FirstQueued DEF Take
  <2>2. Goto(d, "parsed")
    BY <1>3, <2>1 DEF Take
  <2>3. /\ pc' = [pc EXCEPT ![d] = "parsed"] /\ handled' = [handled EXCEPT ![d] = handled[d]]
        /\ early' = [early EXCEPT ![d] = early[d]]
    BY <1>1, <2>2 DEF Goto, OnceInv, WorkTyped
  <2>4. Pipeline'
    BY <1>1, <2>1, <2>3 DEF OnceInv, WorkTyped, Pipeline, onceVars
  <2>5. Taken(d)' => Taken(d)
    BY <1>1, <2>3 DEF OnceInv, WorkTyped, Taken
  <2>6. handled[d] \in BOOLEAN /\ early[d] \in BOOLEAN /\ "parsed" \in Label
    BY DEF OnceInv, WorkTyped, Label
  <2> QED
    BY <1>1, <2>3, <2>4, <2>5, <2>6, Moves
<1> QED
  BY <1>2, <1>3 DEF Take

\* A stop() that clears the registry leaves the deliveries as they are.
LEMMA StopsRegistry ==
  ASSUME OnceInv, registered' \in {registered, {}}, UNCHANGED <<holder, stage, pc, handled, early>>,
         ~RegistryLasts \/ UNCHANGED registered
  PROVE  OnceInv'
<1>1. UNCHANGED <<pc, handled, early, holder, stage>> /\ registered' \subseteq Update
  BY DEF OnceInv, WorkTyped
<1>2. WorkTyped' /\ Pipeline' /\ Holders'
  BY <1>1 DEF OnceInv, WorkTyped, Pipeline, Holders
<1>3. Registration' /\ SettledOnce'
  BY <1>1 DEF OnceInv, Registration, SettledOnce, Settled, Taken
<1> QED
  BY <1>2, <1>3 DEF OnceInv

\* None does where the registry lasts.
LEMMA RegistryStays ==
  ASSUME RegistryLasts, NEW s \in Session, Stop(s) \/ \E part \in Part : Unregister(s, part)
  PROVE  UNCHANGED onceVars
<1>1. CASE Backend = "redis"
  BY <1>1 DEF Stop, Unregister, StopRegistry, onceVars
<1>2. CASE Backend # "redis"
  <2>1. Restarted = {} /\ "coordinated" \notin Removable[s]
    BY <1>2 DEF RegistryLasts
  <2>2. PICK part \in Part : Unregister(s, part)
    BY <2>1 DEF Stop
  <2> QED
    BY <2>1, <2>2 DEF Unregister, StopRegistry, onceVars
<1> QED
  BY <1>1, <1>2

LEMMA OnceStep == PoolInv /\ OnceInv /\ [Next]_vars => OnceInv'
<1> SUFFICES ASSUME PoolInv, OnceInv, [Next]_vars PROVE OnceInv'
  OBVIOUS
<1>1. CASE UNCHANGED vars
  BY <1>1, OnceFrame DEF vars, workVars, workOnce
<1>2. ASSUME NEW s \in Session, LifeStep(s) \/ StopStep(s) PROVE OnceInv'
  <2>1. CASE Stop(s) \/ \E part \in Part : Unregister(s, part)
    <3>1. ~RegistryLasts \/ UNCHANGED registered
      BY <2>1, RegistryStays DEF onceVars
    <3>2. UNCHANGED <<pc, handled, early>>
      BY <2>1 DEF Stop, Unregister, workVars
    <3>3. registered' \in {registered, {}} /\ UNCHANGED <<holder, stage>>
      BY <2>1 DEF Stop, Unregister, StopRegistry
    <3> QED
      BY <3>1, <3>2, <3>3, StopsRegistry
  <2>2. CASE Start(s) \/ StopStep(s) \/ \E part \in Part : Register(s, part)
    BY <2>2, OnceFrame DEF StopStep, Start, EndSweep, Drain, EndStop, Register, workVars, workOnce
  <2> QED
    BY <1>2, <2>1, <2>2 DEF LifeStep
<1>3. ASSUME NEW s \in Session, Take(s) PROVE OnceInv'
  BY <1>3, Takes
<1>4. ASSUME NEW d \in Delivery, Check(d) PROVE OnceInv'
  <2>1. \/ Goto(d, "settling") /\ UNCHANGED onceVars
        \/ Once!Begin(d) /\ Goto(d, "listen")
    BY <1>4 DEF Check
  <2> QED
    BY <1>4, <2>1, Advances, Begins
<1>5. ASSUME NEW d \in Delivery, SettleStep(d) PROVE OnceInv'
  BY <1>5, Registers, Leaves DEF SettleStep
<1>6. ASSUME NEW d \in Delivery, Arrive(d) \/ Lock(d) PROVE OnceInv'
  BY <1>6, Advances, Locks
<1>7. ASSUME NEW d \in Delivery, Replace(d) \/ Superseded(d) \/ Timeout(d) PROVE OnceInv'
  BY <1>7, OnceFrame DEF Replace, Superseded, Timeout, workVars, workOnce
<1>8. ASSUME NEW d \in Delivery, Work(d) PROVE OnceInv'
  BY <1>4, <1>7, <1>8, Advances DEF Work
<1>9. Call \subseteq Delivery
  BY DEF Call, Delivery
<1> QED
  BY <1>1, <1>2, <1>3, <1>5, <1>6, <1>7, <1>8, <1>9 DEF Next
-----------------------------------------------------------------------------
(* Every state *)

LEMMA InitInv == Init => PoolInv /\ OwnerWaits /\ OnceInv
<1> SUFFICES ASSUME Init PROVE PoolInv /\ OwnerWaits /\ OnceInv
  OBVIOUS
<1>1. /\ pc = [d \in Delivery |-> "away"] /\ queue = [s \in Session |-> <<>>]
      /\ ended = [s \in Session |-> 0]
      /\ life = [s \in Session |-> IF s \in Restarted THEN "down" ELSE "up"]
      /\ handled = [d \in Delivery |-> FALSE] /\ early = [d \in Delivery |-> FALSE]
  BY DEF Init
<1>2. /\ holder = [sc \in Scope |-> NoOne] /\ registered = {}
      /\ stage = [d \in Delivery |-> "outside"] /\ owner = [k \in Key |-> None]
  BY DEF Init, Once!Init, Slots!Init
<1>3. PoolTyped /\ Queued
  BY <1>1 DEF PoolTyped, Queued, Label
<1>4. ASSUME NEW s \in Session PROVE Staffed(s)
  <2>1. BusyAt(s) = {} /\ SentinelsOf(queue[s]) = {} /\ ended[s] = 0 /\ life[s] # "draining"
    BY <1>1 DEF BusyAt, Busy, SentinelsOf
  <2>2. IsFiniteSet({}) /\ Cardinality({}) = 0
    BY FS_EmptySet
  <2> QED
    BY <2>1, <2>2 DEF Staffed
<1>5. OwnerWaits
  BY <1>2 DEF OwnerWaits
<1>6. OnceInv
  BY <1>1, <1>2 DEF OnceInv, WorkTyped, Pipeline, Holders, Registration, SettledOnce, Settled,
     Taken, Inside, Stages, Label
<1> QED
  BY <1>3, <1>4, <1>5, <1>6 DEF PoolInv

LEMMA Pools == Spec => [](PoolInv /\ OwnerWaits)
  BY InitInv, PoolStep, OwnerStep, PTL DEF Spec

LEMMA Onces == Spec => []OnceInv
<1>1. PoolInv /\ OnceInv /\ [Next]_vars => OnceInv'
  BY OnceStep
<1> QED
  BY <1>1, InitInv, Pools, PTL DEF Spec
-----------------------------------------------------------------------------
(* What the dispatchers promise *)

\* Of the deliveries of one update, in however many sessions, one is taken,
\* whatever is started, stopped or unregistered meanwhile, as long as they are
\* coordinated under one scope and the registry is in Redis, or no stop() clears
\* it (Dispatcher.handle_update).
THEOREM TakenByOne == ASSUME SameScope, RegistryLasts PROVE Spec => []TakenOnce
<1>1. ASSUME OnceInv, NEW d \in Delivery, NEW e \in Delivery, UpdateOf[d] = UpdateOf[e],
             Taken(d), Taken(e), stage[d] # "outside", stage[e] # "outside"
      PROVE  d = e
  <2>1. ASSUME NEW f \in Delivery, Taken(f), stage[f] # "outside"
        PROVE  stage[f] = "processing" \/ Settled(f)
    BY <1>1, <2>1 DEF OnceInv, WorkTyped, Pipeline, Settled, Taken, Stages, Inside
  <2>2. CASE Settled(d) /\ Settled(e)
    BY <1>1, <2>2 DEF OnceInv, SettledOnce
  <2>3. CASE stage[d] = "processing" /\ stage[e] = "processing"
    <3>1. ScopeOf[d] = ScopeOf[e]
      BY <1>1 DEF SameScope
    <3> QED
      BY <1>1, <2>3, <3>1 DEF OnceInv, Holders, Inside
  <2>4. ~(Settled(d) /\ stage[e] = "processing") /\ ~(Settled(e) /\ stage[d] = "processing")
    BY <1>1 DEF OnceInv, Registration
  <2> QED
    BY <1>1, <2>1, <2>2, <2>3, <2>4
<1>2. OnceInv => TakenOnce
  BY <1>1 DEF TakenOnce
<1> QED
  BY <1>2, Onces, PTL

\* A dispatcher that is down has left nothing behind: its workers have ended
\* with what they had, the scopes and the keys are given back, and each
\* sentinel was taken (Dispatcher.stop).
THEOREM LeftNothing == Spec => []DownLeavesNothing
<1>1. ASSUME PoolInv, OwnerWaits, OnceInv, NEW s \in Session, life[s] = "down"
      PROVE  /\ \A d \in Delivery : At[d] = s => ~Busy(d) /\ \A sc \in Scope : holder[sc] # d
             /\ \A k \in Key : owner[k] # None => At[owner[k]] # s
             /\ \A i \in DOMAIN queue[s] : queue[s][i] # Sentinel
  <2>1. BusyAt(s) = {} /\ SentinelsOf(queue[s]) = {}
    BY <1>1 DEF PoolInv, Staffed
  <2>2. \A d \in Delivery : At[d] = s => ~Busy(d)
    BY <2>1 DEF BusyAt
  <2>3. ASSUME NEW d \in Delivery, At[d] = s, NEW sc \in Scope, holder[sc] = d PROVE FALSE
    <3>1. stage[d] \in Inside
      BY <1>1, <2>3 DEF OnceInv, Holders
    <3>2. Busy(d)
      BY <1>1, <3>1 DEF OnceInv, WorkTyped, Pipeline, Inside, Busy
    <3> QED
      BY <2>2, <2>3, <3>2
  <2>4. ASSUME NEW k \in Key, owner[k] # None, At[owner[k]] = s PROVE FALSE
    <3>1. owner[k] \in Delivery /\ Busy(owner[k])
      BY <1>1, <2>4 DEF OwnerWaits, Call, Delivery, Busy
    <3> QED
      BY <2>2, <2>4, <3>1
  <2>5. \A i \in DOMAIN queue[s] : queue[s][i] # Sentinel
    BY <2>1 DEF SentinelsOf
  <2> QED
    BY <2>2, <2>3, <2>4, <2>5
<1>2. PoolInv /\ OwnerWaits /\ OnceInv => DownLeavesNothing
  BY <1>1 DEF DownLeavesNothing, IsStarted
<1> QED
  BY <1>2, Pools, Onces, PTL

\* Coordination and listeners are used as their contracts allow, in every step
\* of every session: what UpdateCoordination and UpdateListener are shown to
\* implement is what the dispatchers rely on.  Coordination forgets nothing in its
\* contract, and so the registry has to last.
THEOREM Contracts == ASSUME RegistryLasts PROVE Spec => Once!Spec /\ Slots!Spec
<1>1. Init => Once!Init /\ Slots!Init
  BY DEF Init
<1>2. ASSUME [Next]_vars PROVE [Once!Next]_(Once!vars)
  <2>1. CASE UNCHANGED onceVars
    BY <2>1 DEF onceVars, Once!vars
  <2>2. ASSUME NEW d \in Delivery, Lock(d) \/ Check(d) \/ SettleStep(d)
        PROVE  UNCHANGED onceVars \/ Once!Next
    BY <2>2 DEF Lock, Check, SettleStep, MarkHandled, Unlock, Once!Next
  <2>3. Call \subseteq Delivery
    BY DEF Call, Delivery
  <2>4. ASSUME NEW s \in Session, LifeStep(s) PROVE UNCHANGED onceVars
    BY <2>4, RegistryStays DEF LifeStep, Start, Register
  <2> QED
    BY <1>2, <2>1, <2>2, <2>3, <2>4 DEF Next, vars, StopStep, Work, EndSweep, Drain,
       EndStop, Arrive, Take, Bypass, Finish, Resolve, Unresolved, Swallow,
       RunHandler, AskFails, Replace, Ask, Superseded, Timeout, Resume
<1>3. ASSUME [Next]_vars PROVE [Slots!Next]_(Slots!vars)
  <2>1. CASE UNCHANGED slotVars
    BY <2>1 DEF slotVars, Slots!vars
  <2>2. ASSUME NEW vacated \in SUBSET Key, NEW cancelled \in SUBSET Call,
               Slots!Withdraw(vacated, cancelled)
        PROVE  Slots!Next
    BY <2>2 DEF Slots!Next
  <2>3. \A s : Waiting(s) \subseteq Call
    BY DEF Waiting
  <2>4. ASSUME NEW s \in Session, EndSweep(s) PROVE Slots!Next
    <3>1. {k \in Key : owner[k] # None /\ At[owner[k]] = s} \in SUBSET Key
      OBVIOUS
    <3>2. {c \in Waiting(s) : slot[c] \in sweep[s]} \in SUBSET Call
      BY <2>3
    <3> QED
      BY <2>2, <2>4, <3>1, <3>2 DEF EndSweep
  <2>5. ASSUME NEW d \in Delivery, Unresolved(d) PROVE Slots!Next
    <3>1. {c \in Waiting(At[d]) : slot[c] = KeyOf[d]} \in SUBSET Call /\ {} \in SUBSET Key
      BY <2>3
    <3> QED
      BY <2>2, <2>5, <3>1 DEF Unresolved
  <2>6. ASSUME NEW d \in Delivery, Resolve(d) PROVE Slots!Next
    <3>1. owner[KeyOf[d]] \in Call /\ Slots!Deliver(owner[KeyOf[d]], d)
      BY <2>3, <2>6 DEF Resolve, Taker
    <3> QED
      BY <3>1 DEF Slots!Next
  <2>7. ASSUME NEW c \in Call, Replace(c) PROVE Slots!Next
    <3>1. {KeyOf[c]} \in SUBSET Key /\ {owner[KeyOf[c]]} \cap Waiting(At[c]) \in SUBSET Call
      BY <2>3 DEF Call, Delivery
    <3> QED
      BY <2>2, <2>7, <3>1 DEF Replace
  <2>8. ASSUME NEW c \in Call, Ask(c) PROVE Slots!Next
    BY <2>8 DEF Ask, Slots!Next, Call, Delivery
  <2>9. ASSUME NEW c \in Call, Superseded(c) PROVE Slots!Next
    <3>1. {c} \in SUBSET Call /\ {} \in SUBSET Key
      OBVIOUS
    <3> QED
      BY <2>2, <2>9, <3>1 DEF Superseded
  <2>10. ASSUME NEW c \in Call, Timeout(c) PROVE Slots!Next
    BY <2>10 DEF Timeout, Slots!Next
  <2>11. ASSUME NEW c \in Call, Resume(c) PROVE Slots!Next
    <3>1. {k \in Key : owner[k] = c} \in SUBSET Key /\ {} \in SUBSET Call
      OBVIOUS
    <3> QED
      BY <2>2, <2>11, <3>1 DEF Resume
  <2> QED
    BY <1>3, <2>1, <2>4, <2>5, <2>6, <2>7, <2>8, <2>9, <2>10, <2>11 DEF Next, vars, LifeStep, StopStep,
       Work, SettleStep, Start, Stop, Drain, EndStop, Register, Unregister, Arrive, Take, Lock,
       Bypass, Check, MarkHandled, Unlock, Finish, Swallow, RunHandler, AskFails
<1> QED
  BY <1>1, <1>2, <1>3, PTL DEF Spec, Once!Spec, Slots!Spec
===============================================================================
