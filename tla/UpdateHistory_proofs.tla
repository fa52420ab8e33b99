------------------------ MODULE UpdateHistory_proofs ------------------------
(***************************************************************************)
(* Proofs about the history, for every value of the constants of           *)
(* UpdateHistory: the batch Dispatcher._handle_update() records, whatever  *)
(* the store does, and then what the store keeps and gives back, whatever  *)
(* is recorded, expires, is evicted, popped or cleared.                    *)
(***************************************************************************)
EXTENDS UpdateHistory, SequenceTheorems, WellFoundedInduction, TLAPS

(***************************************************************************)
(* While the handlers run, the batch is all of those that returned, or     *)
(* nothing when the update is not recordable; it is written at most once,  *)
(* by the last step of the update.                                         *)
(***************************************************************************)
BatchAgrees(u) ==
  /\ records[u] = IF recordable[u] THEN returned[u] ELSE <<>>
  /\ pc[u] = "queued" => records[u] = <<>> /\ returned[u] = <<>>
  /\ pc[u] # "done" => recorded[u] = <<>>
  /\ recorded[u] \in {<<>>, records[u]}

Typed ==
  /\ pc \in [Update -> {"queued", "matching", "running", "recording", "done"}]
  /\ DOMAIN records = Update /\ DOMAIN returned = Update /\ DOMAIN recorded = Update
  /\ records = [u \in Update |-> records[u]] /\ returned = [u \in Update |-> returned[u]]
  /\ recorded = [u \in Update |-> recorded[u]]
  /\ recordable \in [Update -> BOOLEAN]

BatchInv == Typed /\ \A u \in Update : BatchAgrees(u)

LEMMA Initially == Init => BatchInv
  BY DEF Init, BatchInv, Typed, BatchAgrees

\* Whatever the steps of one update do, they leave the others alone.
Alone(u) ==
  \A v \in Update \ {u} :
    /\ pc'[v] = pc[v] /\ records'[v] = records[v] /\ returned'[v] = returned[v]
    /\ recorded'[v] = recorded[v] /\ recordable'[v] = recordable[v]

LEMMA OthersAgree ==
  ASSUME BatchInv, NEW u \in Update, Alone(u), Typed', BatchAgrees(u)'
  PROVE  BatchInv'
BY DEF BatchInv, BatchAgrees, Alone

LEMMA Stepwise == BatchInv /\ [Next]_vars => BatchInv'
<1> SUFFICES ASSUME BatchInv, [Next]_vars PROVE BatchInv'
  OBVIOUS
<1>1. CASE UNCHANGED <<updateVars, recorded>>
  BY <1>1 DEF updateVars, BatchInv, Typed, BatchAgrees
<1>2. ASSUME NEW u \in Update,
             Take(u) \/ Match(u) \/ NextGroup(u) \/ Raise(u) \/ Continue(u) \/ Stop(u)
               \/ EndOfGroups(u) \/ RecordFails(u)
      PROVE BatchInv'
  <2> USE <1>2 DEF Take, Match, NextGroup, Raise, Continue, Stop, EndOfGroups, RecordFails,
                   IsRecordable, Goto, ghostVars
  <2>1. UNCHANGED <<records, returned, recorded>> /\ pc[u] # "done"
    OBVIOUS
  <2>2. /\ pc' \in [Update -> {"queued", "matching", "running", "recording", "done"}]
        /\ recordable' \in [Update -> BOOLEAN]
        /\ \A v \in Update \ {u} : pc'[v] = pc[v] /\ recordable'[v] = recordable[v]
        /\ pc'[u] # "queued"
    BY ZenonT(30) DEF BatchInv, Typed
  <2>3. recordable' = recordable \/ pc[u] = "queued"
    OBVIOUS
  <2> HIDE <1>2 DEF Take, Match, NextGroup, Raise, Continue, Stop, EndOfGroups, RecordFails,
                   IsRecordable, Goto, ghostVars
  <2>4. Typed' /\ Alone(u)
    BY <2>1, <2>2 DEF BatchInv, Typed, Alone
  <2>5. BatchAgrees(u)'
    BY <2>1, <2>2, <2>3 DEF BatchInv, Typed, BatchAgrees
  <2> QED
    BY <2>4, <2>5, OthersAgree
<1>3. ASSUME NEW u \in Update, Return(u) PROVE BatchInv'
  <2>1. Typed' /\ Alone(u)
    BY <1>3 DEF Return, BatchInv, Typed, Alone, Goto, ghostVars
  <2>2. BatchAgrees(u)'
    BY <1>3 DEF Return, BatchInv, Typed, BatchAgrees, Goto, ghostVars
  <2> QED
    BY <2>1, <2>2, OthersAgree
<1>4. ASSUME NEW u \in Update, RecordMany(u) PROVE BatchInv'
  <2>1. /\ recorded' = [recorded EXCEPT ![u] = records[u]] /\ pc' = [pc EXCEPT ![u] = "done"]
        /\ UNCHANGED <<records, returned, recordable>>
    BY <1>4 DEF RecordMany, Goto
  <2>2. Typed' /\ Alone(u) /\ BatchAgrees(u)'
    BY <2>1 DEF BatchInv, Typed, Alone, BatchAgrees
  <2> QED
    BY <2>2, OthersAgree
<1>5. ASSUME NEW u \in Update, RecordOwn(u) PROVE BatchInv'
  BY <1>5, <1>1 DEF RecordOwn
<1>6. ASSUME Tick PROVE BatchInv'
  BY <1>6, <1>1 DEF Tick, ghostVars
<1>7. ASSUME NEW k \in Key, Get(k) \/ Pop(k) \/ Clear(k) PROVE BatchInv'
  BY <1>7, <1>1 DEF Get, Pop, Clear
<1> QED
  BY <1>1, <1>2, <1>3, <1>4, <1>5, <1>6, <1>7 DEF Next, vars, ghostVars

\* The history of an update has all of its handlers that returned or none of
\* them, in whatever way the handlers end (Dispatcher._handle_update).
THEOREM WholeBatch == Spec => []BatchIsWhatReturned
<1>1. BatchInv => BatchIsWhatReturned
  BY DEF BatchInv, BatchAgrees, BatchIsWhatReturned
<1> QED
  BY <1>1, Initially, Stepwise, PTL DEF Spec

-----------------------------------------------------------------------------
\* The least element of a set of positions.
LEMMA Least ==
  ASSUME NEW S \in SUBSET Nat, S # {}
  PROVE  Min(S) \in S /\ \A y \in S : Min(S) <= y
<1>1. PICK x \in S : \A y \in S : ~ (<<y, x>> \in OpToRel(<, Nat))
  BY NatLessThanWellFounded, WFMin, Zenon
<1>2. \A y \in S : x <= y
  <2> TAKE y \in S
  <2>1. ~ (y < x)
    BY <1>1 DEF OpToRel
  <2> QED
    BY <2>1
<1> QED
  BY <1>2 DEF Min

(***************************************************************************)
(* A suffix, element by element.                                           *)
(***************************************************************************)
LEMMA SuffixAt ==
  ASSUME NEW S, NEW s \in Seq(S), NEW t \in Seq(S), IsSuffix(s, t), NEW i \in DOMAIN s
  PROVE  /\ i + (Len(t) - Len(s)) \in DOMAIN t
         /\ s[i] = t[i + (Len(t) - Len(s))]
<1>0. Len(s) <= Len(t) /\ Len(s) \in Nat /\ Len(t) \in Nat
  BY LenProperties DEF IsSuffix
<1>1. PICK d \in Nat : d = Len(t) - Len(s)
  BY <1>0
<1>2. s = SubSeq(t, d + 1, Len(t)) /\ Len(t) = d + Len(s) /\ i \in 1..Len(s) /\ Len(s) \in Nat
  BY <1>1 DEF IsSuffix
<1>3. \A j \in d + 1..Len(t) : j \in 1..Len(t)
  BY <1>1
<1>4. s[i] = t[(d + 1) + i - 1]
  BY <1>2, <1>3, SubSeqProperties
<1> QED
  BY <1>1, <1>2, <1>4

LEMMA SuffixFrom ==
  ASSUME NEW S, NEW s \in Seq(S), NEW t \in Seq(S), Len(s) <= Len(t),
         \A i \in DOMAIN s : s[i] = t[i + (Len(t) - Len(s))]
  PROVE  IsSuffix(s, t)
<1>1. PICK d \in Nat : d = Len(t) - Len(s)
  BY LenProperties
<1>2. PICK r : r = SubSeq(t, d + 1, Len(t))
  OBVIOUS
<1>3. Len(t) = d + Len(s) /\ Len(s) \in Nat /\ \A j \in d + 1..Len(t) : j \in 1..Len(t)
  BY <1>1
<1>4. /\ r \in Seq(S)
      /\ Len(r) = IF d + 1 <= Len(t) THEN Len(t) - (d + 1) + 1 ELSE 0
      /\ \A i \in 1..Len(t) - (d + 1) + 1 : r[i] = t[(d + 1) + i - 1]
  BY <1>2, <1>3, SubSeqProperties
<1>5. Len(r) = Len(s)
  BY <1>3, <1>4
<1>6. \A i \in 1..Len(s) : s[i] = r[i]
  <2> TAKE i \in 1..Len(s)
  <2>1. /\ i \in DOMAIN s /\ i \in 1..Len(t) - (d + 1) + 1
        /\ (d + 1) + i - 1 = i + d /\ i + (Len(t) - Len(s)) = i + d
    BY <1>3
  <2>2. r[i] = t[(d + 1) + i - 1]
    BY <1>4, <2>1
  <2>3. s[i] = t[i + (Len(t) - Len(s))]
    BY <2>1
  <2> QED
    BY <2>1, <2>2, <2>3
<1>7. s = r
  BY <1>4, <1>5, <1>6, SeqEqual
<1> QED
  BY <1>1, <1>2, <1>7 DEF IsSuffix

LEMMA SuffixTrivial ==
  ASSUME NEW S, NEW s \in Seq(S)
  PROVE  IsSuffix(s, s) /\ IsSuffix(<<>>, s)
<1>1. IsSuffix(s, s)
  BY SuffixFrom
<1>2. PICK e : e = <<>>
  OBVIOUS
<1>3. e \in Seq(S) /\ Len(e) = 0
  BY <1>2, EmptySeq
<1>4. IsSuffix(e, s)
  <2>1. DOMAIN e = {} /\ Len(e) <= Len(s)
    BY <1>3, LenProperties
  <2> QED
    BY <1>3, <2>1, SuffixFrom
<1> QED
  BY <1>1, <1>2, <1>4

LEMMA Empty ==
  ASSUME NEW S
  PROVE  /\ <<>> \in Seq(S) /\ Len(<<>>) = 0 /\ IsSuffix(<<>>, <<>>)
         /\ DOMAIN <<>> = {} /\ Elements(<<>>) = {}
<1>1. PICK e : e = <<>>
  OBVIOUS
<1>2. e \in Seq(S) /\ Len(e) = 0
  BY <1>1, EmptySeq
<1>3. DOMAIN e = {}
  BY <1>2, LenProperties
<1>4. IsSuffix(e, e) /\ Elements(e) = {}
  BY <1>2, <1>3, SuffixTrivial DEF Elements
<1> QED
  BY <1>1, <1>2, <1>3, <1>4

LEMMA SuffixTransitive ==
  ASSUME NEW S, NEW s \in Seq(S), NEW t \in Seq(S), NEW w \in Seq(S),
         IsSuffix(s, t), IsSuffix(t, w)
  PROVE  IsSuffix(s, w)
<1>1. Len(s) <= Len(t) /\ Len(t) <= Len(w)
  BY DEF IsSuffix
<1>2. ASSUME NEW i \in DOMAIN s PROVE s[i] = w[i + (Len(w) - Len(s))]
  <2>1. PICK j \in DOMAIN t : j = i + (Len(t) - Len(s)) /\ s[i] = t[j]
    BY SuffixAt
  <2>2. t[j] = w[j + (Len(w) - Len(t))]
    BY SuffixAt
  <2>3. j + (Len(w) - Len(t)) = i + (Len(w) - Len(s))
    BY <2>1
  <2> QED
    BY <2>1, <2>2, <2>3
<1> QED
  BY <1>1, <1>2, SuffixFrom

LEMMA SuffixConcat ==
  ASSUME NEW S, NEW s \in Seq(S), NEW t \in Seq(S), NEW b \in Seq(S), IsSuffix(s, t)
  PROVE  IsSuffix(s \o b, t \o b)
<1>1. PICK x \in Seq(S) : x = s \o b
  BY ConcatProperties
<1>2. PICK y \in Seq(S) : y = t \o b
  BY ConcatProperties
<1>3. /\ Len(x) = Len(s) + Len(b)
      /\ \A i \in 1..Len(s) + Len(b) : x[i] = IF i <= Len(s) THEN s[i] ELSE b[i - Len(s)]
      /\ Len(y) = Len(t) + Len(b)
      /\ \A i \in 1..Len(t) + Len(b) : y[i] = IF i <= Len(t) THEN t[i] ELSE b[i - Len(t)]
  BY <1>1, <1>2, ConcatProperties
<1>4. Len(s) <= Len(t) /\ Len(s) \in Nat /\ Len(t) \in Nat /\ Len(b) \in Nat
  BY DEF IsSuffix
<1>5. ASSUME NEW i \in DOMAIN x PROVE x[i] = y[i + (Len(y) - Len(x))]
  <2>1. PICK j \in Nat : j = i + (Len(t) - Len(s)) /\ j = i + (Len(y) - Len(x))
    BY <1>3, <1>4
  <2>2. i \in 1..Len(s) + Len(b) /\ j \in 1..Len(t) + Len(b)
    BY <1>3, <1>4, <2>1
  <2>3. CASE i <= Len(s)
    <3>1. i \in DOMAIN s
      BY <1>4, <2>2, <2>3
    <3>2. s[i] = t[j]
      BY <2>1, <3>1, SuffixAt
    <3>3. j <= Len(t)
      BY <1>4, <2>1, <2>3
    <3> QED
      BY <1>3, <2>1, <2>2, <2>3, <3>2, <3>3
  <2>4. CASE ~ (i <= Len(s))
    <3>1. ~ (j <= Len(t)) /\ i - Len(s) = j - Len(t)
      BY <1>4, <2>1, <2>2, <2>4, SMTT(30)
    <3> QED
      BY <1>3, <2>1, <2>2, <2>4, <3>1
  <2> QED
    BY <2>3, <2>4
<1>6. Len(x) <= Len(y)
  BY <1>3, <1>4
<1> QED
  BY <1>1, <1>2, <1>5, <1>6, SuffixFrom

LEMMA Tails ==
  ASSUME NEW S, NEW t \in Seq(S), NEW m \in Nat, m >= 1, m <= Len(t) + 1
  PROVE  /\ SubSeq(t, m, Len(t)) \in Seq(S)
         /\ Len(SubSeq(t, m, Len(t))) = Len(t) - m + 1
         /\ IsSuffix(SubSeq(t, m, Len(t)), t)
<1>1. PICK r : r = SubSeq(t, m, Len(t))
  OBVIOUS
<1>2. /\ r \in Seq(S)
      /\ Len(r) = IF m <= Len(t) THEN Len(t) - m + 1 ELSE 0
  BY <1>1, SubSeqProperties
<1>3. Len(r) = Len(t) - m + 1
  BY <1>2
<1>4. Len(t) - Len(r) + 1 = m /\ Len(r) <= Len(t)
  BY <1>3
<1> QED
  BY <1>1, <1>2, <1>3, <1>4 DEF IsSuffix

LEMMA SuffixElements ==
  ASSUME NEW S, NEW s \in Seq(S), NEW t \in Seq(S), IsSuffix(s, t)
  PROVE  Elements(s) \subseteq Elements(t)
BY SuffixAt DEF Elements

-----------------------------------------------------------------------------
(***************************************************************************)
(* What the operations of the store do to its heaps.                       *)
(***************************************************************************)
IsStore(st) ==
  /\ st = [order |-> st.order, expires |-> st.expires, heap |-> st.heap]
  /\ st.heap \in [Key -> Seq(Record)]

LEMMA PurgedHeaps ==
  ASSUME NEW st, IsStore(st), NEW t
  PROVE  /\ IsStore(Purged(st, t))
         /\ \A j \in Key : Purged(st, t).heap[j] \in {st.heap[j], <<>>}
<1>1. <<>> \in Seq(Record)
  BY EmptySeq
<1>2. PICK alive \in SUBSET Key :
        Purged(st, t) = [order   |-> Among(st.order, alive),
                         expires |-> [k \in Key |-> IF k \in alive THEN st.expires[k] ELSE 0],
                         heap    |-> [k \in Key |-> IF k \in alive THEN st.heap[k] ELSE <<>>]]
  BY DEF Purged
<1> QED
  BY <1>1, <1>2 DEF IsStore

LEMMA WithoutHeaps ==
  ASSUME NEW st, IsStore(st), NEW k
  PROVE  /\ IsStore(Without(st, k))
         /\ \A j \in Key : Without(st, k).heap[j] = IF j = k THEN <<>> ELSE st.heap[j]
<1>1. <<>> \in Seq(Record)
  BY EmptySeq
<1> QED
  BY <1>1 DEF IsStore, Without

LEMMA TouchedHeaps ==
  ASSUME NEW st, IsStore(st), NEW k
  PROVE  IsStore(Touched(st, k)) /\ Touched(st, k).heap = st.heap
BY DEF IsStore, Touched

LEMMA WithKeyHeaps ==
  ASSUME NEW st, IsStore(st), NEW k
  PROVE  /\ IsStore(WithKey(st, k))
         /\ \A j \in Key : WithKey(st, k).heap[j] \in {st.heap[j], <<>>}
<1>1. CASE Resident(st, k)
  BY <1>1, TouchedHeaps DEF WithKey
<1>2. CASE ~ Resident(st, k)
  <2>1. PICK room : /\ room = IF Len(st.order) >= MaxKeys THEN Without(st, Head(st.order)) ELSE st
                    /\ WithKey(st, k) = [room EXCEPT !.order = Append(@, k),
                                                     !.expires[k] = now + Ttl]
    BY <1>2 DEF WithKey
  <2>2. IsStore(room) /\ \A j \in Key : room.heap[j] \in {st.heap[j], <<>>}
    BY <2>1, WithoutHeaps
  <2> QED
    BY <2>1, <2>2 DEF IsStore
<1> QED
  BY <1>1, <1>2

LEMMA DroppedHeaps ==
  ASSUME NEW st, IsStore(st), NEW k \in Key
  PROVE  IsStore(DroppedIfEmpty(st, k)) /\ \A j \in Key : DroppedIfEmpty(st, k).heap[j] = st.heap[j]
BY WithoutHeaps DEF DroppedIfEmpty

LEMMA CleanUpIsTail ==
  ASSUME NEW h \in Seq(Record)
  PROVE  CleanUp(h) \in Seq(Record) /\ IsSuffix(CleanUp(h), h)
<1>1. PICK fresh : fresh = {i \in DOMAIN h : ~IsExpired(h[i])}
  OBVIOUS
<1>2. CleanUp(h) = IF fresh = {} THEN <<>> ELSE SubSeq(h, Min(fresh), Len(h))
  BY <1>1 DEF CleanUp
<1>3. CASE fresh = {}
  BY <1>2, <1>3, EmptySeq, SuffixTrivial
<1>4. CASE fresh # {}
  <2>1. fresh \in SUBSET Nat /\ \A i \in fresh : i >= 1 /\ i <= Len(h)
    BY <1>1, LenProperties
  <2>2. PICK m : m = Min(fresh)
    OBVIOUS
  <2>3. m \in Nat /\ m >= 1 /\ m <= Len(h)
    BY <1>4, <2>1, <2>2, Least
  <2>4. m <= Len(h) + 1
    BY <2>3, LenProperties
  <2> QED
    BY <1>2, <1>4, <2>2, <2>3, <2>4, Tails
<1> QED
  BY <1>3, <1>4

LEMMA NewestIsTail ==
  ASSUME NEW h \in Seq(Record)
  PROVE  NewestOf(h) \in Seq(Record) /\ IsSuffix(NewestOf(h), h) /\ Len(NewestOf(h)) <= MaxLen
<1>0. Len(h) \in Nat /\ MaxLen \in Nat
  BY LenProperties, ConstantsAssumption DEF ConstantsAssumption
<1>1. PICK m : m = IF Len(h) > MaxLen THEN Len(h) - MaxLen + 1 ELSE 1
  OBVIOUS
<1>2. NewestOf(h) = SubSeq(h, m, Len(h))
  BY <1>1 DEF NewestOf
<1>3. m \in Nat /\ m >= 1 /\ m <= Len(h) + 1 /\ Len(h) - m + 1 <= MaxLen
  BY <1>0, <1>1
<1> QED
  BY <1>2, <1>3, Tails

\* What a key held and is given, the rest untouched or gone.
LEMMA UpdatedHeaps ==
  ASSUME IsStore(store), NEW k \in Key, NEW batch \in Seq(Record)
  PROVE  /\ IsStore(Updated(k, batch))
         /\ IsSuffix(Updated(k, batch).heap[k], store.heap[k] \o batch)
         /\ Len(Updated(k, batch).heap[k]) <= MaxLen
         /\ \A j \in Key \ {k} : Updated(k, batch).heap[j] \in {store.heap[j], <<>>}
<1>1. PICK p : p = Purged(store, now)
  OBVIOUS
<1>2. IsStore(p) /\ \A j \in Key : p.heap[j] \in {store.heap[j], <<>>}
  BY <1>1, PurgedHeaps
<1>3. PICK st : st = WithKey(p, k)
  OBVIOUS
<1>4. IsStore(st) /\ \A j \in Key : st.heap[j] \in {store.heap[j], <<>>}
  BY <1>2, <1>3, WithKeyHeaps
<1>5. PICK h : h = st.heap[k] \o batch
  OBVIOUS
<1>6. h \in Seq(Record) /\ IsSuffix(h, store.heap[k] \o batch)
  <2>1. st.heap[k] \in Seq(Record) /\ store.heap[k] \in Seq(Record)
    BY <1>4 DEF IsStore
  <2>2. IsSuffix(st.heap[k], store.heap[k])
    BY <1>4, <2>1, SuffixTrivial
  <2> QED
    BY <1>5, <2>1, <2>2, SuffixConcat, ConcatProperties
<1>7. PICK new : new = NewestOf(CleanUp(h))
  OBVIOUS
<1>8. new \in Seq(Record) /\ IsSuffix(new, store.heap[k] \o batch) /\ Len(new) <= MaxLen
  <2>1. CleanUp(h) \in Seq(Record) /\ IsSuffix(CleanUp(h), h)
    BY <1>6, CleanUpIsTail
  <2>2. new \in Seq(Record) /\ IsSuffix(new, CleanUp(h)) /\ Len(new) <= MaxLen
    BY <1>7, <2>1, NewestIsTail
  <2>3. IsSuffix(new, h)
    BY <1>6, <2>1, <2>2, SuffixTransitive
  <2>4. store.heap[k] \o batch \in Seq(Record)
    BY ConcatProperties DEF IsStore
  <2> QED
    BY <1>6, <2>2, <2>3, <2>4, SuffixTransitive
<1>9. PICK full : full = [st EXCEPT !.heap[k] = new]
  OBVIOUS
<1>10. IsStore(full) /\ full.heap[k] = new /\ \A j \in Key \ {k} : full.heap[j] = st.heap[j]
  BY <1>4, <1>8, <1>9 DEF IsStore
<1>11. Updated(k, batch) = DroppedIfEmpty(full, k)
  BY <1>1, <1>3, <1>5, <1>7, <1>9 DEF Updated
<1>12. IsStore(Updated(k, batch)) /\ \A j \in Key : Updated(k, batch).heap[j] = full.heap[j]
  BY <1>10, <1>11, DroppedHeaps
<1>13. Updated(k, batch).heap[k] = new
  BY <1>10, <1>12
<1> QED
  BY <1>4, <1>8, <1>10, <1>12, <1>13

LEMMA HeldIsTail ==
  ASSUME IsStore(store), NEW k \in Key
  PROVE  Held(k) \in Seq(Record) /\ IsSuffix(Held(k), store.heap[k])
<1>1. PICK h : h = Purged(store, now).heap[k]
  OBVIOUS
<1>2. h \in Seq(Record) /\ IsSuffix(h, store.heap[k]) /\ store.heap[k] \in Seq(Record)
  BY <1>1, PurgedHeaps, SuffixTrivial DEF IsStore
<1>3. Held(k) = CleanUp(h)
  BY <1>1 DEF Held
<1> QED
  BY <1>2, <1>3, CleanUpIsTail, SuffixTransitive

LEMMA ReadHeaps ==
  ASSUME IsStore(store), NEW k \in Key
  PROVE  /\ IsStore(Read(k))
         /\ \A j \in Key : IsSuffix(Read(k).heap[j], store.heap[j])
<1>1. PICK st : st = Touched(Purged(store, now), k)
  OBVIOUS
<1>2. IsStore(st) /\ st.heap = Purged(store, now).heap
  BY <1>1, PurgedHeaps, TouchedHeaps
<1>3. CleanUp(st.heap[k]) = Held(k)
  BY <1>2 DEF Held
<1>4. PICK left : left = [st EXCEPT !.heap[k] = Held(k)]
  OBVIOUS
<1>5. IsStore(left) /\ left.heap[k] = Held(k) /\ \A j \in Key \ {k} : left.heap[j] = st.heap[j]
  BY <1>2, <1>4, HeldIsTail DEF IsStore
<1>6. Read(k) = DroppedIfEmpty(left, k)
  BY <1>1, <1>3, <1>4 DEF Read
<1>7. IsStore(Read(k)) /\ \A j \in Key : Read(k).heap[j] = left.heap[j]
  BY <1>5, <1>6, DroppedHeaps
<1>8. ASSUME NEW j \in Key \ {k} PROVE IsSuffix(left.heap[j], store.heap[j])
  <2>1. PICK h : h = left.heap[j]
    OBVIOUS
  <2>2. h \in {store.heap[j], <<>>} /\ store.heap[j] \in Seq(Record)
    <3>1. \A i \in Key : Purged(store, now).heap[i] \in {store.heap[i], <<>>}
      BY PurgedHeaps
    <3>2. h = Purged(store, now).heap[j]
      BY <1>2, <1>5, <2>1
    <3> QED
      BY <3>1, <3>2 DEF IsStore
  <2> QED
    BY <2>1, <2>2, SuffixTrivial
<1> QED
  BY <1>5, <1>7, <1>8, HeldIsTail

\* pop() and clear().
LEMMA TakenHeaps ==
  ASSUME IsStore(store), NEW k \in Key
  PROVE  /\ IsStore(Without(Purged(store, now), k))
         /\ Without(Purged(store, now), k).heap[k] = <<>>
         /\ \A j \in Key : Without(Purged(store, now), k).heap[j] \in {store.heap[j], <<>>}
BY PurgedHeaps, WithoutHeaps
-----------------------------------------------------------------------------
(***************************************************************************)
(* The records of a heap lie in the order they were made.  Each belongs to *)
(* the key, none was popped, and what gave it, the last step of its update *)
(* or the one record() of its handler, does not happen again.              *)
(***************************************************************************)
IsSorted(h) == \A i, j \in DOMAIN h : i <= j => h[i].at <= h[j].at

Accounted(r) == IF r.by = "dispatcher" THEN pc[r.update] = "done" ELSE r.update \in own

Kept(k) ==
  /\ IsSorted(store.heap[k])
  /\ \A r \in Elements(store.heap[k]) :
       r.at <= now /\ KeyOf[r.update] = k /\ r \notin popped /\ Accounted(r)

Placed ==
  /\ pc \in [Update -> {"queued", "matching", "running", "recording", "done"}]
  /\ at \in [Update -> (Nat \ {0}) \X (Nat \ {0})]
  /\ records \in [Update -> Seq(Handler)]
  /\ \A u \in Update : pc[u] = "running" => /\ at[u][1] \in DOMAIN Groups
                                            /\ at[u][2] \in DOMAIN Groups[at[u][1]]

HeapTyped ==
  /\ IsStore(store)
  /\ now \in 0..MaxTime /\ log \in [Key -> Seq(Record)]
  /\ own \subseteq Recorder /\ popped \subseteq Record

HeapInv ==
  /\ HeapTyped /\ Placed /\ HeldIsNewest
  /\ \A k \in Key : Kept(k)
  /\ \A r \in popped : Accounted(r)

LEMMA HeapInitially == Init => HeapInv
<1> SUFFICES ASSUME Init PROVE HeapInv
  OBVIOUS
<1>1. PICK e : e = <<>>
  OBVIOUS
<1>2. /\ e \in Seq(Record) /\ e \in Seq(Handler) /\ Len(e) = 0 /\ IsSuffix(e, e)
      /\ DOMAIN e = {} /\ Elements(e) = {}
  BY <1>1, Empty
<1>3. /\ store.heap = [k \in Key |-> e] /\ log = [k \in Key |-> e] /\ IsStore(store)
  BY <1>1, <1>2 DEF Init, IsStore
<1>4. HeapTyped
  BY <1>2, <1>3, ConstantsAssumption DEF Init, HeapTyped, ConstantsAssumption
<1>5. Placed
  BY <1>1, <1>2 DEF Init, Placed
<1>6. HeldIsNewest
  BY <1>2, <1>3, ConstantsAssumption DEF HeldIsNewest, ConstantsAssumption
<1>7. \A k \in Key : Kept(k)
  BY <1>2, <1>3 DEF Kept, IsSorted
<1> QED
  BY <1>4, <1>5, <1>6, <1>7 DEF HeapInv, Init

\* What does not go back.
Grows ==
  /\ own \subseteq own' /\ now <= now'
  /\ \A u \in Update : pc[u] = "done" => pc'[u] = "done"

LEMMA StillAccounted ==
  ASSUME Grows, NEW r \in Record, Accounted(r)
  PROVE  Accounted(r)'
BY DEF Grows, Accounted, Record

LEMMA SortedTail ==
  ASSUME NEW s \in Seq(Record), NEW t \in Seq(Record), IsSuffix(s, t), IsSorted(t)
  PROVE  IsSorted(s)
<1> SUFFICES ASSUME NEW i \in DOMAIN s, NEW j \in DOMAIN s, i <= j PROVE s[i].at <= s[j].at
  BY DEF IsSorted
<1>1. PICK d \in Int : d = Len(t) - Len(s)
  BY LenProperties
<1>2. i + d \in DOMAIN t /\ j + d \in DOMAIN t /\ s[i] = t[i + d] /\ s[j] = t[j + d]
  BY <1>1, SuffixAt
<1>3. i + d <= j + d
  BY <1>1, LenProperties
<1> QED
  BY <1>2, <1>3 DEF IsSorted

LEMMA SortedConcat ==
  ASSUME NEW s \in Seq(Record), NEW b \in Seq(Record), NEW t \in Nat, IsSorted(s),
         \A r \in Elements(s) : r.at <= t, \A r \in Elements(b) : r.at = t
  PROVE  /\ s \o b \in Seq(Record) /\ IsSorted(s \o b)
         /\ Elements(s \o b) = Elements(s) \cup Elements(b)
<1>1. PICK x : x = s \o b
  OBVIOUS
<1>2. /\ x \in Seq(Record)
      /\ Len(x) = Len(s) + Len(b) /\ Len(s) \in Nat /\ Len(b) \in Nat
      /\ \A i \in 1..Len(s) + Len(b) : x[i] = IF i <= Len(s) THEN s[i] ELSE b[i - Len(s)]
      /\ DOMAIN x = 1..Len(s) + Len(b) /\ DOMAIN s = 1..Len(s) /\ DOMAIN b = 1..Len(b)
  BY <1>1, ConcatProperties, LenProperties
<1>3. ASSUME NEW i \in DOMAIN x
      PROVE  \/ i <= Len(s) /\ i \in DOMAIN s /\ x[i] = s[i] /\ x[i] \in Elements(s)
             \/ i > Len(s) /\ x[i] \in Elements(b)
  <2>1. CASE i <= Len(s)
    BY <1>2, <2>1 DEF Elements
  <2>2. CASE ~ (i <= Len(s))
    <3>1. i - Len(s) \in DOMAIN b /\ x[i] = b[i - Len(s)] /\ i > Len(s)
      BY <1>2, <2>2
    <3> QED
      BY <3>1 DEF Elements
  <2> QED
    BY <2>1, <2>2
<1>4. Elements(x) \subseteq Elements(s) \cup Elements(b)
  BY <1>3 DEF Elements
<1>5. Elements(s) \subseteq Elements(x)
  <2> SUFFICES ASSUME NEW i \in DOMAIN s PROVE i \in DOMAIN x /\ x[i] = s[i]
    BY DEF Elements
  <2> QED
    BY <1>2
<1>6. Elements(b) \subseteq Elements(x)
  <2> SUFFICES ASSUME NEW i \in DOMAIN b PROVE \E j \in DOMAIN x : x[j] = b[i]
    BY DEF Elements
  <2>1. PICK j \in Nat : j = i + Len(s)
    BY <1>2
  <2>2. j \in DOMAIN x /\ ~ (j <= Len(s)) /\ j - Len(s) = i
    BY <1>2, <2>1
  <2> QED
    BY <1>2, <2>2
<1>7. IsSorted(x)
  <2> SUFFICES ASSUME NEW i \in DOMAIN x, NEW j \in DOMAIN x, i <= j PROVE x[i].at <= x[j].at
    BY DEF IsSorted
  <2>1. CASE j <= Len(s)
    <3>1. i \in DOMAIN s /\ j \in DOMAIN s /\ x[i] = s[i] /\ x[j] = s[j]
      BY <1>2, <2>1
    <3> QED
      BY <3>1 DEF IsSorted
  <2>2. CASE ~ (j <= Len(s))
    <3>1. x[j].at = t
      BY <1>2, <1>3, <2>2
    <3>2. x[i].at <= t
      BY <1>3
    <3> QED
      BY <3>1, <3>2
  <2> QED
    BY <2>1, <2>2
<1> QED
  BY <1>1, <1>2, <1>4, <1>5, <1>6, <1>7
\* The heap of a key that was given a batch, and lost part of what it had.
LEMMA KeptAfter ==
  ASSUME HeapInv, HeapTyped', Grows, NEW k \in Key, NEW batch \in Seq(Record),
         IsSuffix(store'.heap[k], store.heap[k] \o batch),
         \A r \in Elements(batch) :
           r.at = now /\ KeyOf[r.update] = k /\ r \notin popped /\ Accounted(r)',
         \A r \in Elements(store'.heap[k]) : r \in popped' => r \in popped
  PROVE  Kept(k)'
<1>1. PICK h : h = store.heap[k]
  OBVIOUS
<1>2. PICK x : x = h \o batch
  OBVIOUS
<1>3. PICK new : new = store'.heap[k]
  OBVIOUS
<1>4. h \in Seq(Record) /\ new \in Seq(Record) /\ now \in Nat /\ now' \in Nat /\ now <= now'
  BY <1>1, <1>3, ConstantsAssumption DEF HeapInv, HeapTyped, IsStore, Grows, ConstantsAssumption
<1>5. /\ IsSorted(h)
      /\ \A r \in Elements(h) :
           r.at <= now /\ KeyOf[r.update] = k /\ r \notin popped /\ Accounted(r)
  BY <1>1 DEF HeapInv, Kept
<1>6. x \in Seq(Record) /\ IsSorted(x) /\ Elements(x) = Elements(h) \cup Elements(batch)
  BY <1>2, <1>4, <1>5, SortedConcat
<1>7. IsSorted(new) /\ Elements(new) \subseteq Elements(x)
  BY <1>1, <1>2, <1>3, <1>4, <1>6, SortedTail, SuffixElements, ZenonT(30)
<1>8. Elements(h) \subseteq Record
  BY <1>4 DEF Elements
<1>9. ASSUME NEW r \in Elements(new)
      PROVE  r.at <= now' /\ KeyOf[r.update] = k /\ r \notin popped' /\ Accounted(r)'
  <2>1. r \in popped' => r \in popped
    BY <1>3, <1>9
  <2>2. CASE r \in Elements(h)
    <3>1. r \in Record /\ r.at \in Nat
      BY <1>8, <2>2, ConstantsAssumption DEF Record, ConstantsAssumption
    <3> QED
      BY <1>4, <1>5, <2>1, <2>2, <3>1, StillAccounted
  <2>3. CASE r \in Elements(batch)
    BY <1>4, <2>1, <2>3
  <2> QED
    BY <1>6, <1>7, <2>2, <2>3
<1>10. IsSorted(store'.heap[k])
  BY <1>3, <1>7
<1>11. \A r \in Elements(store'.heap[k]) :
         r.at <= now' /\ KeyOf[r.update] = k /\ r \notin popped' /\ Accounted(r)'
  BY <1>3, <1>9
<1> QED
  BY <1>10, <1>11 DEF Kept, IsSorted

\* A key that was given nothing.
LEMMA KeptLess ==
  ASSUME HeapInv, HeapTyped', Grows, NEW k \in Key,
         IsSuffix(store'.heap[k], store.heap[k]),
         \A r \in Elements(store'.heap[k]) : r \in popped' => r \in popped
  PROVE  Kept(k)'
<1>1. PICK e : e = <<>>
  OBVIOUS
<1>2. e \in Seq(Record) /\ Elements(e) = {}
  BY <1>1, Empty
<1>3. store.heap[k] \o e = store.heap[k]
  BY <1>1, ConcatEmptySeq DEF HeapInv, HeapTyped, IsStore
<1>4. IsSuffix(store'.heap[k], store.heap[k] \o e)
  BY <1>3
<1> QED
  BY <1>2, <1>4, KeptAfter

\* Steps that leave the store alone.
LEMMA HeapsAlone ==
  ASSUME HeapInv, UNCHANGED <<store, log, popped>>, Grows, Placed',
         now' \in 0..MaxTime, own' \subseteq Recorder
  PROVE  HeapInv'
<1>1. HeapTyped' /\ HeldIsNewest'
  BY DEF HeapInv, HeapTyped, IsStore, HeldIsNewest
<1>2. ASSUME NEW k \in Key PROVE Kept(k)'
  <2>1. IsSuffix(store'.heap[k], store.heap[k])
    BY SuffixTrivial DEF HeapInv, HeapTyped, IsStore
  <2> QED
    BY <1>1, <2>1, KeptLess
<1>3. \A r \in popped' : Accounted(r)'
  BY StillAccounted DEF HeapInv, HeapTyped
<1> QED
  BY <1>1, <1>2, <1>3 DEF HeapInv

\* _update(), whoever calls it.
LEMMA HeapsUpdated ==
  ASSUME HeapInv, NEW k \in Key, NEW batch \in Seq(Record),
         store' = Updated(k, batch), log' = [log EXCEPT ![k] = @ \o batch],
         UNCHANGED <<now, popped>>, own' \subseteq Recorder, Grows, Placed',
         \A r \in Elements(batch) :
           r.at = now /\ KeyOf[r.update] = k /\ r \notin popped /\ Accounted(r)'
  PROVE  HeapInv'
<1>1. /\ IsStore(store') /\ Len(store'.heap[k]) <= MaxLen
      /\ IsSuffix(store'.heap[k], store.heap[k] \o batch)
      /\ \A j \in Key \ {k} : store'.heap[j] \in {store.heap[j], <<>>}
  BY UpdatedHeaps DEF HeapInv, HeapTyped
<1>2. /\ \A j \in Key : store'.heap[j] \in Seq(Record) /\ store.heap[j] \in Seq(Record)
      /\ \A j \in Key : log[j] \in Seq(Record) /\ IsSuffix(store.heap[j], log[j])
      /\ \A j \in Key : Len(store.heap[j]) <= MaxLen
  BY <1>1 DEF HeapInv, HeapTyped, IsStore, HeldIsNewest
<1>3. /\ log'[k] = log[k] \o batch /\ log[k] \o batch \in Seq(Record)
      /\ \A j \in Key \ {k} : log'[j] = log[j]
      /\ log' \in [Key -> Seq(Record)]
  BY <1>2, ConcatProperties DEF HeapInv, HeapTyped
<1>4. HeapTyped'
  BY <1>1, <1>3 DEF HeapInv, HeapTyped, IsStore
<1>5. \A j \in Key \ {k} : IsSuffix(store'.heap[j], store.heap[j])
  BY <1>1, <1>2, SuffixTrivial
<1>6. HeldIsNewest'
  <2>1. IsSuffix(store'.heap[k], log'[k])
    <3>1. PICK a : a = store.heap[k] \o batch
      OBVIOUS
    <3>2. PICK l : l = log'[k]
      OBVIOUS
    <3>3. a \in Seq(Record) /\ l \in Seq(Record) /\ IsSuffix(a, l)
      <4>1. IsSuffix(store.heap[k] \o batch, log[k] \o batch)
        BY <1>2, SuffixConcat
      <4>2. store.heap[k] \o batch \in Seq(Record)
        BY <1>2, ConcatProperties
      <4> QED
        BY <1>3, <3>1, <3>2, <4>1, <4>2
    <3>4. store'.heap[k] \in Seq(Record) /\ IsSuffix(store'.heap[k], a)
      BY <1>1, <1>2, <3>1
    <3>5. IsSuffix(store'.heap[k], l)
      BY <3>3, <3>4, SuffixTransitive
    <3> QED
      BY <3>2, <3>5
  <2>2. ASSUME NEW j \in Key \ {k}
        PROVE  IsSuffix(store'.heap[j], log'[j]) /\ Len(store'.heap[j]) <= MaxLen
    <3>1. IsSuffix(store'.heap[j], log[j])
      BY <1>2, <1>5, SuffixTransitive
    <3>2. Len(store'.heap[j]) <= Len(store.heap[j])
      BY <1>5 DEF IsSuffix
    <3>3. Len(store'.heap[j]) \in Nat /\ Len(store.heap[j]) \in Nat /\ MaxLen \in Nat
      BY <1>2, LenProperties, ConstantsAssumption DEF ConstantsAssumption
    <3> QED
      BY <1>2, <1>3, <3>1, <3>2, <3>3
  <2> QED
    BY <1>1, <2>1, <2>2 DEF HeldIsNewest
<1>7. Kept(k)'
  BY <1>1, <1>4, KeptAfter
<1>8. \A j \in Key \ {k} : Kept(j)'
  BY <1>4, <1>5, KeptLess
<1>9. \A r \in popped' : Accounted(r)'
  BY StillAccounted DEF HeapInv, HeapTyped
<1> QED
  BY <1>4, <1>6, <1>7, <1>8, <1>9 DEF HeapInv

\* get(), pop() and clear(), which give nothing.
LEMMA HeapsTaken ==
  ASSUME HeapInv, NEW k \in Key, IsStore(store'), UNCHANGED <<now, updateVars, own>>,
         \A j \in Key : IsSuffix(store'.heap[j], store.heap[j]),
         \/ log' = log
         \/ store'.heap[k] = <<>> /\ log' = [log EXCEPT ![k] = <<>>],
         \/ popped' = popped
         \/ store'.heap[k] = <<>> /\ popped' = popped \cup Elements(Held(k))
  PROVE  HeapInv'
<1>1. \A j \in Key : store'.heap[j] \in Seq(Record) /\ store.heap[j] \in Seq(Record)
  BY DEF HeapInv, HeapTyped, IsStore
<1>2. Held(k) \in Seq(Record) /\ IsSuffix(Held(k), store.heap[k])
  BY HeldIsTail DEF HeapInv, HeapTyped
<1>3. Elements(Held(k)) \subseteq Elements(store.heap[k]) /\ Elements(Held(k)) \subseteq Record
  <2>1. Elements(Held(k)) \subseteq Elements(store.heap[k])
    BY <1>1, <1>2, SuffixElements
  <2> QED
    BY <1>2, <2>1 DEF Elements
<1>4. <<>> \in Seq(Record) /\ IsSuffix(<<>>, <<>>) /\ Elements(<<>>) = {}
  BY Empty
<1>5. HeapTyped'
  BY <1>3, <1>4 DEF HeapInv, HeapTyped, IsStore
<1>6. Grows /\ Placed'
  BY ConstantsAssumption DEF HeapInv, HeapTyped, Placed, Grows, updateVars, ConstantsAssumption
<1>7. HeldIsNewest'
  <2> SUFFICES ASSUME NEW j \in Key
               PROVE  IsSuffix(store'.heap[j], log'[j]) /\ Len(store'.heap[j]) <= MaxLen
    BY DEF HeldIsNewest
  <2>1. IsSuffix(store'.heap[j], log[j])
    BY <1>1, SuffixTransitive DEF HeapInv, HeapTyped, HeldIsNewest
  <2>2. log'[j] = log[j] \/ (store'.heap[j] = <<>> /\ log'[j] = <<>>)
    BY DEF HeapInv, HeapTyped
  <2>3. IsSuffix(store'.heap[j], log'[j])
    BY <1>4, <2>1, <2>2
  <2>4. Len(store'.heap[j]) <= Len(store.heap[j]) /\ Len(store.heap[j]) <= MaxLen
    BY DEF IsSuffix, HeapInv, HeldIsNewest
  <2>5. Len(store'.heap[j]) \in Nat /\ Len(store.heap[j]) \in Nat /\ MaxLen \in Nat
    BY <1>1, LenProperties, ConstantsAssumption DEF ConstantsAssumption
  <2> QED
    BY <2>3, <2>4, <2>5
<1>8. ASSUME NEW j \in Key PROVE Kept(j)'
  <2>1. ASSUME NEW r \in Elements(store'.heap[j]), r \in popped' PROVE r \in popped
    <3>1. r \in Elements(store.heap[j])
      BY <1>1, SuffixElements
    <3>2. KeyOf[r.update] = j
      BY <3>1 DEF HeapInv, Kept
    <3>3. r \in popped \/ (store'.heap[k] = <<>> /\ r \in Elements(store.heap[k]))
      BY <1>3, <2>1
    <3>4. r \in Elements(store.heap[k]) => KeyOf[r.update] = k
      BY DEF HeapInv, Kept
    <3>5. store'.heap[k] = <<>> => j # k
      BY <1>4, <2>1
    <3> QED
      BY <3>2, <3>3, <3>4, <3>5
  <2> QED
    BY <1>5, <1>6, <2>1, KeptLess
<1>9. ASSUME NEW r \in popped' PROVE Accounted(r)'
  <2>1. r \in popped \/ r \in Elements(store.heap[k])
    BY <1>3, <1>9
  <2>2. Accounted(r)
    BY <2>1 DEF HeapInv, Kept
  <2> QED
    BY <2>2 DEF Accounted, updateVars
<1> QED
  BY <1>5, <1>6, <1>7, <1>8, <1>9 DEF HeapInv
-----------------------------------------------------------------------------
(***************************************************************************)
(* The steps.                                                              *)
(***************************************************************************)
\* The groups an update goes through, one place at a time.
LEMMA Moves ==
  ASSUME HeapInv, NEW u \in Update,
         pc' = [pc EXCEPT ![u] = pc'[u]], at' = [at EXCEPT ![u] = at'[u]],
         records' = [records EXCEPT ![u] = records'[u]],
         pc'[u] \in {"queued", "matching", "running", "recording", "done"},
         at'[u] \in (Nat \ {0}) \X (Nat \ {0}), records'[u] \in Seq(Handler),
         pc'[u] = "running" => /\ at'[u][1] \in DOMAIN Groups
                               /\ at'[u][2] \in DOMAIN Groups[at'[u][1]]
  PROVE  Placed'
<1>1. /\ pc' \in [Update -> {"queued", "matching", "running", "recording", "done"}]
      /\ at' \in [Update -> (Nat \ {0}) \X (Nat \ {0})]
      /\ records' \in [Update -> Seq(Handler)]
  BY DEF HeapInv, Placed
<1>2. ASSUME NEW v \in Update \ {u} PROVE pc'[v] = pc[v] /\ at'[v] = at[v]
  BY DEF HeapInv, Placed
<1>3. \A v \in Update : pc'[v] = "running" => /\ at'[v][1] \in DOMAIN Groups
                                              /\ at'[v][2] \in DOMAIN Groups[at'[v][1]]
  BY <1>2 DEF HeapInv, Placed
<1> QED
  BY <1>1, <1>3 DEF Placed

LEMMA InPlace ==
  ASSUME HeapInv, NEW u \in Update
  PROVE  /\ pc[u] \in {"queued", "matching", "running", "recording", "done"}
         /\ at[u] = <<at[u][1], at[u][2]>>
         /\ at[u][1] \in Nat \ {0} /\ at[u][2] \in Nat \ {0}
         /\ records[u] \in Seq(Handler)
         /\ pc = [pc EXCEPT ![u] = pc[u]] /\ at = [at EXCEPT ![u] = at[u]]
         /\ records = [records EXCEPT ![u] = records[u]]
         /\ Len(Groups) \in Nat /\ DOMAIN Groups = 1..Len(Groups)
         /\ pc[u] = "running" => Running(u) \in Handler
<1>1. /\ pc[u] \in {"queued", "matching", "running", "recording", "done"}
      /\ at[u] = <<at[u][1], at[u][2]>>
      /\ at[u][1] \in Nat \ {0} /\ at[u][2] \in Nat \ {0}
      /\ records[u] \in Seq(Handler)
      /\ pc = [pc EXCEPT ![u] = pc[u]] /\ at = [at EXCEPT ![u] = at[u]]
      /\ records = [records EXCEPT ![u] = records[u]]
  BY DEF HeapInv, Placed
<1>2. Groups \in Seq(Seq(Handler)) /\ Len(Groups) \in Nat /\ DOMAIN Groups = 1..Len(Groups)
  BY ConstantsAssumption, LenProperties DEF ConstantsAssumption
<1>3. ASSUME pc[u] = "running" PROVE Running(u) \in Handler
  <2>1. at[u][1] \in DOMAIN Groups /\ at[u][2] \in DOMAIN Groups[at[u][1]]
    BY <1>3 DEF HeapInv, Placed
  <2>2. PICK g : g = Groups[at[u][1]]
    OBVIOUS
  <2>3. g \in Seq(Handler) /\ at[u][2] \in DOMAIN g
    BY <1>2, <2>1, <2>2, ElementOfSeq
  <2>4. g[at[u][2]] \in Handler
    BY <2>3, ElementOfSeq
  <2> QED
    BY <2>2, <2>4 DEF Running
<1> QED
  BY <1>1, <1>2, <1>3

Walk(u) == \/ Take(u) \/ Match(u) \/ NextGroup(u) \/ Return(u) \/ Raise(u) \/ Continue(u)
           \/ Stop(u) \/ EndOfGroups(u) \/ RecordFails(u)

LEMMA Walks ==
  ASSUME HeapInv, NEW u \in Update, Walk(u)
  PROVE  HeapInv'
<1>1. UNCHANGED <<now, store, ghostVars>> /\ pc[u] # "done"
  BY DEF Walk, Take, Match, NextGroup, Return, Raise, Continue, Stop, EndOfGroups, RecordFails
<1>2. pc' = [pc EXCEPT ![u] = pc'[u]]
  BY DEF Walk, Take, Match, NextGroup, Return, Raise, Continue, Stop, EndOfGroups, RecordFails,
         Goto, HeapInv, Placed
<1>3. Placed'
  <2>1. CASE Take(u) \/ Stop(u) \/ EndOfGroups(u) \/ RecordFails(u)
    <3>1. /\ UNCHANGED <<at, records>>
          /\ pc'[u] \in {"matching", "recording", "done"}
      BY <2>1, InPlace DEF Take, Stop, EndOfGroups, RecordFails, Goto, HeapInv, Placed
    <3>2. /\ at' = [at EXCEPT ![u] = at'[u]] /\ at'[u] \in (Nat \ {0}) \X (Nat \ {0})
          /\ records' = [records EXCEPT ![u] = records'[u]] /\ records'[u] \in Seq(Handler)
      BY <3>1, InPlace DEF HeapInv, Placed
    <3> QED
      BY <1>2, <3>1, <3>2, Moves
  <2>2. CASE Match(u)
    <3>1. PICK i \in at[u][2]..Len(Groups[Group(u)]) : at' = [at EXCEPT ![u][2] = i]
      BY <2>2 DEF Match
    <3>2. at'[u] = <<at[u][1], i>> /\ at' = [at EXCEPT ![u] = at'[u]]
      BY <3>1, InPlace DEF HeapInv, Placed
    <3>3. at[u][1] \in DOMAIN Groups /\ Group(u) = at[u][1]
      BY <2>2, InPlace DEF Match, Group
    <3>4. Groups[at[u][1]] \in Seq(Handler)
      BY <3>3, ConstantsAssumption, ElementOfSeq DEF ConstantsAssumption
    <3>5. i \in DOMAIN Groups[at[u][1]] /\ i \in Nat \ {0}
      BY <3>1, <3>3, <3>4, InPlace, LenProperties
    <3>6. UNCHANGED records /\ pc'[u] = "running"
      BY <2>2 DEF Match, Goto, HeapInv, Placed
    <3>7. /\ at'[u] \in (Nat \ {0}) \X (Nat \ {0})
          /\ at'[u][1] \in DOMAIN Groups /\ at'[u][2] \in DOMAIN Groups[at'[u][1]]
          /\ records' = [records EXCEPT ![u] = records'[u]] /\ records'[u] \in Seq(Handler)
      BY <3>2, <3>3, <3>5, <3>6, InPlace
    <3> QED
      BY <1>2, <3>2, <3>6, <3>7, Moves
  <2>3. CASE NextGroup(u) \/ Return(u) \/ Raise(u)
    <3>1. at' = [at EXCEPT ![u] = <<Group(u) + 1, 1>>] /\ pc'[u] = "matching"
      BY <2>3 DEF NextGroup, Return, Raise, Goto, HeapInv, Placed
    <3>2. at'[u] \in (Nat \ {0}) \X (Nat \ {0}) /\ at' = [at EXCEPT ![u] = at'[u]]
      BY <3>1, InPlace DEF Group, HeapInv, Placed
    <3>3. records'[u] \in Seq(Handler) /\ records' = [records EXCEPT ![u] = records'[u]]
      <4>1. CASE UNCHANGED records
        BY <4>1, InPlace
      <4>2. CASE pc[u] = "running" /\ records' = [records EXCEPT ![u] = Append(@, Running(u))]
        <5>1. Append(records[u], Running(u)) \in Seq(Handler)
          BY <4>2, InPlace, AppendProperties
        <5> QED
          BY <4>2, <5>1 DEF HeapInv, Placed
      <4> QED
        BY <2>3, <4>1, <4>2 DEF NextGroup, Return, Raise
    <3> QED
      BY <1>2, <3>1, <3>2, <3>3, Moves
  <2>4. CASE Continue(u)
    <3>1. at' = [at EXCEPT ![u][2] = @ + 1] /\ pc'[u] = "matching" /\ UNCHANGED records
      BY <2>4 DEF Continue, Goto, HeapInv, Placed
    <3>2. at'[u] = <<at[u][1], at[u][2] + 1>> /\ at' = [at EXCEPT ![u] = at'[u]]
      BY <3>1, InPlace DEF HeapInv, Placed
    <3>3. at'[u] \in (Nat \ {0}) \X (Nat \ {0})
      BY <3>2, InPlace
    <3> QED
      BY <1>2, <3>1, <3>2, <3>3, InPlace, Moves
  <2> QED
    BY <2>1, <2>2, <2>3, <2>4 DEF Walk
<1>4. Grows
  BY <1>1, <1>2, ConstantsAssumption DEF Grows, ghostVars, HeapInv, HeapTyped, Placed, ConstantsAssumption
<1> QED
  BY <1>1, <1>3, <1>4, HeapsAlone DEF ghostVars, HeapInv, HeapTyped

LEMMA Batches ==
  ASSUME HeapInv, NEW u \in Update, RecordMany(u)
  PROVE  HeapInv'
<1>1. PICK batch : batch = [i \in DOMAIN records[u] |->
                              [update |-> u, handler |-> records[u][i], at |-> now,
                               by |-> "dispatcher"]]
  OBVIOUS
<1>2. now \in 0..MaxTime /\ records[u] \in Seq(Handler) /\ KeyOf[u] \in Key
  BY ConstantsAssumption DEF HeapInv, HeapTyped, Placed, ConstantsAssumption
<1>3. batch \in Seq(Record)
  <2>1. \A i \in DOMAIN records[u] : records[u][i] \in Handler
    BY <1>2, ElementOfSeq
  <2>2. \A i \in DOMAIN records[u] : [update |-> u, handler |-> records[u][i], at |-> now,
                                      by |-> "dispatcher"] \in Record
    BY <1>2, <2>1 DEF Record
  <2>3. DOMAIN records[u] = 1..Len(records[u]) /\ Len(records[u]) \in Nat
    BY <1>2, LenProperties
  <2> QED
    BY <1>1, <2>2, <2>3, IsASeq
<1>4. \A r \in Elements(batch) : r.update = u /\ r.at = now /\ r.by = "dispatcher"
  BY <1>1 DEF Elements
<1>5. /\ store' = Updated(KeyOf[u], batch)
      /\ log' = [log EXCEPT ![KeyOf[u]] = @ \o batch]
  BY <1>1 DEF RecordMany
<1>6. /\ pc[u] = "recording" /\ pc' = [pc EXCEPT ![u] = "done"]
      /\ UNCHANGED <<now, at, records, own, popped>>
  BY DEF RecordMany, Goto
<1>7. pc'[u] = "done"
  BY <1>6 DEF HeapInv, Placed
<1>8. Placed'
  BY <1>6, <1>7, InPlace, Moves
<1>9. Grows
  BY <1>2, <1>6, ConstantsAssumption DEF Grows, HeapInv, Placed, ConstantsAssumption
<1>10. ASSUME NEW r \in Elements(batch)
       PROVE  r.at = now /\ KeyOf[r.update] = KeyOf[u] /\ r \notin popped /\ Accounted(r)'
  <2>1. r.at = now /\ r.update = u /\ r.by = "dispatcher"
    BY <1>4
  <2>2. ~ Accounted(r)
    BY <1>6, <2>1 DEF Accounted
  <2>3. r \notin popped
    BY <2>2 DEF HeapInv
  <2>4. Accounted(r)'
    BY <1>7, <2>1 DEF Accounted
  <2> QED
    BY <2>1, <2>3, <2>4
<1>11. own' \subseteq Recorder
  BY <1>6 DEF HeapInv, HeapTyped
<1> QED
  BY <1>2, <1>3, <1>5, <1>6, <1>8, <1>9, <1>10, <1>11, HeapsUpdated

LEMMA Owns ==
  ASSUME HeapInv, NEW u \in Update, RecordOwn(u)
  PROVE  HeapInv'
<1>1. PICK r : r = [update |-> u, handler |-> Running(u), at |-> now, by |-> "handler"]
  OBVIOUS
<1>2. /\ u \in Recorder \ own /\ pc[u] = "running" /\ own' = own \cup {u}
      /\ \/ UNCHANGED <<store, log>>
         \/ /\ store' = Updated(KeyOf[u], <<r>>)
            /\ log' = [log EXCEPT ![KeyOf[u]] = @ \o <<r>>]
      /\ UNCHANGED <<now, updateVars, popped>>
  BY <1>1 DEF RecordOwn
<1>3. now \in 0..MaxTime /\ KeyOf[u] \in Key /\ own' \subseteq Recorder /\ u \in own'
  BY <1>2, ConstantsAssumption DEF HeapInv, HeapTyped, ConstantsAssumption
<1>4. r \in Record
  BY <1>1, <1>2, <1>3, InPlace DEF Record
<1>5. Placed' /\ Grows
  BY <1>2, <1>3, ConstantsAssumption DEF HeapInv, Placed, Grows, updateVars, ConstantsAssumption
<1>6. CASE UNCHANGED <<store, log>>
  BY <1>2, <1>3, <1>5, <1>6, HeapsAlone
<1>7. CASE /\ store' = Updated(KeyOf[u], <<r>>)
           /\ log' = [log EXCEPT ![KeyOf[u]] = @ \o <<r>>]
  <2>1. PICK one : one = <<r>>
    OBVIOUS
  <2>2. one \in Seq(Record) /\ Elements(one) = {r}
    BY <1>4, <2>1 DEF Elements
  <2>3. r \notin popped
    <3>1. ~ Accounted(r)
      BY <1>1, <1>2 DEF Accounted
    <3> QED
      BY <3>1 DEF HeapInv
  <2>4. r.at = now /\ KeyOf[r.update] = KeyOf[u] /\ Accounted(r)'
    BY <1>1, <1>3 DEF Accounted
  <2>5. /\ store' = Updated(KeyOf[u], one) /\ log' = [log EXCEPT ![KeyOf[u]] = @ \o one]
        /\ \A q \in Elements(one) :
             q.at = now /\ KeyOf[q.update] = KeyOf[u] /\ q \notin popped /\ Accounted(q)'
    BY <1>7, <2>1, <2>2, <2>3, <2>4
  <2> QED
    BY <1>2, <1>3, <1>5, <2>2, <2>5, HeapsUpdated
<1> QED
  BY <1>2, <1>6, <1>7

LEMMA Takes ==
  ASSUME HeapInv, NEW k \in Key, Get(k) \/ Pop(k) \/ Clear(k)
  PROVE  HeapInv'
<1>1. IsStore(store)
  BY DEF HeapInv, HeapTyped
<1>2. UNCHANGED <<now, updateVars, own>>
  BY DEF Get, Pop, Clear
<1>3. CASE Get(k)
  <2>1. /\ IsStore(store') /\ \A j \in Key : IsSuffix(store'.heap[j], store.heap[j])
        /\ log' = log /\ popped' = popped
    BY <1>1, <1>3, ReadHeaps DEF Get
  <2> QED
    BY <1>2, <2>1, HeapsTaken
<1>4. CASE Pop(k) \/ Clear(k)
  <2>1. /\ IsStore(store') /\ store'.heap[k] = <<>>
        /\ \A j \in Key : store'.heap[j] \in {store.heap[j], <<>>}
    BY <1>1, <1>4, TakenHeaps DEF Pop, Clear
  <2>2. /\ log' = [log EXCEPT ![k] = <<>>]
        /\ popped' = popped \/ popped' = popped \cup Elements(Held(k))
    BY <1>4 DEF Pop, Clear
  <2>3. \A j \in Key : IsSuffix(store'.heap[j], store.heap[j])
    BY <1>1, <2>1, SuffixTrivial DEF IsStore
  <2> QED
    BY <1>2, <2>1, <2>2, <2>3, HeapsTaken
<1> QED
  BY <1>3, <1>4

LEMMA HeapStepwise == HeapInv /\ [Next]_vars => HeapInv'
<1> SUFFICES ASSUME HeapInv, [Next]_vars PROVE HeapInv'
  OBVIOUS
<1>1. CASE UNCHANGED vars
  <2>1. Placed' /\ Grows
    BY <1>1, ConstantsAssumption
       DEF HeapInv, HeapTyped, Placed, Grows, vars, updateVars, ghostVars, ConstantsAssumption
  <2> QED
    BY <1>1, <2>1, HeapsAlone DEF vars, ghostVars, HeapInv, HeapTyped
<1>2. CASE Tick
  <2>1. Placed' /\ Grows /\ now' \in 0..MaxTime
    BY <1>2, ConstantsAssumption
       DEF Tick, HeapInv, HeapTyped, Placed, Grows, updateVars, ghostVars, ConstantsAssumption
  <2> QED
    BY <1>2, <2>1, HeapsAlone DEF Tick, ghostVars, HeapInv, HeapTyped
<1> QED
  BY <1>1, <1>2, Walks, Batches, Owns, Takes DEF Next, Walk

-----------------------------------------------------------------------------
\* What the store has of a key is the newest part of what the key was given
\* since it was last popped or cleared, and never more than max_history_len
\* (MemoryUpdateHistoryStore._update).
THEOREM NewestKept == Spec => []HeldIsNewest
<1>1. HeapInv => HeldIsNewest
  BY DEF HeapInv
<1> QED
  BY <1>1, HeapInitially, HeapStepwise, PTL DEF Spec

\* What _clean_up() leaves: in a sorted heap the first fresh record has none
\* but fresh ones after it.
LEMMA CleanIsFresh ==
  ASSUME NEW h \in Seq(Record), IsSorted(h), now \in Nat
  PROVE  \A r \in Elements(CleanUp(h)) : now < r.at + Ttl
<1>1. PICK fresh : fresh = {i \in DOMAIN h : ~IsExpired(h[i])}
  OBVIOUS
<1>2. CleanUp(h) = IF fresh = {} THEN <<>> ELSE SubSeq(h, Min(fresh), Len(h))
  BY <1>1 DEF CleanUp
<1>3. CASE fresh = {}
  BY <1>2, <1>3, Empty
<1>4. CASE fresh # {}
  <2>1. fresh \in SUBSET Nat
    BY <1>1, LenProperties
  <2>2. PICK m : m = Min(fresh)
    OBVIOUS
  <2>3. m \in fresh
    BY <1>4, <2>1, <2>2, Least
  <2>4. m \in Nat /\ m >= 1 /\ m <= Len(h) /\ Len(h) \in Nat /\ DOMAIN h = 1..Len(h)
    BY <1>1, <2>1, <2>3, LenProperties
  <2>5. PICK s : s = SubSeq(h, m, Len(h))
    OBVIOUS
  <2>6. /\ Len(s) = Len(h) - m + 1 /\ s \in Seq(Record)
        /\ \A i \in 1..Len(h) - m + 1 : s[i] = h[m + i - 1]
    BY <2>4, <2>5, SubSeqProperties, ElementOfSeq
  <2>7. ASSUME NEW i \in DOMAIN s PROVE now < s[i].at + Ttl
    <3>1. PICK j \in Nat : j = m + i - 1 /\ j \in DOMAIN h /\ m <= j /\ s[i] = h[j]
      BY <2>4, <2>6, LenProperties
    <3>2. h[m] \in Record /\ h[j] \in Record
      BY <2>4, <3>1, ElementOfSeq
    <3>3. h[m].at \in Nat /\ h[j].at \in Nat /\ Ttl \in Nat
      BY <3>2, ConstantsAssumption DEF Record, ConstantsAssumption
    <3>4. ~ (now >= h[m].at + Ttl)
      BY <1>1, <2>3 DEF IsExpired
    <3>5. h[m].at <= h[j].at
      BY <2>4, <3>1 DEF IsSorted
    <3> QED
      BY <3>1, <3>3, <3>4, <3>5
  <2> QED
    BY <1>2, <1>4, <2>2, <2>5, <2>7 DEF Elements
<1> QED
  BY <1>3, <1>4

LEMMA Answers ==
  ASSUME HeapInv, [Next]_vars, answer' # answer
  PROVE  \E k \in Key : answer'.records = Held(k)
<1>1. ASSUME NEW u \in Update PROVE ~ (Walk(u) \/ RecordOwn(u) \/ RecordMany(u))
  BY DEF Walk, Take, Match, NextGroup, Return, Raise, Continue, Stop, EndOfGroups, RecordFails,
         RecordOwn, RecordMany, ghostVars
<1>2. ~ Tick /\ ~ UNCHANGED vars
  BY DEF Tick, vars, ghostVars
<1>3. PICK k \in Key : Get(k) \/ Pop(k)
  BY <1>1, <1>2 DEF Next, Walk, Clear
<1> QED
  BY <1>3 DEF Get, Pop

\* Neither get() nor pop() returns an expired record, whatever the key expired
\* or was trimmed of before (MemoryUpdateHistoryStore._clean_up).
THEOREM FreshAnswers == Spec => AnswersAreFresh
<1>1. ASSUME HeapInv, [Next]_vars, answer' # answer
      PROVE  \A r \in Elements(answer'.records) : now < r.at + Ttl
  <2>1. PICK k \in Key : answer'.records = Held(k)
    BY <1>1, Answers
  <2>2. PICK h : h = Purged(store, now).heap[k]
    OBVIOUS
  <2>3. h \in {store.heap[k], <<>>} /\ h \in Seq(Record) /\ store.heap[k] \in Seq(Record)
    <3>1. IsStore(store)
      BY <1>1 DEF HeapInv, HeapTyped
    <3>2. IsStore(Purged(store, now)) /\ h \in {store.heap[k], <<>>}
      BY <2>2, <3>1, PurgedHeaps
    <3>3. h \in Seq(Record) /\ store.heap[k] \in Seq(Record)
      BY <2>2, <3>1, <3>2 DEF IsStore
    <3> QED
      BY <3>2, <3>3
  <2>4. IsSorted(store.heap[k])
    BY <1>1 DEF HeapInv, Kept
  <2>5. IsSorted(h)
    BY <2>3, <2>4, SuffixTrivial, SortedTail
  <2>6. now \in Nat
    BY <1>1, ConstantsAssumption DEF HeapInv, HeapTyped, ConstantsAssumption
  <2>7. answer'.records = CleanUp(h)
    BY <2>1, <2>2 DEF Held
  <2> QED
    BY <2>3, <2>5, <2>6, <2>7, CleanIsFresh
<1> QED
  BY <1>1, HeapInitially, HeapStepwise, PTL DEF Spec, AnswersAreFresh

\* What one pop() returned no get() or pop() returns again, so that of two
\* handlers that go back over one history each record is one handler's
\* (MemoryUpdateHistoryStore._pop).
THEOREM PoppedForGood == Spec => PoppedOnce
<1>1. ASSUME HeapInv, [Next]_vars, answer' # answer
      PROVE  Elements(answer'.records) \cap popped = {}
  <2>1. PICK k \in Key : answer'.records = Held(k)
    BY <1>1, Answers
  <2>2. /\ Held(k) \in Seq(Record) /\ IsSuffix(Held(k), store.heap[k])
        /\ store.heap[k] \in Seq(Record)
    BY <1>1, HeldIsTail DEF HeapInv, HeapTyped, IsStore
  <2>3. Elements(Held(k)) \subseteq Elements(store.heap[k])
    BY <2>2, SuffixElements
  <2> QED
    BY <1>1, <2>1, <2>3 DEF HeapInv, Kept
<1> QED
  BY <1>1, HeapInitially, HeapStepwise, PTL DEF Spec, PoppedOnce
=============================================================================
