----------------------- MODULE MessageListener_proofs -----------------------
(***************************************************************************)
(* Proofs about the message listener, for any asks, messages, buttons and  *)
(* chats: the order of sub_keys(), that resolve() by it finds the most     *)
(* specific listener, and how often Telegram is asked for the commands.    *)
(***************************************************************************)
EXTENDS MessageListener, SequenceTheorems, FiniteSetTheorems, WellFoundedInduction, TLAPS

\* The least element of a set of positions.
LEMMA Least ==
  ASSUME NEW S \in SUBSET Nat, S # {}
  PROVE  Min(S) \in S /\ \A y \in S : Min(S) <= y
<1>1. PICK x \in S : \A y \in S : ~ (<<y, x>> \in OpToRel(<, Nat))
  BY NatLessThanWellFounded, WFMin, Zenon
<1>2. \A y \in S : x <= y
  <2> TAKE y \in S
  <2>1. ~ (y < x)
    BY <1>1 DEF OpToRel
  <2> QED
    BY <2>1
<1> QED
  BY <1>2 DEF Min

(***************************************************************************)
(* The four sets of optional components.                                   *)
(***************************************************************************)
LEMMA Added ==
  ASSUME NEW S, IsFiniteSet(S), NEW x, x \notin S, NEW T, T = S \cup {x}
  PROVE  IsFiniteSet(T) /\ Cardinality(T) = Cardinality(S) + 1
BY FS_AddElement

LEMMA Sizes ==
  /\ Cardinality({}) = 0 /\ Cardinality({1}) = 1 /\ Cardinality({2}) = 1
  /\ Cardinality({1, 2}) = 2 /\ IsFiniteSet({1, 2})
<1>1. Cardinality({}) = 0 /\ Cardinality({1}) = 1 /\ Cardinality({2}) = 1
  BY FS_EmptySet, FS_Singleton
<1>2. IsFiniteSet({1})
  BY FS_Singleton
<1>3. 2 \notin {1} /\ {1, 2} = {1} \cup {2}
  OBVIOUS
<1>4. Cardinality({1, 2}) = Cardinality({1}) + 1 /\ IsFiniteSet({1, 2})
  BY <1>2, <1>3, Added
<1> QED
  BY <1>1, <1>4

LEMMA Before ==
  /\ BeforeInPlan({1, 2}, {1}) /\ BeforeInPlan({1, 2}, {2}) /\ BeforeInPlan({1, 2}, {})
  /\ BeforeInPlan({1}, {2}) /\ BeforeInPlan({1}, {}) /\ BeforeInPlan({2}, {})
<1>1. EarlierCombo({1}, {2})
  <2>1. {1} \ {2} = {1} /\ {2} \ {1} = {2}
    OBVIOUS
  <2> QED
    BY <2>1 DEF EarlierCombo
<1> QED
  BY <1>1, Sizes DEF BeforeInPlan

\* No two sets are each before the other.
LEMMA BeforeOrdered ==
  ASSUME NEW a \in SUBSET {1, 2}, NEW b \in SUBSET {1, 2}, BeforeInPlan(a, b)
  PROVE  \/ Cardinality(a) > Cardinality(b)
         \/ Cardinality(a) = Cardinality(b) /\ a = {1} /\ b = {2}
<1>1. PICK p, q, c, e : p = {1} /\ q = {2} /\ c = {1, 2} /\ e = {}
  OBVIOUS
<1>2. Cardinality(e) = 0 /\ Cardinality(p) = 1 /\ Cardinality(q) = 1 /\ Cardinality(c) = 2
  BY <1>1, Sizes
<1>3. (a = e \/ a = p \/ a = q \/ a = c) /\ (b = e \/ b = p \/ b = q \/ b = c)
  BY <1>1
<1>4. CASE Cardinality(a) = Cardinality(b) /\ EarlierCombo(a, b)
  <2>1. PICK i \in a \ b : \A j \in (a \ b) \cup (b \ a) : i <= j
    BY <1>4 DEF EarlierCombo
  <2>2. a # b
    BY <2>1
  <2>3. (a = p /\ b = q) \/ (a = q /\ b = p)
    BY <1>2, <1>3, <1>4, <2>2
  <2>4. ~ (a = q /\ b = p)
    <3> SUFFICES ASSUME a = {2}, b = {1} PROVE FALSE
      BY <1>1
    <3>1. 2 <= 1
      BY <2>1
    <3> QED
      BY <3>1
  <2> QED
    BY <1>1, <1>4, <2>3, <2>4
<1> QED
  BY <1>4 DEF BeforeInPlan

\* The sequence _get_plan() makes exists for each of them.
IsPlan(plan, carried) ==
  /\ plan \in [1..Cardinality(SUBSET carried) -> SUBSET carried]
  /\ Range(plan) = SUBSET carried
  /\ \A i, j \in DOMAIN plan : i < j => BeforeInPlan(plan[i], plan[j])

LEMMA PlanOfOne ==
  ASSUME NEW c, c = {1} \/ c = {2}
  PROVE  \E plan : IsPlan(plan, c)
<1>1. PICK e : e = {}
  OBVIOUS
<1>2. SUBSET c = {e} \cup {c} /\ c # e /\ c \notin {e} /\ BeforeInPlan(c, e)
  BY <1>1, Before
<1>3. Cardinality(SUBSET c) = 2
  <2>1. PICK one, both : one = {e} /\ both = SUBSET c
    OBVIOUS
  <2>2. IsFiniteSet(one) /\ Cardinality(one) = 1
    BY <2>1, FS_Singleton
  <2>3. both = one \cup {c} /\ c \notin one
    BY <1>2, <2>1
  <2>4. Cardinality(both) = 2
    BY <2>2, <2>3, Added
  <2> QED
    BY <2>1, <2>4
<1>4. PICK plan : plan = [i \in 1..2 |-> IF i = 1 THEN c ELSE e]
  OBVIOUS
<1>5. DOMAIN plan = 1..2 /\ plan[1] = c /\ plan[2] = e /\ plan \in [1..2 -> SUBSET c]
  BY <1>2, <1>4
<1>6. Range(plan) = SUBSET c
  <2>1. Range(plan) = {plan[1], plan[2]}
    BY <1>5 DEF Range
  <2> QED
    BY <1>2, <1>5, <2>1
<1>7. \A i, j \in DOMAIN plan : i < j => BeforeInPlan(plan[i], plan[j])
  BY <1>2, <1>5
<1> QED
  BY <1>3, <1>5, <1>6, <1>7 DEF IsPlan

LEMMA PlanOfBoth == \E plan : IsPlan(plan, {1, 2})
<1>1. PICK a, b, c, e : a = {1} /\ b = {2} /\ c = {1, 2} /\ e = {}
  OBVIOUS
<1>2. a # b /\ a # c /\ a # e /\ b # c /\ b # e /\ c # e
  BY <1>1
<1>3. SUBSET {1, 2} = {a, b, c, e}
  BY <1>1
<1>4. /\ BeforeInPlan(c, a) /\ BeforeInPlan(c, b) /\ BeforeInPlan(c, e)
      /\ BeforeInPlan(a, b) /\ BeforeInPlan(a, e) /\ BeforeInPlan(b, e)
  BY <1>1, Before
<1>5. Cardinality({a, b, c, e}) = 4
  <2>1. IsFiniteSet({e}) /\ Cardinality({e}) = 1
    BY FS_Singleton
  <2>2. IsFiniteSet({b, e}) /\ Cardinality({b, e}) = 2
    <3>1. b \notin {e} /\ {b, e} = {e} \cup {b}
      BY <1>2
    <3> QED
      BY <2>1, <3>1, Added
  <2>3. IsFiniteSet({a, b, e}) /\ Cardinality({a, b, e}) = 3
    <3>1. a \notin {b, e} /\ {a, b, e} = {b, e} \cup {a}
      BY <1>2
    <3> QED
      BY <2>2, <3>1, Added
  <2>4. c \notin {a, b, e} /\ {a, b, c, e} = {a, b, e} \cup {c}
    BY <1>2
  <2> QED
    BY <2>3, <2>4, Added
<1>6. PICK plan : plan = [i \in 1..4 |-> IF i = 1 THEN c ELSE IF i = 2 THEN a
                                         ELSE IF i = 3 THEN b ELSE e]
  OBVIOUS
<1>7. /\ DOMAIN plan = 1..4 /\ plan[1] = c /\ plan[2] = a /\ plan[3] = b /\ plan[4] = e
      /\ plan \in [1..4 -> {a, b, c, e}]
  BY <1>6
<1>8. Range(plan) = {a, b, c, e}
  <2>1. Range(plan) = {plan[1], plan[2], plan[3], plan[4]}
    BY <1>7 DEF Range
  <2> QED
    BY <1>7, <2>1
<1>9. ASSUME NEW i \in 1..4, NEW j \in 1..4, i < j
      PROVE  BeforeInPlan(plan[i], plan[j])
  <2>1. \/ i = 1 /\ j \in {2, 3, 4}
        \/ i = 2 /\ j \in {3, 4}
        \/ i = 3 /\ j = 4
    BY <1>9
  <2> QED
    BY <1>4, <1>7, <2>1
<1> QED
  BY <1>3, <1>5, <1>7, <1>8, <1>9 DEF IsPlan

LEMMA PlanOfNone == \E plan : IsPlan(plan, {})
<1>1. PICK e : e = {}
  OBVIOUS
<1>2. SUBSET {} = {e} /\ Cardinality({e}) = 1
  BY <1>1, FS_Singleton
<1>3. PICK plan : plan = [i \in 1..1 |-> e]
  OBVIOUS
<1>4. plan \in [1..1 -> {e}] /\ DOMAIN plan = 1..1 /\ plan[1] = e
  BY <1>3
<1>5. Range(plan) = {e}
  <2>1. Range(plan) = {plan[1]}
    BY <1>4 DEF Range
  <2> QED
    BY <1>4, <2>1
<1>6. \A i, j \in DOMAIN plan : ~ (i < j)
  BY <1>4
<1>7. Cardinality(SUBSET {}) = 1 /\ plan \in [1..1 -> SUBSET {}] /\ Range(plan) = SUBSET {}
  BY <1>2, <1>4, <1>5
<1>8. IsPlan(plan, {})
  BY <1>6, <1>7 DEF IsPlan
<1> QED
  BY <1>8

LEMMA Plans ==
  ASSUME NEW carried \in SUBSET {1, 2}, NEW plan, plan = Plan(carried)
  PROVE  /\ plan \in Seq(SUBSET carried) /\ Range(plan) = SUBSET carried
         /\ \A i, j \in DOMAIN plan : i < j => BeforeInPlan(plan[i], plan[j])
<1>1. \E p : IsPlan(p, carried)
  <2>1. carried = {} \/ carried = {1} \/ carried = {2} \/ carried = {1, 2}
    OBVIOUS
  <2> QED
    BY <2>1, PlanOfNone, PlanOfOne, PlanOfBoth
<1>2. IsPlan(plan, carried)
  BY <1>1 DEF Plan, IsPlan
<1>3. Cardinality(SUBSET carried) \in Nat
  <2>1. IsFiniteSet(carried)
    BY Sizes, FS_Subset
  <2> QED
    BY <2>1, FS_SUBSET, FS_CardinalityType
<1>4. PICK n \in Nat : n = Cardinality(SUBSET carried)
  BY <1>3
<1>5. plan \in [1..n -> SUBSET carried]
  BY <1>2, <1>4 DEF IsPlan
<1>6. plan \in Seq(SUBSET carried)
  BY <1>5
<1> QED
  BY <1>2, <1>4, <1>6 DEF IsPlan
(***************************************************************************)
(* The keys that match an update's are its truncations.                    *)
(***************************************************************************)
LEMMA CarriedIs ==
  ASSUME NEW k \in ListenerKey
  PROVE  /\ Carried(k) \in SUBSET {1, 2}
         /\ 1 \in Carried(k) <=> k.user_id # Absent
         /\ 2 \in Carried(k) <=> k.message_id # Absent
<1>1. /\ DOMAIN OptionalField = 1..2
      /\ OptionalField[1] = "user_id" /\ OptionalField[2] = "message_id"
  BY DEF OptionalField
<1>2. Carried(k) = {i \in 1..2 : k[OptionalField[i]] # Absent}
  BY <1>1 DEF Carried
<1>3. 1 \in 1..2 /\ 2 \in 1..2 /\ 1..2 \subseteq {1, 2}
  OBVIOUS
<1>4. k["user_id"] = k.user_id /\ k["message_id"] = k.message_id
  OBVIOUS
<1> QED
  BY <1>1, <1>2, <1>3, <1>4

LEMMA TruncateIs ==
  ASSUME NEW k \in ListenerKey, NEW keep
  PROVE  /\ Truncate(k, keep) \in ListenerKey
         /\ Truncate(k, keep).chat_id = k.chat_id
         /\ Truncate(k, keep).user_id = IF 1 \in keep THEN k.user_id ELSE Absent
         /\ Truncate(k, keep).message_id = IF 2 \in keep THEN k.message_id ELSE Absent
BY DEF Truncate, ListenerKey

LEMMA CarriedTruncate ==
  ASSUME NEW k \in ListenerKey, NEW keep \in SUBSET Carried(k)
  PROVE  Carried(Truncate(k, keep)) = keep
<1>1. PICK t \in ListenerKey :
        /\ t = Truncate(k, keep)
        /\ t.user_id = IF 1 \in keep THEN k.user_id ELSE Absent
        /\ t.message_id = IF 2 \in keep THEN k.message_id ELSE Absent
  BY TruncateIs
<1>2. keep \subseteq {1, 2} /\ Carried(t) \subseteq {1, 2}
  BY CarriedIs
<1>3. 1 \in Carried(t) <=> 1 \in keep
  BY <1>1, CarriedIs
<1>4. 2 \in Carried(t) <=> 2 \in keep
  BY <1>1, CarriedIs
<1>5. \A x : x \in Carried(t) <=> x \in keep
  BY <1>2, <1>3, <1>4
<1> QED
  BY <1>1, <1>5

LEMMA MatchesTruncated ==
  ASSUME NEW key \in ListenerKey, NEW k \in ListenerKey
  PROVE  Matches(k, key) <=> \E keep \in SUBSET Carried(key) : k = Truncate(key, keep)
<1>1. ASSUME Matches(k, key)
      PROVE  Carried(k) \in SUBSET Carried(key) /\ k = Truncate(key, Carried(k))
  <2>1. /\ k.chat_id = key.chat_id /\ k.user_id \in {Absent, key.user_id}
        /\ k.message_id \in {Absent, key.message_id}
    BY <1>1 DEF Matches
  <2>2. Carried(k) \subseteq Carried(key)
    <3>1. 1 \in Carried(k) => 1 \in Carried(key)
      BY <2>1, CarriedIs
    <3>2. 2 \in Carried(k) => 2 \in Carried(key)
      BY <2>1, CarriedIs
    <3>3. Carried(k) \subseteq {1, 2}
      BY CarriedIs
    <3> QED
      BY <3>1, <3>2, <3>3
  <2>3. PICK t \in ListenerKey :
          /\ t = Truncate(key, Carried(k)) /\ t.chat_id = key.chat_id
          /\ t.user_id = IF 1 \in Carried(k) THEN key.user_id ELSE Absent
          /\ t.message_id = IF 2 \in Carried(k) THEN key.message_id ELSE Absent
    BY TruncateIs
  <2>4. t.chat_id = k.chat_id /\ t.user_id = k.user_id /\ t.message_id = k.message_id
    BY <2>1, <2>3, CarriedIs
  <2>5. t = k
    BY <2>3, <2>4 DEF ListenerKey
  <2> QED
    BY <2>2, <2>3, <2>5
<1>2. ASSUME NEW keep \in SUBSET Carried(key), k = Truncate(key, keep) PROVE Matches(k, key)
  BY <1>2, TruncateIs DEF Matches
<1> QED
  BY <1>1, <1>2

\* What comes first in the plan is preferred.
LEMMA BeforeIsPreferred ==
  ASSUME NEW key \in ListenerKey, NEW a \in SUBSET Carried(key), NEW b \in SUBSET Carried(key),
         BeforeInPlan(a, b)
  PROVE  Preferred(Truncate(key, a), Truncate(key, b))
<1>1. a \in SUBSET {1, 2} /\ b \in SUBSET {1, 2}
  BY CarriedIs
<1>2. PICK s, t : s = Truncate(key, a) /\ t = Truncate(key, b)
  OBVIOUS
<1>3. Carried(s) = a /\ Carried(t) = b /\ s \in ListenerKey /\ t \in ListenerKey
  BY <1>2, CarriedTruncate, TruncateIs
<1>4. CASE Cardinality(a) > Cardinality(b)
  BY <1>2, <1>3, <1>4 DEF Preferred
<1>5. CASE Cardinality(a) = Cardinality(b) /\ a = {1} /\ b = {2}
  <2>1. 1 \in Carried(s) /\ 1 \notin Carried(t)
    BY <1>3, <1>5
  <2>2. s.user_id # Absent /\ t.user_id = Absent
    BY <1>3, <2>1, CarriedIs
  <2>3. Cardinality(Carried(s)) = Cardinality(Carried(t))
    BY <1>3, <1>5
  <2> QED
    BY <1>2, <2>2, <2>3 DEF Preferred
<1> QED
  BY <1>1, <1>4, <1>5, BeforeOrdered

\* sub_keys() of a key, all of them: its truncations, in the order of the plan.
THEOREM SubKeys ==
  ASSUME NEW key \in ListenerKey, NEW s, s = SubKeysOf(key)
  PROVE  /\ DOMAIN s \in SUBSET Nat
         /\ \A i \in DOMAIN s : s[i] \in ListenerKey /\ Matches(s[i], key)
         /\ \A k \in ListenerKey : Matches(k, key) => \E i \in DOMAIN s : k = s[i]
         /\ \A i, j \in DOMAIN s : i < j => Preferred(s[i], s[j])
<1>1. PICK plan : plan = Plan(Carried(key))
  OBVIOUS
<1>2. /\ plan \in Seq(SUBSET Carried(key)) /\ Range(plan) = SUBSET Carried(key)
      /\ \A i, j \in DOMAIN plan : i < j => BeforeInPlan(plan[i], plan[j])
  BY <1>1, CarriedIs, Plans
<1>3. PLANS[Carried(key)] = plan
  <2>1. Carried(key) \in SUBSET DOMAIN OptionalField
    BY DEF Carried
  <2> QED
    BY <1>1, <2>1 DEF PLANS
<1>4. {i \in DOMAIN plan : Cardinality(plan[i]) + 1 < 1} = {}
  <2> SUFFICES ASSUME NEW i \in DOMAIN plan PROVE ~ (Cardinality(plan[i]) + 1 < 1)
    OBVIOUS
  <2>1. plan[i] \in SUBSET {1, 2}
    BY <1>2, ElementOfSeq, CarriedIs
  <2>2. IsFiniteSet(plan[i])
    BY <2>1, Sizes, FS_Subset
  <2>3. Cardinality(plan[i]) \in Nat
    BY <2>2, FS_CardinalityType
  <2> QED
    BY <2>3
<1>5. s = [i \in 1..Len(plan) |-> Truncate(key, plan[i])]
  BY <1>3, <1>4 DEF SubKeysOf, SubKeysDownTo
<1>6. /\ DOMAIN s = DOMAIN plan /\ DOMAIN s \in SUBSET Nat
      /\ \A i \in DOMAIN s : plan[i] \in SUBSET Carried(key) /\ s[i] = Truncate(key, plan[i])
  BY <1>2, <1>5, LenProperties, ElementOfSeq
<1>7. ASSUME NEW i \in DOMAIN s PROVE s[i] \in ListenerKey /\ Matches(s[i], key)
  BY <1>6, MatchesTruncated, TruncateIs
<1>8. ASSUME NEW k \in ListenerKey, Matches(k, key) PROVE \E i \in DOMAIN s : k = s[i]
  <2>1. PICK keep \in SUBSET Carried(key) : k = Truncate(key, keep)
    BY <1>8, MatchesTruncated
  <2>2. PICK i \in DOMAIN plan : plan[i] = keep
    BY <1>2, <2>1 DEF Range
  <2> QED
    BY <1>6, <2>1, <2>2
<1>9. ASSUME NEW i \in DOMAIN s, NEW j \in DOMAIN s, i < j PROVE Preferred(s[i], s[j])
  BY <1>2, <1>6, <1>9, BeforeIsPreferred
<1> QED
  BY <1>6, <1>7, <1>8, <1>9

\* What resolve() finds under the keys somebody waits under.
LEMMA Search ==
  ASSUME NEW key \in ListenerKey, NEW t, t = FirstListened(key)
  PROVE  /\ t = NoSuch => \A k \in Listened : ~Matches(k, key)
         /\ t # NoSuch => /\ t \in Listened /\ Matches(t, key)
                          /\ \A k \in Listened \ {t} : Matches(k, key) => Preferred(t, k)
<1>1. PICK s : s = SubKeysOf(key)
  OBVIOUS
<1>2. /\ DOMAIN s \in SUBSET Nat
      /\ \A i \in DOMAIN s : s[i] \in ListenerKey /\ Matches(s[i], key)
      /\ \A k \in ListenerKey : Matches(k, key) => \E i \in DOMAIN s : k = s[i]
      /\ \A i, j \in DOMAIN s : i < j => Preferred(s[i], s[j])
  BY <1>1, SubKeys
<1>3. PICK hits : hits = {i \in DOMAIN s : s[i] \in Listened}
  OBVIOUS
<1>4. t = IF hits = {} THEN NoSuch ELSE s[Min(hits)]
  BY <1>1, <1>3 DEF FirstListened
<1>5. Listened \subseteq ListenerKey /\ NoSuch \notin ListenerKey
  BY MessageListenerAssumption
     DEF Listened, KeyUsed, NoSuch, ListenerKey, MessageListenerAssumption
<1>6. CASE hits = {}
  <2>1. \A k \in Listened : ~Matches(k, key)
    BY <1>2, <1>3, <1>5, <1>6
  <2> QED
    BY <1>4, <1>6, <2>1
<1>7. CASE hits # {}
  <2>1. PICK i : i = Min(hits)
    OBVIOUS
  <2>2. hits \in SUBSET Nat
    BY <1>2, <1>3
  <2>3. i \in hits /\ \A j \in hits : i <= j
    BY <1>7, <2>1, <2>2, Least
  <2>4. t = s[i] /\ t \in Listened /\ Matches(t, key)
    BY <1>2, <1>3, <1>4, <1>7, <2>1, <2>3
  <2>5. ASSUME NEW k \in Listened \ {t}, Matches(k, key) PROVE Preferred(t, k)
    <3>1. PICK j \in DOMAIN s : k = s[j]
      BY <1>2, <1>5, <2>5
    <3>2. j \in hits /\ j # i
      BY <1>3, <2>4, <3>1
    <3>3. i < j /\ i \in DOMAIN s
      BY <1>3, <2>2, <2>3, <3>2
    <3> QED
      BY <1>2, <2>4, <3>1, <3>3
  <2>6. t # NoSuch
    BY <1>5, <2>4
  <2> QED
    BY <2>4, <2>5, <2>6
<1> QED
  BY <1>6, <1>7
-----------------------------------------------------------------------------
(***************************************************************************)
(* Who holds a chat, and who has asked Telegram.                           *)
(***************************************************************************)
Typed ==
  /\ pc \in [Task -> {"away", "lock", "matched", "fetching", "cancelling", "passed", "done"}]
  /\ lock \in [Chat -> Message \cup {None}]
  /\ target = [t \in Task |-> target[t]]
  /\ fetches \in Nat

Inside == {m \in Message : pc[m] \in {"matched", "fetching"}}

\* A message holds the lock of its chat while its listener is decided upon.
Holders == \A m \in Inside : ChatIn(m) \in Chat /\ lock[ChatIn(m)] = m

Fetching == {m \in Message : pc[m] = "fetching"}
FetchingChats == {ChatIn(m) : m \in Fetching}

\* As long as nothing is cached every call of this lifetime is still under way.
Counted == fetches <= Cardinality(IF cache = None THEN FetchingChats ELSE Chat)

FetchInv == Typed /\ Holders /\ Counted

LEMMA ChatsFinite ==
  /\ IsFiniteSet(Chat)
  /\ \A S : S \subseteq Chat => IsFiniteSet(S) /\ Cardinality(S) \in Nat
                                /\ Cardinality(S) <= Cardinality(Chat)
<1>1. IsFiniteSet(Chat)
  <2>1. PICK f : f = [a \in Ask |-> KeyOf[a].chat_id]
    OBVIOUS
  <2>2. Chat = {f[a] : a \in Ask}
    BY <2>1 DEF Chat, KeyUsed
  <2>3. f \in Surjection(Ask, Chat)
    BY <2>1, <2>2, Zenon DEF Surjection, Range
  <2> QED
    BY <2>3, MessageListenerAssumption, FS_Surjection DEF MessageListenerAssumption
<1> QED
  BY <1>1, FS_Subset, FS_CardinalityType

LEMMA Counts ==
  ASSUME Typed, Holders
  PROVE  /\ FetchingChats \subseteq Chat
         /\ Cardinality(FetchingChats) \in Nat /\ Cardinality(Chat) \in Nat
         /\ Cardinality(FetchingChats) <= Cardinality(Chat)
<1>1. FetchingChats \subseteq Chat
  BY DEF Holders, Inside, FetchingChats, Fetching
<1> QED
  BY <1>1, ChatsFinite

LEMMA Initially == Init => FetchInv
<1> SUFFICES ASSUME Init PROVE FetchInv
  OBVIOUS
<1>1. Typed
  BY DEF Init, Typed
<1>2. Inside = {} /\ Fetching = {}
  BY DEF Init, Inside, Fetching, Task
<1>3. Holders /\ FetchingChats = {}
  BY <1>2 DEF Holders, FetchingChats
<1>4. Counted
  BY <1>3, FS_EmptySet DEF Init, Counted
<1> QED
  BY <1>1, <1>3, <1>4 DEF FetchInv

\* Steps that neither fetch nor lock.
LEMMA Aside ==
  ASSUME FetchInv, Typed', UNCHANGED <<lock, cacheVars>>,
         \A m \in Message : pc'[m] \in {"matched", "fetching"} => pc'[m] = pc[m],
         \A m \in Message : pc[m] = "fetching" => pc'[m] = pc[m]
  PROVE  FetchInv'
<1>1. Holders'
  BY DEF FetchInv, Holders, Inside, ChatIn
<1>2. FetchingChats' = FetchingChats
  BY DEF FetchingChats, Fetching, ChatIn
<1>3. Counted'
  BY <1>2 DEF FetchInv, Counted, cacheVars
<1> QED
  BY <1>1, <1>3 DEF FetchInv

\* The lock goes back with the decision.
LEMMA Decides ==
  ASSUME FetchInv, NEW m \in Message, pc[m] \in {"matched", "fetching"}, NEW c, Decide(m, c),
         target' = target, fetches' = fetches
  PROVE  Typed' /\ Holders' /\ pc'[m] \in {"passed", "done"}
         /\ \A t \in Task \ {m} : pc'[t] = pc[t]
<1>1. /\ lock' = [lock EXCEPT ![ChatIn(m)] = None]
      /\ pc' = [pc EXCEPT ![m] = "passed"] \/ pc' = [pc EXCEPT ![m] = "done"]
  BY DEF Decide, Bypass, Resolve, Goto
<1>2. m \in Task /\ ChatIn(m) \in Chat /\ lock[ChatIn(m)] = m
  BY DEF FetchInv, Holders, Inside, Task
<1>3. Typed' /\ pc'[m] \in {"passed", "done"} /\ \A t \in Task \ {m} : pc'[t] = pc[t]
  BY <1>1, <1>2 DEF FetchInv, Typed
<1>4. ASSUME NEW n \in Inside' PROVE ChatIn(n) \in Chat /\ lock'[ChatIn(n)] = n
  <2>1. n \in Inside /\ n # m
    BY <1>3, <1>4 DEF Inside, Task
  <2>2. ChatIn(n) \in Chat /\ lock[ChatIn(n)] = n
    BY <2>1 DEF FetchInv, Holders
  <2>3. ChatIn(n) # ChatIn(m)
    BY <1>2, <2>1, <2>2
  <2> QED
    BY <1>1, <2>2, <2>3 DEF FetchInv, Typed
<1> QED
  BY <1>3, <1>4 DEF Holders, ChatIn

LEMMA SeekKeeps ==
  ASSUME FetchInv, NEW m \in Message, Seek(m)
  PROVE  FetchInv'
<1>1. /\ pc[m] = "lock" /\ ~Locked(ChatIn(m))
      /\ target' = [target EXCEPT ![m] = FirstListened(KeyIn[m])]
      /\ UNCHANGED cacheVars
      /\ \/ pc' = [pc EXCEPT ![m] = "passed"] /\ UNCHANGED lock
         \/ /\ FirstListened(KeyIn[m]) # NoSuch
            /\ pc' = [pc EXCEPT ![m] = "matched"] /\ lock' = [lock EXCEPT ![ChatIn(m)] = m]
  BY DEF Seek, Goto
<1>2. m \in Task /\ KeyIn[m] \in ListenerKey
  BY MessageListenerAssumption DEF Task, MessageListenerAssumption
<1>3. CASE pc' = [pc EXCEPT ![m] = "passed"] /\ UNCHANGED lock
  <2>1. Typed' /\ pc'[m] = "passed" /\ \A t \in Task \ {m} : pc'[t] = pc[t]
    BY <1>1, <1>2, <1>3 DEF FetchInv, Typed, cacheVars
  <2>2. /\ \A n \in Message : pc'[n] \in {"matched", "fetching"} => pc'[n] = pc[n]
        /\ \A n \in Message : pc[n] = "fetching" => pc'[n] = pc[n]
    BY <1>1, <2>1 DEF Task
  <2> QED
    BY <1>1, <1>3, <2>1, <2>2, Aside
<1>4. CASE /\ FirstListened(KeyIn[m]) # NoSuch
           /\ pc' = [pc EXCEPT ![m] = "matched"] /\ lock' = [lock EXCEPT ![ChatIn(m)] = m]
  <2>1. ChatIn(m) \in Chat
    <3>1. PICK t : t = FirstListened(KeyIn[m])
      OBVIOUS
    <3>2. t \in Listened /\ Matches(t, KeyIn[m])
      BY <1>2, <1>4, <3>1, Search
    <3> QED
      BY <3>2 DEF Listened, Matches, Chat, ChatIn
  <2>2. lock[ChatIn(m)] = None
    BY <1>1, <2>1 DEF Locked
  <2>3. Typed' /\ pc'[m] = "matched" /\ \A t \in Task \ {m} : pc'[t] = pc[t]
    BY <1>1, <1>2, <1>4 DEF FetchInv, Typed, cacheVars
  <2>4. ASSUME NEW n \in Inside' PROVE ChatIn(n) \in Chat /\ lock'[ChatIn(n)] = n
    <3>1. CASE n = m
      BY <1>4, <2>1, <3>1 DEF FetchInv, Typed
    <3>2. CASE n # m
      <4>1. n \in Inside
        BY <2>3, <2>4, <3>2 DEF Inside, Task
      <4>2. ChatIn(n) \in Chat /\ lock[ChatIn(n)] = n /\ n # None
        BY <4>1, MessageListenerAssumption
           DEF FetchInv, Holders, Inside, Task, MessageListenerAssumption
      <4> QED
        BY <1>4, <2>2, <4>2 DEF FetchInv, Typed
    <3> QED
      BY <3>1, <3>2
  <2>5. Fetching' = Fetching
    BY <1>1, <2>3 DEF Fetching, Task
  <2>6. Counted'
    BY <1>1, <2>5 DEF FetchInv, Counted, FetchingChats, ChatIn, cacheVars
  <2> QED
    BY <2>3, <2>4, <2>6 DEF FetchInv, Holders, ChatIn
<1> QED
  BY <1>1, <1>3, <1>4

LEMMA MatchKeeps ==
  ASSUME FetchInv, NEW m \in Message, Match(m)
  PROVE  FetchInv'
<1>1. /\ pc[m] = "matched" /\ Decide(m, IF cache = None THEN {} ELSE cache)
      /\ UNCHANGED <<target, cacheVars>>
  BY DEF Match
<1>2. Typed' /\ Holders' /\ pc'[m] \in {"passed", "done"} /\ \A t \in Task \ {m} : pc'[t] = pc[t]
  BY <1>1, Decides DEF cacheVars
<1>3. Fetching' = Fetching
  BY <1>1, <1>2 DEF Fetching, Task
<1>4. Counted'
  BY <1>1, <1>3 DEF FetchInv, Counted, FetchingChats, ChatIn, cacheVars
<1> QED
  BY <1>2, <1>4 DEF FetchInv

\* A call more, and the chat it is made for was not among those that call.
LEMMA FetchKeeps ==
  ASSUME FetchInv, NEW m \in Message, Fetch(m)
  PROVE  FetchInv'
<1>1. /\ pc[m] = "matched" /\ cache = None /\ pc' = [pc EXCEPT ![m] = "fetching"]
      /\ fetches' = fetches + 1 /\ UNCHANGED <<lock, target, cache>>
  BY DEF Fetch, Goto
<1>2. m \in Task /\ ChatIn(m) \in Chat /\ lock[ChatIn(m)] = m
  BY <1>1 DEF FetchInv, Holders, Inside, Task
<1>3. Typed' /\ pc'[m] = "fetching" /\ \A t \in Task \ {m} : pc'[t] = pc[t]
  BY <1>1, <1>2 DEF FetchInv, Typed
<1>4. Inside' = Inside
  BY <1>1, <1>3 DEF Inside, Task
<1>5. Holders'
  BY <1>1, <1>4 DEF FetchInv, Holders, ChatIn
<1>6. Fetching' = Fetching \cup {m}
  BY <1>3 DEF Fetching, Task
<1>7. FetchingChats' = FetchingChats \cup {ChatIn(m)}
  BY <1>6 DEF FetchingChats, ChatIn
<1>8. ChatIn(m) \notin FetchingChats
  <2> SUFFICES ASSUME NEW n \in Fetching, ChatIn(n) = ChatIn(m) PROVE FALSE
    BY DEF FetchingChats
  <2>1. lock[ChatIn(n)] = n
    BY DEF Fetching, FetchInv, Holders, Inside
  <2>2. n = m
    BY <1>2, <2>1
  <2> QED
    BY <1>1, <2>2 DEF Fetching
<1>9. IsFiniteSet(FetchingChats) /\ Cardinality(FetchingChats) \in Nat
  BY Counts, ChatsFinite DEF FetchInv
<1>10. Cardinality(FetchingChats') = Cardinality(FetchingChats) + 1
  BY <1>7, <1>8, <1>9, Added
<1>11. Counted'
  <2>1. fetches <= Cardinality(FetchingChats) /\ fetches \in Nat
    BY <1>1 DEF FetchInv, Typed, Counted
  <2> QED
    BY <1>1, <1>9, <1>10, <2>1 DEF Counted
<1> QED
  BY <1>3, <1>5, <1>11 DEF FetchInv

LEMMA FetchedKeeps ==
  ASSUME FetchInv, NEW m \in Message, NEW commands \in {Official, {}}, Fetched(m, commands)
  PROVE  FetchInv'
<1>1. /\ pc[m] = "fetching" /\ cache' = commands /\ Decide(m, commands)
      /\ UNCHANGED <<target, fetches>>
  BY DEF Fetched
<1>2. Typed' /\ Holders'
  BY <1>1, Decides
<1>3. cache' # None
  BY <1>1, MessageListenerAssumption DEF MessageListenerAssumption
<1>4. fetches \in Nat /\ fetches <= Cardinality(Chat)
  BY Counts DEF FetchInv, Counted, Typed
<1>5. Counted'
  BY <1>1, <1>3, <1>4 DEF Counted
<1> QED
  BY <1>2, <1>5 DEF FetchInv

LEMMA Stepwise == FetchInv /\ [Next]_vars => FetchInv'
<1> SUFFICES ASSUME FetchInv, [Next]_vars PROVE FetchInv'
  OBVIOUS
<1>1. CASE UNCHANGED <<taskVars, cacheVars>>
  <2>1. Typed'
    BY <1>1 DEF FetchInv, Typed, taskVars, cacheVars
  <2> QED
    BY <1>1, <2>1, Aside DEF taskVars
<1>2. ASSUME NEW t \in Task, Arrive(t) \/ PressStep(t), t \in Press \/ Arrive(t) PROVE FetchInv'
  <2>1. /\ pc[t] \in {"away", "cancelling"}
        /\ \E l \in {"done", "lock", "cancelling", "passed"} : pc' = [pc EXCEPT ![t] = l]
        /\ UNCHANGED <<lock, cacheVars>>
        /\ \/ UNCHANGED target
           \/ \E k : target' = [target EXCEPT ![t] = k]
    BY <1>2 DEF Arrive, PressStep, SeekPrompt, CancelPrompt, Goto
  <2>2. Typed' /\ \A n \in Task \ {t} : pc'[n] = pc[n]
    BY <2>1 DEF FetchInv, Typed, cacheVars
  <2>3. pc'[t] \in {"done", "lock", "cancelling", "passed"}
    BY <2>1 DEF FetchInv, Typed
  <2>4. /\ \A m \in Message : pc'[m] \in {"matched", "fetching"} => pc'[m] = pc[m]
        /\ \A m \in Message : pc[m] = "fetching" => pc'[m] = pc[m]
    BY <2>1, <2>2, <2>3 DEF Task
  <2> QED
    BY <2>1, <2>2, <2>4, Aside
<1>3. CASE StopEnd
  <2>1. Typed' /\ Holders'
    BY <1>3 DEF StopEnd, FetchInv, Typed, Holders, Inside, ChatIn, taskVars
  <2>2. FetchingChats' = FetchingChats
    BY <1>3 DEF StopEnd, taskVars, FetchingChats, Fetching, ChatIn
  <2>3. Counted'
    BY <1>3, <2>2, Counts DEF StopEnd, FetchInv, Counted
  <2> QED
    BY <2>1, <2>3 DEF FetchInv
<1>4. ASSUME NEW m \in Message, MessageStep(m) PROVE FetchInv'
  <2>1. CASE Arrive(m)
    BY <1>2, <2>1 DEF Task
  <2>2. CASE Seek(m) \/ Match(m) \/ Fetch(m)
    BY <2>2, SeekKeeps, MatchKeeps, FetchKeeps
  <2>3. CASE Fetched(m, Official) \/ Fetched(m, {})
    BY <2>3, FetchedKeeps
  <2> QED
    BY <1>4, <2>1, <2>2, <2>3 DEF MessageStep
<1>5. ASSUME NEW p \in Press, PressStep(p) PROVE FetchInv'
  BY <1>2, <1>5 DEF Task
<1> QED
  BY <1>1, <1>3, <1>4, <1>5
     DEF Next, vars, Listen, Timeout, Stop, Start, StopCancel, taskVars, cacheVars

\* However many messages come, Telegram is asked for the commands at most once by each
\* chat in a lifetime of the listener: a call is made under the lock of its chat and
\* fills the cache (MessageListener._get_bot_commands).
THEOREM FewFetches == Spec => []FetchesAreFew
<1>1. FetchInv => FetchesAreFew
  BY Counts DEF FetchInv, Typed, Counted, FetchesAreFew
<1> QED
  BY <1>1, Initially, Stepwise, PTL DEF Spec

\* Whatever listens and whatever the update carries, the search over sub_keys() ends at
\* the match with the most components, and misses none (UpdateListener.resolve).
THEOREM SoundSearch == Spec => SearchIsSound
<1>1. ASSUME FetchInv, [Next]_vars, NEW m \in Message, pc[m] = "lock", pc'[m] # "lock"
      PROVE  /\ target'[m] = NoSuch => \A k \in Listened : ~Matches(k, KeyIn[m])
             /\ target'[m] # NoSuch =>
                  /\ target'[m] \in Listened /\ Matches(target'[m], KeyIn[m])
                  /\ \A k \in Listened \ {target'[m]} :
                       Matches(k, KeyIn[m]) => Preferred(target'[m], k)
  <2>1. m \in Task /\ KeyIn[m] \in ListenerKey /\ m \notin Press
    BY MessageListenerAssumption DEF Task, MessageListenerAssumption
  <2>2. ASSUME NEW t \in Task, t # m PROVE ~ (MessageStep(t) \/ PressStep(t))
    <3>1. ASSUME NEW l, Goto(t, l) PROVE FALSE
      BY <1>1, <2>1, <2>2, <3>1 DEF Goto, FetchInv, Typed
    <3> QED
      BY <3>1 DEF MessageStep, PressStep, Arrive, Seek, Match, Fetch, Fetched, Decide, Bypass,
                  Resolve, SeekPrompt, CancelPrompt
  <2>3. UNCHANGED pc => FALSE
    BY <1>1
  <2>4. MessageStep(m)
    BY <1>1, <2>1, <2>2, <2>3
       DEF Next, vars, taskVars, Listen, Timeout, Stop, Start, StopEnd, StopCancel, Task
  <2>5. Seek(m)
    BY <1>1, <2>4 DEF MessageStep, Arrive, Match, Fetch, Fetched
  <2>6. target'[m] = FirstListened(KeyIn[m])
    BY <1>1, <2>1, <2>5 DEF Seek, FetchInv, Typed
  <2> QED
    BY <2>1, <2>6, Search
<1>2. FetchInv /\ [Next]_vars =>
        [\A m \in Message : pc[m] = "lock" /\ pc'[m] # "lock" =>
           /\ target'[m] = NoSuch => \A k \in Listened : ~Matches(k, KeyIn[m])
           /\ target'[m] # NoSuch =>
                /\ target'[m] \in Listened /\ Matches(target'[m], KeyIn[m])
                /\ \A k \in Listened \ {target'[m]} :
                     Matches(k, KeyIn[m]) => Preferred(target'[m], k)]_vars
  BY <1>1
<1> QED
  BY <1>2, Initially, Stepwise, PTL DEF Spec, SearchIsSound
=============================================================================
