------------------------ MODULE UpdateListener_proofs -----------------------
(***************************************************************************)
(* Proofs about UpdateListener, for every value of its constants.          *)
(*                                                                         *)
(* First its types, who owns a key under the lock of its chat, and what    *)
(* listen() returns and leaves behind.  Then generations: a token names    *)
(* one registration of a key, so that a signal, a candidate or a cleanup   *)
(* that is late cannot be mistaken for a newer one; and, as long as no     *)
(* session stops, a listener that waits keeps its place, is told when it   *)
(* loses its registration, loses it only to a call that replaces it, and   *)
(* all that refines ListenerSlots.  Last the search, which delivers to the *)
(* most specific listener and leaves to the chain only updates nobody      *)
(* waited for, and stop(), whose sweep withdraws every listener that has   *)
(* stored itself by then.                                                  *)
(***************************************************************************)
EXTENDS UpdateListenerSlots, TLAPS

USE ConstantsAssumption

LEMMA InitTypeOK == Init => TypeOK
BY DEF Init, TypeOK, Phase, Label, Future, Outcome

\* Moving a started coroutine on keeps its session and key known.
LEMMA GotoType ==
  ASSUME TypeOK, NEW p \in Proc, NEW l \in Label,
         pc[p] # "idle", Goto(p, l), at' = at, key' = key
  PROVE  /\ pc' \in [Proc -> Label]
         /\ \A q \in Proc : pc'[q] # "idle" => at'[q] \in Session /\ key'[q] \in Key
BY DEF TypeOK, Goto

LEMMA LeaveType ==
  ASSUME TypeOK, NEW p \in Proc, NEW r \in Outcome,
         pc[p] # "idle", Leave(p, r), at' = at, key' = key
  PROVE  /\ lock' \in [Chat -> Proc \cup Cancellation \cup {None}]
         /\ pc' \in [Proc -> Label]
         /\ \A q \in Proc : pc'[q] # "idle" => at'[q] \in Session /\ key'[q] \in Key
         /\ saw' \in [Proc -> BOOLEAN]
         /\ rung' \in [Update -> Nat]
         /\ cand' \in [Update -> Call \cup {None}]
         /\ outcome' \in [Proc -> Outcome]
<1>1. Goto(p, "done") /\ "done" \in Label
  BY DEF Leave, Label
<1>2. lock' \in [Chat -> Proc \cup Cancellation \cup {None}]
  BY DEF TypeOK, Leave, Release
<1>3. /\ saw' \in [Proc -> BOOLEAN]
      /\ rung' \in [Update -> Nat]
      /\ cand' \in [Update -> Call \cup {None}]
  BY DEF TypeOK, Leave, Forget
<1>4. outcome' \in [Proc -> Outcome]
  BY DEF TypeOK, Leave, Outcome, Errors
<1>. QED
  BY <1>1, <1>2, <1>3, <1>4, GotoType

LEMMA LeaveTypeOK ==
  ASSUME TypeOK, NEW p \in Proc, NEW r \in Outcome, pc[p] # "idle", Leave(p, r),
         UNCHANGED <<phase, active, issued, at, key, token>>,
         local' \in [Session -> [Key -> Call \cup {None}]], fut' \in [Call -> Future],
         owned' \in [Session -> [Key -> Nat]], registry' \in [Key -> Nat],
         signals' \subseteq Signal, unsent' \subseteq Cancellation
  PROVE  TypeOK'
<1>1. /\ lock' \in [Chat -> Proc \cup Cancellation \cup {None}]
      /\ pc' \in [Proc -> Label]
      /\ \A q \in Proc : pc'[q] # "idle" => at'[q] \in Session /\ key'[q] \in Key
      /\ saw' \in [Proc -> BOOLEAN]
      /\ rung' \in [Update -> Nat]
      /\ cand' \in [Update -> Call \cup {None}]
      /\ outcome' \in [Proc -> Outcome]
  BY LeaveType
<1>. QED
  BY <1>1 DEF TypeOK

LEMMA DropLocalType ==
  ASSUME TypeOK, NEW s \in Session, NEW k \in Key, DropLocal(s, k)
  PROVE  local' \in [Session -> [Key -> Call \cup {None}]] /\ fut' \in [Call -> Future]
BY DEF TypeOK, DropLocal, Future, Failures

LEMMA CoordinatorCancelType ==
  ASSUME TypeOK, NEW s \in Session, NEW k \in Key, NEW by \in Proc \cup Canceller,
         CoordinatorCancel(s, k, by)
  PROVE  /\ registry' \in [Key -> Nat]
         /\ owned' \in [Session -> [Key -> Nat]]
         /\ unsent' \subseteq Cancellation
<1>1. registry' \in [Key -> Nat] /\ owned' \in [Session -> [Key -> Nat]]
  BY DEF TypeOK, CoordinatorCancel
<1>2. CancellationOf(k, by) \in Cancellation
  BY DEF TypeOK, CancellationOf, Cancellation
<1>. QED
  BY <1>1, <1>2 DEF TypeOK, CoordinatorCancel

LEMMA PublishType ==
  ASSUME TypeOK, NEW m \in unsent, Publish(m)
  PROVE  signals' \subseteq Signal /\ unsent' \subseteq Cancellation
<1>1. m.key \in Key /\ m.token \in Nat
  BY DEF TypeOK, Cancellation
<1>2. Subscribers \subseteq Session
  BY DEF Subscribers
<1>3. [to : Subscribers, key : {m.key}, token : {m.token}] \subseteq Signal
  BY <1>1, <1>2 DEF Signal
<1>. QED
  BY <1>3 DEF TypeOK, Publish

LEMMA CancelKeyType ==
  ASSUME TypeOK, NEW s \in Session, NEW k \in Key, NEW by \in Proc \cup Canceller,
         CancelKey(s, k, by)
  PROVE  /\ local' \in [Session -> [Key -> Call \cup {None}]]
         /\ fut' \in [Call -> Future]
         /\ registry' \in [Key -> Nat]
         /\ owned' \in [Session -> [Key -> Nat]]
         /\ unsent' \subseteq Cancellation
<1>1. DropLocal(s, k)
  BY DEF CancelKey
<1>2. CASE CanFail(s, k)
  BY <1>1, <1>2, DropLocalType, CoordinatorCancelType DEF CancelKey
<1>3. CASE ~CanFail(s, k)
  BY <1>1, <1>3, DropLocalType DEF CancelKey, TypeOK
<1>. QED
  BY <1>2, <1>3

LEMMA CancelAloneType ==
  ASSUME TypeOK, NEW s \in Session, NEW k \in Key, NEW by \in Canceller, CancelAlone(s, k, by)
  PROVE  /\ local' \in [Session -> [Key -> Call \cup {None}]]
         /\ fut' \in [Call -> Future]
         /\ registry' \in [Key -> Nat]
         /\ owned' \in [Session -> [Key -> Nat]]
         /\ unsent' \subseteq Cancellation
         /\ lock' \in [Chat -> Proc \cup Cancellation \cup {None}]
<1>1. CancellationOf(k, by) \in Cancellation
  BY DEF TypeOK, CancellationOf, Cancellation
<1>2. lock' \in [Chat -> Proc \cup Cancellation \cup {None}]
  BY <1>1 DEF TypeOK, CancelAlone
<1>. QED
  BY <1>2, CancelKeyType DEF CancelAlone

LEMMA VerifyType ==
  ASSUME TypeOK, NEW u \in Update, pc[u] # "idle", NEW i, NEW j \in DOMAIN SubKeys[key[u]],
         FirstMatch(u, i, j), Verify(u, j), at' = at, key' = key
  PROVE  /\ pc' \in [Proc -> Label]
         /\ \A q \in Proc : pc'[q] # "idle" => at'[q] \in Session /\ key'[q] \in Key
         /\ saw' \in [Proc -> BOOLEAN]
         /\ rung' \in [Update -> Nat]
         /\ cand' \in [Update -> Call \cup {None}]
<1>1. u \in Proc /\ at[u] \in Session /\ key[u] \in Key
  BY DEF TypeOK, Proc
<1>2. j \in Nat /\ SubKeys[key[u]][j] \in Key
  BY <1>1
<1>3. Goto(u, "verified") /\ "verified" \in Label
  BY DEF Verify, Label
<1>4. /\ pc' \in [Proc -> Label]
      /\ \A q \in Proc : pc'[q] # "idle" => at'[q] \in Session /\ key'[q] \in Key
  BY <1>1, <1>3, GotoType
<1>5. rung' \in [Update -> Nat]
  BY <1>2 DEF Verify, TypeOK
<1>6. Listener(at[u], SubKeys[key[u]][j]) \in Call \cup {None}
  BY <1>1, <1>2 DEF Listener, TypeOK
<1>7. cand' \in [Update -> Call \cup {None}]
  BY <1>6 DEF Verify, TypeOK
<1>8. saw' \in [Proc -> BOOLEAN]
  BY DEF Verify, TypeOK, RegisteredAs
<1>. QED
  BY <1>4, <1>5, <1>7, <1>8

LEMMA StartedType ==
  ASSUME TypeOK, NEW p \in Proc, pc[p] # "idle"
  PROVE  at[p] \in Session /\ key[p] \in Key
BY DEF TypeOK

(***************************************************************************)
(* Type correctness: every step of every coroutine, session and fault      *)
(* keeps the state well typed.                                             *)
(***************************************************************************)
LEMMA ListenCallTypeOK ==
  ASSUME TypeOK, NEW c \in Call, ListenStep(c)
  PROVE  TypeOK'
<1>. c \in Proc
  BY DEF Proc
<1>0. {"done", "checked", "replaced", "registered", "wait", "finally"} \subseteq Label
  BY DEF Label
<1>1. CASE ListenAcquire(c)
  <2>1. pc[c] # "idle" /\ Goto(c, "checked") /\ at' = at /\ key' = key
    BY <1>1 DEF ListenAcquire
  <2>2. lock' \in [Chat -> Proc \cup Cancellation \cup {None}] /\ saw' \in [Proc -> BOOLEAN]
    BY <1>1 DEF ListenAcquire, Acquire, Registered, TypeOK
  <2>. QED
    BY <1>0, <1>1, <2>1, <2>2, GotoType DEF ListenAcquire, TypeOK, sessionVars, callVars
<1>2. CASE ListenReject(c)
  <2>1. pc[c] # "idle" /\ Leave(c, "exists") /\ "exists" \in Outcome
    BY <1>2 DEF ListenReject, Outcome, Errors
  <2>. QED
    BY <1>2, <2>1, LeaveType DEF ListenReject, TypeOK, sessionVars, callVars
<1>3. CASE ListenReplace(c)
  <2>1. /\ pc[c] # "idle" /\ at' = at /\ key' = key /\ CancelKey(at[c], key[c], c)
        /\ UNCHANGED <<phase, active, issued, signals, token>>
    BY <1>3 DEF ListenReplace
  <2>2. /\ local' \in [Session -> [Key -> Call \cup {None}]]
        /\ fut' \in [Call -> Future]
        /\ registry' \in [Key -> Nat]
        /\ owned' \in [Session -> [Key -> Nat]]
        /\ unsent' \subseteq Cancellation
    BY <2>1, StartedType, CancelKeyType
  <2>3. CASE CanFail(at[c], key[c])
    <3>1. Goto(c, "replaced") /\ Forget(c) /\ UNCHANGED <<lock, outcome>>
      BY <1>3, <2>3 DEF ListenReplace
    <3>2. /\ saw' \in [Proc -> BOOLEAN]
          /\ rung' \in [Update -> Nat]
          /\ cand' \in [Update -> Call \cup {None}]
      BY <3>1 DEF TypeOK, Forget
    <3>. QED
      BY <1>0, <2>1, <2>2, <3>1, <3>2, GotoType DEF TypeOK
  <2>4. CASE ~CanFail(at[c], key[c])
    <3>1. Leave(c, "invalid_state") /\ "invalid_state" \in Outcome
      BY <1>3, <2>4 DEF ListenReplace, Outcome, Errors
    <3>. QED
      BY <2>1, <2>2, <3>1, LeaveType DEF TypeOK
  <2>. QED
    BY <2>3, <2>4
<1>4. CASE ListenOutOfSync(c)
  <2>1. pc[c] # "idle" /\ Leave(c, "out_of_sync") /\ "out_of_sync" \in Outcome
    BY <1>4 DEF ListenOutOfSync, Outcome, Errors
  <2>. QED
    BY <1>4, <2>1, LeaveType DEF ListenOutOfSync, TypeOK, sessionVars, callVars
<1>5. CASE ListenRegister(c)
  <2>1. /\ pc[c] # "idle" /\ at' = at /\ key' = key
        /\ UNCHANGED <<sessionVars, signals, unsent, fut>>
    BY <1>5 DEF ListenRegister
  <2>2. CASE Registered(key[c])
    <3>1. Leave(c, "key_error") /\ "key_error" \in Outcome
          /\ UNCHANGED <<registry, issued, token>>
      BY <1>5, <2>2 DEF ListenRegister, Outcome, Errors
    <3>. QED
      BY <2>1, <3>1, LeaveType DEF TypeOK, sessionVars
  <2>3. CASE ~Registered(key[c])
    <3>1. /\ issued' = issued + 1
          /\ registry' = [registry EXCEPT ![key[c]] = issued + 1]
          /\ token' = [token EXCEPT ![c] = issued + 1]
          /\ Goto(c, "registered")
          /\ UNCHANGED <<lock, resolveVars, outcome>>
      BY <1>5, <2>3 DEF ListenRegister
    <3>2. issued' \in Nat
      BY <3>1 DEF TypeOK
    <3>3. registry' \in [Key -> Nat] /\ token' \in [Call -> Nat]
      BY <3>1, <3>2 DEF TypeOK
    <3>. QED
      BY <1>0, <2>1, <3>1, <3>2, <3>3, GotoType DEF TypeOK, sessionVars, resolveVars
  <2>. QED
    BY <2>2, <2>3
<1>6. CASE ListenStore(c)
  <2>1. /\ pc[c] # "idle" /\ at' = at /\ key' = key
        /\ local' = [local EXCEPT ![at[c]][key[c]] = c]
        /\ owned' = [owned EXCEPT ![at[c]][key[c]] = token[c]]
        /\ Release(c)
        /\ UNCHANGED <<phase, active, registry, issued, signals, unsent, callVars, resolveVars>>
    BY <1>6 DEF ListenStore
  <2>2. /\ local' \in [Session -> [Key -> Call \cup {None}]]
        /\ owned' \in [Session -> [Key -> Nat]]
        /\ lock' \in [Chat -> Proc \cup Cancellation \cup {None}]
    BY <2>1, StartedType DEF TypeOK, Release
  <2>3. /\ Goto(c, "wait") \/ Goto(c, "done")
        /\ outcome' \in [Proc -> Outcome]
    BY <1>6 DEF ListenStore, TypeOK, Outcome, Errors
  <2>. QED
    BY <1>0, <2>1, <2>2, <2>3, GotoType DEF TypeOK, callVars, resolveVars
<1>7. CASE DoneCallback(c)
  <2>1. local' \in [Session -> [Key -> Call \cup {None}]]
    BY <1>7, StartedType DEF DoneCallback, ForgetListener, TypeOK
  <2>. QED
    BY <1>7, <2>1 DEF DoneCallback, TypeOK, coordVars, procVars, callVars, resolveVars
<1>8. CASE Wake(c)
  <2>1. pc[c] # "idle" /\ Goto(c, "finally") /\ at' = at /\ key' = key
    BY <1>8 DEF Wake
  <2>2. local' \in [Session -> [Key -> Call \cup {None}]]
    BY <1>8 DEF Wake, ForgetListener, TypeOK
  <2>. QED
    BY <1>0, <1>8, <2>1, <2>2, GotoType DEF Wake, TypeOK, coordVars, callVars, resolveVars
<1>9. CASE Finally(c)
  <2>1. pc[c] # "idle" /\ Goto(c, "done") /\ at' = at /\ key' = key
    BY <1>9 DEF Finally
  <2>2. registry' \in [Key -> Nat] /\ owned' \in [Session -> [Key -> Nat]]
    BY <1>9 DEF Finally, CoordinatorUnregister, TypeOK
  <2>3. outcome' \in [Proc -> Outcome]
    BY <1>9 DEF Finally, TypeOK, Outcome
  <2>. QED
    BY <1>0, <1>9, <2>1, <2>2, <2>3, GotoType
       DEF Finally, TypeOK, callVars, resolveVars
<1>10. CASE ListenPublish(c)
  BY <1>10, PublishType
     DEF ListenPublish, TypeOK, sessionVars, procVars, callVars, resolveVars
<1>. QED
  BY <1>1, <1>2, <1>3, <1>4, <1>5, <1>6, <1>7, <1>8, <1>9, <1>10 DEF ListenStep

LEMMA ResolveTypeOK ==
  ASSUME TypeOK, CandidateFound, NEW u \in Update, ResolveStep(u)
  PROVE  TypeOK'
<1>. u \in Proc
  BY DEF Proc
<1>s. ASSUME pc[u] = "verified"
      PROVE  pc[u] # "idle" /\ Slot(u) \in Key
  BY <1>s, StartedType DEF CandidateFound, Slot
<1>o. {"unresolved", "consumed", "invalid_state"} \subseteq Outcome
  BY DEF Outcome, Errors
<1>1. CASE ResolveAcquire(u)
  <2>1. /\ pc[u] # "idle" /\ at' = at /\ key' = key
        /\ UNCHANGED <<sessionVars, registry, issued, signals, unsent, callVars>>
    BY <1>1 DEF ResolveAcquire
  <2>2. ASSUME Acquire(u), UNCHANGED outcome,
               NEW j \in DOMAIN SubKeys[key[u]], FirstMatch(u, 1, j), Verify(u, j)
        PROVE  TypeOK'
    <3>1. lock' \in [Chat -> Proc \cup Cancellation \cup {None}]
      BY <2>2 DEF Acquire, TypeOK
    <3>. QED
      BY <2>1, <2>2, <3>1, VerifyType DEF TypeOK, sessionVars, callVars
  <2>3. ASSUME Goto(u, "done"), outcome' = [outcome EXCEPT ![u] = "unresolved"],
               UNCHANGED <<lock, resolveVars>>
        PROVE  TypeOK'
    <3>1. outcome' \in [Proc -> Outcome] /\ "done" \in Label
      BY <2>3, <1>o DEF TypeOK, Label
    <3>. QED
      BY <2>1, <2>3, <3>1, GotoType DEF TypeOK, sessionVars, callVars, resolveVars
  <2>. QED
    BY <1>1, <2>2, <2>3 DEF ResolveAcquire
<1>2. CASE ResolveDiscard(u)
  <2>. DEFINE k == Slot(u)
              l == Listener(at[u], k)
              stale == l # None /\ token[l] = token[cand[u]]
  <2>1. /\ pc[u] # "idle" /\ Slot(u) \in Key /\ at' = at /\ key' = key
        /\ UNCHANGED <<phase, active, owned, registry, issued, signals, unsent, token>>
    BY <1>2, <1>s DEF ResolveDiscard
  <2>2. local' \in [Session -> [Key -> Call \cup {None}]] /\ fut' \in [Call -> Future]
    <3>1. CASE ~stale
      BY <1>2, <3>1 DEF ResolveDiscard, TypeOK
    <3>2. CASE stale
      <4>1. DropLocal(at[u], k) /\ l # None
        BY <1>2, <3>2 DEF ResolveDiscard
      <4>. QED
        BY <4>1, <2>1, StartedType, DropLocalType
    <3>. QED
      BY <3>1, <3>2
  <2>3. \/ Leave(u, "invalid_state")
        \/ Leave(u, "unresolved")
        \/ /\ \E j \in DOMAIN SubKeys[key[u]] : FirstMatch(u, rung[u] + 1, j) /\ Verify(u, j)
           /\ UNCHANGED <<lock, outcome>>
    BY <1>2 DEF ResolveDiscard
  <2>4. CASE Leave(u, "invalid_state") \/ Leave(u, "unresolved")
    <3>1. /\ owned' \in [Session -> [Key -> Nat]] /\ registry' \in [Key -> Nat]
          /\ signals' \subseteq Signal /\ unsent' \subseteq Cancellation
      BY <2>1 DEF TypeOK
    <3>. QED
      BY <1>o, <2>1, <2>2, <2>4, <3>1, LeaveTypeOK
  <2>5. ASSUME NEW j \in DOMAIN SubKeys[key[u]], FirstMatch(u, rung[u] + 1, j), Verify(u, j),
               UNCHANGED <<lock, outcome>>
        PROVE  TypeOK'
    BY <2>1, <2>2, <2>5, VerifyType DEF TypeOK
  <2>. QED
    BY <2>3, <2>4, <2>5
<1>3. CASE ResolveBypass(u)
  <2>. DEFINE k == Slot(u)
              l == Listener(at[u], k)
  <2>1. /\ pc[u] # "idle" /\ Slot(u) \in Key /\ at' = at /\ key' = key
        /\ UNCHANGED <<phase, active, issued, signals, token>>
    BY <1>3, <1>s DEF ResolveBypass
  <2>2. CASE l # None /\ token[l] # token[cand[u]]
    <3>1. Leave(u, "unresolved") /\ UNCHANGED <<local, fut, registry, owned, unsent>>
      BY <1>3, <2>2 DEF ResolveBypass
    <3>2. /\ local' \in [Session -> [Key -> Call \cup {None}]] /\ fut' \in [Call -> Future]
          /\ owned' \in [Session -> [Key -> Nat]] /\ registry' \in [Key -> Nat]
          /\ signals' \subseteq Signal /\ unsent' \subseteq Cancellation
      BY <2>1, <3>1 DEF TypeOK
    <3>. QED
      BY <1>o, <2>1, <3>1, <3>2, LeaveTypeOK
  <2>3. CASE ~(l # None /\ token[l] # token[cand[u]])
    <3>1. /\ CancelKey(at[u], k, u)
          /\ \/ Leave(u, "unresolved") \/ Leave(u, "invalid_state")
             \/ Goto(u, "bypassed") /\ Forget(u) /\ UNCHANGED <<lock, outcome>>
      BY <1>3, <2>3 DEF ResolveBypass
    <3>2. /\ local' \in [Session -> [Key -> Call \cup {None}]]
          /\ fut' \in [Call -> Future]
          /\ registry' \in [Key -> Nat]
          /\ owned' \in [Session -> [Key -> Nat]]
          /\ unsent' \subseteq Cancellation
      BY <2>1, <3>1, StartedType, CancelKeyType
    <3>3. CASE Leave(u, "unresolved") \/ Leave(u, "invalid_state")
      <4>1. signals' \subseteq Signal
        BY <2>1 DEF TypeOK
      <4>. QED
        BY <1>o, <2>1, <3>2, <3>3, <4>1, LeaveTypeOK
    <3>4. CASE Goto(u, "bypassed") /\ Forget(u) /\ UNCHANGED <<lock, outcome>>
      <4>1. /\ saw' \in [Proc -> BOOLEAN]
            /\ rung' \in [Update -> Nat]
            /\ cand' \in [Update -> Call \cup {None}]
        BY <3>4 DEF TypeOK, Forget
      <4>2. "bypassed" \in Label
        BY DEF Label
      <4>. QED
        BY <2>1, <3>2, <3>4, <4>1, <4>2, GotoType DEF TypeOK
    <3>. QED
      BY <3>1, <3>3, <3>4
  <2>. QED
    BY <2>2, <2>3
<1>5. CASE ResolvePublish(u)
  <2>1. /\ pc[u] # "idle" /\ at' = at /\ key' = key /\ Leave(u, "unresolved")
        /\ UNCHANGED <<sessionVars, registry, issued, callVars>>
    BY <1>5 DEF ResolvePublish
  <2>2. signals' \subseteq Signal /\ unsent' \subseteq Cancellation
    BY <1>5, PublishType DEF ResolvePublish
  <2>3. /\ local' \in [Session -> [Key -> Call \cup {None}]] /\ fut' \in [Call -> Future]
        /\ owned' \in [Session -> [Key -> Nat]] /\ registry' \in [Key -> Nat]
    BY <2>1 DEF TypeOK, sessionVars, callVars
  <2>. QED
    BY <1>o, <2>1, <2>2, <2>3, LeaveTypeOK DEF sessionVars, callVars
<1>4. CASE ResolveDeliver(u)
  <2>1. /\ pc[u] # "idle" /\ at' = at /\ key' = key
        /\ UNCHANGED <<sessionVars, registry, issued, signals, unsent, token>>
        /\ Leave(u, "consumed") \/ Leave(u, "invalid_state")
    BY <1>4 DEF ResolveDeliver
  <2>2. cand[u] \in Call /\ u \in Future
    BY <1>4 DEF ResolveDeliver, CandidateFound, Future
  <2>3. fut' = [fut EXCEPT ![cand[u]] = u] \/ fut' = fut
    BY <1>4 DEF ResolveDeliver
  <2>4. fut' \in [Call -> Future]
    <3>1. fut \in [Call -> Future]
      BY DEF TypeOK
    <3>. QED
      BY <2>2, <2>3, <3>1
  <2>5. /\ local' \in [Session -> [Key -> Call \cup {None}]]
        /\ owned' \in [Session -> [Key -> Nat]] /\ registry' \in [Key -> Nat]
        /\ signals' \subseteq Signal /\ unsent' \subseteq Cancellation
    BY <2>1 DEF TypeOK, sessionVars
  <2>. QED
    BY <1>o, <2>1, <2>4, <2>5, LeaveTypeOK DEF sessionVars
<1>. QED
  BY <1>1, <1>2, <1>3, <1>4, <1>5 DEF ResolveStep

LEMMA StartTypeOK ==
  ASSUME TypeOK, NEW p \in Proc, NEW s \in Session, NEW k \in Key,
         pc' \in {[pc EXCEPT ![p] = "lock"], [pc EXCEPT ![p] = "done"]},
         at' = [at EXCEPT ![p] = s], key' = [key EXCEPT ![p] = k],
         outcome' \in [Proc -> Outcome],
         UNCHANGED <<sessionVars, coordVars, callVars, resolveVars>>
  PROVE  TypeOK'
<1>1. /\ pc' \in [Proc -> Label] /\ at' \in [Proc -> Session \cup {None}]
      /\ key' \in [Proc -> Key \cup {None}]
      /\ \A q \in Proc : pc'[q] # "idle" => at'[q] \in Session /\ key'[q] \in Key
  BY ZenonT(30) DEF TypeOK, Label
<1>. QED
  BY <1>1 DEF TypeOK, sessionVars, coordVars, callVars, resolveVars

LEMMA SessionTypeOK ==
  ASSUME TypeOK, NEW s \in Session, SessionStep(s)
  PROVE  TypeOK'
<1>1. CASE Stop(s)
  BY <1>1 DEF Stop, TypeOK, Phase, coordVars, procVars, callVars, resolveVars
<1>2. CASE StopMemory(s) \/ Unsubscribe(s) \/ BulkUnregister(s) \/ ForgetOwned(s)
  <2>1. phase' \in [Session -> Phase]
    <3>1. phase \in [Session -> Phase] /\ {"down", "closing", "swept"} \subseteq Phase
      BY DEF TypeOK, Phase
    <3>2. \E p \in {"down", "closing", "swept"} : phase' = [phase EXCEPT ![s] = p]
      BY <1>2, Zenon DEF StopMemory, Unsubscribe, BulkUnregister, ForgetOwned
    <3>. QED
      BY <3>1, <3>2
  <2>3. /\ owned' \in [Session -> [Key -> Nat]] /\ signals' \subseteq Signal
        /\ registry' \in [Key -> Nat] /\ issued' \in Nat
    <3>1. CASE StopMemory(s)
      BY <3>1 DEF StopMemory, TypeOK
    <3>2. CASE Unsubscribe(s)
      BY <3>2 DEF Unsubscribe, TypeOK
    <3>3. CASE BulkUnregister(s)
      BY <3>3 DEF BulkUnregister, TypeOK
    <3>4. CASE ForgetOwned(s)
      BY <3>4 DEF ForgetOwned, TypeOK, coordVars
    <3>. QED
      BY <1>2, <3>1, <3>2, <3>3, <3>4
  <2>2. UNCHANGED <<active, local, lock, unsent, procVars, callVars, resolveVars, outcome>>
    BY <1>2 DEF StopMemory, Unsubscribe, BulkUnregister, ForgetOwned, coordVars
  <2>. QED
    BY <2>1, <2>2, <2>3 DEF TypeOK, procVars, callVars, resolveVars
<1>3. CASE Start(s)
  BY <1>3 DEF Start, TypeOK, Phase, coordVars, procVars, callVars, resolveVars
<1>4. CASE Crash(s)
  <2>1. /\ phase' \in [Session -> Phase] /\ active' \in [Session -> SUBSET Key]
        /\ local' \in [Session -> [Key -> Call \cup {None}]]
        /\ owned' \in [Session -> [Key -> Nat]] /\ signals' \subseteq Signal
        /\ UNCHANGED <<registry, issued, lock, unsent, at, key, callVars, resolveVars, outcome>>
    BY <1>4 DEF Crash, TypeOK, Phase
  <2>2. /\ pc' \in [Proc -> Label]
        /\ \A q \in Proc : pc'[q] # "idle" => pc[q] # "idle"
    BY <1>4 DEF Crash, TypeOK, Label
  <2>. QED
    BY <2>1, <2>2 DEF TypeOK, callVars, resolveVars
<1>b. <<s, "cancel">> \in Canceller /\ <<s, "stop">> \in Canceller
  BY DEF Canceller
<1>5. ASSUME NEW k \in Key, Cancel(s, k)
      PROVE  TypeOK'
  <2>1. /\ CancelAlone(s, k, <<s, "cancel">>)
        /\ UNCHANGED <<phase, active, issued, signals, procVars, token, resolveVars, outcome>>
    BY <1>5 DEF Cancel
  <2>. QED
    BY <1>b, <2>1, CancelAloneType DEF TypeOK, procVars, resolveVars
<1>6. ASSUME NEW k \in Key, StopCancel(s, k)
      PROVE  TypeOK'
  <2>1. /\ CancelAlone(s, k, <<s, "stop">>)
        /\ UNCHANGED <<phase, issued, signals, procVars, token, resolveVars, outcome>>
    BY <1>6 DEF StopCancel
  <2>2. active' \in [Session -> SUBSET Key]
    BY <1>6 DEF StopCancel, TypeOK
  <2>. QED
    BY <1>b, <2>1, <2>2, CancelAloneType DEF TypeOK, procVars, resolveVars
<1>. QED
  BY <1>1, <1>2, <1>3, <1>4, <1>5, <1>6 DEF SessionStep

\* Timers, cancelled tasks, signals and locks.
LEMMA EnvTypeOK ==
  ASSUME TypeOK,
         \/ \E c \in Call : Timeout(c) \/ Abort(c) \/ GiveUpLate(c) \/ AbortAnywhere(c)
         \/ \E p \in Proc : GiveUpLock(p)
         \/ \E m \in signals : ApplySignal(m) \/ LoseSignal(m)
         \/ \E m \in unsent : CancelPublish(m) \/ AbortCancel(m)
         \/ \E ch \in Chat : LockExpires(ch)
  PROVE  TypeOK'
<1>l. "done" \in Label /\ {"aborted_early", "lock_error"} \subseteq Outcome
  BY DEF Label, Outcome, Errors
<1>1. ASSUME NEW c \in Call, NEW why \in Failures, GiveUp(c, why)
      PROVE  TypeOK'
  <2>1. fut' \in [Call -> Future]
    BY <1>1 DEF GiveUp, TypeOK, Future
  <2>. QED
    BY <1>1, <2>1 DEF GiveUp, TypeOK, sessionVars, coordVars, procVars, resolveVars
<1>7. ASSUME NEW c \in Call, GiveUpLate(c)
      PROVE  TypeOK'
  <2>1. outcome' \in [Proc -> Outcome]
    <3>1. {"timeout", "aborted"} \subseteq Outcome
      BY DEF Outcome, Future, Failures
    <3>2. PICK why \in {"timeout", "aborted"} : outcome' = [outcome EXCEPT ![c] = why]
      BY <1>7 DEF GiveUpLate
    <3>3. why \in Outcome /\ outcome \in [Proc -> Outcome]
      BY <3>1 DEF TypeOK
    <3>. QED
      BY <3>2, <3>3
  <2>. QED
    BY <1>7, <2>1 DEF GiveUpLate, TypeOK, sessionVars, coordVars, procVars, callVars, resolveVars
<1>2. ASSUME NEW c \in Call, AbortAnywhere(c)
      PROVE  TypeOK'
  <2>1. c \in Proc /\ pc[c] # "idle" /\ Goto(c, "done") /\ at' = at /\ key' = key
    BY <1>2 DEF AbortAnywhere, Proc
  <2>2. /\ lock' \in [Chat -> Proc \cup Cancellation \cup {None}]
        /\ saw' \in [Proc -> BOOLEAN]
        /\ rung' \in [Update -> Nat]
        /\ cand' \in [Update -> Call \cup {None}]
    BY <1>2 DEF AbortAnywhere, Release, Forget, TypeOK
  <2>3. outcome' \in [Proc -> Outcome]
    BY <1>2, <1>l DEF AbortAnywhere, TypeOK
  <2>. QED
    BY <1>l, <1>2, <2>1, <2>2, <2>3, GotoType
       DEF AbortAnywhere, TypeOK, sessionVars, callVars
<1>3. ASSUME NEW p \in Proc, GiveUpLock(p)
      PROVE  TypeOK'
  <2>1. pc[p] # "idle" /\ Goto(p, "done") /\ at' = at /\ key' = key
    BY <1>3 DEF GiveUpLock
  <2>2. outcome' \in [Proc -> Outcome]
    BY <1>3, <1>l DEF GiveUpLock, TypeOK
  <2>. QED
    BY <1>l, <1>3, <2>1, <2>2, GotoType
       DEF GiveUpLock, TypeOK, sessionVars, coordVars, callVars, resolveVars
<1>4. ASSUME NEW m \in signals, ApplySignal(m)
      PROVE  TypeOK'
  <2>1. /\ m.to \in Session /\ m.key \in Key /\ signals' \subseteq signals
        /\ UNCHANGED <<phase, active, owned, registry, issued, lock, unsent, procVars, token,
                       resolveVars, outcome>>
    BY <1>4 DEF ApplySignal, TypeOK, Signal
  <2>2. DropLocal(m.to, m.key) \/ UNCHANGED <<local, fut>>
    BY <1>4 DEF ApplySignal
  <2>3. local' \in [Session -> [Key -> Call \cup {None}]] /\ fut' \in [Call -> Future]
    BY <2>1, <2>2, DropLocalType DEF TypeOK
  <2>. QED
    BY <2>1, <2>3 DEF TypeOK, procVars, resolveVars
<1>5. ASSUME NEW m \in signals, LoseSignal(m)
      PROVE  TypeOK'
  BY <1>5 DEF LoseSignal, TypeOK, sessionVars, procVars, callVars, resolveVars
<1>6. ASSUME NEW ch \in Chat, LockExpires(ch)
      PROVE  TypeOK'
  BY <1>6 DEF LockExpires, TypeOK, sessionVars, procVars, callVars, resolveVars
<1>8. ASSUME NEW m \in unsent, CancelPublish(m)
      PROVE  TypeOK'
  <2>1. /\ Publish(m) /\ ReleaseCancelled(m)
        /\ UNCHANGED <<sessionVars, registry, issued, procVars, callVars, resolveVars, outcome>>
    BY <1>8 DEF CancelPublish
  <2>2. lock' \in [Chat -> Proc \cup Cancellation \cup {None}]
    BY <2>1 DEF ReleaseCancelled, TypeOK
  <2>. QED
    BY <2>1, <2>2, PublishType DEF TypeOK, sessionVars, procVars, callVars, resolveVars
<1>9. ASSUME NEW m \in unsent, AbortCancel(m)
      PROVE  TypeOK'
  <2>1. /\ unsent' = (unsent \ {m}) \cup {[m EXCEPT !.by = None]} /\ ReleaseCancelled(m)
        /\ UNCHANGED <<sessionVars, registry, issued, signals, procVars, callVars, resolveVars,
                       outcome>>
    BY <1>9 DEF AbortCancel
  <2>2. lock' \in [Chat -> Proc \cup Cancellation \cup {None}]
    BY <2>1 DEF ReleaseCancelled, TypeOK
  <2>3. m \in Cancellation
    BY DEF TypeOK
  <2>4. [m EXCEPT !.by = None] \in Cancellation
    BY <2>3 DEF Cancellation
  <2>5. unsent' \subseteq Cancellation
    BY <2>1, <2>4 DEF TypeOK
  <2>. QED
    BY <2>1, <2>2, <2>5 DEF TypeOK, sessionVars, procVars, callVars, resolveVars
<1>. QED
  BY <1>1, <1>2, <1>3, <1>4, <1>5, <1>6, <1>7, <1>8, <1>9 DEF Timeout, Abort, Failures

LEMMA NextTypeOK ==
  ASSUME TypeOK, CandidateFound, [Next]_vars
  PROVE  TypeOK'
<1>1. ASSUME NEW c \in Call, NEW s \in Session, NEW k \in Key, Listen(c, s, k)
      PROVE  TypeOK'
  <2>1. c \in Proc
    BY DEF Proc
  <2>2. outcome' \in [Proc -> Outcome]
    BY <1>1 DEF Listen, TypeOK
  <2>. QED
    BY <1>1, <2>1, <2>2, StartTypeOK DEF Listen, Goto
<1>2. ASSUME NEW u \in Update, NEW s \in Session, NEW k \in Key, Resolve(u, s, k)
      PROVE  TypeOK'
  <2>1. u \in Proc
    BY DEF Proc
  <2>2. outcome' \in [Proc -> Outcome]
    BY <1>2 DEF Resolve, TypeOK, Outcome
  <2>. QED
    BY <1>2, <2>1, <2>2, StartTypeOK DEF Resolve, Goto
<1>3. CASE UNCHANGED vars
  BY <1>3 DEF vars, TypeOK, sessionVars, coordVars, procVars, callVars, resolveVars
<1>. QED
  BY <1>1, <1>2, <1>3, ListenCallTypeOK, ResolveTypeOK, SessionTypeOK, EnvTypeOK DEF Next

(***************************************************************************)
(* What a step does to a coroutine: the calls in a dict have stored        *)
(* themselves for good, and an update is "verified" either because it was  *)
(* and nothing of it moved, or because this step verified it.              *)
(***************************************************************************)
LEMMA StoredStays ==
  ASSUME TypeOK, [Next]_vars, NEW c \in Call, Stored(c)
  PROVE  Stored(c)' /\ key'[c] = key[c] /\ token'[c] = token[c]
<1>. c \in Proc /\ pc[c] \in {"wait", "finally", "done", "crashed"}
  BY DEF Proc, Stored
<1>f. ASSUME NEW p \in Proc, NEW l \in Label, Goto(p, l), key' = key,
             p = c => l \in {"wait", "finally", "done", "crashed"}
      PROVE  Stored(c)' /\ key'[c] = key[c]
  BY <1>f DEF Goto, TypeOK, Stored
<1>l. {"lock", "checked", "replaced", "registered", "wait", "finally", "verified", "bypassed",
"done"}
        \subseteq Label
  BY DEF Label
<1>v. ASSUME NEW p \in Proc, NEW r, Leave(p, r), key' = key
      PROVE  Stored(c)' /\ key'[c] = key[c]
  BY <1>f, <1>l, <1>v DEF Leave
<1>1. ASSUME NEW d \in Call, ListenStep(d)
      PROVE  Stored(c)' /\ key'[c] = key[c] /\ token'[c] = token[c]
  <2>. d \in Proc
    BY DEF Proc
  <2>1. CASE ListenAcquire(d)
    BY <2>1, <1>f, <1>l DEF ListenAcquire, callVars
  <2>2. CASE ListenReject(d)
    BY <2>2, <1>v DEF ListenReject, callVars
  <2>3. CASE ListenReplace(d)
    <3>1. /\ Goto(d, "replaced") \/ Leave(d, "invalid_state")
          /\ d # c /\ key' = key /\ token' = token
      BY <2>3 DEF ListenReplace
    <3>. QED
      BY <3>1, <1>f, <1>l, <1>v
  <2>4. CASE ListenOutOfSync(d)
    BY <2>4, <1>v DEF ListenOutOfSync, callVars
  <2>5. CASE ListenRegister(d)
    <3>1. /\ Goto(d, "registered") \/ Leave(d, "key_error")
          /\ d # c /\ key' = key
          /\ token' = token \/ token' = [token EXCEPT ![d] = issued + 1]
      BY <2>5 DEF ListenRegister
    <3>2. token'[c] = token[c]
      BY <3>1 DEF TypeOK
    <3>. QED
      BY <3>1, <3>2, <1>f, <1>l, <1>v
  <2>6. CASE ListenStore(d)
    BY <2>6, <1>f, <1>l DEF ListenStore, callVars
  <2>7. CASE DoneCallback(d) \/ ListenPublish(d)
    BY <2>7 DEF DoneCallback, ListenPublish, callVars, procVars, Stored
  <2>8. CASE Wake(d)
    BY <2>8, <1>f, <1>l DEF Wake, callVars
  <2>9. CASE Finally(d)
    BY <2>9, <1>f, <1>l DEF Finally, callVars
  <2>. QED
    BY <1>1, <2>1, <2>2, <2>3, <2>4, <2>5, <2>6, <2>7, <2>8, <2>9 DEF ListenStep
<1>2. ASSUME NEW u \in Update, ResolveStep(u)
      PROVE  Stored(c)' /\ key'[c] = key[c] /\ token'[c] = token[c]
  <2>1. /\ token' = token /\ key' = key /\ u \in Proc /\ u # c
        /\ \/ Goto(u, "verified") \/ Goto(u, "bypassed") \/ Goto(u, "done")
           \/ \E r : Leave(u, r)
    BY <1>2 DEF ResolveStep, ResolveAcquire, ResolveDiscard, ResolveBypass, ResolvePublish,
                ResolveDeliver, Verify, callVars, Proc
  <2>. QED
    BY <2>1, <1>f, <1>l, <1>v
<1>3. ASSUME NEW s \in Session, SessionStep(s)
      PROVE  Stored(c)' /\ key'[c] = key[c] /\ token'[c] = token[c]
  <2>1. CASE Crash(s)
    BY <2>1 DEF Crash, callVars, Stored, TypeOK
  <2>2. CASE ~Crash(s)
    BY <1>3, <2>2 DEF SessionStep, Stop, StopMemory, Unsubscribe, BulkUnregister, ForgetOwned,
                      Start, Cancel, StopCancel, CancelAlone,
                      callVars, procVars, Stored
  <2>. QED
    BY <2>1, <2>2
<1>4. ASSUME NEW p \in Proc, NEW s \in Session, NEW k \in Key, Listen(p, s, k) \/ Resolve(p, s, k)
      PROVE  Stored(c)' /\ key'[c] = key[c] /\ token'[c] = token[c]
  <2>1. /\ p # c /\ key' = [key EXCEPT ![p] = k] /\ token' = token
        /\ Goto(p, "lock") \/ Goto(p, "done")
    BY <1>4 DEF Listen, Resolve, callVars
  <2>. QED
    BY <2>1 DEF TypeOK, Goto, Stored
<1>5. ASSUME NEW p \in Proc, GiveUpLock(p) \/ AbortAnywhere(p)
      PROVE  Stored(c)' /\ key'[c] = key[c] /\ token'[c] = token[c]
  BY <1>5, <1>f, <1>l DEF GiveUpLock, AbortAnywhere, callVars
<1>6. ASSUME \/ UNCHANGED vars
             \/ \E d \in Call : Timeout(d) \/ Abort(d) \/ GiveUpLate(d)
             \/ \E m \in signals : ApplySignal(m) \/ LoseSignal(m)
             \/ \E m \in unsent : CancelPublish(m) \/ AbortCancel(m)
             \/ \E ch \in Chat : LockExpires(ch)
      PROVE  Stored(c)' /\ key'[c] = key[c] /\ token'[c] = token[c]
  BY <1>6 DEF Timeout, Abort, GiveUp, GiveUpLate, ApplySignal, LoseSignal, LockExpires,
              CancelPublish, AbortCancel, vars,
              procVars, callVars, Stored
<1>. QED
  BY <1>1, <1>2, <1>3, <1>4, <1>5, <1>6 DEF Next, Proc

LEMMA LocalStep ==
  ASSUME TypeOK, [Next]_vars, NEW s \in Session, NEW k \in Key
  PROVE  \/ local'[s][k] \in {None, local[s][k]}
         \/ \E c \in Call : ListenStore(c) /\ local'[s][k] = c /\ k = key[c]
<1>d. ASSUME NEW t, NEW j, DropLocal(t, j) \/ UNCHANGED local
      PROVE  local'[s][k] \in {None, local[s][k]}
  <2>1. CASE UNCHANGED local
    BY <2>1
  <2>2. CASE local' = [local EXCEPT ![t][j] = None]
    <3>1. CASE s = t /\ k = j
      BY <2>2, <3>1 DEF TypeOK
    <3>2. CASE ~(s = t /\ k = j)
      BY <2>2, <3>2 DEF TypeOK
    <3>. QED
      BY <3>1, <3>2
  <2>. QED
    BY <1>d, <2>1, <2>2 DEF DropLocal
<1>f. ASSUME NEW c, ForgetListener(c)
      PROVE  local'[s][k] \in {None, local[s][k]}
  <2>1. CASE s = at[c] /\ k = key[c]
    BY <1>f, <2>1 DEF ForgetListener, TypeOK
  <2>2. CASE ~(s = at[c] /\ k = key[c])
    BY <1>f, <2>2 DEF ForgetListener, TypeOK
  <2>. QED
    BY <2>1, <2>2
<1>1. ASSUME NEW c \in Call, ListenStep(c), ~ListenStore(c)
      PROVE  local'[s][k] \in {None, local[s][k]}
  <2>1. CASE DoneCallback(c) \/ Wake(c)
    BY <2>1, <1>f DEF DoneCallback, Wake
  <2>2. CASE ListenReplace(c)
    BY <2>2, <1>d DEF ListenReplace, CancelKey
  <2>. QED
    BY <1>1, <2>1, <2>2 DEF ListenStep, ListenAcquire, ListenReject, ListenPublish,
                            ListenOutOfSync, ListenRegister, Finally, sessionVars
<1>2. ASSUME NEW c \in Call, ListenStore(c)
      PROVE  local'[s][k] = local[s][k] \/ (local'[s][k] = c /\ k = key[c])
  BY <1>2 DEF ListenStore, TypeOK
<1>3. ASSUME NEW u \in Update, ResolveStep(u)
      PROVE  local'[s][k] \in {None, local[s][k]}
  <2>1. (\E t, j : DropLocal(t, j)) \/ UNCHANGED local
    BY <1>3 DEF ResolveStep, ResolveAcquire, ResolveDiscard, ResolveBypass, ResolvePublish,
                ResolveDeliver,
                CancelKey, sessionVars
  <2>. QED
    BY <2>1, <1>d
<1>4. ASSUME NEW t \in Session, SessionStep(t)
      PROVE  local'[s][k] \in {None, local[s][k]}
  <2>1. CASE Crash(t)
    BY <2>1 DEF Crash, TypeOK
  <2>2. CASE ~Crash(t)
    BY <1>4, <2>2, <1>d DEF SessionStep, Stop, StopMemory, Unsubscribe, BulkUnregister,
                            ForgetOwned, Start, Cancel, StopCancel, CancelAlone,
                            CancelKey
  <2>. QED
    BY <2>1, <2>2
<1>5. ASSUME NEW m \in signals, ApplySignal(m)
      PROVE  local'[s][k] \in {None, local[s][k]}
  BY <1>5, <1>d DEF ApplySignal
<1>6. ASSUME \/ UNCHANGED vars
             \/ \E p \in Proc, t \in Session, j \in Key : Listen(p, t, j) \/ Resolve(p, t, j)
             \/ \E p \in Proc : \/ Timeout(p) \/ Abort(p) \/ GiveUpLate(p)
                               \/ AbortAnywhere(p) \/ GiveUpLock(p)
             \/ \E m \in signals : LoseSignal(m)
             \/ \E m \in unsent : CancelPublish(m) \/ AbortCancel(m)
             \/ \E ch \in Chat : LockExpires(ch)
      PROVE  local'[s][k] \in {None, local[s][k]}
  BY <1>6 DEF Listen, Resolve, Timeout, Abort, GiveUp, GiveUpLate, AbortAnywhere, GiveUpLock,
              LoseSignal, LockExpires, CancelPublish, AbortCancel, vars, sessionVars
<1>. QED
  BY <1>1, <1>2, <1>3, <1>4, <1>5, <1>6 DEF Next, Proc

LEMMA DictsStep ==
  ASSUME TypeOK, [Next]_vars, DictsHoldStored
  PROVE  DictsHoldStored'
<1>. SUFFICES ASSUME NEW s \in Session, NEW k \in Key, NEW l, l = local'[s][k], l # None
              PROVE  Stored(l)' /\ key'[l] = k
  BY DEF DictsHoldStored, Listener, Stored
<1>1. CASE l = local[s][k]
  <2>1. l \in Call /\ Stored(l) /\ key[l] = k
    BY <1>1 DEF DictsHoldStored, Listener, TypeOK
  <2>. QED
    BY <2>1, StoredStays
<1>2. ASSUME NEW c \in Call, ListenStore(c), l = c, k = key[c]
      PROVE  Stored(l)' /\ key'[l] = k
  BY <1>2 DEF ListenStore, Goto, Stored, TypeOK, Proc
<1>. QED
  BY <1>1, <1>2, LocalStep

\* How an update comes to be, or stays, "verified".
JustVerified(u) ==
  /\ \E i : \E j \in DOMAIN SubKeys[key[u]] : FirstMatch(u, i, j) /\ Verify(u, j)
  /\ UNCHANGED <<registry, token, at, key>>
  /\ ResolveAcquire(u) \/ ResolveDiscard(u)

LEMMA VerifiedStep ==
  ASSUME TypeOK, [Next]_vars, NEW u \in Update, pc'[u] = "verified"
  PROVE  /\ pc[u] # "idle" /\ key'[u] = key[u]
         /\ \/ /\ pc[u] = "verified"
               /\ rung'[u] = rung[u] /\ cand'[u] = cand[u] /\ saw'[u] = saw[u]
            \/ JustVerified(u)
<1>. DEFINE Still == /\ pc[u] # "idle" /\ key'[u] = key[u] /\ pc[u] = "verified"
                     /\ rung'[u] = rung[u] /\ cand'[u] = cand[u] /\ saw'[u] = saw[u]
<1>. u \in Proc /\ u \notin Call
  BY DEF Proc
<1>m. ASSUME NEW p \in Proc, NEW l, Goto(p, l), l # "verified", key' = key,
             Forget(p) \/ UNCHANGED resolveVars
      PROVE  Still
  <2>1. p # u /\ pc'[u] = pc[u]
    BY <1>m DEF Goto, TypeOK
  <2>. QED
    BY <1>m, <2>1 DEF Forget, resolveVars, TypeOK
<1>v. ASSUME NEW p \in Proc, NEW r, Leave(p, r), key' = key
      PROVE  Still
  BY <1>v, <1>m DEF Leave
<1>1. ASSUME NEW c \in Call, ListenStep(c)
      PROVE  Still
  <2>. c \in Proc
    BY DEF Proc
  <2>1. CASE ListenAcquire(c)
    BY <2>1 DEF ListenAcquire, Goto, TypeOK
  <2>2. CASE ListenReplace(c)
    <3>1. (Goto(c, "replaced") /\ Forget(c)) \/ Leave(c, "invalid_state")
      BY <2>2 DEF ListenReplace
    <3>. QED
      BY <2>2, <3>1, <1>m, <1>v DEF ListenReplace
  <2>3. CASE ListenRegister(c)
    <3>1. \/ Goto(c, "registered") /\ UNCHANGED resolveVars
          \/ Leave(c, "key_error")
      BY <2>3 DEF ListenRegister
    <3>. QED
      BY <2>3, <3>1, <1>m, <1>v DEF ListenRegister
  <2>4. CASE ListenReject(c) \/ ListenOutOfSync(c)
    BY <2>4, <1>v DEF ListenReject, ListenOutOfSync
  <2>5. CASE ListenStore(c) \/ Wake(c) \/ Finally(c)
    <3>1. /\ Goto(c, "wait") \/ Goto(c, "done") \/ Goto(c, "finally")
          /\ key' = key /\ UNCHANGED resolveVars
      BY <2>5 DEF ListenStore, Wake, Finally
    <3>. QED
      BY <3>1, <1>m
  <2>6. CASE DoneCallback(c) \/ ListenPublish(c)
    BY <2>6 DEF DoneCallback, ListenPublish, procVars, resolveVars
  <2>. QED
    BY <1>1, <2>1, <2>2, <2>3, <2>4, <2>5, <2>6 DEF ListenStep
<1>2. ASSUME NEW v \in Update, ResolveStep(v)
      PROVE  Still \/ (pc[u] # "idle" /\ key'[u] = key[u] /\ JustVerified(u))
  <2>. v \in Proc
    BY DEF Proc
  <2>1. \/ \E r : Leave(v, r) /\ key' = key
        \/ Goto(v, "done") /\ key' = key /\ UNCHANGED resolveVars
        \/ Goto(v, "bypassed") /\ key' = key /\ Forget(v)
        \/ /\ \E i : \E j \in DOMAIN SubKeys[key[v]] : FirstMatch(v, i, j) /\ Verify(v, j)
           /\ UNCHANGED <<registry, token, at, key>> /\ pc[v] # "idle"
           /\ ResolveAcquire(v) \/ ResolveDiscard(v)
    <3>1. CASE ResolveAcquire(v)
      BY <3>1 DEF ResolveAcquire, callVars
    <3>2. CASE ResolveDiscard(v)
      BY <3>2 DEF ResolveDiscard
    <3>3. CASE ResolveBypass(v)
      BY <3>3 DEF ResolveBypass
    <3>4. CASE ResolveDeliver(v) \/ ResolvePublish(v)
      BY <3>4 DEF ResolveDeliver, ResolvePublish
    <3>. QED
      BY <1>2, <3>1, <3>2, <3>3, <3>4 DEF ResolveStep
  <2>2. ASSUME \E i : \E j \in DOMAIN SubKeys[key[v]] : FirstMatch(v, i, j) /\ Verify(v, j),
               UNCHANGED <<registry, token, at, key>>, pc[v] # "idle",
               ResolveAcquire(v) \/ ResolveDiscard(v)
        PROVE  Still \/ (pc[u] # "idle" /\ key'[u] = key[u] /\ JustVerified(u))
    <3>1. CASE u = v
      BY <2>2, <3>1 DEF JustVerified
    <3>2. CASE u # v
      BY <2>2, <3>2 DEF Verify, Goto, TypeOK
    <3>. QED
      BY <3>1, <3>2
  <2>. QED
    BY <2>1, <2>2, <1>m, <1>v
<1>3. ASSUME NEW s \in Session, SessionStep(s)
      PROVE  Still
  <2>1. CASE Crash(s)
    BY <2>1 DEF Crash, TypeOK, resolveVars
  <2>2. CASE ~Crash(s)
    BY <1>3, <2>2 DEF SessionStep, Stop, StopMemory, Unsubscribe, BulkUnregister, ForgetOwned,
                      Start, Cancel, StopCancel, CancelAlone,
                      procVars, resolveVars
  <2>. QED
    BY <2>1, <2>2
<1>4. ASSUME NEW p \in Proc, NEW s \in Session, NEW k \in Key, Listen(p, s, k) \/ Resolve(p, s, k)
      PROVE  Still
  <2>1. /\ key' = [key EXCEPT ![p] = k] /\ UNCHANGED resolveVars
        /\ Goto(p, "lock") \/ Goto(p, "done")
    BY <1>4 DEF Listen, Resolve
  <2>. QED
    BY <2>1 DEF TypeOK, Goto, resolveVars
<1>5. ASSUME NEW p \in Proc, GiveUpLock(p) \/ AbortAnywhere(p)
      PROVE  Still
  BY <1>5, <1>m DEF GiveUpLock, AbortAnywhere
<1>6. ASSUME \/ UNCHANGED vars
             \/ \E d \in Call : Timeout(d) \/ Abort(d) \/ GiveUpLate(d)
             \/ \E m \in signals : ApplySignal(m) \/ LoseSignal(m)
             \/ \E m \in unsent : CancelPublish(m) \/ AbortCancel(m)
             \/ \E ch \in Chat : LockExpires(ch)
      PROVE  Still
  BY <1>6 DEF Timeout, Abort, GiveUp, GiveUpLate, ApplySignal, LoseSignal, LockExpires,
              CancelPublish, AbortCancel, vars,
              procVars, resolveVars
<1>. QED
  BY <1>1, <1>2, <1>3, <1>4, <1>5, <1>6 DEF Next, Proc

LEMMA CandidateFoundStep ==
  ASSUME TypeOK, [Next]_vars, CandidateFound
  PROVE  CandidateFound'
<1>. SUFFICES ASSUME NEW u \in Update, pc'[u] = "verified"
              PROVE  rung'[u] \in DOMAIN SubKeys[key'[u]] /\ cand'[u] \in Call
  BY DEF CandidateFound
<1>1. u \in Proc /\ pc[u] # "idle" /\ key'[u] = key[u] /\ key[u] \in Key /\ at[u] \in Session
  BY VerifiedStep, StartedType DEF Proc
<1>2. CASE pc[u] = "verified" /\ rung'[u] = rung[u] /\ cand'[u] = cand[u]
  BY <1>1, <1>2 DEF CandidateFound
<1>3. ASSUME NEW i, NEW j \in DOMAIN SubKeys[key[u]], FirstMatch(u, i, j), Verify(u, j)
      PROVE  rung'[u] \in DOMAIN SubKeys[key'[u]] /\ cand'[u] \in Call
  <2>1. SubKeys[key[u]][j] \in Key
    BY <1>1
  <2>2. Listener(at[u], SubKeys[key[u]][j]) \in Call
    BY <1>1, <1>3, <2>1 DEF FirstMatch, Listener, TypeOK
  <2>. QED
    BY <1>1, <1>3, <2>2 DEF Verify, TypeOK
<1>. QED
  BY <1>2, <1>3, VerifiedStep DEF JustVerified

(***************************************************************************)
(* The state is well typed in every reachable state.  CandidateFound is    *)
(* what makes TypeOK inductive: a delivery writes the future of the        *)
(* candidate it has verified.                                              *)
(***************************************************************************)
THEOREM TypeCorrect == Spec => []TypeOK
<1>1. Init => TypeOK /\ CandidateFound
  BY InitTypeOK DEF Init, CandidateFound, Proc
<1>2. TypeOK /\ CandidateFound /\ [Next]_vars => TypeOK' /\ CandidateFound'
  BY NextTypeOK, CandidateFoundStep
<1>. QED
  BY <1>1, <1>2, PTL DEF Spec

(***************************************************************************)
(* The chat locks.  Everything from here on supposes that no lock outlives *)
(* its TTL while its holder runs: a dead holder's lock may.                *)
(***************************************************************************)
CallsLocked == \A p \in Proc : InCriticalSection(p) => Holds(p)
CancellersLocked ==
  \A m \in unsent, s \in Session :
    CancelledBy(m, s) /\ phase[s] # "crashed" => lock[ChatOf[m.key]] = m

LEMMA MoveLocked ==
  ASSUME TypeOK, LockedInside, NEW q \in Proc, NEW l, Goto(q, l), key' = key,
         pc[q] # "idle",
         \/ Release(q) /\ l \in {"wait", "done"}
         \/ Acquire(q)
         \/ UNCHANGED lock /\ (InCriticalSection(q) \/ l \in {"finally", "done"})
  PROVE  CallsLocked'
<1>. SUFFICES ASSUME NEW p \in Proc, InCriticalSection(p)'
              PROVE  lock'[ChatOf[key[p]]] = p
  BY DEF CallsLocked, Holds
<1>1. CASE p # q
  <2>1. /\ InCriticalSection(p) /\ lock[ChatOf[key[p]]] = p
        /\ key[p] \in Key /\ ChatOf[key[p]] \in Chat
    BY <1>1 DEF InCriticalSection, Goto, LockedInside, Holds, TypeOK
  <2>. QED
    BY <1>1, <2>1 DEF Release, Acquire, Free, TypeOK
<1>2. CASE p = q
  <2>1. l \in {"checked", "replaced", "registered", "verified", "bypassed"}
        /\ key[p] \in Key /\ ChatOf[key[p]] \in Chat
    BY <1>2 DEF InCriticalSection, Goto, TypeOK
  <2>. QED
    BY <1>2, <2>1 DEF Acquire, LockedInside, Holds, TypeOK
<1>. QED
  BY <1>1, <1>2

\* The steps that move a session from one phase to another.
MovesPhase(s) ==
  \/ Stop(s) \/ StopMemory(s) \/ Unsubscribe(s) \/ BulkUnregister(s) \/ ForgetOwned(s)
  \/ Start(s) \/ Crash(s)

LEMMA PhaseMoves ==
  ASSUME [Next]_vars
  PROVE  phase' = phase \/ \E s \in Session : MovesPhase(s)
BY ZenonT(30)
   DEF MovesPhase, Next, vars, sessionVars, SessionStep, Cancel, StopCancel, CancelAlone,
       ListenStep, ListenAcquire, ListenReject, ListenReplace, ListenPublish, ListenOutOfSync,
       ListenRegister, ListenStore, DoneCallback, Wake, Finally, ResolveStep, ResolveAcquire,
       ResolveDiscard, ResolveBypass, ResolvePublish, ResolveDeliver, Listen, Resolve, Timeout,
       Abort, GiveUp, GiveUpLate, AbortAnywhere, GiveUpLock, ApplySignal, LoseSignal,
       LockExpires, CancelPublish, AbortCancel

LEMMA CallsLockStep ==
  ASSUME TypeOK, [Next]_vars, LockedInside, "expire" \notin Env
  PROVE  CallsLocked'
<1>v. ASSUME NEW p \in Proc, NEW r, pc[p] # "idle", Leave(p, r), key' = key
      PROVE  CallsLocked'
  BY <1>v, MoveLocked DEF Leave
<1>1. ASSUME NEW c \in Call, ListenStep(c)
      PROVE  CallsLocked'
  <2>. c \in Proc
    BY DEF Proc
  <2>1. CASE ListenAcquire(c)
    BY <2>1, MoveLocked DEF ListenAcquire
  <2>2. CASE ListenReplace(c)
    <3>1. /\ \/ Goto(c, "replaced") /\ UNCHANGED lock
             \/ Leave(c, "invalid_state")
          /\ pc[c] = "checked" /\ key' = key
      BY <2>2 DEF ListenReplace
    <3>. QED
      BY <3>1, <1>v, MoveLocked DEF InCriticalSection
  <2>3. CASE ListenRegister(c)
    <3>1. /\ \/ Goto(c, "registered") /\ UNCHANGED lock
             \/ Leave(c, "key_error")
          /\ pc[c] \in {"checked", "replaced"} /\ key' = key
      BY <2>3 DEF ListenRegister
    <3>. QED
      BY <3>1, <1>v, MoveLocked DEF InCriticalSection
  <2>4. CASE ListenReject(c) \/ ListenOutOfSync(c)
    BY <2>4, <1>v DEF ListenReject, ListenOutOfSync
  <2>5. CASE ListenStore(c)
    <3>1. (Goto(c, "wait") \/ Goto(c, "done")) /\ Release(c) /\ key' = key /\ pc[c] # "idle"
      BY <2>5 DEF ListenStore
    <3>. QED
      BY <3>1, MoveLocked
  <2>6. CASE Wake(c) \/ Finally(c)
    <3>1. /\ Goto(c, "finally") \/ Goto(c, "done")
          /\ UNCHANGED lock /\ key' = key /\ pc[c] # "idle"
      BY <2>6 DEF Wake, Finally, coordVars
    <3>. QED
      BY <3>1, MoveLocked
  <2>7. CASE DoneCallback(c) \/ ListenPublish(c)
    BY <2>7 DEF DoneCallback, ListenPublish, coordVars, procVars, CallsLocked, LockedInside,
                InCriticalSection, Holds
  <2>. QED
    BY <1>1, <2>1, <2>2, <2>3, <2>4, <2>5, <2>6, <2>7 DEF ListenStep
<1>2. ASSUME NEW u \in Update, ResolveStep(u)
      PROVE  CallsLocked'
  <2>. u \in Proc
    BY DEF Proc
  <2>1. CASE ResolveAcquire(u)
    <3>1. /\ \/ Acquire(u) /\ Goto(u, "verified")
             \/ UNCHANGED lock /\ Goto(u, "done")
          /\ pc[u] # "idle" /\ key' = key
      BY <2>1 DEF ResolveAcquire, Verify
    <3>. QED
      BY <3>1, MoveLocked
  <2>2. CASE ~ResolveAcquire(u)
    <3>1. /\ \/ UNCHANGED lock /\ (Goto(u, "verified") \/ Goto(u, "bypassed"))
             \/ \E r : Leave(u, r)
          /\ pc[u] \in {"verified", "bypassed"} /\ key' = key
      BY <1>2, <2>2 DEF ResolveStep, ResolveDiscard, ResolveBypass, ResolvePublish,
                        ResolveDeliver, Verify
    <3>. QED
      BY <3>1, <1>v, MoveLocked DEF InCriticalSection
  <2>. QED
    BY <2>1, <2>2
<1>3. ASSUME NEW s \in Session, SessionStep(s)
      PROVE  CallsLocked'
  <2>1. CASE Crash(s)
    BY <2>1 DEF Crash, TypeOK, CallsLocked, LockedInside, InCriticalSection, Holds
  <2>2. ASSUME NEW j \in Key, NEW by, CancelAlone(s, j, by), UNCHANGED procVars
        PROVE  CallsLocked'
    <3>1. ASSUME NEW p \in Proc, InCriticalSection(p)
          PROVE  lock'[ChatOf[key[p]]] = p
      <4>1. lock[ChatOf[key[p]]] = p /\ p # None
        BY <3>1 DEF LockedInside, Holds
      <4>2. lock[ChatOf[j]] = None
        BY <2>2 DEF CancelAlone, Free
      <4>3. lock'[ChatOf[key[p]]] = lock[ChatOf[key[p]]]
        BY <2>2, <4>1, <4>2 DEF CancelAlone, TypeOK
      <4>. QED
        BY <4>1, <4>3
    <3>. QED
      BY <2>2, <3>1 DEF CallsLocked, InCriticalSection, Holds, procVars
  <2>3. CASE ~Crash(s) /\ \A j \in Key : ~Cancel(s, j) /\ ~StopCancel(s, j)
    BY <1>3, <2>3 DEF SessionStep, Stop, StopMemory, Unsubscribe, BulkUnregister, ForgetOwned,
                      Start,
                      coordVars, procVars, CallsLocked, LockedInside, InCriticalSection, Holds
  <2>. QED
    BY <1>3, <2>1, <2>2, <2>3 DEF SessionStep, Cancel, StopCancel
<1>4. ASSUME NEW p \in Proc, NEW s \in Session, NEW k \in Key, Listen(p, s, k) \/ Resolve(p, s, k)
      PROVE  CallsLocked'
  <2>1. /\ key' = [key EXCEPT ![p] = k] /\ lock' = lock /\ pc[p] = "idle"
        /\ Goto(p, "lock") \/ Goto(p, "done")
    BY <1>4 DEF Listen, Resolve, coordVars
  <2>2. ASSUME NEW q \in Proc, InCriticalSection(q)'
        PROVE  Holds(q)'
    <3>1. q # p /\ InCriticalSection(q) /\ key'[q] = key[q]
      BY <2>1, <2>2 DEF TypeOK, Goto, InCriticalSection
    <3>. QED
      BY <2>1, <3>1 DEF LockedInside, Holds
  <2>. QED
    BY <2>2 DEF CallsLocked
<1>5. ASSUME NEW p \in Proc, GiveUpLock(p)
      PROVE  CallsLocked'
  <2>1. pc[p] # "idle" /\ Goto(p, "done") /\ key' = key /\ UNCHANGED lock
    BY <1>5 DEF GiveUpLock, coordVars
  <2>. QED
    BY <2>1, MoveLocked
<1>6. ASSUME NEW c \in Call, AbortAnywhere(c)
      PROVE  CallsLocked'
  <2>1. c \in Proc /\ pc[c] # "idle" /\ Goto(c, "done") /\ key' = key /\ Release(c)
    BY <1>6 DEF AbortAnywhere, Proc
  <2>. QED
    BY <2>1, MoveLocked
<1>7. ASSUME NEW ch \in Chat, LockExpires(ch)
      PROVE  CallsLocked'
  <2>1. /\ lock[ch] \in Proc => pc[lock[ch]] = "crashed"
        /\ lock' = [lock EXCEPT ![ch] = None]
        /\ UNCHANGED <<pc, key>>
    BY <1>7 DEF LockExpires, Dead, procVars
  <2>2. ASSUME NEW p \in Proc, InCriticalSection(p)
        PROVE  lock'[ChatOf[key[p]]] = p
    <3>1. lock[ChatOf[key[p]]] = p /\ key[p] \in Key /\ ChatOf[key[p]] \in Chat
      BY <2>2 DEF LockedInside, Holds, InCriticalSection, TypeOK
    <3>2. ChatOf[key[p]] # ch
      BY <2>1, <2>2, <3>1 DEF InCriticalSection
    <3>. QED
      BY <2>1, <3>1, <3>2 DEF TypeOK
  <2>. QED
    BY <2>1, <2>2 DEF CallsLocked, InCriticalSection, Holds
<1>8. ASSUME \/ UNCHANGED vars
             \/ \E c \in Call : Timeout(c) \/ Abort(c) \/ GiveUpLate(c)
             \/ \E m \in signals : ApplySignal(m) \/ LoseSignal(m)
      PROVE  CallsLocked'
  BY <1>8 DEF Timeout, Abort, GiveUp, GiveUpLate, ApplySignal, LoseSignal, vars, coordVars,
              procVars, CallsLocked, LockedInside, InCriticalSection, Holds
<1>9. ASSUME NEW m \in unsent, CancelPublish(m) \/ AbortCancel(m)
      PROVE  CallsLocked'
  <2>1. ReleaseCancelled(m) /\ UNCHANGED <<pc, key>> /\ m \notin Proc
    BY <1>9 DEF CancelPublish, AbortCancel, procVars, TypeOK
  <2>2. ASSUME NEW p \in Proc, InCriticalSection(p)
        PROVE  lock'[ChatOf[key[p]]] = p
    <3>1. lock[ChatOf[key[p]]] = p /\ key[p] \in Key /\ ChatOf[key[p]] \in Chat
      BY <2>2 DEF LockedInside, Holds, InCriticalSection, TypeOK
    <3>. QED
      BY <2>1, <3>1 DEF ReleaseCancelled, TypeOK
  <2>. QED
    BY <2>1, <2>2 DEF CallsLocked, InCriticalSection, Holds
<1>. QED
  BY <1>1, <1>2, <1>3, <1>4, <1>5, <1>6, <1>7, <1>8, <1>9 DEF Next, Proc

LEMMA CancellersLockStep ==
  ASSUME TypeOK, [Next]_vars, CandidateFound, LockedInside, "expire" \notin Env
  PROVE  CancellersLocked'
<1>. SUFFICES ASSUME NEW m, m \in unsent', NEW s \in Session, CancelledBy(m, s),
                     phase'[s] # "crashed"
              PROVE  lock'[ChatOf[m.key]] = m
  BY DEF CancellersLocked
<1>1. m \in Cancellation /\ m.key \in Key /\ m.by \notin Proc \cup {None} /\ m # None
  <2>1. m \in Cancellation
    BY NextTypeOK DEF TypeOK
  <2>2. m.by \in Canceller
    BY DEF CancelledBy, Canceller
  <2>3. m.key \in Key
    BY <2>1 DEF Cancellation
  <2>. QED
    BY <2>1, <2>2, <2>3 DEF Canceller
<1>2. phase[s] # "crashed"
  <2>1. CASE phase' = phase
    BY <2>1
  <2>2. ASSUME NEW t \in Session, MovesPhase(t)
        PROVE  phase[s] # "crashed"
    BY <2>2 DEF MovesPhase, Stop, StopMemory, Unsubscribe, BulkUnregister, ForgetOwned,
                ActiveCancelled, Start, Crash, TypeOK
  <2>. QED
    BY <2>1, <2>2, PhaseMoves
<1>h. m \in unsent => lock[ChatOf[m.key]] = m /\ ~Free(ChatOf[m.key])
  BY <1>1, <1>2 DEF LockedInside, Free
<1>a. ASSUME m \in unsent, UNCHANGED lock \/ \E p \in Proc : Release(p) \/ Acquire(p)
      PROVE  lock'[ChatOf[m.key]] = m
  BY <1>1, <1>a, <1>h DEF Release, Acquire, Free, TypeOK
<1>b. ASSUME NEW t, NEW j, NEW by, CancelKey(t, j, by), m \notin unsent
      PROVE  m = CancellationOf(j, by) /\ m.by = by /\ CanFail(t, j) /\ Announced(j)
  BY <1>b DEF CancelKey, CoordinatorCancel, CancellationOf
<1>3. ASSUME NEW c \in Call, ListenStep(c)
      PROVE  lock'[ChatOf[m.key]] = m
  <2>. c \in Proc
    BY DEF Proc
  <2>1. m \in unsent
    BY <1>3, <1>1, <1>b DEF ListenStep, ListenAcquire, ListenReject, ListenReplace, ListenPublish,
          Publish, ListenOutOfSync, ListenRegister, ListenStore, DoneCallback, Wake, Finally,
          coordVars
  <2>2. UNCHANGED lock \/ Release(c) \/ Acquire(c)
    BY <1>3 DEF ListenStep, ListenAcquire, ListenReject, ListenReplace, ListenPublish,
          ListenOutOfSync, ListenRegister, ListenStore, DoneCallback, Wake, Finally, Leave,
          coordVars
  <2>. QED
    BY <2>1, <2>2, <1>a
<1>4. ASSUME NEW u \in Update, ResolveStep(u)
      PROVE  lock'[ChatOf[m.key]] = m
  <2>. u \in Proc
    BY DEF Proc
  <2>1. m \in unsent
    BY <1>4, <1>1, <1>b DEF ResolveStep, ResolveAcquire, ResolveDiscard, ResolveBypass,
          ResolvePublish, Publish, ResolveDeliver
  <2>2. UNCHANGED lock \/ Release(u) \/ Acquire(u)
    BY <1>4 DEF ResolveStep, ResolveAcquire, ResolveDiscard, ResolveBypass, ResolvePublish,
          ResolveDeliver, Leave
  <2>. QED
    BY <2>1, <2>2, <1>a
<1>5. ASSUME NEW t \in Session, SessionStep(t)
      PROVE  lock'[ChatOf[m.key]] = m
  <2>1. ASSUME NEW j \in Key, NEW by, CancelAlone(t, j, by)
        PROVE  lock'[ChatOf[m.key]] = m
    <3>1. CASE m \in unsent
      BY <2>1, <3>1, <1>1, <1>h DEF CancelAlone, Free, TypeOK
    <3>2. CASE m \notin unsent
      <4>1. m = CancellationOf(j, by) /\ m.key = j /\ CanFail(t, j) /\ Announced(j)
        BY <2>1, <3>2, <1>b DEF CancelAlone, CancellationOf
      <4>. QED
        BY <2>1, <4>1 DEF CancelAlone, TypeOK
    <3>. QED
      BY <3>1, <3>2
  <2>2. CASE \A j \in Key : ~Cancel(t, j) /\ ~StopCancel(t, j)
    BY <1>5, <2>2, <1>a DEF SessionStep, Stop, StopMemory, Unsubscribe, BulkUnregister,
                            ForgetOwned, Start, Crash, coordVars
  <2>. QED
    BY <1>5, <2>1, <2>2 DEF Cancel, StopCancel
<1>6. ASSUME NEW ch \in Chat, LockExpires(ch)
      PROVE  lock'[ChatOf[m.key]] = m
  <2>1. m \in unsent /\ lock[ChatOf[m.key]] = m
    BY <1>6, <1>h DEF LockExpires
  <2>2. lock[ch] # m
    BY <1>6, <1>1, <1>2 DEF LockExpires, Dead, CancelledBy
  <2>. QED
    BY <1>6, <2>1, <2>2 DEF LockExpires, TypeOK
<1>7. ASSUME NEW n \in unsent, CancelPublish(n) \/ AbortCancel(n)
      PROVE  lock'[ChatOf[m.key]] = m
  <2>1. m \in unsent /\ m # n
    <3>1. CASE CancelPublish(n)
      BY <3>1 DEF CancelPublish, Publish
    <3>2. CASE AbortCancel(n)
      <4>1. [n EXCEPT !.by = None].by = None
        BY DEF TypeOK, Cancellation
      <4>. QED
        BY <3>2, <4>1, <1>1 DEF AbortCancel
    <3>. QED
      BY <1>7, <3>1, <3>2
  <2>. QED
    BY <1>7, <2>1, <1>1, <1>h DEF CancelPublish, AbortCancel, ReleaseCancelled, TypeOK
<1>8. ASSUME \/ UNCHANGED vars
             \/ \E c \in Call : Timeout(c) \/ Abort(c) \/ GiveUpLate(c) \/ AbortAnywhere(c)
             \/ \E p \in Proc : GiveUpLock(p)
             \/ \E p \in Proc, t \in Session, j \in Key : Listen(p, t, j) \/ Resolve(p, t, j)
             \/ \E n \in signals : ApplySignal(n) \/ LoseSignal(n)
      PROVE  lock'[ChatOf[m.key]] = m
  <2>1. m \in unsent
    BY <1>8 DEF Timeout, Abort, GiveUp, GiveUpLate, AbortAnywhere, GiveUpLock, Listen, Resolve,
                ApplySignal, LoseSignal, vars, coordVars
  <2>2. UNCHANGED lock \/ \E p \in Proc : Release(p)
    BY <1>8 DEF Timeout, Abort, GiveUp, GiveUpLate, AbortAnywhere, GiveUpLock, Listen, Resolve,
                ApplySignal, LoseSignal, vars, coordVars, Proc
  <2>. QED
    BY <2>1, <2>2, <1>a
<1>. QED
  BY <1>3, <1>4, <1>5, <1>6, <1>7, <1>8 DEF Next, Proc

LEMMA LockStep ==
  ASSUME TypeOK, [Next]_vars, CandidateFound, LockedInside, "expire" \notin Env
  PROVE  LockedInside'
BY CallsLockStep, CancellersLockStep DEF LockedInside, CallsLocked, CancellersLocked


\* A session stops only where the environment may stop it.
StopIsAllowed ==
  \A s \in Session :
    phase[s] \in {"stopping", "closing", "swept", "down"} => "stop" \in Env

LEMMA StopIsAllowedStep ==
  ASSUME TypeOK, [Next]_vars, StopIsAllowed
  PROVE  StopIsAllowed'
<1>1. ASSUME NEW s \in Session, MovesPhase(s)
      PROVE  StopIsAllowed'
  BY <1>1 DEF MovesPhase, Stop, StopMemory, Unsubscribe, BulkUnregister, ForgetOwned,
              ActiveCancelled, Start, Crash, StopIsAllowed, TypeOK
<1>2. CASE phase' = phase
  BY <1>2 DEF StopIsAllowed
<1>3. phase' = phase \/ \E s \in Session : MovesPhase(s)
  BY PhaseMoves
<1>. QED
  BY <1>1, <1>2, <1>3

\* A registration changes only by the holder of its chat's lock, which then
\* does not stay "verified", or while that lock is free, or as a session stops.
LEMMA RegistryStep ==
  ASSUME TypeOK, [Next]_vars, CandidateFound, LockedInside, StopIsAllowed, NEW k \in Key,
         registry'[k] # registry[k]
  PROVE  \/ lock[ChatOf[k]] = None
         \/ \E c \in Call : lock[ChatOf[k]] = c
         \/ \E u \in Update : lock[ChatOf[k]] = u /\ pc'[u] # "verified"
         \/ registry'[k] = 0 /\ "stop" \in Env
<1>k. ASSUME NEW s, NEW j, NEW by, CancelKey(s, j, by)
      PROVE  k = j
  BY <1>k DEF CancelKey, CoordinatorCancel, TypeOK
<1>1. ASSUME NEW c \in Call, ListenStep(c)
      PROVE  lock[ChatOf[k]] = None \/ lock[ChatOf[k]] = c
  <2>. c \in Proc
    BY DEF Proc
  <2>1. CASE ListenReplace(c)
    BY <2>1, <1>k DEF ListenReplace, LockedInside, InCriticalSection, Holds
  <2>2. CASE ListenRegister(c)
    <3>1. k = key[c]
      BY <2>2 DEF ListenRegister, TypeOK
    <3>. QED
      BY <2>2, <3>1 DEF ListenRegister, LockedInside, InCriticalSection, Holds
  <2>3. CASE Finally(c)
    <3>1. k = key[c]
      BY <2>3 DEF Finally, CoordinatorUnregister, TypeOK
    <3>. QED
      BY <2>3, <3>1 DEF Finally, Free
  <2>. QED
    BY <1>1, <2>1, <2>2, <2>3
       DEF ListenStep, ListenAcquire, ListenReject, ListenPublish, ListenOutOfSync, ListenStore,
           DoneCallback, Wake, coordVars
<1>2. ASSUME NEW u \in Update, ResolveStep(u)
      PROVE  lock[ChatOf[k]] = u /\ pc'[u] # "verified"
  <2>1. ResolveBypass(u) /\ k = Slot(u)
    BY <1>2, <1>k DEF ResolveStep, ResolveAcquire, ResolveDiscard, ResolveBypass, ResolvePublish,
                      ResolveDeliver
  <2>2. u \in Proc /\ lock[ChatOf[key[u]]] = u /\ pc[u] = "verified" /\ key[u] \in Key
    BY <2>1 DEF ResolveBypass, LockedInside, InCriticalSection, Holds, Proc, TypeOK
  <2>3. ChatOf[k] = ChatOf[key[u]]
    BY <2>1, <2>2 DEF CandidateFound, Slot
  <2>4. pc'[u] \in {"bypassed", "done"}
    BY <2>1, <2>2 DEF ResolveBypass, Leave, Goto, TypeOK
  <2>. QED
    BY <2>2, <2>3, <2>4
<1>3. ASSUME NEW s \in Session, SessionStep(s)
      PROVE  lock[ChatOf[k]] = None \/ (registry'[k] = 0 /\ "stop" \in Env)
  <2>1. CASE StopMemory(s) \/ BulkUnregister(s)
    BY <2>1 DEF StopMemory, BulkUnregister, ActiveCancelled, StopIsAllowed, TypeOK
  <2>2. CASE ~(StopMemory(s) \/ BulkUnregister(s))
    BY <1>3, <2>2, <1>k DEF SessionStep, Stop, Unsubscribe, ForgetOwned, Start, Crash, Cancel,
                            StopCancel, CancelAlone, coordVars, Free
  <2>. QED
    BY <2>1, <2>2
<1>. QED
  BY <1>1, <1>2, <1>3
     DEF Next, vars, coordVars, Listen, Resolve, Timeout, Abort, GiveUp, GiveUpLate, AbortAnywhere,
         GiveUpLock, ApplySignal, LoseSignal, LockExpires, CancelPublish, AbortCancel

LEMMA CandidateStillOwnsStep ==
  ASSUME TypeOK, [Next]_vars, OwnershipInv, StopIsAllowed
  PROVE  CandidateStillOwns'
<1>. USE DEF OwnershipInv
<1>. SUFFICES ASSUME NEW u \in Update, pc'[u] = "verified"
              PROVE  (/\ Stored(cand[u]) /\ key[cand[u]] = Slot(u)
                      /\ saw[u] => \/ registry[Slot(u)] = token[cand[u]]
                                   \/ registry[Slot(u)] = 0 /\ "stop" \in Env)'
  BY DEF CandidateStillOwns
<1>1. u \in Proc /\ u \notin Call /\ pc[u] # "idle" /\ key'[u] = key[u]
      /\ key[u] \in Key /\ at[u] \in Session
  BY VerifiedStep, StartedType DEF Proc
<1>2. ASSUME pc[u] = "verified", rung'[u] = rung[u], cand'[u] = cand[u], saw'[u] = saw[u]
      PROVE  (/\ Stored(cand[u]) /\ key[cand[u]] = Slot(u)
              /\ saw[u] => \/ registry[Slot(u)] = token[cand[u]]
                           \/ registry[Slot(u)] = 0 /\ "stop" \in Env)'
  <2>1. /\ cand[u] \in Call /\ Slot(u) \in Key /\ ChatOf[Slot(u)] = ChatOf[key[u]]
        /\ Slot(u)' = Slot(u)
    BY <1>1, <1>2 DEF CandidateFound, Slot
  <2>2. /\ Stored(cand[u]) /\ key[cand[u]] = Slot(u)
        /\ saw[u] => \/ registry[Slot(u)] = token[cand[u]]
                     \/ registry[Slot(u)] = 0 /\ "stop" \in Env
    BY <1>2 DEF CandidateStillOwns
  <2>3. PICK c \in Call : c = cand[u]
    BY <2>1
  <2>4. Stored(c)' /\ key'[c] = Slot(u) /\ token'[c] = token[c]
    BY <2>2, <2>3, StoredStays
  <2>5. lock[ChatOf[Slot(u)]] = u
    BY <1>1, <1>2, <2>1 DEF LockedInside, InCriticalSection, Holds
  <2>6. PICK k \in Key : k = Slot(u)
    BY <2>1
  <2>7. registry'[k] = registry[k] \/ (registry'[k] = 0 /\ "stop" \in Env)
    <3>1. SUFFICES ASSUME registry'[k] # registry[k]
                   PROVE  registry'[k] = 0 /\ "stop" \in Env
      OBVIOUS
    <3>2. u # None /\ lock[ChatOf[k]] = u
      BY <1>1, <2>5, <2>6
    <3>. QED
      BY <1>1, <3>1, <3>2, RegistryStep
  <2>. QED
    BY <1>2, <2>1, <2>2, <2>3, <2>4, <2>6, <2>7 DEF Stored
<1>3. ASSUME NEW i, NEW j \in DOMAIN SubKeys[key[u]], FirstMatch(u, i, j), Verify(u, j),
             UNCHANGED <<registry, token, at, key>>
      PROVE  (/\ Stored(cand[u]) /\ key[cand[u]] = Slot(u)
              /\ saw[u] => \/ registry[Slot(u)] = token[cand[u]]
                           \/ registry[Slot(u)] = 0 /\ "stop" \in Env)'
  <2>1. PICK slot \in Key : slot = SubKeys[key[u]][j]
    BY <1>1
  <2>2. PICK l \in Call : l = Listener(at[u], slot)
    BY <1>1, <1>3, <2>1, SMTT(30) DEF FirstMatch, Listener, TypeOK
  <2>3. Slot(u)' = slot /\ cand'[u] = l /\ saw'[u] = RegisteredAs(slot, token[l])
    BY <1>1, <1>3, <2>1, <2>2 DEF Verify, Slot, TypeOK
  <2>4. Stored(l) /\ key[l] = slot
    BY <1>1, <2>2 DEF Listener, DictsHoldStored, Proc
  <2>5. Stored(l)' /\ key'[l] = slot /\ token'[l] = token[l]
    BY <2>4, StoredStays
  <2>. QED
    BY <1>3, <2>3, <2>5 DEF Stored, RegisteredAs
<1>. QED
  BY <1>2, <1>3, VerifiedStep DEF JustVerified

(***************************************************************************)
(* While no lock outlives its TTL, the critical sections of a chat exclude *)
(* each other in every session, and an update about to be delivered holds  *)
(* the lock under which its candidate was found to own its key.            *)
(***************************************************************************)
IInv == TypeOK /\ OwnershipInv /\ StopIsAllowed

LEMMA InitIInv == Init => IInv
<1>. SUFFICES ASSUME Init PROVE IInv
  OBVIOUS
<1>1. TypeOK /\ \A p \in Proc : pc[p] = "idle"
  BY InitTypeOK DEF Init
<1>2. DictsHoldStored
  BY DEF Init, DictsHoldStored, Listener
<1>3. CandidateFound /\ CandidateStillOwns
  BY <1>1 DEF CandidateFound, CandidateStillOwns, Proc
<1>5. LockedInside
  BY <1>1 DEF Init, LockedInside, InCriticalSection
<1>4. StopIsAllowed
  BY DEF Init, StopIsAllowed
<1>. QED
  BY <1>1, <1>2, <1>3, <1>4, <1>5 DEF IInv, OwnershipInv

LEMMA NextIInv ==
  ASSUME IInv, [Next]_vars, "expire" \notin Env
  PROVE  IInv'
BY NextTypeOK, CandidateFoundStep, DictsStep, LockStep, CandidateStillOwnsStep,
   StopIsAllowedStep
   DEF IInv, OwnershipInv

THEOREM Ownership ==
  ASSUME "expire" \notin Env
  PROVE  Spec => []OwnershipInv
<1>1. IInv /\ [Next]_vars => IInv'
  BY NextIInv
<1>2. IInv => OwnershipInv
  BY DEF IInv
<1>. QED
  BY <1>1, <1>2, InitIInv, PTL DEF Spec
(***************************************************************************)
(* Only a delivery puts an update into a future, and it puts it into that  *)
(* of the candidate found to own its key.                                  *)
(***************************************************************************)
LEMMA DeliveryStep ==
  ASSUME TypeOK, [Next]_vars, NEW c \in Call, fut[c] = Pending, fut'[c] \in Update
  PROVE  \E u \in Update : ResolveDeliver(u) /\ cand[u] = c
<1>. fut'[c] \notin Failures /\ fut'[c] # Pending /\ fut'[c] # fut[c]
  OBVIOUS
<1>d. ASSUME NEW s, NEW k, DropLocal(s, k)
      PROVE  FALSE
  BY <1>d DEF DropLocal, Failures
<1>1. ASSUME NEW d \in Call, ListenStep(d)
      PROVE  FALSE
  BY <1>1, <1>d DEF ListenStep, ListenAcquire, ListenReject, ListenReplace, ListenPublish,
                    ListenOutOfSync,
         ListenRegister, ListenStore, DoneCallback, Wake, Finally, CancelKey, callVars
<1>2. ASSUME NEW u \in Update, ResolveStep(u)
      PROVE  ResolveDeliver(u) /\ cand[u] = c
  <2>1. ResolveDeliver(u)
    BY <1>2, <1>d DEF ResolveStep, ResolveAcquire, ResolveDiscard, ResolveBypass,
                      ResolvePublish, CancelKey, callVars
  <2>. QED
    BY <2>1 DEF ResolveDeliver, TypeOK
<1>3. ASSUME NEW s \in Session, SessionStep(s)
      PROVE  FALSE
  BY <1>3, <1>d DEF SessionStep, Stop, StopMemory, Unsubscribe, BulkUnregister, ForgetOwned,
                    Start, Crash, Cancel, StopCancel, CancelAlone,
                    CancelKey, callVars
<1>4. ASSUME NEW d \in Call, NEW why \in Failures, GiveUp(d, why)
      PROVE  FALSE
  BY <1>4 DEF GiveUp, TypeOK
<1>5. ASSUME NEW m \in signals, ApplySignal(m)
      PROVE  FALSE
  BY <1>5, <1>d DEF ApplySignal
<1>6. ASSUME \/ UNCHANGED vars
             \/ \E p \in Proc, s \in Session, k \in Key : Listen(p, s, k) \/ Resolve(p, s, k)
             \/ \E p \in Proc : GiveUpLate(p) \/ AbortAnywhere(p) \/ GiveUpLock(p)
             \/ \E m \in signals : LoseSignal(m)
             \/ \E m \in unsent : CancelPublish(m) \/ AbortCancel(m)
             \/ \E ch \in Chat : LockExpires(ch)
      PROVE  FALSE
  BY <1>6 DEF Listen, Resolve, GiveUpLate, AbortAnywhere, GiveUpLock, LoseSignal, LockExpires,
              CancelPublish, AbortCancel,
              vars, callVars
<1>. QED
  BY <1>1, <1>2, <1>3, <1>4, <1>5, <1>6 DEF Next, Timeout, Abort, Failures, Proc

(***************************************************************************)
(* A listener is given an update only while its token is registered, or    *)
(* was until a session that stops withdrew it: from Ownership.             *)
(***************************************************************************)
THEOREM DeliveryByOwner ==
  ASSUME "expire" \notin Env
  PROVE  Spec => ResolvedByOwner
<1>1. IInv /\ [Next]_vars => IInv'
  BY NextIInv
<1>2. ASSUME IInv, [Next]_vars
      PROVE  [\A c \in Call : fut[c] = Pending /\ fut'[c] \in Update =>
                 \/ registry[key[c]] = token[c]
                 \/ registry[key[c]] = 0 /\ "stop" \in Env]_vars
  <2>. SUFFICES ASSUME NEW c \in Call, fut[c] = Pending, fut'[c] \in Update
                PROVE  \/ registry[key[c]] = token[c]
                       \/ registry[key[c]] = 0 /\ "stop" \in Env
    OBVIOUS
  <2>1. PICK u \in Update : ResolveDeliver(u) /\ cand[u] = c
    BY <1>2, DeliveryStep DEF IInv
  <2>2. pc[u] = "verified" /\ saw[u]
    BY <2>1 DEF ResolveDeliver
  <2>. QED
    BY <1>2, <2>1, <2>2 DEF IInv, OwnershipInv, CandidateStillOwns
<1>. QED
  BY <1>1, <1>2, InitIInv, PTL DEF Spec, ResolvedByOwner

(***************************************************************************)
(* What a listen() returns, whatever strikes it, and what it leaves behind *)
(* as long as it always gets to its cleanup.                               *)
(***************************************************************************)
\* Nothing keeps a listen() that waited from its cleanup.
Cuts == {"expire", "abort_any", "block"}
CleansUp == Env \cap Cuts = {}

Early == {"idle", "lock", "checked", "replaced"}

\* A call has its outcome when it is done, or when a timer or an abort has won
\* over its future, and not before.
OutcomeIsLast ==
  \A c \in Call : outcome[c] # "none" =>
    pc[c] = "done" \/ (fut[c] # Pending /\ outcome[c] \in Overriding)

\* The future is new until the listener is stored, and done in the cleanup.
FutureOfPhase ==
  \A c \in Call :
    /\ pc[c] \in Early \cup {"registered"} => fut[c] = Pending
    /\ pc[c] = "finally" => fut[c] # Pending

\* Who can still be given an update or be failed, through a dict or as the
\* candidate of a resolve(), waits, or has lost its lock as it stored itself.
Waits(c) ==
  \/ pc[c] \in {"wait", "crashed"} /\ outcome[c] = "none"
  \/ pc[c] = "done" /\ outcome[c] \in Overriding

PendingWaits ==
  /\ \A s \in Session, k \in Key :
       Listener(s, k) # None /\ fut[Listener(s, k)] = Pending => Waits(Listener(s, k))
  /\ \A u \in Update : pc[u] = "verified" /\ fut[cand[u]] = Pending => Waits(cand[u])

ReturnInv == OutcomeIsLast /\ FutureOfPhase /\ PendingWaits /\ DeliveredIsReturned

(***************************************************************************)
(* What a step does to one call.                                           *)
(***************************************************************************)
Stays(c) == pc'[c] = pc[c] /\ outcome'[c] = outcome[c]

Moves(c) ==
  \/ pc[c] \in Early /\ pc'[c] \in Early \cup {"registered"} /\ outcome'[c] = outcome[c]
  \/ pc[c] \in Early /\ pc'[c] = "done"
  \/ pc[c] = "registered" /\ pc'[c] = "wait" /\ outcome'[c] = outcome[c]
  \/ pc[c] = "wait" /\ fut[c] # Pending /\ pc'[c] = "finally" /\ outcome'[c] = outcome[c]
  \/ Finally(c)
  \/ pc[c] # "done" /\ pc'[c] = "crashed" /\ outcome'[c] = outcome[c]

\* ... what cuts it short, and what wins over its future while it waits.
CutShort(c) ==
  /\ pc[c] \in Early \cup {"registered", "finally"} /\ pc'[c] = "done"
  /\ outcome'[c] \in Overriding /\ Env \cap Cuts # {}

Overridden(c) ==
  /\ pc[c] = "wait" /\ pc'[c] = "wait" /\ fut[c] # Pending
  /\ outcome'[c] \in Overriding

\* A coroutine that moves leaves the others where they are.
LEMMA OthersStay ==
  ASSUME TypeOK, NEW c \in Call, NEW p \in Proc, p # c, NEW l,
         \/ Goto(p, l) /\ UNCHANGED outcome
         \/ \E r : Goto(p, l) /\ outcome' = [outcome EXCEPT ![p] = r]
         \/ \E r : Leave(p, r)
  PROVE  Stays(c)
<1>. c \in Proc
  BY DEF Proc
<1>. QED
  BY DEF TypeOK, Goto, Leave, Stays

LEMMA CallStep ==
  ASSUME TypeOK, "expire" \notin Env => LockedInside, [Next]_vars, NEW c \in Call
  PROVE  Stays(c) \/ Moves(c) \/ CutShort(c) \/ Overridden(c)
<1>. c \in Proc /\ c \notin Update
  BY DEF Proc
<1>1. ASSUME NEW d \in Call, ListenStep(d)
      PROVE  Stays(c) \/ Moves(c) \/ CutShort(c)
  <2>. d \in Proc
    BY DEF Proc
  <2>1. CASE ListenAcquire(d)
    <3>1. CASE d = c
      BY <2>1, <3>1 DEF ListenAcquire, Goto, Moves, Early, TypeOK
    <3>2. CASE d # c
      BY <2>1, <3>2, OthersStay DEF ListenAcquire
    <3>. QED
      BY <3>1, <3>2
  <2>2. CASE ListenReject(d) \/ ListenReplace(d) \/ ListenOutOfSync(d) \/ ListenRegister(d)
    <3>1. /\ pc[d] \in Early
          /\ \/ Goto(d, "replaced") /\ UNCHANGED outcome
             \/ Goto(d, "registered") /\ UNCHANGED outcome
             \/ \E r : Leave(d, r)
      BY <2>2 DEF ListenReject, ListenReplace, ListenOutOfSync, ListenRegister, Early
    <3>2. CASE d = c
      BY <3>1, <3>2 DEF Leave, Goto, Moves, Early, TypeOK
    <3>3. CASE d # c
      BY <3>1, <3>3, OthersStay
    <3>. QED
      BY <3>2, <3>3
  <2>3. CASE ListenStore(d)
    <3>1. /\ pc[d] = "registered"
          /\ \/ Goto(d, "wait") /\ UNCHANGED outcome
             \/ /\ Goto(d, "done") /\ outcome' = [outcome EXCEPT ![d] = "lock_error"]
                /\ ~Holds(d)
      BY <2>3 DEF ListenStore
    <3>2. CASE d = c /\ Goto(d, "wait") /\ UNCHANGED outcome
      BY <3>1, <3>2 DEF Goto, Moves, TypeOK
    <3>3. CASE d = c /\ Goto(d, "done") /\ ~Holds(d)
      <4>1. "expire" \in Env
        BY <3>1, <3>3 DEF LockedInside, InCriticalSection
      <4>2. "lock_error" \in Overriding /\ Env \cap Cuts # {}
        BY <4>1 DEF Overriding, Cuts
      <4>3. pc'[c] = "done"
        BY <3>3 DEF Goto, TypeOK
      <4>4. outcome'[c] = "lock_error"
        BY <3>1, <3>3, <4>3 DEF Goto, TypeOK
      <4>. QED
        BY <3>1, <3>3, <4>2, <4>3, <4>4 DEF CutShort
    <3>4. CASE d # c
      BY <3>1, <3>4, OthersStay
    <3>. QED
      BY <3>1, <3>2, <3>3, <3>4
  <2>4. CASE DoneCallback(d)
    BY <2>4 DEF DoneCallback, procVars, Stays
  <2>5. CASE Wake(d)
    <3>1. pc[d] = "wait" /\ fut[d] # Pending /\ Goto(d, "finally") /\ UNCHANGED outcome
      BY <2>5 DEF Wake
    <3>2. CASE d = c
      BY <3>1, <3>2 DEF Goto, Moves, TypeOK
    <3>3. CASE d # c
      BY <3>1, <3>3, OthersStay
    <3>. QED
      BY <3>2, <3>3
  <2>6. CASE Finally(d)
    <3>1. CASE d = c
      BY <2>6, <3>1 DEF Moves
    <3>2. CASE d # c
      BY <2>6, <3>2, OthersStay DEF Finally
    <3>. QED
      BY <3>1, <3>2
  <2>7. CASE ListenPublish(d)
    BY <2>7 DEF ListenPublish, procVars, Stays
  <2>. QED
    BY <1>1, <2>1, <2>2, <2>3, <2>4, <2>5, <2>6, <2>7 DEF ListenStep
<1>2. ASSUME NEW u \in Update, ResolveStep(u)
      PROVE  Stays(c)
  <2>1. /\ u \in Proc /\ u # c
        /\ \/ Goto(u, "verified") /\ UNCHANGED outcome
           \/ Goto(u, "bypassed") /\ UNCHANGED outcome
           \/ Goto(u, "done") /\ outcome' = [outcome EXCEPT ![u] = "unresolved"]
           \/ \E r : Leave(u, r)
    BY <1>2 DEF ResolveStep, ResolveAcquire, ResolveDiscard, ResolveBypass, ResolvePublish,
                ResolveDeliver,
                Verify, Proc
  <2>. QED
    BY <2>1, OthersStay
<1>3. ASSUME NEW s \in Session, SessionStep(s)
      PROVE  Stays(c) \/ Moves(c)
  <2>1. CASE Crash(s)
    BY <2>1 DEF Crash, Stays, Moves, TypeOK
  <2>2. CASE ~Crash(s)
    BY <1>3, <2>2 DEF SessionStep, Stop, StopMemory, Unsubscribe, BulkUnregister, ForgetOwned,
                      Start, Cancel, StopCancel, CancelAlone,
                      procVars, Stays
  <2>. QED
    BY <2>1, <2>2
<1>4. ASSUME NEW d \in Call, NEW s \in Session, NEW k \in Key, Listen(d, s, k)
      PROVE  Stays(c) \/ Moves(c)
  BY <1>4 DEF Listen, Goto, Stays, Moves, Early, TypeOK, Proc
<1>5. ASSUME NEW u \in Update, NEW s \in Session, NEW k \in Key, Resolve(u, s, k)
      PROVE  Stays(c)
  <2>1. /\ u \in Proc /\ u # c
        /\ \/ Goto(u, "lock") /\ UNCHANGED outcome
           \/ \E r : Goto(u, "done") /\ outcome' = [outcome EXCEPT ![u] = r]
    BY <1>5 DEF Resolve, Proc
  <2>. QED
    BY <2>1, OthersStay
<1>6. ASSUME \/ UNCHANGED vars
             \/ \E d \in Call : Timeout(d) \/ Abort(d)
             \/ \E m \in signals : ApplySignal(m) \/ LoseSignal(m)
             \/ \E m \in unsent : CancelPublish(m) \/ AbortCancel(m)
             \/ \E ch \in Chat : LockExpires(ch)
      PROVE  Stays(c)
  BY <1>6 DEF Timeout, Abort, GiveUp, ApplySignal, LoseSignal, LockExpires, CancelPublish,
              AbortCancel, vars, procVars,
              Stays
<1>7. ASSUME NEW d \in Call, GiveUpLate(d)
      PROVE  Stays(c) \/ Overridden(c)
  <2>1. PICK why \in {"timeout", "aborted"} :
          /\ outcome' = [outcome EXCEPT ![d] = why]
          /\ "late" \in Env /\ pc[d] = "wait" /\ fut[d] # Pending /\ pc' = pc
    BY <1>7 DEF GiveUpLate, procVars
  <2>2. why \in Overriding
    BY <2>1 DEF Overriding
  <2>3. CASE d = c
    BY <2>1, <2>2, <2>3 DEF Overridden, TypeOK
  <2>4. CASE d # c
    BY <2>1, <2>4 DEF Stays, TypeOK
  <2>. QED
    BY <2>3, <2>4
<1>8. ASSUME NEW p \in Proc, (p \in Call /\ AbortAnywhere(p)) \/ GiveUpLock(p)
      PROVE  Stays(c) \/ CutShort(c)
  <2>1. PICK e \in {"aborted_early", "lock_error"} :
          /\ Goto(p, "done") /\ outcome' = [outcome EXCEPT ![p] = e]
          /\ pc[p] \in Early \cup {"registered", "finally"}
          /\ e \in Overriding /\ Env \cap Cuts # {}
    BY <1>8 DEF AbortAnywhere, GiveUpLock, Early, Overriding, Cuts
  <2>2. CASE p = c
    BY <2>1, <2>2 DEF Goto, CutShort, TypeOK
  <2>3. CASE p # c
    BY <2>1, <2>3, OthersStay
  <2>. QED
    BY <2>2, <2>3
<1>. QED
  BY <1>1, <1>2, <1>3, <1>4, <1>5, <1>6, <1>7, <1>8 DEF Next, Proc

LEMMA CleanCallStep ==
  ASSUME TypeOK, LockedInside, CleansUp, [Next]_vars, NEW c \in Call
  PROVE  Stays(c) \/ Moves(c) \/ Overridden(c)
BY CallStep DEF CutShort, CleansUp

\* A future changes only while its call waits, and the call does not notice yet.
LEMMA FutureStep ==
  ASSUME TypeOK, CandidateFound, OutcomeIsLast, PendingWaits, [Next]_vars, NEW c \in Call,
         fut'[c] # fut[c]
  PROVE  fut[c] = Pending /\ Waits(c) /\ Stays(c)
<1>. c \in Proc /\ c \notin Update
  BY DEF Proc
<1>d. ASSUME NEW s \in Session, NEW k \in Key, DropLocal(s, k)
      PROVE  fut[c] = Pending /\ Waits(c)
  BY <1>d DEF DropLocal, PendingWaits
<1>1. ASSUME NEW d \in Call, ListenStep(d)
      PROVE  fut[c] = Pending /\ Waits(c) /\ Stays(c)
  <2>1. ListenReplace(d)
    BY <1>1 DEF ListenStep, ListenAcquire, ListenReject, ListenPublish, ListenOutOfSync,
                ListenRegister, ListenStore, DoneCallback, Wake, Finally, callVars
  <2>2. d \in Proc /\ pc[d] = "checked" /\ at[d] \in Session /\ key[d] \in Key
    BY <2>1, StartedType DEF ListenReplace, Proc
  <2>3. fut[c] = Pending /\ Waits(c)
    BY <2>1, <2>2, <1>d DEF ListenReplace, CancelKey
  <2>4. \/ Goto(d, "replaced") /\ UNCHANGED outcome
        \/ \E r : Leave(d, r)
    BY <2>1 DEF ListenReplace
  <2>5. d # c
    BY <2>2, <2>3 DEF Waits
  <2>. QED
    BY <2>2, <2>3, <2>4, <2>5, OthersStay
<1>2. ASSUME NEW u \in Update, ResolveStep(u)
      PROVE  fut[c] = Pending /\ Waits(c) /\ Stays(c)
  <2>1. ResolveDiscard(u) \/ ResolveBypass(u) \/ ResolveDeliver(u)
    BY <1>2 DEF ResolveStep, ResolveAcquire, ResolvePublish, callVars
  <2>2. u \in Proc /\ u # c /\ pc[u] = "verified" /\ at[u] \in Session /\ Slot(u) \in Key
        /\ cand[u] \in Call
    BY <2>1, StartedType
       DEF ResolveDiscard, ResolveBypass, ResolveDeliver, CandidateFound, Slot, Proc
  <2>3. fut[c] = Pending /\ Waits(c)
    <3>1. CASE ResolveDiscard(u) \/ ResolveBypass(u)
      <4>1. DropLocal(at[u], Slot(u))
        BY <3>1 DEF ResolveDiscard, ResolveBypass, CancelKey
      <4>. QED
        BY <4>1, <2>2, <1>d
    <3>2. CASE ResolveDeliver(u)
      <4>1. fut[cand[u]] = Pending /\ c = cand[u]
        BY <3>2 DEF ResolveDeliver, TypeOK
      <4>. QED
        BY <2>2, <4>1 DEF PendingWaits
    <3>. QED
      BY <2>1, <3>1, <3>2
  <2>4. \/ Goto(u, "verified") /\ UNCHANGED outcome
        \/ Goto(u, "bypassed") /\ UNCHANGED outcome
        \/ \E r : Leave(u, r)
    BY <2>1 DEF ResolveDiscard, ResolveBypass, ResolveDeliver, Verify
  <2>. QED
    BY <2>2, <2>3, <2>4, OthersStay
<1>3. ASSUME NEW s \in Session, SessionStep(s)
      PROVE  fut[c] = Pending /\ Waits(c) /\ Stays(c)
  <2>1. PICK k \in Key : Cancel(s, k) \/ StopCancel(s, k)
    BY <1>3 DEF SessionStep, Stop, StopMemory, Unsubscribe, BulkUnregister, ForgetOwned, Start,
                Crash, callVars
  <2>. QED
    BY <2>1, <1>d DEF Cancel, StopCancel, CancelAlone, CancelKey, procVars, Stays
<1>4. ASSUME NEW d \in Call, NEW why \in Failures, GiveUp(d, why)
      PROVE  fut[c] = Pending /\ Waits(c) /\ Stays(c)
  <2>1. d = c /\ pc[c] = "wait" /\ fut[c] = Pending
    BY <1>4 DEF GiveUp, TypeOK
  <2>2. outcome[c] = "none"
    BY <2>1 DEF OutcomeIsLast
  <2>. QED
    BY <1>4, <2>1, <2>2 DEF GiveUp, procVars, Waits, Stays
<1>5. ASSUME NEW m \in signals, ApplySignal(m)
      PROVE  fut[c] = Pending /\ Waits(c) /\ Stays(c)
  BY <1>5, <1>d DEF ApplySignal, TypeOK, Signal, procVars, Stays
<1>6. ~ \/ UNCHANGED vars
        \/ \E p \in Proc, s \in Session, k \in Key : Listen(p, s, k) \/ Resolve(p, s, k)
        \/ \E p \in Proc : GiveUpLate(p) \/ AbortAnywhere(p) \/ GiveUpLock(p)
        \/ \E m \in signals : LoseSignal(m)
        \/ \E m \in unsent : CancelPublish(m) \/ AbortCancel(m)
        \/ \E ch \in Chat : LockExpires(ch)
  BY DEF Listen, Resolve, GiveUpLate, AbortAnywhere, GiveUpLock, LoseSignal, LockExpires,
         CancelPublish, AbortCancel,
         vars, callVars
<1>. QED
  BY <1>1, <1>2, <1>3, <1>4, <1>5, <1>6 DEF Next, Timeout, Abort, Failures, Proc

LEMMA InDictWaits ==
  ASSUME TypeOK, CandidateFound, "expire" \notin Env => LockedInside, OutcomeIsLast,
         PendingWaits, [Next]_vars, NEW c \in Call, Waits(c), fut'[c] = Pending
  PROVE  Waits(c)'
<1>1. fut[c] = Pending
  BY FutureStep
<1>2. ~Finally(c) /\ pc[c] \in {"wait", "crashed", "done"}
  BY DEF Finally, Waits
<1>3. ~CutShort(c) /\ ~Overridden(c)
  BY <1>1, <1>2 DEF CutShort, Overridden, Early
<1>4. Stays(c) \/ Moves(c)
  BY <1>3, CallStep
<1>5. CASE Stays(c)
  BY <1>5 DEF Waits, Stays
<1>6. CASE Moves(c)
  <2>1. pc[c] # "done" /\ pc'[c] = "crashed" /\ outcome'[c] = outcome[c]
    BY <1>1, <1>2, <1>6 DEF Moves, Early
  <2>. QED
    BY <2>1 DEF Waits
<1>. QED
  BY <1>4, <1>5, <1>6

LEMMA PendingWaitsStep ==
  ASSUME TypeOK, CandidateFound, "expire" \notin Env => LockedInside, ReturnInv, [Next]_vars
  PROVE  PendingWaits'
<1>. USE DEF ReturnInv
<1>1. ASSUME NEW s \in Session, NEW k \in Key, NEW c, c = local'[s][k], c # None,
             fut'[c] = Pending
      PROVE  Waits(c)'
  <2>1. CASE c = local[s][k]
    <3>1. c \in Call
      BY <1>1, <2>1 DEF TypeOK
    <3>2. fut[c] = Pending
      BY <1>1, <3>1, FutureStep
    <3>3. Waits(c)
      BY <1>1, <2>1, <3>2 DEF PendingWaits, Listener
    <3>. QED
      BY <1>1, <3>1, <3>3, InDictWaits
  <2>2. ASSUME NEW d \in Call, ListenStore(d), c = d
        PROVE  Waits(c)'
    <3>1. d \in Proc /\ pc[d] = "registered" /\ fut[d] = Pending
      BY <2>2 DEF Proc, ListenStore, FutureOfPhase
    <3>2. outcome[d] = "none"
      BY <3>1 DEF OutcomeIsLast
    <3>3. CASE Holds(d)
      BY <2>2, <3>1, <3>2, <3>3 DEF ListenStore, Goto, Waits, TypeOK
    <3>4. CASE ~Holds(d)
      <4>1. "lock_error" \in Overriding
        BY <3>1, <3>4 DEF LockedInside, InCriticalSection, Overriding
      <4>2. Goto(d, "done") /\ outcome' = [outcome EXCEPT ![d] = "lock_error"]
        BY <2>2, <3>4 DEF ListenStore
      <4>3. pc'[d] = "done" /\ outcome'[d] = "lock_error"
        BY <3>1, <4>2 DEF Goto, TypeOK
      <4>. QED
        BY <2>2, <4>1, <4>3 DEF Waits
    <3>. QED
      BY <3>3, <3>4
  <2>. QED
    BY <1>1, <2>1, <2>2, LocalStep
<1>2. ASSUME NEW u \in Update, pc'[u] = "verified", fut'[cand'[u]] = Pending
      PROVE  Waits(cand[u])'
  <2>1. CASE pc[u] = "verified" /\ cand'[u] = cand[u]
    <3>1. PICK c \in Call : c = cand[u]
      BY <2>1 DEF CandidateFound
    <3>2. Waits(c)
      BY <1>2, <2>1, <3>1, FutureStep DEF PendingWaits
    <3>3. Waits(c)'
      BY <1>2, <2>1, <3>1, <3>2, InDictWaits
    <3>. QED
      BY <2>1, <3>1, <3>3 DEF Waits
  <2>2. CASE JustVerified(u)
    <3>1. PICK i : \E j \in DOMAIN SubKeys[key[u]] : FirstMatch(u, i, j) /\ Verify(u, j)
      BY <2>2 DEF JustVerified
    <3>2. PICK j \in DOMAIN SubKeys[key[u]] : FirstMatch(u, i, j) /\ Verify(u, j)
      BY <3>1
    <3>3. u \in Proc /\ at[u] \in Session /\ key[u] \in Key
      BY <1>2, VerifiedStep, StartedType DEF Proc
    <3>4. PICK k \in Key : k = SubKeys[key[u]][j]
      BY <3>3
    <3>5. PICK c \in Call : c = Listener(at[u], k)
      BY <3>2, <3>3, <3>4, SMTT(30) DEF FirstMatch, Listener, TypeOK
    <3>6. cand'[u] = c
      BY <3>2, <3>4, <3>5 DEF Verify, TypeOK
    <3>7. Waits(c)
      <4>1. fut[c] = Pending /\ c # None
        BY <1>2, <3>6, FutureStep DEF Proc
      <4>. QED
        BY <3>3, <3>5, <4>1 DEF PendingWaits
    <3>8. Waits(c)'
      BY <1>2, <3>6, <3>7, InDictWaits
    <3>. QED
      BY <3>6, <3>8 DEF Waits
  <2>. QED
    BY <1>2, <2>1, <2>2, VerifiedStep
<1>. QED
  BY <1>1, <1>2 DEF PendingWaits, Listener, Waits

LEMMA ReturnStep ==
  ASSUME TypeOK, CandidateFound, "expire" \notin Env => LockedInside, ReturnInv, [Next]_vars
  PROVE  ReturnInv'
<1>. USE DEF ReturnInv
<1>1. PendingWaits'
  BY PendingWaitsStep
<1>2. ASSUME NEW c \in Call
      PROVE  /\ outcome'[c] # "none" =>
                  pc'[c] = "done" \/ (fut'[c] # Pending /\ outcome'[c] \in Overriding)
             /\ pc'[c] \in Early \cup {"registered"} => fut'[c] = Pending
             /\ pc'[c] = "finally" => fut'[c] # Pending
             /\ pc'[c] = "done" /\ fut'[c] \in Update =>
                  outcome'[c] = fut'[c] \/ outcome'[c] \in Overriding
  <2>0. /\ outcome[c] # "none" =>
             pc[c] = "done" \/ (fut[c] # Pending /\ outcome[c] \in Overriding)
        /\ pc[c] \in Early \cup {"registered"} => fut[c] = Pending
        /\ pc[c] = "finally" => fut[c] # Pending
        /\ pc[c] = "done" /\ fut[c] \in Update =>
             outcome[c] = fut[c] \/ outcome[c] \in Overriding
        /\ Pending \notin Update /\ Overriding' = Overriding
    BY DEF OutcomeIsLast, FutureOfPhase, DeliveredIsReturned, Overriding
  <2>1. CASE fut'[c] # fut[c]
    <3>1. fut[c] = Pending /\ Waits(c) /\ Stays(c)
      BY <2>1, FutureStep
    <3>. QED
      BY <2>0, <2>1, <3>1 DEF Waits, Stays, Early
  <2>2. CASE fut'[c] = fut[c] /\ Stays(c)
    BY <2>0, <2>2 DEF Stays
  <2>3. CASE fut'[c] = fut[c] /\ Finally(c)
    <3>1. /\ pc[c] = "finally" /\ pc'[c] = "done"
          /\ outcome'[c] = IF outcome[c] = "none" THEN fut[c] ELSE outcome[c]
      BY <2>3 DEF Finally, Goto, TypeOK, Proc
    <3>. QED
      BY <2>0, <2>3, <3>1 DEF Early
  <2>4. CASE fut'[c] = fut[c] /\ Moves(c) /\ ~Finally(c)
    BY <2>0, <2>4 DEF Moves, Early
  <2>5. CASE fut'[c] = fut[c] /\ (CutShort(c) \/ Overridden(c))
    BY <2>0, <2>5 DEF CutShort, Overridden, Early
  <2>. QED
    BY <2>1, <2>2, <2>3, <2>4, <2>5, CallStep
<1>. QED
  BY <1>1, <1>2 DEF OutcomeIsLast, FutureOfPhase, DeliveredIsReturned

LEMMA InitReturn == Init => ReturnInv
BY InitTypeOK
   DEF Init, ReturnInv, OutcomeIsLast, FutureOfPhase, PendingWaits, DeliveredIsReturned,
       Listener, Proc

(***************************************************************************)
(* What a listener was given is what its listen() returns, for every number *)
(* of sessions, calls, keys and updates, with sessions that crash and stop, *)
(* tasks aborted at any await and locks lost or not had: unless it returns  *)
(* one of the errors Overriding names for what the environment may do.      *)
(***************************************************************************)
THEOREM Returned == Spec => []DeliveredIsReturned
<1>. DEFINE J == /\ TypeOK /\ CandidateFound /\ ReturnInv
                 /\ "expire" \notin Env => IInv
<1>1. ASSUME J, [Next]_vars
      PROVE  J'
  <2>1. "expire" \notin Env => LockedInside
    BY <1>1 DEF IInv, OwnershipInv
  <2>2. TypeOK' /\ CandidateFound'
    BY <1>1, NextTypeOK, CandidateFoundStep
  <2>3. "expire" \notin Env => IInv'
    BY <1>1, NextIInv
  <2>4. ReturnInv'
    BY <1>1, <2>1, ReturnStep
  <2>. QED
    BY <2>2, <2>3, <2>4
<1>2. Init => J
  BY InitIInv, InitReturn DEF IInv, OwnershipInv
<1>3. J => DeliveredIsReturned
  BY DEF ReturnInv
<1>. QED
  BY <1>1, <1>2, <1>3, PTL DEF Spec

(***************************************************************************)
(* Tokens.  A registration is made with a token nobody was given before,   *)
(* and changes in no other way than by being withdrawn.                    *)
(***************************************************************************)
TokensAreIssued ==
  /\ \A c \in Call : token[c] <= issued /\ (pc[c] \in Early => token[c] = 0)
  /\ \A k \in Key : registry[k] <= issued

\* The tokens are not started over while somebody may still hold one.
TokensAreFresh == Backend = "redis" \/ "stop" \notin Env

NewRegistration(c) ==
  /\ pc[c] \in Early /\ pc'[c] = "registered"
  /\ issued' = issued + 1
  /\ registry' = [registry EXCEPT ![key[c]] = issued']
  /\ token' = [token EXCEPT ![c] = issued']

LEMMA TokenStep ==
  ASSUME TypeOK, CandidateFound, StopIsAllowed, TokensAreFresh, [Next]_vars
  PROVE  \/ /\ UNCHANGED <<token, issued>>
            /\ \A k \in Key : registry'[k] \in {0, registry[k]}
         \/ \E c \in Call : NewRegistration(c)
<1>. DEFINE Kept == /\ UNCHANGED <<token, issued>>
                    /\ \A k \in Key : registry'[k] \in {0, registry[k]}
<1>k. ASSUME NEW s \in Session, NEW j \in Key, NEW by, CancelKey(s, j, by),
             UNCHANGED <<token, issued>>
      PROVE  Kept
  BY <1>k DEF CancelKey, CoordinatorCancel, TypeOK
<1>1. ASSUME NEW c \in Call, ListenStep(c)
      PROVE  Kept \/ NewRegistration(c)
  <2>. c \in Proc
    BY DEF Proc
  <2>1. CASE ListenReplace(c)
    <3>1. at[c] \in Session /\ key[c] \in Key
      BY <2>1, StartedType DEF ListenReplace
    <3>. QED
      BY <2>1, <3>1, <1>k DEF ListenReplace
  <2>2. CASE ListenRegister(c)
    <3>1. CASE Registered(key[c])
      BY <2>2, <3>1 DEF ListenRegister
    <3>2. CASE ~Registered(key[c])
      BY <2>2, <3>2 DEF ListenRegister, NewRegistration, Goto, Early, TypeOK
    <3>. QED
      BY <3>1, <3>2
  <2>3. CASE Finally(c)
    BY <2>3 DEF Finally, CoordinatorUnregister, callVars, TypeOK
  <2>. QED
    BY <1>1, <2>1, <2>2, <2>3
       DEF ListenStep, ListenAcquire, ListenReject, ListenPublish, ListenOutOfSync, ListenStore,
           DoneCallback, Wake, callVars, coordVars
<1>2. ASSUME NEW u \in Update, ResolveStep(u)
      PROVE  Kept
  <2>1. CASE ResolveBypass(u)
    <3>1. at[u] \in Session /\ Slot(u) \in Key
      BY <2>1, StartedType DEF ResolveBypass, CandidateFound, Slot, Proc
    <3>. QED
      BY <2>1, <3>1, <1>k DEF ResolveBypass
  <2>2. CASE ~ResolveBypass(u)
    BY <1>2, <2>2 DEF ResolveStep, ResolveAcquire, ResolveDiscard, ResolvePublish, ResolveDeliver,
                      callVars
  <2>. QED
    BY <2>1, <2>2
<1>3. ASSUME NEW s \in Session, SessionStep(s)
      PROVE  Kept
  <2>1. ~StopMemory(s)
    BY DEF StopMemory, ActiveCancelled, StopIsAllowed, TokensAreFresh
  <2>3. CASE BulkUnregister(s)
    BY <2>3 DEF BulkUnregister, callVars, TypeOK
  <2>2. CASE ~BulkUnregister(s)
    BY <1>3, <2>1, <2>2, <1>k DEF SessionStep, Stop, Unsubscribe, ForgetOwned, Start, Crash,
                                  Cancel,
                                  StopCancel, CancelAlone, coordVars, callVars
  <2>. QED
    BY <2>2, <2>3
<1>4. ASSUME \/ UNCHANGED vars
             \/ \E p \in Proc, s \in Session, k \in Key : Listen(p, s, k) \/ Resolve(p, s, k)
             \/ \E p \in Proc : \/ Timeout(p) \/ Abort(p) \/ GiveUpLate(p)
                                \/ AbortAnywhere(p) \/ GiveUpLock(p)
             \/ \E m \in signals : ApplySignal(m) \/ LoseSignal(m)
             \/ \E m \in unsent : CancelPublish(m) \/ AbortCancel(m)
             \/ \E ch \in Chat : LockExpires(ch)
      PROVE  Kept
  BY <1>4 DEF Listen, Resolve, Timeout, Abort, GiveUp, GiveUpLate, AbortAnywhere, GiveUpLock,
              ApplySignal, LoseSignal, LockExpires, CancelPublish, AbortCancel, vars, coordVars,
              callVars
<1>. QED
  BY <1>1, <1>2, <1>3, <1>4 DEF Next, Proc

NoLeakInv == TokensAreIssued /\ NoLeakedRegistration

LEMMA NoLeakStep ==
  ASSUME IInv, CleansUp, TokensAreFresh, NoLeakInv, [Next]_vars
  PROVE  NoLeakInv'
<1>. USE DEF IInv, OwnershipInv, NoLeakInv
<1>1. ASSUME UNCHANGED <<token, issued>>,
             \A k \in Key : registry'[k] \in {0, registry[k]}
      PROVE  NoLeakInv'
  <2>1. ASSUME NEW c \in Call
        PROVE  /\ token'[c] <= issued'
               /\ pc'[c] \in Early => token'[c] = 0
               /\ pc'[c] = "done" /\ token'[c] # 0 => registry'[key'[c]] # token'[c]
    <3>1. pc'[c] \in Early => pc[c] \in Early
      BY CleanCallStep, ZenonT(30) DEF Moves, Stays, Overridden, Finally, Goto, Early, TypeOK, Proc
    <3>2. ASSUME pc[c] = "done", token[c] # 0
          PROVE  registry'[key'[c]] # token[c]
      <4>1. key'[c] = key[c] /\ key[c] \in Key
        BY <3>2, StoredStays, StartedType DEF Stored, Proc
      <4>. QED
        BY <1>1, <3>2, <4>1 DEF NoLeakedRegistration
    <3>3. ASSUME Finally(c), token[c] # 0
          PROVE  registry'[key'[c]] # token[c]
      <4>1. key' = key /\ key[c] \in Key
        BY <3>3, StartedType DEF Finally, Proc
      <4>. QED
        BY <3>3, <4>1 DEF Finally, CoordinatorUnregister, TypeOK
    <3>4. pc'[c] = "done" => pc[c] \in Early \cup {"done"} \/ Finally(c)
      BY CleanCallStep DEF Moves, Stays, Overridden, Early
    <3>. QED
      BY <1>1, <3>1, <3>2, <3>3, <3>4 DEF TokensAreIssued
  <2>2. ASSUME NEW k \in Key
        PROVE  registry'[k] <= issued'
    <3>1. registry[k] \in Nat /\ issued \in Nat /\ registry[k] <= issued
      BY DEF TokensAreIssued, TypeOK
    <3>2. registry'[k] \in {0, registry[k]} /\ issued' = issued
      BY <1>1
    <3>. QED
      BY <3>1, <3>2
  <2>. QED
    BY <2>1, <2>2 DEF TokensAreIssued, NoLeakedRegistration
<1>2. ASSUME NEW d \in Call, NewRegistration(d)
      PROVE  NoLeakInv'
  <2>1. issued \in Nat /\ issued' = issued + 1
    BY <1>2 DEF NewRegistration, TypeOK
  <2>2. ASSUME NEW c \in Call
        PROVE  /\ token'[c] <= issued'
               /\ pc'[c] \in Early => token'[c] = 0
               /\ pc'[c] = "done" /\ token'[c] # 0 => registry'[key'[c]] # token'[c]
    <3>1. CASE c = d
      BY <1>2, <2>1, <3>1 DEF NewRegistration, Early, TypeOK
    <3>2. CASE c # d
      <4>1. token'[c] = token[c] /\ token[c] <= issued /\ token[c] \in Nat
        BY <1>2, <3>2 DEF NewRegistration, TokensAreIssued, TypeOK
      <4>2. pc'[c] \in Early => pc[c] \in Early
        BY CleanCallStep, ZenonT(30) DEF Moves, Stays, Overridden, Finally, Goto, Early, TypeOK,
                                         Proc
      <4>3. ASSUME pc'[c] = "done", token[c] # 0
            PROVE  registry'[key'[c]] # token[c]
        <5>1. pc[c] \in {"finally", "done"}
          BY <4>3, CleanCallStep DEF Moves, Stays, Overridden, Finally, TokensAreIssued
        <5>2. key'[c] = key[c] /\ key[c] \in Key
          BY <5>1, StoredStays, StartedType DEF Stored, Proc
        <5>3. PICK k \in Key : k = key[c]
          BY <5>2
        <5>4. registry'[k] \in {registry[k], issued'}
          BY <1>2 DEF NewRegistration, TypeOK
        <5>5. registry[k] # token[c]
          <6>1. CASE pc[c] = "done"
            BY <4>3, <5>3, <6>1 DEF NoLeakedRegistration
          <6>2. CASE pc[c] = "finally"
            <7>1. Finally(c)
              BY <4>3, <6>2, CleanCallStep DEF Moves, Stays, Overridden, Early
            <7>. QED
              BY <1>2, <2>1, <7>1 DEF Finally, NewRegistration
          <6>. QED
            BY <5>1, <6>1, <6>2
        <5>. QED
          BY <2>1, <4>1, <5>2, <5>3, <5>4, <5>5
      <4>. QED
        BY <2>1, <4>1, <4>2, <4>3 DEF TokensAreIssued
    <3>. QED
      BY <3>1, <3>2
  <2>3. ASSUME NEW k \in Key
        PROVE  registry'[k] <= issued'
    <3>1. registry[k] \in Nat /\ registry[k] <= issued
      BY DEF TokensAreIssued, TypeOK
    <3>2. registry'[k] \in {registry[k], issued'}
      BY <1>2 DEF NewRegistration, TypeOK
    <3>. QED
      BY <2>1, <3>1, <3>2
  <2>. QED
    BY <2>2, <2>3 DEF TokensAreIssued, NoLeakedRegistration
<1>. QED
  BY <1>1, <1>2, TokenStep

(***************************************************************************)
(* A listen() that has returned or raised left no registration behind: the  *)
(* key can be listened for again, in every session.                         *)
(***************************************************************************)
THEOREM NothingLeaks ==
  ASSUME CleansUp, TokensAreFresh
  PROVE  Spec => []NoLeakedRegistration
<1>1. IInv /\ NoLeakInv /\ [Next]_vars => (IInv /\ NoLeakInv)'
  BY NextIInv, NoLeakStep DEF CleansUp, Cuts
<1>2. Init => IInv /\ NoLeakInv
  <2>1. Init => TokensAreIssued
    BY DEF Init, TokensAreIssued, Early, Proc
  <2>2. Init => NoLeakedRegistration
    BY DEF Init, NoLeakedRegistration, Proc
  <2>. QED
    BY <2>1, <2>2, InitIInv DEF NoLeakInv
<1>3. NoLeakInv => NoLeakedRegistration
  BY DEF NoLeakInv
<1>. QED
  BY <1>1, <1>2, <1>3, PTL DEF Spec

-----------------------------------------------------------------------------
\* No token is greater than the number of those issued.
TokensBounded ==
  /\ \A c \in Call : token[c] <= issued
  /\ \A k \in Key : registry[k] <= issued

\* Who is about to be stored, or is in a dict, has a token.
HasToken ==
  /\ \A c \in Call : pc[c] = "registered" => token[c] # 0
  /\ \A s \in Session, k \in Key : Listener(s, k) # None => token[Listener(s, k)] # 0

\* A candidate that did not own its key does not own it later either.
CandidateStaysLost ==
  \A u \in Update : pc[u] = "verified" =>
    token[cand[u]] # 0 /\ (~saw[u] => registry[Slot(u)] # token[cand[u]])

\* A signal, published or not, is about a registration that is gone.
SignalsAreStale ==
  \A m \in signals \cup unsent :
    m.token # 0 /\ m.token <= issued /\ registry[m.key] # m.token

GenerationInv == TokensBounded /\ HasToken /\ CandidateStaysLost /\ SignalsAreStale

\* How a call gets past the lock, step by step.
Arrives(c) ==
  \/ pc'[c] = "checked" /\ ListenAcquire(c)
  \/ pc'[c] = "replaced" /\ ListenReplace(c)
  \/ pc'[c] = "registered" /\ NewRegistration(c) /\ ListenRegister(c)
  \/ pc'[c] = "wait" /\ ListenStore(c)
  \/ pc'[c] = "finally" /\ Wake(c)

LEMMA ArriveStep ==
  ASSUME TypeOK, [Next]_vars, NEW c \in Call,
         pc'[c] \in {"checked", "replaced", "registered", "wait", "finally"}
  PROVE  pc'[c] = pc[c] \/ Arrives(c)
<1>. c \in Proc /\ c \notin Update
  BY DEF Proc
<1>m. ASSUME NEW p \in Proc, NEW l, Goto(p, l),
             p # c \/ l \notin {"checked", "replaced", "registered", "wait", "finally"}
      PROVE  pc'[c] = pc[c]
  BY <1>m DEF Goto, TypeOK
<1>v. ASSUME NEW p \in Proc, NEW r, Leave(p, r)
      PROVE  pc'[c] = pc[c]
  BY <1>v, <1>m DEF Leave
<1>1. ASSUME NEW d \in Call, ListenStep(d)
      PROVE  pc'[c] = pc[c] \/ Arrives(c)
  <2>. d \in Proc
    BY DEF Proc
  <2>1. CASE ListenRegister(d)
    <3>1. CASE Registered(key[d])
      BY <2>1, <3>1, <1>v DEF ListenRegister
    <3>2. CASE ~Registered(key[d]) /\ d = c
      <4>1. NewRegistration(c)
        BY <2>1, <3>2 DEF ListenRegister, NewRegistration, Goto, Early, TypeOK
      <4>. QED
        BY <2>1, <3>2, <4>1 DEF Arrives, NewRegistration
    <3>3. CASE ~Registered(key[d]) /\ d # c
      BY <2>1, <3>3, <1>m DEF ListenRegister
    <3>. QED
      BY <3>1, <3>2, <3>3
  <2>2. CASE ListenReplace(d)
    <3>1. Goto(d, "replaced") \/ \E r : Leave(d, r)
      BY <2>2 DEF ListenReplace
    <3>2. CASE Goto(d, "replaced") /\ d = c
      BY <2>2, <3>2 DEF Arrives, Goto, TypeOK
    <3>. QED
      BY <3>1, <3>2, <1>m, <1>v
  <2>3. CASE ListenStore(d)
    <3>1. Goto(d, "wait") \/ Goto(d, "done")
      BY <2>3 DEF ListenStore
    <3>2. CASE Goto(d, "wait") /\ d = c
      BY <2>3, <3>2 DEF Arrives, Goto, TypeOK
    <3>. QED
      BY <3>1, <3>2, <1>m
  <2>4. CASE ListenReject(d) \/ ListenOutOfSync(d)
    BY <2>4, <1>v DEF ListenReject, ListenOutOfSync
  <2>5. CASE Finally(d)
    <3>1. Goto(d, "done")
      BY <2>5 DEF Finally
    <3>. QED
      BY <3>1, <1>m
  <2>6. CASE DoneCallback(d) \/ ListenPublish(d)
    BY <2>6 DEF DoneCallback, ListenPublish, procVars
  <2>7. CASE ListenAcquire(d) \/ Wake(d)
    <3>1. \/ ListenAcquire(d) /\ Goto(d, "checked")
          \/ Wake(d) /\ Goto(d, "finally")
      BY <2>7 DEF ListenAcquire, Wake
    <3>2. CASE d = c
      BY <3>1, <3>2 DEF Arrives, Goto, TypeOK
    <3>. QED
      BY <3>1, <3>2, <1>m
  <2>. QED
    BY <1>1, <2>1, <2>2, <2>3, <2>4, <2>5, <2>6, <2>7 DEF ListenStep
<1>2. ASSUME NEW u \in Update, ResolveStep(u)
      PROVE  pc'[c] = pc[c]
  <2>1. /\ u \in Proc
        /\ \/ Goto(u, "verified") \/ Goto(u, "bypassed") \/ Goto(u, "done")
           \/ \E r : Leave(u, r)
    BY <1>2 DEF ResolveStep, ResolveAcquire, ResolveDiscard, ResolveBypass, ResolvePublish,
                ResolveDeliver, Verify, Proc
  <2>. QED
    BY <2>1, <1>m, <1>v
<1>3. ASSUME NEW s \in Session, SessionStep(s)
      PROVE  pc'[c] = pc[c]
  <2>1. CASE Crash(s)
    BY <2>1 DEF Crash, TypeOK
  <2>2. CASE ~Crash(s)
    BY <1>3, <2>2 DEF SessionStep, Stop, StopMemory, Unsubscribe, BulkUnregister, ForgetOwned,
                      Start, Cancel, StopCancel, CancelAlone, procVars
  <2>. QED
    BY <2>1, <2>2
<1>4. ASSUME NEW p \in Proc, \/ \E s \in Session, k \in Key : Listen(p, s, k) \/ Resolve(p, s, k)
                             \/ GiveUpLock(p) \/ AbortAnywhere(p)
      PROVE  pc'[c] = pc[c]
  <2>1. Goto(p, "lock") \/ Goto(p, "done")
    BY <1>4 DEF Listen, Resolve, GiveUpLock, AbortAnywhere
  <2>. QED
    BY <2>1, <1>m
<1>5. ASSUME \/ UNCHANGED vars
             \/ \E d \in Call : Timeout(d) \/ Abort(d) \/ GiveUpLate(d)
             \/ \E m \in signals : ApplySignal(m) \/ LoseSignal(m)
             \/ \E m \in unsent : CancelPublish(m) \/ AbortCancel(m)
             \/ \E ch \in Chat : LockExpires(ch)
      PROVE  pc'[c] = pc[c]
  BY <1>5 DEF Timeout, Abort, GiveUp, GiveUpLate, ApplySignal, LoseSignal, LockExpires,
              CancelPublish, AbortCancel, vars,
              procVars
<1>. QED
  BY <1>1, <1>2, <1>3, <1>4, <1>5 DEF Next, Proc

\* The calls in a dict keep their tokens, and a new one there has one.
LEMMA HasTokenStep ==
  ASSUME IInv, TokensAreFresh, GenerationInv, [Next]_vars
  PROVE  HasToken'
<1>. USE DEF IInv, OwnershipInv, GenerationInv
<1>1. ASSUME NEW c \in Call, pc'[c] = "registered"
      PROVE  token'[c] # 0
  <2>1. CASE NewRegistration(c)
    BY <2>1 DEF NewRegistration, TypeOK
  <2>2. CASE pc[c] = "registered"
    <3>1. token[c] # 0 /\ token[c] \in Nat /\ issued \in Nat
      BY <2>2 DEF HasToken, TypeOK
    <3>2. ASSUME NEW d \in Call, NewRegistration(d)
          PROVE  token'[c] # 0
      BY <3>1, <3>2 DEF NewRegistration, TypeOK
    <3>. QED
      BY <3>1, <3>2, TokenStep
  <2>. QED
    BY <1>1, <2>1, <2>2, ArriveStep DEF Arrives
<1>2. ASSUME NEW s \in Session, NEW k \in Key, NEW c, c = local'[s][k], c # None
      PROVE  token'[c] # 0
  <2>1. CASE c = local[s][k]
    <3>1. c \in Call /\ Stored(c) /\ token[c] # 0
      BY <1>2, <2>1 DEF DictsHoldStored, HasToken, Listener, TypeOK
    <3>. QED
      BY <3>1, StoredStays
  <2>2. ASSUME NEW d \in Call, ListenStore(d), c = d
        PROVE  token'[c] # 0
    BY <2>2 DEF ListenStore, HasToken, callVars
  <2>. QED
    BY <1>2, <2>1, <2>2, LocalStep
<1>. QED
  BY <1>1, <1>2 DEF HasToken, Listener

\* What a registration may change to makes no older generation current again.
LEMMA NotAgain ==
  ASSUME IInv, TokensAreFresh, TokensBounded, [Next]_vars, NEW k \in Key, NEW t \in Nat,
         t # 0, t <= issued, registry[k] # t
  PROVE  registry'[k] # t /\ t <= issued'
<1>. USE DEF IInv, OwnershipInv
<1>1. registry[k] \in Nat /\ issued \in Nat
  BY DEF TypeOK
<1>2. ASSUME NEW d \in Call, NewRegistration(d)
      PROVE  registry'[k] \in {registry[k], issued + 1} /\ issued' = issued + 1
  BY <1>2 DEF NewRegistration, TypeOK
<1>. QED
  BY <1>1, <1>2, TokenStep

LEMMA CandidateStaysLostStep ==
  ASSUME IInv, TokensAreFresh, GenerationInv, [Next]_vars
  PROVE  CandidateStaysLost'
<1>. USE DEF IInv, OwnershipInv, GenerationInv
<1>. SUFFICES ASSUME NEW u \in Update, pc'[u] = "verified"
              PROVE  (token[cand[u]] # 0 /\ (~saw[u] => registry[Slot(u)] # token[cand[u]]))'
  BY DEF CandidateStaysLost
<1>1. /\ u \in Proc /\ pc[u] # "idle" /\ key'[u] = key[u]
      /\ key[u] \in Key /\ at[u] \in Session
  BY VerifiedStep, StartedType DEF Proc
<1>2. ASSUME pc[u] = "verified", rung'[u] = rung[u], cand'[u] = cand[u], saw'[u] = saw[u]
      PROVE  (token[cand[u]] # 0 /\ (~saw[u] => registry[Slot(u)] # token[cand[u]]))'
  <2>1. cand[u] \in Call /\ Slot(u) \in Key /\ Slot(u)' = Slot(u)
    BY <1>1, <1>2 DEF CandidateFound, Slot
  <2>2. PICK c \in Call : c = cand[u]
    BY <2>1
  <2>3. PICK k \in Key : k = Slot(u)
    BY <2>1
  <2>4. Stored(c) /\ token[c] # 0 /\ (~saw[u] => registry[k] # token[c])
    BY <1>2, <2>2, <2>3 DEF CandidateStillOwns, CandidateStaysLost
  <2>5. token'[c] = token[c]
    BY <2>4, StoredStays
  <2>6. ~saw[u] => registry'[k] # token[c]
    BY <2>4, NotAgain DEF TokensBounded, TypeOK
  <2>. QED
    BY <1>2, <2>1, <2>2, <2>3, <2>4, <2>5, <2>6
<1>3. ASSUME NEW i, NEW j \in DOMAIN SubKeys[key[u]], FirstMatch(u, i, j), Verify(u, j),
             UNCHANGED <<registry, token, at, key>>
      PROVE  (token[cand[u]] # 0 /\ (~saw[u] => registry[Slot(u)] # token[cand[u]]))'
  <2>1. PICK slot \in Key : slot = SubKeys[key[u]][j]
    BY <1>1
  <2>2. PICK l \in Call : l = Listener(at[u], slot)
    BY <1>1, <1>3, <2>1, SMTT(30) DEF FirstMatch, Listener, TypeOK
  <2>3. Slot(u)' = slot /\ cand'[u] = l /\ saw'[u] = RegisteredAs(slot, token[l])
    BY <1>1, <1>3, <2>1, <2>2 DEF Verify, Slot, TypeOK
  <2>4. token[l] # 0
    <3>1. l # None
      BY DEF Proc
    <3>. QED
      BY <1>1, <2>2, <3>1 DEF HasToken
  <2>. QED
    BY <1>3, <2>3, <2>4 DEF RegisteredAs
<1>. QED
  BY <1>2, <1>3, VerifiedStep DEF JustVerified

\* A signal, published or not, is of the cancellation that withdraws its
\* registration.
Known(k, t) == \E n \in signals \cup unsent : n.key = k /\ n.token = t

Withdrawn(k, t) ==
  k \in Key /\ registry[k] = t /\ t # 0 /\ registry'[k] = 0 /\ issued' = issued

LEMMA SignalStep ==
  ASSUME TypeOK, CandidateFound, [Next]_vars, NEW m, m \in signals' \cup unsent'
  PROVE  Known(m.key, m.token) \/ Withdrawn(m.key, m.token)
<1>. DEFINE Goal == Known(m.key, m.token) \/ Withdrawn(m.key, m.token)
<1>0. m \in signals \cup unsent => Goal
  BY DEF Known
<1>k. ASSUME NEW s \in Session, NEW j \in Key, NEW by, CancelKey(s, j, by),
             UNCHANGED issued, signals' \subseteq signals
      PROVE  Goal
  <2>1. SUFFICES ASSUME m \notin signals \cup unsent
                 PROVE  Goal
    BY <1>0
  <2>2. CoordinatorCancel(s, j, by)
    BY <1>k, <2>1 DEF CancelKey
  <2>3. m = CancellationOf(j, by) /\ registry[j] # 0 /\ registry'[j] = 0
    BY <1>k, <2>1, <2>2 DEF CoordinatorCancel, Announced, Registered, TypeOK
  <2>4. m.key = j /\ m.token = registry[j]
    BY <2>3 DEF CancellationOf
  <2>. QED
    BY <1>k, <2>3, <2>4 DEF Withdrawn
<1>p. ASSUME NEW n \in unsent, Publish(n)
      PROVE  Goal
  <2>1. CASE m \in signals \cup unsent
    BY <2>1, <1>0
  <2>2. CASE m \in [to : Subscribers, key : {n.key}, token : {n.token}]
    BY <2>2 DEF Known
  <2>. QED
    BY <1>p, <2>1, <2>2 DEF Publish
<1>1. ASSUME NEW c \in Call, ListenReplace(c)
      PROVE  Goal
  <2>1. /\ CancelKey(at[c], key[c], c) /\ at[c] \in Session /\ key[c] \in Key
        /\ UNCHANGED <<signals, issued>>
    BY <1>1, StartedType DEF ListenReplace, Proc
  <2>. QED
    BY <2>1, <1>k
<1>2. ASSUME NEW u \in Update, ResolveBypass(u)
      PROVE  Goal
  <2>1. /\ CancelKey(at[u], Slot(u), u) \/ UNCHANGED unsent
        /\ at[u] \in Session /\ Slot(u) \in Key /\ UNCHANGED <<signals, issued>>
    BY <1>2, StartedType DEF ResolveBypass, CandidateFound, Slot, Proc
  <2>. QED
    BY <2>1, <1>0, <1>k
<1>4. ASSUME NEW s \in Session, SessionStep(s)
      PROVE  Goal
  <2>1. \/ signals' \subseteq signals /\ UNCHANGED unsent
        \/ \E j \in Key, by \in Canceller :
             CancelKey(s, j, by) /\ UNCHANGED <<signals, issued>>
    BY <1>4 DEF SessionStep, Stop, StopMemory, Unsubscribe, BulkUnregister, ForgetOwned, Start,
                Crash, Cancel, StopCancel, CancelAlone, Canceller, coordVars
  <2>. QED
    BY <2>1, <1>0, <1>k
<1>5. ASSUME \/ \E c \in Call : ListenPublish(c)
             \/ \E u \in Update : ResolvePublish(u)
             \/ \E n \in unsent : CancelPublish(n)
      PROVE  Goal
  BY <1>5, <1>p DEF ListenPublish, ResolvePublish, CancelPublish
<1>6. ASSUME NEW n \in unsent, AbortCancel(n)
      PROVE  Goal
  <2>1. CASE m \in signals \cup unsent
    BY <2>1, <1>0
  <2>2. CASE m = [n EXCEPT !.by = None]
    <3>1. n.key = m.key /\ n.token = m.token
      BY <2>2 DEF TypeOK, Cancellation
    <3>. QED
      BY <3>1 DEF Known
  <2>. QED
    BY <1>6, <2>1, <2>2 DEF AbortCancel
<1>7. ASSUME \/ UNCHANGED vars
             \/ \E p \in Proc, s \in Session, k \in Key : Listen(p, s, k) \/ Resolve(p, s, k)
             \/ \E c \in Call : ListenStep(c) /\ ~ListenReplace(c) /\ ~ListenPublish(c)
             \/ \E u \in Update : ResolveStep(u) /\ ~ResolveBypass(u) /\ ~ResolvePublish(u)
             \/ \E p \in Proc : \/ Timeout(p) \/ Abort(p) \/ GiveUpLate(p)
                                \/ AbortAnywhere(p) \/ GiveUpLock(p)
             \/ \E n \in signals : ApplySignal(n) \/ LoseSignal(n)
             \/ \E ch \in Chat : LockExpires(ch)
      PROVE  Goal
  <2>1. signals' \subseteq signals /\ UNCHANGED unsent
    BY <1>7 DEF Listen, Resolve, Timeout, Abort, GiveUp, GiveUpLate, AbortAnywhere, GiveUpLock,
                ApplySignal, LoseSignal, LockExpires, vars, coordVars, ListenStep, ListenAcquire,
                ListenReject, ListenOutOfSync, ListenRegister, ListenStore, DoneCallback, Wake,
                Finally, ResolveStep, ResolveAcquire, ResolveDiscard, ResolveDeliver
  <2>. QED
    BY <2>1, <1>0
<1>. QED
  BY <1>1, <1>2, <1>4, <1>5, <1>6, <1>7 DEF Next, Proc, ListenStep, ResolveStep

LEMMA GenerationStep ==
  ASSUME IInv, TokensAreFresh, GenerationInv, [Next]_vars
  PROVE  GenerationInv'
<1>. USE DEF IInv, OwnershipInv, GenerationInv
<1>1. TokensBounded'
  <2>1. ASSUME NEW c \in Call
        PROVE  token'[c] <= issued'
    <3>1. issued \in Nat /\ token[c] \in Nat /\ token[c] <= issued
      BY DEF TokensBounded, TypeOK
    <3>2. ASSUME NEW d \in Call, NewRegistration(d)
          PROVE  issued' = issued + 1 /\ token'[c] \in {token[c], issued + 1}
      BY <3>2 DEF NewRegistration, TypeOK
    <3>. QED
      BY <3>1, <3>2, TokenStep
  <2>2. ASSUME NEW k \in Key
        PROVE  registry'[k] <= issued'
    <3>1. issued \in Nat /\ registry[k] \in Nat /\ registry[k] <= issued
      BY DEF TokensBounded, TypeOK
    <3>2. ASSUME NEW d \in Call, NewRegistration(d)
          PROVE  issued' = issued + 1 /\ registry'[k] \in {registry[k], issued + 1}
      BY <3>2 DEF NewRegistration, TypeOK
    <3>3. \/ issued' = issued /\ registry'[k] \in {0, registry[k]}
          \/ issued' = issued + 1 /\ registry'[k] \in {registry[k], issued + 1}
      BY <3>2, TokenStep
    <3>. QED
      BY <3>1, <3>3
  <2>. QED
    BY <2>1, <2>2 DEF TokensBounded
<1>2. ASSUME NEW m, m \in signals' \cup unsent'
      PROVE  m.token # 0 /\ m.token <= issued' /\ registry'[m.key] # m.token
  <2>1. ASSUME NEW n, n \in signals \cup unsent, n.key = m.key, n.token = m.token
        PROVE  m.token # 0 /\ m.token <= issued' /\ registry'[m.key] # m.token
    <3>1. n.key \in Key /\ n.token \in Nat
      BY <2>1 DEF TypeOK, Signal, Cancellation
    <3>2. n.token # 0 /\ n.token <= issued /\ registry[n.key] # n.token
      BY <2>1 DEF SignalsAreStale
    <3>3. registry'[n.key] # n.token /\ n.token <= issued'
      BY <3>1, <3>2, NotAgain
    <3>. QED
      BY <2>1, <3>2, <3>3
  <2>2. CASE Withdrawn(m.key, m.token)
    BY <2>2 DEF Withdrawn, TokensBounded
  <2>. QED
    BY <1>2, <2>1, <2>2, SignalStep DEF Known
<1>. QED
  BY <1>1, <1>2, HasTokenStep, CandidateStaysLostStep DEF SignalsAreStale

LEMMA InitGeneration == Init => GenerationInv
BY InitTypeOK
   DEF Init, GenerationInv, TokensBounded, HasToken, CandidateStaysLost, SignalsAreStale,
       Listener, Proc

\* Who fails a listener: a cancellation that withdraws the registration of its
\* key, a search that found its token gone, or a signal with its token.
LEMMA FailStep ==
  ASSUME TypeOK, OwnershipInv, [Next]_vars, NEW c \in Call,
         fut[c] = Pending, fut'[c] = "cancelled"
  PROVE  /\ key[c] \in Key /\ \E s \in Session : Listener(s, key[c]) = c
         /\ \/ registry'[key[c]] = 0
            \/ \E u \in Update : /\ pc[u] = "verified" /\ ~saw[u] /\ UNCHANGED registry
                                 /\ key[c] = Slot(u) /\ token[c] = token[cand[u]]
            \/ \E m \in signals : /\ key[c] = m.key /\ token[c] = m.token
                                  /\ UNCHANGED registry
<1>. DEFINE InDict == key[c] \in Key /\ \E s \in Session : Listener(s, key[c]) = c
<1>. c \in Proc /\ c # None /\ "cancelled" \notin Update /\ "cancelled" # Pending
  BY DEF Proc, Pending, Failures
<1>d. ASSUME NEW s \in Session, NEW k \in Key, DropLocal(s, k)
      PROVE  InDict /\ Listener(s, k) = c /\ key[c] = k
  <2>1. Listener(s, k) = c
    BY <1>d DEF DropLocal
  <2>2. c # None
    BY DEF Proc
  <2>. QED
    BY <2>1, <2>2 DEF OwnershipInv, DictsHoldStored
<1>k. ASSUME NEW s \in Session, NEW k \in Key, NEW by, CancelKey(s, k, by)
      PROVE  InDict /\ registry'[key[c]] = 0
  <2>1. InDict /\ Listener(s, k) = c /\ key[c] = k
    BY <1>k, <1>d DEF CancelKey
  <2>2. CoordinatorCancel(s, k, by)
    BY <1>k, <2>1 DEF CancelKey, CanFail
  <2>. QED
    BY <2>1, <2>2 DEF CoordinatorCancel, TypeOK
<1>1. ASSUME NEW d \in Call, ListenStep(d)
      PROVE  InDict /\ registry'[key[c]] = 0
  <2>1. ListenReplace(d)
    BY <1>1 DEF ListenStep, ListenAcquire, ListenReject, ListenPublish, ListenOutOfSync,
                ListenRegister, ListenStore, DoneCallback, Wake, Finally, callVars
  <2>2. at[d] \in Session /\ key[d] \in Key
    BY <2>1, StartedType DEF ListenReplace, Proc
  <2>. QED
    BY <2>1, <2>2, <1>k DEF ListenReplace
<1>2. ASSUME NEW u \in Update, ResolveStep(u)
      PROVE  /\ InDict
             /\ \/ registry'[key[c]] = 0
                \/ /\ pc[u] = "verified" /\ ~saw[u] /\ UNCHANGED registry
                   /\ key[c] = Slot(u) /\ token[c] = token[cand[u]]
  <2>1. ResolveDiscard(u) \/ ResolveBypass(u)
    <3>1. ~ResolveDeliver(u)
      BY DEF ResolveDeliver, TypeOK
    <3>. QED
      BY <1>2, <3>1 DEF ResolveStep, ResolveAcquire, ResolvePublish, callVars
  <2>2. pc[u] = "verified" /\ at[u] \in Session /\ Slot(u) \in Key
    BY <2>1, StartedType DEF ResolveDiscard, ResolveBypass, OwnershipInv, CandidateFound, Slot,
                             Proc
  <2>3. CASE ResolveDiscard(u)
    <3>1. /\ DropLocal(at[u], Slot(u)) /\ ~saw[u] /\ UNCHANGED registry
          /\ token[Listener(at[u], Slot(u))] = token[cand[u]]
      BY <2>3 DEF ResolveDiscard
    <3>. QED
      BY <2>2, <3>1, <1>d
  <2>4. CASE ResolveBypass(u)
    <3>1. CancelKey(at[u], Slot(u), u)
      BY <2>4 DEF ResolveBypass
    <3>. QED
      BY <2>2, <3>1, <1>k
  <2>. QED
    BY <2>1, <2>3, <2>4
<1>3. ASSUME NEW s \in Session, SessionStep(s)
      PROVE  InDict /\ registry'[key[c]] = 0
  <2>1. PICK k \in Key, by \in Canceller : CancelKey(s, k, by)
    BY <1>3 DEF SessionStep, Stop, StopMemory, Unsubscribe, BulkUnregister, ForgetOwned, Start,
                Crash, Cancel, StopCancel, CancelAlone, Canceller, callVars
  <2>. QED
    BY <2>1, <1>k
<1>4. ASSUME NEW m \in signals, ApplySignal(m)
      PROVE  InDict /\ key[c] = m.key /\ token[c] = m.token /\ UNCHANGED registry
  <2>1. /\ DropLocal(m.to, m.key) /\ m.to \in Session /\ m.key \in Key /\ UNCHANGED registry
        /\ token[Listener(m.to, m.key)] = m.token
    BY <1>4 DEF ApplySignal, TypeOK, Signal
  <2>. QED
    BY <2>1, <1>d
<1>5. ~ \/ UNCHANGED vars
        \/ \E p \in Proc, s \in Session, k \in Key : Listen(p, s, k) \/ Resolve(p, s, k)
        \/ \E p \in Proc : GiveUpLate(p) \/ AbortAnywhere(p) \/ GiveUpLock(p)
        \/ \E d \in Call : GiveUp(d, "timeout") \/ GiveUp(d, "aborted")
        \/ \E m \in signals : LoseSignal(m)
        \/ \E m \in unsent : CancelPublish(m) \/ AbortCancel(m)
        \/ \E ch \in Chat : LockExpires(ch)
  BY DEF Listen, Resolve, GiveUpLate, AbortAnywhere, GiveUpLock, GiveUp, LoseSignal, LockExpires,
         CancelPublish, AbortCancel,
         vars, callVars, TypeOK
<1>. QED
  BY <1>1, <1>2, <1>3, <1>4, <1>5 DEF Next, Timeout, Abort, Proc

\* Each of the three leaves the registration of the listener gone.
LEMMA CancelledStep ==
  ASSUME IInv, GenerationInv, [Next]_vars, NEW c \in Call,
         fut[c] = Pending, fut'[c] = "cancelled"
  PROVE  key[c] \in Key /\ token[c] # 0 /\ registry'[key[c]] # token[c]
<1>. USE DEF IInv, GenerationInv
<1>1. key[c] \in Key /\ token[c] # 0
  <2>1. PICK s \in Session : key[c] \in Key /\ Listener(s, key[c]) = c
    BY FailStep
  <2>2. c # None
    BY DEF Proc
  <2>. QED
    BY <2>1, <2>2 DEF HasToken
<1>2. ASSUME NEW u \in Update, pc[u] = "verified", ~saw[u], UNCHANGED registry,
             key[c] = Slot(u), token[c] = token[cand[u]]
      PROVE  registry'[key[c]] # token[c]
  BY <1>2 DEF CandidateStaysLost
<1>3. ASSUME NEW m \in signals, key[c] = m.key, token[c] = m.token, UNCHANGED registry
      PROVE  registry'[key[c]] # token[c]
  BY <1>3 DEF SignalsAreStale
<1>. QED
  BY <1>1, <1>2, <1>3, FailStep

(***************************************************************************)
(* A listener is cancelled only if its registration is gone: a late signal *)
(* or a discarded candidate never fails the listener that owns the key now.*)
(***************************************************************************)
THEOREM CancelledByRight ==
  ASSUME "expire" \notin Env, TokensAreFresh
  PROVE  Spec => CancelledOnlyIfInvalidated
<1>1. IInv /\ GenerationInv /\ [Next]_vars => (IInv /\ GenerationInv)'
  BY NextIInv, GenerationStep
<1>2. ASSUME IInv, GenerationInv, [Next]_vars
      PROVE  [\A c \in Call : fut[c] = Pending /\ fut'[c] = "cancelled" =>
                registry'[key[c]] # token[c]]_vars
  BY <1>2, CancelledStep
<1>3. Init => IInv /\ GenerationInv
  BY InitIInv, InitGeneration
<1>. QED
  BY <1>1, <1>2, <1>3, PTL DEF Spec, CancelledOnlyIfInvalidated

(***************************************************************************)
(* The slots.  As long as no session stops, a listener that waits is in    *)
(* the dict of its session, and only a newer registration, a cancellation  *)
(* or its own cleanup takes its registration away.                         *)
(***************************************************************************)
Undisturbed == {"expire", "stop"} \cap Env = {}

\* What a step does to the place of a call: nothing, or it begins, or it moves on.
Begins(c) == \E s \in Session, k \in Key : Listen(c, s, k)

MovesOn(c) ==
  pc[c] \notin {"idle", "done", "crashed"} /\ pc'[c] \notin {"idle", "lock"}

PlaceStep(c) ==
  \/ Begins(c)
  \/ key'[c] = key[c] /\ at'[c] = at[c] /\ (pc'[c] = pc[c] \/ MovesOn(c))

LEMMA PlaceSteps ==
  ASSUME TypeOK, [Next]_vars, NEW c \in Call
  PROVE  PlaceStep(c)
<1>. c \in Proc /\ c \notin Update
  BY DEF Proc
<1>m. ASSUME NEW p \in Proc, NEW l, Goto(p, l), l \notin {"idle", "lock"},
             pc[p] \notin {"idle", "done", "crashed"}, key' = key, at' = at
      PROVE  PlaceStep(c)
  BY <1>m DEF Goto, TypeOK, PlaceStep, MovesOn
<1>v. ASSUME NEW p \in Proc, NEW r, Leave(p, r), pc[p] \notin {"idle", "done", "crashed"},
             key' = key, at' = at
      PROVE  PlaceStep(c)
  BY <1>v, <1>m DEF Leave
<1>u. ASSUME pc' = pc, key' = key, at' = at
      PROVE  PlaceStep(c)
  BY <1>u DEF PlaceStep
<1>1. ASSUME NEW d \in Call, ListenStep(d)
      PROVE  PlaceStep(c)
  <2>1. CASE DoneCallback(d) \/ ListenPublish(d)
    BY <2>1, <1>u DEF DoneCallback, ListenPublish, procVars
  <2>2. CASE ~(DoneCallback(d) \/ ListenPublish(d))
    <3>1. /\ d \in Proc /\ key' = key /\ at' = at /\ pc[d] \notin {"idle", "done", "crashed"}
          /\ \/ \E r : Leave(d, r)
             \/ \E l \in {"checked", "replaced", "registered", "wait", "finally", "done"} :
                  Goto(d, l)
      BY <1>1, <2>2 DEF ListenStep, ListenAcquire, ListenReject, ListenReplace, ListenPublish,
                        ListenOutOfSync,
                        ListenRegister, ListenStore, Wake, Finally, Proc
    <3>. QED
      BY <3>1, <1>m, <1>v
  <2>. QED
    BY <2>1, <2>2
<1>2. ASSUME NEW u \in Update, ResolveStep(u)
      PROVE  PlaceStep(c)
  <2>1. /\ u \in Proc /\ key' = key /\ at' = at /\ pc[u] \notin {"idle", "done", "crashed"}
        /\ \/ Goto(u, "verified") \/ Goto(u, "bypassed") \/ Goto(u, "done")
           \/ \E r : Leave(u, r)
    BY <1>2 DEF ResolveStep, ResolveAcquire, ResolveDiscard, ResolveBypass, ResolvePublish,
                ResolveDeliver, Verify, Proc
  <2>. QED
    BY <2>1, <1>m, <1>v
<1>3. ASSUME NEW s \in Session, SessionStep(s)
      PROVE  PlaceStep(c)
  <2>1. CASE Crash(s)
    BY <2>1 DEF Crash, TypeOK, PlaceStep, MovesOn
  <2>2. CASE ~Crash(s)
    BY <1>3, <2>2, <1>u
       DEF SessionStep, Stop, StopMemory, Unsubscribe, BulkUnregister, ForgetOwned, Start,
           Cancel, StopCancel, CancelAlone, procVars
  <2>. QED
    BY <2>1, <2>2
<1>4. ASSUME NEW p \in Proc, p # c, NEW s \in Session, NEW k \in Key,
             Listen(p, s, k) \/ Resolve(p, s, k)
      PROVE  PlaceStep(c)
  <2>1. /\ key' = [key EXCEPT ![p] = k] /\ at' = [at EXCEPT ![p] = s]
        /\ Goto(p, "lock") \/ Goto(p, "done")
    BY <1>4 DEF Listen, Resolve
  <2>. QED
    BY <1>4, <2>1 DEF TypeOK, Goto, PlaceStep
<1>5. ASSUME NEW p \in Proc, GiveUpLock(p) \/ AbortAnywhere(p)
      PROVE  PlaceStep(c)
  BY <1>5, <1>m DEF GiveUpLock, AbortAnywhere
<1>6. ASSUME \/ UNCHANGED vars
             \/ \E d \in Call : Timeout(d) \/ Abort(d) \/ GiveUpLate(d)
             \/ \E m \in signals : ApplySignal(m) \/ LoseSignal(m)
             \/ \E m \in unsent : CancelPublish(m) \/ AbortCancel(m)
             \/ \E ch \in Chat : LockExpires(ch)
      PROVE  PlaceStep(c)
  BY <1>6, <1>u DEF Timeout, Abort, GiveUp, GiveUpLate, ApplySignal, LoseSignal, LockExpires,
                    CancelPublish, AbortCancel, vars,
                    procVars
<1>7. ASSUME NEW s \in Session, NEW k \in Key, Listen(c, s, k)
      PROVE  PlaceStep(c)
  BY <1>7 DEF PlaceStep, Begins
<1>8. ASSUME NEW p \in Proc, NEW s \in Session, NEW k \in Key,
             \/ p \in Call /\ Listen(p, s, k)
             \/ p \in Update /\ Resolve(p, s, k)
      PROVE  PlaceStep(c)
  BY <1>4, <1>7, <1>8
<1>. QED
  BY <1>1, <1>2, <1>3, <1>5, <1>6, <1>8 DEF Next, Proc

\* A call that has begun keeps its session and key, and its place past the lock.
LEMMA StartedStays ==
  ASSUME TypeOK, [Next]_vars, NEW c \in Call, pc[c] # "idle"
  PROVE  /\ key'[c] = key[c] /\ at'[c] = at[c] /\ pc'[c] # "idle"
         /\ pc[c] # "lock" => pc'[c] # "lock"
BY PlaceSteps DEF PlaceStep, Begins, MovesOn, Listen

\* A future changes once, from pending.
LEMMA FutureIsSetOnce ==
  ASSUME TypeOK, [Next]_vars, NEW c \in Call, fut'[c] # fut[c]
  PROVE  /\ fut[c] = Pending
         /\ \/ fut'[c] = "cancelled"
            \/ \E u \in Update : ResolveDeliver(u) /\ cand[u] = c /\ fut'[c] = u
            \/ \E why \in {"timeout", "aborted"} : GiveUp(c, why) /\ fut'[c] = why
<1>. DEFINE Fails == fut[c] = Pending /\ fut'[c] = "cancelled"
<1>d. ASSUME NEW s, NEW k, DropLocal(s, k)
      PROVE  Fails
  BY <1>d DEF DropLocal
<1>1. ASSUME NEW d \in Call, ListenStep(d)
      PROVE  Fails
  BY <1>1, <1>d DEF ListenStep, ListenAcquire, ListenReject, ListenReplace, ListenPublish,
                    ListenOutOfSync,
         ListenRegister, ListenStore, DoneCallback, Wake, Finally, CancelKey, callVars
<1>2. ASSUME NEW u \in Update, ResolveStep(u)
      PROVE  Fails \/ (fut[c] = Pending /\ ResolveDeliver(u) /\ cand[u] = c /\ fut'[c] = u)
  <2>1. CASE ResolveDeliver(u)
    BY <2>1 DEF ResolveDeliver, TypeOK
  <2>2. CASE ~ResolveDeliver(u)
    BY <1>2, <2>2, <1>d DEF ResolveStep, ResolveAcquire, ResolveDiscard, ResolveBypass,
                            ResolvePublish, CancelKey, callVars
  <2>. QED
    BY <2>1, <2>2
<1>3. ASSUME NEW s \in Session, SessionStep(s)
      PROVE  Fails
  BY <1>3, <1>d DEF SessionStep, Stop, StopMemory, Unsubscribe, BulkUnregister, ForgetOwned,
                    Start, Crash, Cancel, StopCancel, CancelAlone,
                    CancelKey, callVars
<1>4. ASSUME NEW d \in Call, NEW why \in {"timeout", "aborted"}, GiveUp(d, why)
      PROVE  fut[c] = Pending /\ GiveUp(c, why) /\ fut'[c] = why
  <2>1. d = c
    BY <1>4 DEF GiveUp, TypeOK
  <2>. QED
    BY <1>4, <2>1 DEF GiveUp, TypeOK
<1>5. ASSUME NEW m \in signals, ApplySignal(m)
      PROVE  Fails
  BY <1>5, <1>d DEF ApplySignal
<1>6. ~ \/ UNCHANGED vars
        \/ \E p \in Proc, s \in Session, k \in Key : Listen(p, s, k) \/ Resolve(p, s, k)
        \/ \E p \in Proc : GiveUpLate(p) \/ AbortAnywhere(p) \/ GiveUpLock(p)
        \/ \E m \in signals : LoseSignal(m)
        \/ \E m \in unsent : CancelPublish(m) \/ AbortCancel(m)
        \/ \E ch \in Chat : LockExpires(ch)
  BY DEF Listen, Resolve, GiveUpLate, AbortAnywhere, GiveUpLock, LoseSignal, LockExpires,
         CancelPublish, AbortCancel,
         vars, callVars
<1>. QED
  BY <1>1, <1>2, <1>3, <1>4, <1>5, <1>6 DEF Next, Timeout, Abort, Proc

\* Who takes the registration of a key away or makes a new one.
LEMMA WithdrawStep ==
  ASSUME TypeOK, OwnershipInv, StopIsAllowed, Undisturbed, [Next]_vars, NEW k \in Key,
         registry'[k] # registry[k]
  PROVE  \/ \E d \in Call : /\ NewRegistration(d) /\ k = key[d] /\ registry[k] = 0
                            /\ lock[ChatOf[k]] = d
         \/ \E d \in Call : /\ ListenReplace(d) /\ k = key[d]
                            /\ CoordinatorCancel(at[d], k, d)
                            /\ at[d] \in Session /\ lock[ChatOf[k]] = d
         \/ \E u \in Update : /\ ResolveBypass(u) /\ k = Slot(u)
                              /\ CoordinatorCancel(at[u], k, u)
                              /\ at[u] \in Session /\ lock[ChatOf[k]] = u
         \/ \E s \in Session : /\ Cancel(s, k) /\ CoordinatorCancel(s, k, <<s, "cancel">>)
                               /\ lock[ChatOf[k]] = None
         \/ \E d \in Call : /\ Finally(d) /\ k = key[d] /\ token[d] = registry[k]
                            /\ lock[ChatOf[k]] = None
<1>. USE DEF OwnershipInv
<1>k. ASSUME NEW s, NEW j, NEW by, CancelKey(s, j, by)
      PROVE  k = j /\ CoordinatorCancel(s, k, by)
  BY <1>k DEF CancelKey, CoordinatorCancel, TypeOK
<1>1. ASSUME NEW d \in Call, ListenStep(d)
      PROVE  \/ /\ NewRegistration(d) /\ k = key[d] /\ registry[k] = 0
                /\ lock[ChatOf[k]] = d
             \/ /\ ListenReplace(d) /\ k = key[d] /\ CoordinatorCancel(at[d], k, d)
                /\ at[d] \in Session /\ lock[ChatOf[k]] = d
             \/ /\ Finally(d) /\ k = key[d] /\ token[d] = registry[k]
                /\ lock[ChatOf[k]] = None
  <2>. d \in Proc
    BY DEF Proc
  <2>1. CASE ListenReplace(d)
    <3>1. pc[d] = "checked" /\ CancelKey(at[d], key[d], d)
      BY <2>1 DEF ListenReplace
    <3>2. at[d] \in Session /\ lock[ChatOf[key[d]]] = d
      BY <3>1, StartedType DEF LockedInside, InCriticalSection, Holds
    <3>. QED
      BY <2>1, <3>1, <3>2, <1>k
  <2>2. CASE ListenRegister(d)
    <3>1. ~Registered(key[d])
      BY <2>2 DEF ListenRegister
    <3>2. NewRegistration(d) /\ k = key[d]
      BY <2>2, <3>1 DEF ListenRegister, NewRegistration, Goto, Early, TypeOK
    <3>3. lock[ChatOf[key[d]]] = d
      BY <2>2 DEF ListenRegister, LockedInside, InCriticalSection, Holds
    <3>. QED
      BY <3>1, <3>2, <3>3 DEF Registered
  <2>3. CASE Finally(d)
    BY <2>3 DEF Finally, CoordinatorUnregister, Free, TypeOK
  <2>. QED
    BY <1>1, <2>1, <2>2, <2>3
       DEF ListenStep, ListenAcquire, ListenReject, ListenPublish, ListenOutOfSync, ListenStore,
           DoneCallback, Wake, coordVars
<1>2. ASSUME NEW u \in Update, ResolveStep(u)
      PROVE  /\ ResolveBypass(u) /\ k = Slot(u) /\ CoordinatorCancel(at[u], k, u)
             /\ at[u] \in Session /\ lock[ChatOf[k]] = u
  <2>1. ResolveBypass(u) /\ CancelKey(at[u], Slot(u), u)
    BY <1>2 DEF ResolveStep, ResolveAcquire, ResolveDiscard, ResolveBypass, ResolvePublish,
                ResolveDeliver
  <2>2. u \in Proc /\ pc[u] = "verified" /\ key[u] \in Key /\ at[u] \in Session
    BY <2>1, StartedType DEF ResolveBypass, Proc
  <2>3. ChatOf[Slot(u)] = ChatOf[key[u]] /\ lock[ChatOf[key[u]]] = u
    BY <2>2 DEF CandidateFound, Slot, LockedInside, InCriticalSection, Holds
  <2>. QED
    BY <2>1, <2>2, <2>3, <1>k
<1>3. ASSUME NEW s \in Session, SessionStep(s)
      PROVE  /\ Cancel(s, k) /\ CoordinatorCancel(s, k, <<s, "cancel">>)
             /\ lock[ChatOf[k]] = None
  <2>1. ~StopMemory(s) /\ ~BulkUnregister(s) /\ \A j : ~StopCancel(s, j)
    BY DEF StopMemory, ActiveCancelled, BulkUnregister, StopCancel, StopIsAllowed, Undisturbed
  <2>2. PICK j \in Key : Cancel(s, j)
    BY <1>3, <2>1 DEF SessionStep, Stop, Unsubscribe, ForgetOwned, Start, Crash, coordVars
  <2>3. CancelKey(s, j, <<s, "cancel">>) /\ lock[ChatOf[j]] = None
    BY <2>2 DEF Cancel, CancelAlone, Free
  <2>4. k = j /\ CoordinatorCancel(s, k, <<s, "cancel">>)
    BY <2>3, <1>k
  <2>. QED
    BY <2>2, <2>3, <2>4
<1>. QED
  BY <1>1, <1>2, <1>3
     DEF Next, vars, coordVars, Listen, Resolve, Timeout, Abort, GiveUp, GiveUpLate, AbortAnywhere,
         GiveUpLock, ApplySignal, LoseSignal, LockExpires, CancelPublish, AbortCancel

\* A listener is in the dict of its own session, and so is a candidate.
Home ==
  /\ \A s \in Session, k \in Key : Listener(s, k) # None => at[Listener(s, k)] = s
  /\ \A u \in Update : pc[u] = "verified" => at[cand[u]] = at[u]

WaitsInDict ==
  \A c \in Call : pc[c] = "wait" /\ fut[c] = Pending => Listener(at[c], key[c]) = c

\* Who is about to store itself finds its place empty ...
Vacant ==
  \A c \in Call : pc[c] \in {"replaced", "registered"} => Listener(at[c], key[c]) = None

\* ... and, where no session stops, its token registered.
ReadyToStore ==
  \A c \in Call : pc[c] = "registered" => registry[key[c]] = token[c]

OneTokenEach ==
  /\ \A c \in Call : pc[c] = "idle" => token[c] = 0
  /\ \A c, d \in Call : token[c] = token[d] /\ token[c] # 0 => c = d

PlaceInv == GenerationInv /\ Home /\ WaitsInDict /\ Vacant /\ OneTokenEach

SlotInv == PlaceInv /\ ReadyToStore

\* A coroutine that has begun stays in its session.
LEMMA SessionStays ==
  ASSUME TypeOK, [Next]_vars, NEW q \in Proc, pc[q] # "idle"
  PROVE  at'[q] = at[q]
<1>1. ASSUME NEW p \in Proc, NEW s \in Session, NEW k \in Key, Listen(p, s, k) \/ Resolve(p, s, k)
      PROVE  at'[q] = at[q]
  BY <1>1 DEF Listen, Resolve, TypeOK
<1>. QED
  BY <1>1, ZenonT(60)
     DEF Next, vars, procVars, ListenStep, ListenAcquire, ListenReject, ListenReplace, ListenPublish,
     ListenOutOfSync, ListenRegister, ListenStore, DoneCallback, Wake, Finally, ResolveStep,
     ResolveAcquire, ResolveDiscard, ResolveBypass, ResolvePublish, ResolveDeliver, SessionStep,
     Stop,
     StopMemory, Unsubscribe, BulkUnregister, ForgetOwned, Start, Crash, Cancel, StopCancel,
     CancelAlone, Timeout, Abort, GiveUp, GiveUpLate,
     AbortAnywhere, GiveUpLock, ApplySignal, LoseSignal, LockExpires, CancelPublish, AbortCancel,
     Proc

LEMMA HomeStep ==
  ASSUME IInv, Home, [Next]_vars
  PROVE  Home'
<1>. USE DEF IInv, OwnershipInv
<1>h. ASSUME NEW c \in Call, Stored(c)
      PROVE  at'[c] = at[c]
  BY <1>h, StartedStays DEF Stored
<1>1. ASSUME NEW s \in Session, NEW k \in Key, NEW c, c = local'[s][k], c # None
      PROVE  at'[c] = s
  <2>1. CASE c = local[s][k]
    <3>1. c \in Call /\ Stored(c) /\ at[c] = s
      BY <1>1, <2>1 DEF DictsHoldStored, Home, Listener, TypeOK
    <3>. QED
      BY <3>1, <1>h
  <2>2. ASSUME NEW d \in Call, ListenStore(d), c = d, c # local[s][k]
        PROVE  at'[c] = s
    BY <1>1, <2>2 DEF ListenStore, TypeOK
  <2>. QED
    BY <1>1, <2>1, <2>2, LocalStep
<1>2. ASSUME NEW u \in Update, pc'[u] = "verified"
      PROVE  at'[cand'[u]] = at'[u]
  <2>1. u \in Proc /\ pc[u] # "idle" /\ at[u] \in Session /\ key[u] \in Key
    BY <1>2, VerifiedStep, StartedType DEF Proc
  <2>2. at'[u] = at[u]
    BY <2>1, SessionStays
  <2>3. CASE pc[u] = "verified" /\ cand'[u] = cand[u]
    <3>1. PICK c \in Call : c = cand[u]
      BY <2>3 DEF CandidateFound
    <3>2. Stored(c) /\ at[c] = at[u]
      BY <2>3, <3>1 DEF CandidateStillOwns, Home
    <3>. QED
      BY <2>2, <2>3, <3>1, <3>2, <1>h
  <2>4. ASSUME NEW i, NEW j \in DOMAIN SubKeys[key[u]], FirstMatch(u, i, j), Verify(u, j)
        PROVE  at'[cand'[u]] = at'[u]
    <3>1. PICK slot \in Key : slot = SubKeys[key[u]][j]
      BY <2>1
    <3>2. PICK l \in Call : l = Listener(at[u], slot) /\ l # None
      BY <2>1, <2>4, <3>1, SMTT(30) DEF FirstMatch, Listener, TypeOK
    <3>3. cand'[u] = l
      BY <2>4, <3>1, <3>2 DEF Verify, TypeOK
    <3>4. Stored(l) /\ at[l] = at[u]
      BY <2>1, <3>2 DEF DictsHoldStored, Home
    <3>. QED
      BY <2>2, <3>3, <3>4, <1>h
  <2>. QED
    BY <1>2, <2>3, <2>4, VerifiedStep DEF JustVerified
<1>. QED
  BY <1>1, <1>2 DEF Home, Listener

\* A listener that still waits is taken out of its dict only as its session dies.
LEMMA LocalRemoved ==
  ASSUME TypeOK, CandidateFound, [Next]_vars, NEW s \in Session, NEW k \in Key, NEW c \in Call,
         local[s][k] = c, local'[s][k] = None, fut'[c] = Pending
  PROVE  Crash(s)
<1>. SUFFICES ASSUME ~Crash(s)
              PROVE  FALSE
  OBVIOUS
<1>. c # None /\ fut[c] = Pending
  BY FutureIsSetOnce DEF Proc
<1>d. ASSUME NEW t, NEW j, DropLocal(t, j)
      PROVE  FALSE
  BY <1>d DEF DropLocal, Listener, TypeOK, Pending
<1>1. ASSUME NEW d \in Call, ListenStep(d)
      PROVE  FALSE
  <2>1. CASE DoneCallback(d) \/ Wake(d)
    <3>1. fut[d] # Pending /\ ForgetListener(d)
      BY <2>1 DEF DoneCallback, Wake
    <3>. QED
      BY <3>1 DEF ForgetListener, TypeOK
  <2>2. CASE ListenStore(d)
    <3>1. d # None /\ local' = [local EXCEPT ![at[d]][key[d]] = d]
      BY <2>2 DEF ListenStore, Proc
    <3>2. local'[s][k] \in {local[s][k], d}
      BY <3>1 DEF TypeOK
    <3>. QED
      BY <3>1, <3>2
  <2>. QED
    BY <1>1, <2>1, <2>2, <1>d DEF ListenStep, ListenAcquire, ListenReject, ListenReplace,
                                  ListenPublish,
       ListenOutOfSync, ListenRegister, Finally, CancelKey, sessionVars
<1>2. ASSUME NEW u \in Update, ResolveStep(u)
      PROVE  FALSE
  BY <1>2, <1>d DEF ResolveStep, ResolveAcquire, ResolveDiscard, ResolveBypass, ResolvePublish,
                    ResolveDeliver,
                    CancelKey, sessionVars
<1>3. ASSUME NEW t \in Session, SessionStep(t)
      PROVE  FALSE
  <2>1. CASE Crash(t)
    <3>1. t # s
      BY <2>1
    <3>2. local'[s][k] = local[s][k]
      BY <2>1, <3>1 DEF Crash, TypeOK
    <3>. QED
      BY <3>2
  <2>. QED
    BY <1>3, <2>1, <1>d DEF SessionStep, Stop, StopMemory, Unsubscribe, BulkUnregister,
                            ForgetOwned, Start, Cancel, StopCancel, CancelAlone, CancelKey
<1>4. ASSUME \/ UNCHANGED vars
             \/ \E p \in Proc, t \in Session, j \in Key : Listen(p, t, j) \/ Resolve(p, t, j)
             \/ \E p \in Proc : \/ Timeout(p) \/ Abort(p) \/ GiveUpLate(p)
                                \/ AbortAnywhere(p) \/ GiveUpLock(p)
             \/ \E m \in signals : ApplySignal(m) \/ LoseSignal(m)
             \/ \E m \in unsent : CancelPublish(m) \/ AbortCancel(m)
             \/ \E ch \in Chat : LockExpires(ch)
      PROVE  FALSE
  BY <1>4, <1>d DEF Listen, Resolve, Timeout, Abort, GiveUp, GiveUpLate, AbortAnywhere, GiveUpLock,
              ApplySignal, LoseSignal, LockExpires, CancelPublish, AbortCancel, vars, sessionVars
<1>. QED
  BY <1>1, <1>2, <1>3, <1>4 DEF Next, Proc

LEMMA WaitsInDictStep ==
  ASSUME IInv, PlaceInv, [Next]_vars
  PROVE  WaitsInDict'
<1>. USE DEF IInv, OwnershipInv, PlaceInv
<1>. SUFFICES ASSUME NEW c \in Call, pc'[c] = "wait", fut'[c] = Pending
              PROVE  local'[at'[c]][key'[c]] = c
  BY DEF WaitsInDict, Listener
<1>. c \in Proc
  BY DEF Proc
<1>1. CASE ListenStore(c)
  <2>1. at[c] \in Session /\ key[c] \in Key
    BY <1>1, StartedType DEF ListenStore
  <2>. QED
    BY <1>1, <2>1 DEF ListenStore, TypeOK
<1>2. CASE pc[c] = "wait"
  <2>1. at'[c] = at[c] /\ key'[c] = key[c] /\ at[c] \in Session /\ key[c] \in Key
    BY <1>2, StartedStays, StartedType
  <2>2. PICK s \in Session, k \in Key : s = at[c] /\ k = key[c]
    BY <2>1
  <2>3. local[s][k] = c
    BY <1>2, <2>2, FutureIsSetOnce DEF WaitsInDict, Listener
  <2>4. local'[s][k] # None
    <3>1. SUFFICES ASSUME local'[s][k] = None PROVE FALSE
      OBVIOUS
    <3>2. Crash(s)
      BY <2>3, <3>1, LocalRemoved
    <3>. QED
      BY <1>2, <2>2, <3>2 DEF Crash, TypeOK
  <2>5. ASSUME NEW d \in Call, ListenStore(d), local'[s][k] = d, d # c
        PROVE  FALSE
    <3>1. at[d] = s /\ key[d] = k
      BY <2>3, <2>5 DEF ListenStore, TypeOK
    <3>2. Listener(at[d], key[d]) = None
      BY <2>5 DEF ListenStore, Vacant
    <3>. QED
      BY <2>3, <3>1, <3>2 DEF Listener, Proc
  <2>. QED
    BY <2>1, <2>2, <2>3, <2>4, <2>5, LocalStep
<1>. QED
  BY <1>1, <1>2, ArriveStep DEF Arrives

LEMMA VacantStep ==
  ASSUME IInv, PlaceInv, [Next]_vars
  PROVE  Vacant'
<1>. USE DEF IInv, OwnershipInv, PlaceInv
<1>. SUFFICES ASSUME NEW c \in Call, pc'[c] \in {"replaced", "registered"}
              PROVE  local'[at'[c]][key'[c]] = None
  BY DEF Vacant, Listener
<1>. c \in Proc /\ c \notin Update /\ c # None
  BY DEF Proc
<1>1. CASE ListenReplace(c) /\ pc'[c] = "replaced"
  <2>1. at[c] \in Session /\ key[c] \in Key /\ at' = at /\ key' = key
    BY <1>1, StartedType DEF ListenReplace
  <2>. QED
    BY <1>1, <2>1 DEF ListenReplace, CancelKey, DropLocal, TypeOK
<1>2. CASE NewRegistration(c) /\ ListenRegister(c)
  <2>1. at' = at /\ key' = key /\ local' = local /\ key[c] \in Key
    BY <1>2, StartedType DEF ListenRegister, sessionVars
  <2>2. Listener(at[c], key[c]) = None
    BY <1>2 DEF ListenRegister, Vacant
  <2>. QED
    BY <1>2, <2>1, <2>2 DEF NewRegistration, Listener, TypeOK
<1>3. CASE pc'[c] = pc[c]
  <2>1. at'[c] = at[c] /\ key'[c] = key[c] /\ at[c] \in Session /\ key[c] \in Key
    BY <1>3, StartedStays, StartedType
  <2>2. PICK s \in Session, k \in Key : s = at[c] /\ k = key[c]
    BY <2>1
  <2>3. local[s][k] = None /\ lock[ChatOf[k]] = c
    BY <1>3, <2>2 DEF Vacant, Listener, LockedInside, InCriticalSection, Holds
  <2>4. local'[s][k] = None
    <3>1. ASSUME NEW d \in Call, ListenStore(d), k = key[d]
          PROVE  FALSE
      <4>1. lock[ChatOf[k]] = d /\ d \in Proc /\ pc[d] = "registered"
        BY <3>1 DEF ListenStore, LockedInside, InCriticalSection, Holds, Proc
      <4>2. pc'[d] # "registered" /\ pc'[d] # "replaced"
        BY <3>1, <4>1 DEF ListenStore, Goto, TypeOK
      <4>. QED
        BY <2>3, <4>1, <4>2
    <3>. QED
      BY <2>3, <3>1, LocalStep
  <2>. QED
    BY <1>3, <2>1, <2>2, <2>4
<1>. QED
  BY <1>1, <1>2, <1>3, ArriveStep DEF Arrives

LEMMA ReadyToStoreStep ==
  ASSUME IInv, SlotInv, Undisturbed, [Next]_vars
  PROVE  ReadyToStore'
<1>. USE DEF IInv, OwnershipInv, SlotInv
<1>. SUFFICES ASSUME NEW c \in Call, pc'[c] = "registered"
              PROVE  registry'[key'[c]] = token'[c]
  BY DEF ReadyToStore
<1>. c \in Proc /\ c \notin Update /\ c # None
  BY DEF Proc
<1>2. CASE NewRegistration(c) /\ ListenRegister(c)
  <2>1. key' = key /\ key[c] \in Key
    BY <1>2, StartedType DEF ListenRegister
  <2>. QED
    BY <1>2, <2>1 DEF NewRegistration, TypeOK
<1>3. CASE pc[c] = "registered"
  <2>1. key'[c] = key[c] /\ key[c] \in Key
    BY <1>3, StartedStays, StartedType
  <2>2. PICK k \in Key : k = key[c]
    BY <2>1
  <2>3. registry[k] = token[c] /\ lock[ChatOf[k]] = c
    BY <1>3, <2>2 DEF ReadyToStore, LockedInside, InCriticalSection, Holds
  <2>4. registry'[k] = registry[k]
    <3>1. SUFFICES ASSUME registry'[k] # registry[k] PROVE FALSE
      OBVIOUS
    <3>. QED
      BY <2>3, <1>3, <3>1, WithdrawStep DEF NewRegistration, ListenReplace, Early
  <2>5. token'[c] = token[c]
    <3>1. ASSUME NEW d \in Call, NewRegistration(d)
          PROVE  token'[c] = token[c]
      BY <1>3, <3>1 DEF NewRegistration, Early, TypeOK
    <3>. QED
      BY <3>1, TokenStep DEF TokensAreFresh, Undisturbed
  <2>. QED
    BY <2>1, <2>2, <2>3, <2>4, <2>5
<1>. QED
  BY <1>2, <1>3, ArriveStep DEF Arrives

LEMMA OneTokenStep ==
  ASSUME IInv, GenerationInv, OneTokenEach, TokensAreFresh, [Next]_vars
  PROVE  OneTokenEach'
<1>. USE DEF IInv, OwnershipInv
<1>1. ASSUME NEW c \in Call, pc'[c] = "idle"
      PROVE  token'[c] = 0
  <2>1. token[c] = 0
    BY <1>1, StartedStays DEF OneTokenEach
  <2>2. ASSUME NEW d \in Call, NewRegistration(d)
        PROVE  token'[c] = 0
    BY <1>1, <2>1, <2>2 DEF NewRegistration, TypeOK
  <2>. QED
    BY <2>1, <2>2, TokenStep
<1>2. ASSUME NEW c \in Call, NEW d \in Call, token'[c] = token'[d], token'[c] # 0
      PROVE  c = d
  <2>1. ASSUME NEW e \in Call, NewRegistration(e)
        PROVE  c = d
    <3>1. token[c] # issued + 1 /\ token[d] # issued + 1
      <4>1. /\ issued \in Nat
            /\ token[c] \in Nat /\ token[c] <= issued
            /\ token[d] \in Nat /\ token[d] <= issued
        BY DEF GenerationInv, TokensBounded, TypeOK
      <4>. QED
        BY <4>1
    <3>2. /\ token'[c] = IF c = e THEN issued + 1 ELSE token[c]
          /\ token'[d] = IF d = e THEN issued + 1 ELSE token[d]
      BY <2>1 DEF NewRegistration, TypeOK
    <3>3. token[c] = token[d] /\ token[c] # 0 => c = d
      BY DEF OneTokenEach
    <3>4. CASE c # e /\ d # e
      BY <1>2, <3>2, <3>3, <3>4
    <3>5. CASE c = e /\ d # e
      BY <1>2, <3>1, <3>2, <3>5
    <3>6. CASE c # e /\ d = e
      BY <1>2, <3>1, <3>2, <3>6
    <3>. QED
      BY <3>4, <3>5, <3>6
  <2>2. CASE token' = token
    BY <1>2, <2>2 DEF OneTokenEach
  <2>. QED
    BY <2>1, <2>2, TokenStep
<1>. QED
  BY <1>1, <1>2 DEF OneTokenEach

LEMMA PlaceInvStep ==
  ASSUME IInv, PlaceInv, TokensAreFresh, [Next]_vars
  PROVE  PlaceInv'
BY GenerationStep, HomeStep, WaitsInDictStep, VacantStep, OneTokenStep DEF PlaceInv

LEMMA SlotStep ==
  ASSUME IInv, SlotInv, Undisturbed, [Next]_vars
  PROVE  SlotInv'
BY PlaceInvStep, ReadyToStoreStep DEF SlotInv, TokensAreFresh, Undisturbed

LEMMA InitPlace == Init => PlaceInv
BY InitGeneration, InitTypeOK
   DEF Init, PlaceInv, Home, WaitsInDict, Vacant, OneTokenEach, Listener, Proc

LEMMA InitSlot == Init => SlotInv
BY InitPlace DEF Init, SlotInv, ReadyToStore, Proc

(***************************************************************************)
(* Telling the superseded.  While no session stops and pub/sub loses       *)
(* nothing, a listener whose registration is gone has a signal under way,  *)
(* or one that the canceller has yet to publish.                           *)
(***************************************************************************)
UpUntilCrash ==
  /\ \A s \in Session : phase[s] \in {"up", "crashed"}
  /\ \A c \in Call : pc[c] \notin {"idle", "done", "crashed"} => phase[at[c]] = "up"

LEMMA UpStep ==
  ASSUME TypeOK, UpUntilCrash, Undisturbed, [Next]_vars
  PROVE  UpUntilCrash'
<1>1. phase' = phase \/ \E s \in Session : Crash(s)
  <2>1. ASSUME NEW s \in Session, \/ Stop(s) \/ StopMemory(s) \/ Unsubscribe(s)
                                 \/ BulkUnregister(s) \/ ForgetOwned(s) \/ Start(s)
        PROVE  FALSE
    BY <2>1 DEF Stop, StopMemory, ActiveCancelled, Unsubscribe, BulkUnregister, ForgetOwned, Start,
                UpUntilCrash, Undisturbed
  <2>. QED
    BY <2>1, PhaseMoves DEF MovesPhase
<1>2. CASE phase' = phase
  <2>1. ASSUME NEW c \in Call, pc'[c] \notin {"idle", "done", "crashed"}
        PROVE  phase[at'[c]] = "up"
    <3>. c \in Proc
      BY DEF Proc
    <3>1. ASSUME NEW s \in Session, NEW k \in Key, Listen(c, s, k)
          PROVE  phase[at'[c]] = "up"
      BY <3>1 DEF Listen, UpUntilCrash, TypeOK
    <3>. QED
      BY <2>1, <3>1, PlaceSteps DEF PlaceStep, Begins, MovesOn, UpUntilCrash
  <2>. QED
    BY <1>2, <2>1 DEF UpUntilCrash
<1>3. ASSUME NEW s \in Session, Crash(s)
      PROVE  UpUntilCrash'
  <2>1. ASSUME NEW c \in Call, pc'[c] \notin {"idle", "done", "crashed"}
        PROVE  phase'[at'[c]] = "up"
    <3>1. c \in Proc /\ pc'[c] = pc[c] /\ at'[c] = at[c] /\ at[c] # s
      BY <1>3, <2>1 DEF Crash, TypeOK, Proc
    <3>2. at[c] \in Session /\ phase[at[c]] = "up"
      BY <2>1, <3>1, StartedType DEF UpUntilCrash
    <3>. QED
      BY <1>3, <3>1, <3>2 DEF Crash, TypeOK
  <2>2. \A t \in Session : phase'[t] \in {"up", "crashed"}
    BY <1>3 DEF Crash, UpUntilCrash, TypeOK
  <2>. QED
    BY <2>1, <2>2 DEF UpUntilCrash
<1>. QED
  BY <1>1, <1>2, <1>3

\* A signal goes when it is applied or lost, or with the session it is for.
LEMMA SignalTaken ==
  ASSUME [Next]_vars, NEW m \in signals, m \notin signals'
  PROVE  ApplySignal(m) \/ LoseSignal(m) \/ Unsubscribe(m.to) \/ Crash(m.to)
<1>1. ASSUME NEW s \in Session, SessionStep(s)
      PROVE  Unsubscribe(m.to) \/ Crash(m.to)
  BY <1>1 DEF SessionStep, Stop, StopMemory, Unsubscribe, BulkUnregister, ForgetOwned, Start,
              Crash, Cancel, StopCancel, CancelAlone, coordVars
<1>2. ASSUME NEW n \in signals, ApplySignal(n) \/ LoseSignal(n)
      PROVE  ApplySignal(m) \/ LoseSignal(m)
  <2>1. n = m
    BY <1>2 DEF ApplySignal, LoseSignal
  <2>. QED
    BY <1>2, <2>1
<1>3. ~ \/ UNCHANGED vars
        \/ \E p \in Proc, s \in Session, k \in Key : Listen(p, s, k) \/ Resolve(p, s, k)
        \/ \E c \in Call : ListenStep(c)
        \/ \E u \in Update : ResolveStep(u)
        \/ \E p \in Proc : \/ Timeout(p) \/ Abort(p) \/ GiveUpLate(p)
                           \/ AbortAnywhere(p) \/ GiveUpLock(p)
        \/ \E n \in unsent : CancelPublish(n) \/ AbortCancel(n)
        \/ \E ch \in Chat : LockExpires(ch)
  BY ZenonT(60) DEF Listen, Resolve, Timeout, Abort, GiveUp, GiveUpLate, AbortAnywhere, GiveUpLock,
         LockExpires, CancelPublish, AbortCancel, Publish, vars, coordVars, ListenStep,
         ListenAcquire, ListenReject, ListenReplace, ListenPublish, ListenOutOfSync,
         ListenRegister, ListenStore, DoneCallback, Wake, Finally, ResolveStep, ResolveAcquire,
         ResolveDiscard, ResolveBypass, ResolvePublish, ResolveDeliver
<1>. QED
  BY <1>1, <1>2, <1>3 DEF Next, Proc

\* A cancellation is published by whoever made it, or it is aborted.
LEMMA UnsentTaken ==
  ASSUME [Next]_vars, NEW m \in unsent, m \notin unsent'
  PROVE  Publish(m) \/ AbortCancel(m)
<1>k. ASSUME NEW s, NEW k, NEW by, CancelKey(s, k, by)
      PROVE  FALSE
  BY <1>k DEF CancelKey, CoordinatorCancel
<1>1. ASSUME NEW s \in Session, SessionStep(s)
      PROVE  FALSE
  BY <1>1, <1>k DEF SessionStep, Stop, StopMemory, Unsubscribe, BulkUnregister, ForgetOwned,
                    Start, Crash, Cancel, StopCancel, CancelAlone, coordVars
<1>2. ASSUME NEW n \in unsent, Publish(n) \/ AbortCancel(n)
      PROVE  Publish(m) \/ AbortCancel(m)
  <2>1. n = m
    BY <1>2 DEF Publish, AbortCancel
  <2>. QED
    BY <1>2, <2>1
<1>3. ASSUME NEW c \in Call, ListenStep(c)
      PROVE  \E n \in unsent : Publish(n)
  BY <1>3, <1>k DEF ListenStep, ListenAcquire, ListenReject, ListenReplace, ListenPublish,
         ListenOutOfSync, ListenRegister, ListenStore, DoneCallback, Wake, Finally, coordVars
<1>4. ASSUME NEW u \in Update, ResolveStep(u)
      PROVE  \E n \in unsent : Publish(n)
  BY <1>4, <1>k DEF ResolveStep, ResolveAcquire, ResolveDiscard, ResolveBypass, ResolvePublish,
         ResolveDeliver
<1>5. ~ \/ UNCHANGED vars
        \/ \E p \in Proc, s \in Session, k \in Key : Listen(p, s, k) \/ Resolve(p, s, k)
        \/ \E p \in Proc : \/ Timeout(p) \/ Abort(p) \/ GiveUpLate(p)
                           \/ AbortAnywhere(p) \/ GiveUpLock(p)
        \/ \E n \in signals : ApplySignal(n) \/ LoseSignal(n)
        \/ \E ch \in Chat : LockExpires(ch)
  BY DEF Listen, Resolve, Timeout, Abort, GiveUp, GiveUpLate, AbortAnywhere, GiveUpLock,
         ApplySignal, LoseSignal, LockExpires, vars, coordVars
<1>. QED
  BY <1>1, <1>2, <1>3, <1>4, <1>5 DEF Next, CancelPublish, Proc

\* A listener that waits afterwards waited before or has just stored itself: its
\* names are the same, and it has a token that is nobody else's.
LEMMA WaitingBefore ==
  ASSUME IInv, SlotInv, Undisturbed, [Next]_vars, NEW c \in Call,
         pc'[c] = "wait", fut'[c] = Pending, registry'[key'[c]] # token'[c]
  PROVE  /\ pc[c] = "wait" /\ fut[c] = Pending
         /\ key'[c] = key[c] /\ at'[c] = at[c] /\ token'[c] = token[c]
         /\ key[c] \in Key /\ at[c] \in Session
         /\ Listener(at[c], key[c]) = c /\ token[c] # 0
<1>. USE DEF IInv, OwnershipInv, SlotInv, PlaceInv
<1>. c \in Proc /\ c # None
  BY DEF Proc
<1>1. ~ListenStore(c)
  BY DEF ListenStore, ReadyToStore, callVars
<1>2. pc[c] = "wait" /\ fut[c] = Pending
  BY <1>1, ArriveStep, FutureIsSetOnce DEF Arrives
<1>3. /\ key'[c] = key[c] /\ at'[c] = at[c]
      /\ key[c] \in Key /\ at[c] \in Session
  BY <1>2, StartedStays, StartedType
<1>4. token'[c] = token[c]
  BY <1>2, StoredStays DEF Stored
<1>5. Listener(at[c], key[c]) = c
  BY <1>2 DEF WaitsInDict
<1>6. token[c] # 0
  BY <1>3, <1>5 DEF HasToken, GenerationInv
<1>. QED
  BY <1>2, <1>3, <1>4, <1>5, <1>6

\* Its registration, if the step takes it away, is cancelled.
LEMMA TakenAway ==
  ASSUME IInv, SlotInv, Undisturbed, [Next]_vars, NEW c \in Call, key[c] \in Key,
         pc[c] = "wait", token[c] # 0, registry[key[c]] = token[c],
         registry'[key[c]] # token[c]
  PROVE  /\ \E s \in Session, by \in Proc \cup Canceller : CoordinatorCancel(s, key[c], by)
         /\ \/ \E d \in Call : ListenReplace(d) /\ key[d] = key[c]
            \/ \E u \in Update : ResolveBypass(u) /\ key[c] = Slot(u)
            \/ \E s \in Session : Cancel(s, key[c])
<1>. USE DEF IInv, OwnershipInv, SlotInv, PlaceInv
<1>1. ASSUME NEW d \in Call, Finally(d), token[d] = registry[key[c]]
      PROVE  FALSE
  <2>1. d = c
    BY <1>1 DEF OneTokenEach
  <2>. QED
    BY <1>1, <2>1 DEF Finally
<1>2. PICK k \in Key : k = key[c]
  OBVIOUS
<1>3. \A s \in Session : <<s, "cancel">> \in Proc \cup Canceller
  BY DEF Canceller
<1>4. Call \subseteq Proc /\ Update \subseteq Proc
  BY DEF Proc
<1>. QED
  BY <1>1, <1>2, <1>3, <1>4, WithdrawStep

(***************************************************************************)
(* A listener that waits with its registration gone is told, and by name.  *)
(***************************************************************************)
LEMMA ToldStep ==
  ASSUME IInv, SlotInv, UpUntilCrash, SupersededIsTold, Undisturbed, "lose" \notin Env,
         Backend = "redis", [Next]_vars
  PROVE  SupersededIsTold'
<1>. SUFFICES ASSUME NEW c \in Call, pc'[c] = "wait", fut'[c] = Pending,
                     registry'[key'[c]] # token'[c]
              PROVE  \/ [to |-> at'[c], key |-> key'[c], token |-> token'[c]] \in signals'
                     \/ \E n \in unsent' : n.key = key'[c] /\ n.token = token'[c]
  BY DEF SupersededIsTold
<1>. DEFINE m == [to |-> at[c], key |-> key[c], token |-> token[c]]
<1>1. /\ pc[c] = "wait" /\ fut[c] = Pending
      /\ key'[c] = key[c] /\ at'[c] = at[c] /\ token'[c] = token[c]
      /\ key[c] \in Key /\ at[c] \in Session
      /\ Listener(at[c], key[c]) = c /\ token[c] # 0
  BY WaitingBefore
<1>2. CASE registry[key[c]] # token[c]
  <2>1. m \in signals \/ \E n \in unsent : n.key = key[c] /\ n.token = token[c]
    BY <1>1, <1>2 DEF SupersededIsTold
  <2>2. ~ApplySignal(m)
    <3>1. SUFFICES ASSUME ApplySignal(m) PROVE FALSE
      OBVIOUS
    <3>2. c # None
      BY DEF Proc
    <3>3. DropLocal(at[c], key[c])
      BY <1>1, <3>1, <3>2 DEF ApplySignal
    <3>. QED
      BY <1>1, <3>3 DEF DropLocal, Pending
  <2>3. ~Crash(m.to)
    BY <1>1 DEF Crash, TypeOK, IInv, Proc
  <2>4. ~LoseSignal(m) /\ ~Unsubscribe(m.to)
    BY <1>1 DEF LoseSignal, Unsubscribe, ActiveCancelled, UpUntilCrash
  <2>5. CASE m \in signals
    <3>1. m \in signals'
      BY <2>2, <2>3, <2>4, <2>5, SignalTaken
    <3>. QED
      BY <1>1, <3>1
  <2>6. ASSUME NEW n \in unsent, n.key = key[c], n.token = token[c]
        PROVE  \/ m \in signals'
               \/ \E o \in unsent' : o.key = key[c] /\ o.token = token[c]
    <3>1. CASE n \in unsent'
      BY <2>6, <3>1
    <3>2. CASE Publish(n)
      <4>1. at[c] \in Subscribers
        BY <1>1 DEF UpUntilCrash, Subscribers
      <4>2. m \in [to : Subscribers, key : {n.key}, token : {n.token}]
        BY <2>6, <4>1
      <4>. QED
        BY <3>2, <4>2 DEF Publish
    <3>3. CASE AbortCancel(n)
      <4>1. [n EXCEPT !.by = None].key = n.key /\ [n EXCEPT !.by = None].token = n.token
        BY DEF TypeOK, Cancellation
      <4>. QED
        BY <2>6, <3>3, <4>1 DEF AbortCancel
    <3>. QED
      BY <3>1, <3>2, <3>3, UnsentTaken
  <2>. QED
    BY <1>1, <2>1, <2>5, <2>6
<1>3. CASE registry[key[c]] = token[c]
  <2>1. PICK s \in Session, by \in Proc \cup Canceller : CoordinatorCancel(s, key[c], by)
    BY <1>1, <1>3, TakenAway
  <2>2. Announced(key[c])
    BY <1>1, <1>3 DEF Announced, Registered
  <2>3. CancellationOf(key[c], by) \in unsent'
    BY <2>1, <2>2 DEF CoordinatorCancel
  <2>4. /\ CancellationOf(key[c], by).key = key[c]
        /\ CancellationOf(key[c], by).token = registry[key[c]]
    BY DEF CancellationOf
  <2>. QED
    BY <1>1, <1>3, <2>3, <2>4
<1>. QED
  BY <1>2, <1>3

\* Hence no listener is left to wait for updates that go elsewhere: the signal
\* that will fail it is under way as long as it waits.
THEOREM Told ==
  ASSUME Undisturbed, "lose" \notin Env, Backend = "redis"
  PROVE  Spec => []SupersededIsTold
<1>. DEFINE J == IInv /\ SlotInv /\ UpUntilCrash /\ SupersededIsTold
<1>1. Init => J
  BY InitIInv, InitSlot DEF Init, UpUntilCrash, SupersededIsTold, Proc
<1>2. J /\ [Next]_vars => J'
  BY NextIInv, SlotStep, UpStep, ToldStep DEF Undisturbed, IInv
<1>. QED
  BY <1>1, <1>2, PTL DEF Spec

(***************************************************************************)
(* One listener per key.  Without cancel(), a listener loses its           *)
(* registration only to a call that replaces it, and tokens grow.          *)
(***************************************************************************)
LostToReplacement ==
  \A c \in Call :
    pc[c] = "wait" /\ fut[c] = Pending /\ registry[key[c]] # token[c] => Replaced(c)

TokensGrow ==
  \A c \in Call :
    token[c] # 0 => registry[key[c]] = 0 \/ token[c] <= registry[key[c]]

LEMMA LostStep ==
  ASSUME IInv, SlotInv, LostToReplacement, Undisturbed, "cancel" \notin Env, [Next]_vars
  PROVE  LostToReplacement'
<1>. USE DEF IInv, OwnershipInv, SlotInv, PlaceInv
<1>. SUFFICES ASSUME NEW c \in Call, pc'[c] = "wait", fut'[c] = Pending,
                     registry'[key'[c]] # token'[c]
              PROVE  Replaced(c)'
  BY DEF LostToReplacement
<1>1. /\ pc[c] = "wait" /\ fut[c] = Pending
      /\ key'[c] = key[c] /\ at'[c] = at[c] /\ token'[c] = token[c]
      /\ key[c] \in Key /\ at[c] \in Session
      /\ Listener(at[c], key[c]) = c /\ token[c] # 0
  BY WaitingBefore
<1>r. ASSUME NEW d \in Call \ {c}, key[d] = key[c], pc[d] \notin {"idle", "lock"},
             Policy[at[d]] = "REPLACE"
      PROVE  Replaced(c)'
  <2>1. key'[d] = key[d] /\ at'[d] = at[d] /\ pc'[d] \notin {"idle", "lock"}
    BY <1>r, StartedStays
  <2>. QED
    BY <1>1, <1>r, <2>1 DEF Replaced
<1>2. CASE registry[key[c]] # token[c]
  BY <1>1, <1>2, <1>r DEF LostToReplacement, Replaced
<1>3. CASE registry[key[c]] = token[c]
  <2>1. ASSUME NEW u \in Update, ResolveBypass(u), key[c] = Slot(u)
        PROVE  FALSE
    <3>1. pc[u] = "verified" /\ saw[u]
      BY <2>1 DEF ResolveBypass
    <3>2. cand[u] \in Call /\ token[cand[u]] = token[c]
      BY <1>1, <1>3, <2>1, <3>1 DEF CandidateFound, CandidateStillOwns, Undisturbed
    <3>3. cand[u] = c
      BY <1>1, <3>2 DEF OneTokenEach
    <3>4. at[u] = at[c]
      BY <3>1, <3>3 DEF Home
    <3>5. DropLocal(at[c], key[c])
      BY <1>1, <2>1, <3>3, <3>4 DEF ResolveBypass, CancelKey
    <3>. QED
      BY <1>1, <3>5 DEF DropLocal, Pending
  <2>2. ASSUME NEW d \in Call, ListenReplace(d), key[d] = key[c]
        PROVE  Replaced(c)'
    BY <1>1, <1>r, <2>2 DEF ListenReplace
  <2>. QED
    BY <1>1, <1>3, <2>1, <2>2, TakenAway DEF Cancel
<1>. QED
  BY <1>2, <1>3

LEMMA GrowStep ==
  ASSUME IInv, SlotInv, TokensGrow, Undisturbed, [Next]_vars
  PROVE  TokensGrow'
<1>. USE DEF IInv, OwnershipInv, SlotInv, PlaceInv
<1>. SUFFICES ASSUME NEW c \in Call, token'[c] # 0
              PROVE  registry'[key'[c]] = 0 \/ token'[c] <= registry'[key'[c]]
  BY DEF TokensGrow
<1>. c \in Proc
  BY DEF Proc
<1>1. pc[c] # "idle"
  <2>1. SUFFICES ASSUME pc[c] = "idle" PROVE token'[c] = 0
    OBVIOUS
  <2>2. token[c] = 0
    BY <2>1 DEF OneTokenEach
  <2>3. pc'[c] # "registered"
    BY <2>1, PlaceSteps, ZenonT(60) DEF PlaceStep, Begins, MovesOn, Listen, Goto, TypeOK
  <2>4. ASSUME NEW d \in Call, NewRegistration(d)
        PROVE  token'[c] = 0
    BY <2>2, <2>3, <2>4 DEF NewRegistration, TypeOK
  <2>. QED
    BY <2>2, <2>4, TokenStep DEF TokensAreFresh, Undisturbed
<1>2. key'[c] = key[c] /\ key[c] \in Key
  BY <1>1, StartedStays, StartedType
<1>3. PICK k \in Key : k = key[c]
  BY <1>2
<1>4. /\ issued \in Nat /\ token[c] \in Nat /\ token[c] <= issued
      /\ registry[k] \in Nat
      /\ token[c] = 0 \/ registry[k] = 0 \/ token[c] <= registry[k]
  BY <1>3 DEF GenerationInv, TokensBounded, TypeOK, TokensGrow
<1>5. ASSUME NEW d \in Call, NewRegistration(d)
      PROVE  registry'[k] = 0 \/ token'[c] <= registry'[k]
  <2>1. CASE d = c
    BY <1>3, <1>4, <1>5, <2>1 DEF NewRegistration, TypeOK
  <2>2. CASE d # c
    <3>1. token'[c] = token[c] /\ registry'[k] \in {registry[k], issued + 1}
      BY <1>5, <2>2 DEF NewRegistration, TypeOK
    <3>2. token[c] # 0
      BY <3>1
    <3>. QED
      BY <1>4, <3>1, <3>2
  <2>. QED
    BY <2>1, <2>2
<1>6. ASSUME token' = token, registry'[k] \in {0, registry[k]}
      PROVE  registry'[k] = 0 \/ token'[c] <= registry'[k]
  BY <1>4, <1>6
<1>. QED
  BY <1>2, <1>3, <1>5, <1>6, TokenStep DEF TokensAreFresh, Undisturbed

\* Two listeners wait for one key only if the older one was replaced by a call
\* that asked for it: registering while another is registered is impossible.
THEOREM OnePerKey ==
  ASSUME Undisturbed, "cancel" \notin Env
  PROVE  Spec => []OneListenerPerKey
<1>. DEFINE J == IInv /\ SlotInv /\ LostToReplacement /\ TokensGrow
<1>1. Init => J
  BY InitIInv, InitSlot DEF Init, LostToReplacement, TokensGrow, Proc
<1>2. J /\ [Next]_vars => J'
  BY NextIInv, SlotStep, LostStep, GrowStep DEF Undisturbed
<1>3. J => OneListenerPerKey
  <2>. SUFFICES ASSUME J, NEW c \in Call, NEW d \in Call, pc[c] = "wait", pc[d] = "wait",
                       key[c] = key[d], fut[c] = Pending, fut[d] = Pending, token[c] < token[d]
                PROVE  Replaced(c)
    BY DEF OneListenerPerKey
  <2>1. token[c] \in Nat /\ token[d] \in Nat
    BY DEF IInv, OwnershipInv, TypeOK
  <2>2. token[d] # 0 /\ token[c] # 0
    <3>1. c \in Proc /\ c # None /\ at[c] \in Session /\ key[c] \in Key
      BY StartedType DEF Proc, IInv, OwnershipInv
    <3>2. Listener(at[c], key[c]) = c
      BY DEF SlotInv, PlaceInv, WaitsInDict
    <3>3. token[c] # 0
      BY <3>1, <3>2 DEF SlotInv, PlaceInv, GenerationInv, HasToken
    <3>. QED
      BY <2>1, <3>3
  <2>3. registry[key[c]] # token[c]
    <3>1. registry[key[c]] = 0 \/ token[d] <= registry[key[c]]
      BY <2>2 DEF TokensGrow
    <3>. QED
      BY <2>1, <2>2, <3>1
  <2>. QED
    BY <2>3 DEF LostToReplacement
<1>. QED
  BY <1>1, <1>2, <1>3, PTL DEF Spec

(***************************************************************************)
(* The refinement.  A call gets its token with its registration, and each  *)
(* registration is a call's, for its key: that call is the owner.          *)
(***************************************************************************)
NoTokenEarly == \A c \in Call : pc[c] \in Early => token[c] = 0

RegisteredToCall ==
  \A k \in Key : registry[k] # 0 => \E c \in Call : token[c] = registry[k] /\ key[c] = k

\* An update is given once, by the last step of its resolve().
GivenIsDone == \A c \in Call, u \in Update : fut[c] = u => pc[u] = "done"

OwnerInv == NoTokenEarly /\ RegisteredToCall /\ GivenIsDone

LEMMA EarlyStays ==
  ASSUME TypeOK, [Next]_vars, NEW c \in Call, pc'[c] \in Early
  PROVE  pc[c] \in Early
<1>1. CASE pc'[c] \in {"idle", "lock"}
  <2>1. CASE Begins(c)
    BY <2>1 DEF Begins, Listen, Early
  <2>2. CASE ~Begins(c)
    BY <1>1, <2>2, PlaceSteps DEF PlaceStep, MovesOn, Early
  <2>. QED
    BY <2>1, <2>2
<1>2. CASE pc'[c] \in {"checked", "replaced"}
  <2>1. pc'[c] = pc[c] \/ ListenAcquire(c) \/ ListenReplace(c)
    BY <1>2, ArriveStep DEF Arrives
  <2>. QED
    BY <2>1 DEF ListenAcquire, ListenReplace, Early
<1>. QED
  BY <1>1, <1>2 DEF Early

LEMMA OwnerStep ==
  ASSUME IInv, SlotInv, Undisturbed, OwnerInv, [Next]_vars
  PROVE  NoTokenEarly' /\ RegisteredToCall'
<1>. USE DEF IInv, OwnershipInv, SlotInv, PlaceInv, OwnerInv
<1>t. TokensAreFresh
  BY DEF TokensAreFresh, Undisturbed
<1>1. ASSUME NEW c \in Call, pc'[c] \in Early
      PROVE  token'[c] = 0
  <2>1. token[c] = 0
    BY <1>1, EarlyStays DEF NoTokenEarly
  <2>2. ASSUME NEW d \in Call, NewRegistration(d)
        PROVE  token'[c] = 0
    <3>1. c # d
      BY <1>1, <2>2 DEF NewRegistration, Early
    <3>. QED
      BY <2>1, <2>2, <3>1 DEF NewRegistration, TypeOK
  <2>. QED
    BY <2>1, <2>2, <1>t, TokenStep
<1>2. ASSUME NEW k \in Key, registry'[k] # 0
      PROVE  \E c \in Call : token'[c] = registry'[k] /\ key'[c] = k
  <2>1. ASSUME NEW c \in Call, token[c] # 0
        PROVE  key'[c] = key[c]
    <3>1. ~Begins(c)
      BY <2>1 DEF Begins, Listen, OneTokenEach
    <3>. QED
      BY <3>1, PlaceSteps DEF PlaceStep
  <2>2. ASSUME NEW d \in Call, NewRegistration(d)
        PROVE  \E c \in Call : token'[c] = registry'[k] /\ key'[c] = k
    <3>0. key'[d] = key[d] /\ token[d] = 0 /\ key[d] \in Key
      <4>1. pc'[d] = "registered" /\ pc[d] \in Early /\ d \in Proc
        BY <2>2 DEF NewRegistration, Proc
      <4>2. ListenRegister(d)
        BY <4>1, ArriveStep DEF Arrives, Early
      <4>. QED
        BY <4>1, <4>2, StartedType DEF ListenRegister, NoTokenEarly
    <3>1. CASE k = key[d]
      BY <2>2, <3>0, <3>1 DEF NewRegistration, TypeOK
    <3>2. CASE k # key[d]
      <4>1. registry'[k] = registry[k]
        BY <2>2, <3>0, <3>2 DEF NewRegistration, TypeOK
      <4>2. PICK c \in Call : token[c] = registry[k] /\ key[c] = k
        BY <1>2, <4>1 DEF RegisteredToCall
      <4>3. c # d /\ token'[c] = token[c]
        BY <1>2, <2>2, <3>0, <4>1, <4>2 DEF NewRegistration, TypeOK
      <4>. QED
        BY <1>2, <2>1, <4>1, <4>2, <4>3
    <3>. QED
      BY <3>1, <3>2
  <2>3. CASE token' = token /\ registry'[k] \in {0, registry[k]}
    <3>1. registry'[k] = registry[k]
      BY <1>2, <2>3
    <3>2. PICK c \in Call : token[c] = registry[k] /\ key[c] = k
      BY <1>2, <3>1 DEF RegisteredToCall
    <3>3. token'[c] = token[c]
      BY <2>3
    <3>. QED
      BY <1>2, <2>1, <3>1, <3>2, <3>3
  <2>. QED
    BY <2>2, <2>3, <1>t, TokenStep
<1>. QED
  BY <1>1, <1>2 DEF NoTokenEarly, RegisteredToCall

\* A coroutine that has ended does not move again.
LEMMA DoneIsFinal ==
  ASSUME TypeOK, [Next]_vars, NEW q \in Proc, pc[q] = "done"
  PROVE  pc'[q] = "done"
<1>m. ASSUME NEW p \in Proc, NEW l, Goto(p, l), pc[p] # "done"
      PROVE  pc'[q] = "done"
  BY <1>m DEF Goto, TypeOK
<1>v. ASSUME NEW p \in Proc, NEW r, Leave(p, r), pc[p] # "done"
      PROVE  pc'[q] = "done"
  BY <1>v, <1>m DEF Leave
<1>1. ASSUME NEW d \in Call, ListenStep(d)
      PROVE  pc'[q] = "done"
  <2>1. CASE DoneCallback(d)
    BY <2>1 DEF DoneCallback, procVars
  <2>2. CASE ~DoneCallback(d)
    <3>1. CASE ListenPublish(d)
      BY <3>1 DEF ListenPublish, procVars
    <3>2. CASE ~ListenPublish(d)
      <4>1. d \in Proc /\ pc[d] # "done" /\ ((\E l : Goto(d, l)) \/ \E r : Leave(d, r))
        BY <1>1, <2>2, <3>2
           DEF ListenStep, ListenAcquire, ListenReject, ListenReplace, ListenOutOfSync,
               ListenRegister, ListenStore, Wake, Finally, Proc
      <4>. QED
        BY <4>1, <1>m, <1>v
    <3>. QED
      BY <3>1, <3>2
  <2>. QED
    BY <2>1, <2>2
<1>2. ASSUME NEW u \in Update, ResolveStep(u)
      PROVE  pc'[q] = "done"
  <2>1. u \in Proc /\ pc[u] # "done" /\ ((\E l : Goto(u, l)) \/ \E r : Leave(u, r))
    BY <1>2 DEF ResolveStep, ResolveAcquire, ResolveDiscard, ResolveBypass, ResolvePublish,
                ResolveDeliver,
                Verify, Proc
  <2>. QED
    BY <2>1, <1>m, <1>v
<1>3. ASSUME NEW s \in Session, SessionStep(s)
      PROVE  pc'[q] = "done"
  <2>1. CASE Crash(s)
    BY <2>1 DEF Crash, TypeOK
  <2>2. CASE ~Crash(s)
    BY <1>3, <2>2 DEF SessionStep, Stop, StopMemory, Unsubscribe, BulkUnregister, ForgetOwned,
                      Start, Cancel, StopCancel, CancelAlone, procVars
  <2>. QED
    BY <2>1, <2>2
<1>4. ASSUME NEW p \in Proc, \/ \E s \in Session, k \in Key : Listen(p, s, k) \/ Resolve(p, s, k)
                             \/ GiveUpLock(p) \/ AbortAnywhere(p)
      PROVE  pc'[q] = "done"
  <2>1. pc[p] # "done" /\ (Goto(p, "lock") \/ Goto(p, "done"))
    BY <1>4 DEF Listen, Resolve, GiveUpLock, AbortAnywhere
  <2>. QED
    BY <2>1, <1>m
<1>5. ASSUME \/ UNCHANGED vars
             \/ \E d \in Call : Timeout(d) \/ Abort(d) \/ GiveUpLate(d)
             \/ \E m \in signals : ApplySignal(m) \/ LoseSignal(m)
             \/ \E m \in unsent : CancelPublish(m) \/ AbortCancel(m)
             \/ \E ch \in Chat : LockExpires(ch)
      PROVE  pc'[q] = "done"
  BY <1>5 DEF Timeout, Abort, GiveUp, GiveUpLate, ApplySignal, LoseSignal, LockExpires,
              CancelPublish, AbortCancel, vars,
              procVars
<1>. QED
  BY <1>1, <1>2, <1>3, <1>4, <1>5 DEF Next, Proc

LEMMA GivenStep ==
  ASSUME TypeOK, GivenIsDone, [Next]_vars
  PROVE  GivenIsDone'
<1>. SUFFICES ASSUME NEW c \in Call, NEW u \in Update, fut'[c] = u
              PROVE  pc'[u] = "done"
  BY DEF GivenIsDone
<1>. u \in Proc
  BY DEF Proc
<1>1. CASE fut[c] = u
  BY <1>1, DoneIsFinal DEF GivenIsDone
<1>2. CASE fut[c] # u
  <2>1. u \notin {"cancelled", "timeout", "aborted"}
    BY DEF Failures
  <2>2. ResolveDeliver(u)
    BY <1>2, <2>1, FutureIsSetOnce
  <2>. QED
    BY <2>2 DEF ResolveDeliver, Leave, Goto, TypeOK
<1>. QED
  BY <1>1, <1>2

LEMMA InitOwner == Init => OwnerInv
BY DEF Init, OwnerInv, NoTokenEarly, RegisteredToCall, GivenIsDone, Pending, Proc

\* The inductive invariant of the refinement.
RInv == IInv /\ SlotInv /\ OwnerInv

LEMMA NextRInv ==
  ASSUME RInv, Undisturbed, [Next]_vars
  PROVE  RInv'
BY NextIInv, SlotStep, OwnerStep, GivenStep DEF RInv, IInv, OwnerInv, Undisturbed

\* Owner is what its definition means it to be.
OwnersAgree ==
  /\ \A k \in Key, c \in Call : Owner[k] = c <=> token[c] = registry[k] /\ token[c] # 0
  /\ \A k \in Key : Owner[k] = None <=> registry[k] = 0
  /\ Owner = [k \in Key |-> Owner[k]]

LEMMA OwnersAre == RInv => OwnersAgree
<1>. SUFFICES ASSUME RInv PROVE OwnersAgree
  OBVIOUS
<1>. USE DEF RInv, SlotInv, PlaceInv, OwnerInv
<1>. None \notin Call
  BY DEF Proc
<1>1. ASSUME NEW k \in Key, NEW c \in Call, token[c] = registry[k], token[c] # 0
      PROVE  Owner[k] = c
  <2>1. \A d \in Call : token[d] = registry[k] => d = c
    BY <1>1 DEF OneTokenEach
  <2>. QED
    BY <1>1, <2>1 DEF Owner
<1>2. ASSUME NEW k \in Key, registry[k] # 0
      PROVE  \E c \in Call : token[c] = registry[k] /\ token[c] # 0 /\ Owner[k] = c
  BY <1>1, <1>2 DEF RegisteredToCall
<1>3. \A k \in Key : registry[k] = 0 => Owner[k] = None
  BY DEF Owner
<1>4. Owner = [k \in Key |-> Owner[k]]
  BY DEF Owner
<1>. QED
  BY <1>1, <1>2, <1>3, <1>4 DEF OwnersAgree

\* A registration is a claim.
LEMMA RegistrationClaims ==
  ASSUME RInv, RInv', NEW c \in Call, NewRegistration(c), [Next]_vars
  PROVE  Slots!Claim(c, key[c])
<1>o. OwnersAgree /\ OwnersAgree'
  BY OwnersAre, PTL
<1>. USE DEF RInv, IInv, OwnershipInv, SlotInv, PlaceInv, OwnerInv
<1>1. /\ ListenRegister(c) /\ ~Registered(key[c]) /\ token[c] = 0 /\ key[c] \in Key
      /\ key' = key /\ fut' = fut
  <2>1. c \in Proc /\ pc'[c] = "registered" /\ pc[c] \in Early
    BY DEF NewRegistration, Proc
  <2>2. ListenRegister(c)
    BY <2>1, ArriveStep DEF Arrives, Early
  <2>3. ~Registered(key[c])
    BY <2>1, <2>2 DEF ListenRegister, Leave, Goto, TypeOK
  <2>. QED
    BY <2>1, <2>2, <2>3, StartedType DEF ListenRegister, NoTokenEarly
<1>2. /\ token' = [token EXCEPT ![c] = issued + 1]
      /\ registry' = [registry EXCEPT ![key[c]] = issued + 1]
      /\ issued + 1 # 0
  BY DEF NewRegistration, TypeOK
<1>3. SlotOf[c] = None /\ Owner[key[c]] = None
  BY <1>1, <1>o DEF SlotOf, Registered, OwnersAgree
<1>4. SlotOf' = [SlotOf EXCEPT ![c] = key[c]]
  <2>1. ASSUME NEW d \in Call
        PROVE  SlotOf'[d] = IF d = c THEN key[c] ELSE SlotOf[d]
    BY <1>1, <1>2 DEF SlotOf, TypeOK
  <2>. QED
    BY <2>1 DEF SlotOf
<1>5. Owner' = [Owner EXCEPT ![key[c]] = c]
  <2>1. Owner'[key[c]] = c
    BY <1>o, <1>1, <1>2 DEF OwnersAgree, TypeOK
  <2>2. ASSUME NEW k \in Key, k # key[c]
        PROVE  Owner'[k] = Owner[k]
    <3>1. registry'[k] = registry[k]
      BY <1>1, <1>2, <2>2 DEF TypeOK
    <3>2. CASE registry[k] = 0
      BY <1>o, <3>1, <3>2 DEF OwnersAgree
    <3>3. ASSUME NEW d \in Call, token[d] = registry[k], registry[k] # 0
          PROVE  Owner'[k] = Owner[k]
      <4>1. token'[d] = token[d]
        BY <1>1, <1>2, <3>3 DEF TypeOK
      <4>. QED
        BY <1>o, <3>1, <3>3, <4>1 DEF OwnersAgree
    <3>. QED
      BY <3>2, <3>3 DEF RegisteredToCall
  <2>3. Owner = [k \in Key |-> Owner[k]] /\ Owner' = [k \in Key |-> Owner'[k]]
    BY <1>o DEF OwnersAgree
  <2>. QED
    BY <2>1, <2>2, <2>3
<1>. QED
  BY <1>1, <1>3, <1>4, <1>5 DEF Slots!Claim

\* Between registrations the slots of the calls stay, and owners only go.
LEMMA SlotsStay ==
  ASSUME RInv, [Next]_vars, token' = token
  PROVE  SlotOf' = SlotOf
<1>1. ASSUME NEW c \in Call, token[c] # 0
      PROVE  key'[c] = key[c]
  <2>1. ~Begins(c)
    BY <1>1 DEF Begins, Listen, OneTokenEach, RInv, SlotInv, PlaceInv
  <2>. QED
    BY <2>1, PlaceSteps DEF PlaceStep, RInv, IInv
<1>. QED
  BY <1>1 DEF SlotOf

LEMMA OthersWithdraw ==
  ASSUME RInv, RInv', Undisturbed, [Next]_vars, token' = token,
         \A k \in Key : registry'[k] \in {0, registry[k]},
         \A c \in Call : fut'[c] # fut[c] => fut'[c] = "cancelled"
  PROVE  \E vacated \in SUBSET Key, cancelled \in SUBSET Call :
           Slots!Withdraw(vacated, cancelled)
<1>. DEFINE vacated == {k \in Key : registry'[k] = 0}
            cancelled == {c \in Call : fut'[c] # fut[c]}
<1>o. OwnersAgree /\ OwnersAgree'
  BY OwnersAre, PTL
<1>1. Owner' = [k \in Key |-> IF registry'[k] = 0 THEN None ELSE Owner[k]]
  <2>1. ASSUME NEW k \in Key, registry'[k] # 0
        PROVE  Owner'[k] = Owner[k]
    <3>1. registry'[k] = registry[k]
      BY <2>1
    <3>2. PICK c \in Call : token[c] = registry[k]
      BY <2>1, <3>1 DEF RInv, OwnerInv, RegisteredToCall
    <3>. QED
      BY <1>o, <2>1, <3>1, <3>2 DEF OwnersAgree
  <2>2. Owner' = [k \in Key |-> Owner'[k]] /\ \A k \in Key : registry'[k] = 0 => Owner'[k] = None
    BY <1>o DEF OwnersAgree
  <2>. QED
    BY <2>1, <2>2
<1>2. ASSUME NEW c \in Call, fut'[c] # fut[c]
      PROVE  fut[c] = Pending /\ fut'[c] = "cancelled" /\ SlotOf[c] = key[c] /\ key[c] \in Key
             /\ Owner'[key[c]] # c
  <2>1. fut[c] = Pending /\ fut'[c] = "cancelled"
    BY <1>2, FutureIsSetOnce DEF RInv, IInv
  <2>2. key[c] \in Key /\ token[c] # 0 /\ registry'[key[c]] # token[c]
    BY <2>1, CancelledStep DEF RInv, SlotInv, PlaceInv, Undisturbed, TokensAreFresh
  <2>. QED
    BY <1>o, <2>1, <2>2 DEF SlotOf, OwnersAgree
<1>3. fut' = [c \in Call |-> IF c \in cancelled THEN "cancelled" ELSE fut[c]]
  BY <1>2 DEF RInv, IInv, TypeOK
<1>4. Owner' = [k \in Key |-> IF k \in vacated THEN None ELSE Owner[k]]
  BY <1>1
<1>5. \A c \in cancelled : /\ SlotOf[c] # None /\ fut[c] = "pending"
                           /\ Owner'[SlotOf[c]] # c
  BY <1>2 DEF Pending, Proc
<1>6. Slots!Withdraw(vacated, cancelled)
  BY <1>3, <1>4, <1>5, SlotsStay DEF Slots!Withdraw
<1>. QED
  BY <1>6

\* A step that cancels nobody and registers nobody may still give one listener
\* its update, or let one go.
LEMMA OtherSteps ==
  ASSUME RInv, RInv', Undisturbed, [Next]_vars, token' = token, NEW c \in Call,
         fut'[c] # fut[c], fut'[c] # "cancelled"
  PROVE  \/ \E u \in Update : Slots!Deliver(c, u)
         \/ \E why \in {"timeout", "aborted"} : Slots!GiveUp(c, why)
<1>. USE DEF RInv, IInv, OwnershipInv, SlotInv, PlaceInv, OwnerInv
<1>o. OwnersAgree
  BY OwnersAre
<1>s. SlotOf' = SlotOf
  BY SlotsStay
<1>r. ASSUME registry' = registry
      PROVE  Owner' = Owner
  BY <1>r DEF Owner
<1>1. ASSUME NEW u \in Update, ResolveDeliver(u), cand[u] = c, fut'[c] = u, fut[c] = Pending
      PROVE  Slots!Deliver(c, u)
  <2>1. pc[u] = "verified" /\ saw[u] /\ fut' = [fut EXCEPT ![c] = u] /\ registry' = registry
    BY <1>1 DEF ResolveDeliver
  <2>2. registry[key[c]] = token[c] /\ token[c] # 0 /\ key[c] \in Key
    <3>1. u \in Proc /\ key[u] \in Key /\ Slot(u) \in Key
      BY <2>1, StartedType DEF CandidateFound, Slot, Proc
    <3>. QED
      BY <1>1, <2>1, <3>1 DEF CandidateStillOwns, Undisturbed, GenerationInv, CandidateStaysLost
  <2>3. \A d \in Call : fut[d] # u
    BY <2>1 DEF GivenIsDone
  <2>4. SlotOf[c] = key[c] /\ key[c] # None /\ Owner[key[c]] = c
    BY <1>o, <2>2 DEF SlotOf, OwnersAgree
  <2>. QED
    BY <1>1, <1>s, <1>r, <2>1, <2>3, <2>4 DEF Slots!Deliver, Pending
<1>2. ASSUME NEW why \in {"timeout", "aborted"}, GiveUp(c, why), fut[c] = Pending
      PROVE  Slots!GiveUp(c, why)
  <2>1. pc[c] = "wait" /\ fut' = [fut EXCEPT ![c] = why] /\ registry' = registry
    BY <1>2 DEF GiveUp, coordVars
  <2>2. token[c] # 0 /\ key[c] \in Key
    <3>1. c \in Proc /\ at[c] \in Session /\ key[c] \in Key /\ c # None
      BY <2>1, StartedType DEF Proc
    <3>2. Listener(at[c], key[c]) = c
      BY <1>2, <2>1 DEF WaitsInDict
    <3>. QED
      BY <3>1, <3>2 DEF GenerationInv, HasToken
  <2>3. SlotOf[c] # None
    BY <2>2 DEF SlotOf
  <2>. QED
    BY <1>2, <1>s, <1>r, <2>1, <2>3 DEF Slots!GiveUp, Pending
<1>. QED
  BY <1>1, <1>2, FutureIsSetOnce

LEMMA SlotsNext ==
  ASSUME RInv, RInv', Undisturbed, [Next]_vars
  PROVE  Slots!Next
<1>1. CASE \E c \in Call : NewRegistration(c)
  <2>1. PICK c \in Call : NewRegistration(c)
    BY <1>1
  <2>2. key[c] \in Key
    <3>1. c \in Proc /\ pc'[c] = "registered" /\ pc[c] \in Early /\ TypeOK
      BY <2>1 DEF NewRegistration, Proc, RInv, IInv
    <3>. QED
      BY <3>1, ArriveStep, StartedType DEF Arrives, ListenRegister, Early
  <2>. QED
    BY <2>1, <2>2, RegistrationClaims DEF Slots!Next
<1>2. CASE token' = token /\ \A k \in Key : registry'[k] \in {0, registry[k]}
  <2>1. CASE \A c \in Call : fut'[c] # fut[c] => fut'[c] = "cancelled"
    BY <1>2, <2>1, OthersWithdraw DEF Slots!Next
  <2>2. CASE \E c \in Call : fut'[c] # fut[c] /\ fut'[c] # "cancelled"
    BY <1>2, <2>2, OtherSteps DEF Slots!Next
  <2>. QED
    BY <2>1, <2>2
<1>. QED
  BY <1>1, <1>2, TokenStep DEF RInv, IInv, OwnershipInv, TokensAreFresh, Undisturbed

(***************************************************************************)
(* As long as no session stops and no lock outlives its TTL, listen() and  *)
(* resolve() in all sessions implement ListenerSlots, on either backend,   *)
(* with every other fault: a key has one owner, an update goes to the      *)
(* owner and to nobody else, and only who lost its key is cancelled.       *)
(***************************************************************************)
THEOREM SlotsImplemented ==
  ASSUME Undisturbed
  PROVE  Spec => ImplementsSlots
<1>1. Init => RInv
  BY InitIInv, InitSlot, InitOwner DEF RInv
<1>2. RInv /\ [Next]_vars => RInv'
  BY NextRInv
<1>3. Init => Slots!Init
  BY DEF Init, Slots!Init, Owner, SlotOf, Pending
<1>4. RInv /\ RInv' /\ [Next]_vars => [Slots!Next]_(Slots!vars)
  BY SlotsNext
<1>. QED
  BY <1>1, <1>2, <1>3, <1>4, PTL DEF Spec, ImplementsSlots, Slots!Spec

(***************************************************************************)
(* The search.  While resolve() holds the lock of the chat nobody takes a  *)
(* place in a dict, so what the search has passed by stays empty.          *)
(***************************************************************************)
SearchInv ==
  \A u \in Update : pc[u] = "verified" =>
    /\ \A i \in 1..(rung[u] - 1) : Listener(at[u], SubKeys[key[u]][i]) = None
    /\ Listener(at[u], Slot(u)) \in {None, cand[u]}

LEMMA SearchStep ==
  ASSUME IInv, SearchInv, [Next]_vars
  PROVE  SearchInv'
<1>. USE DEF IInv, OwnershipInv
<1>. SUFFICES ASSUME NEW u \in Update, pc'[u] = "verified"
              PROVE  (/\ \A i \in 1..(rung[u] - 1) : Listener(at[u], SubKeys[key[u]][i]) = None
                      /\ Listener(at[u], Slot(u)) \in {None, cand[u]})'
  BY DEF SearchInv
<1>. u \in Proc /\ u \notin Call
  BY DEF Proc
<1>1. PICK s \in Session, k \in Key : /\ s = at[u] /\ at'[u] = s
                                      /\ k = key[u] /\ key'[u] = k /\ pc[u] # "idle"
  BY VerifiedStep, SessionStays, StartedType
<1>2. \A i \in DOMAIN SubKeys[k] : SubKeys[k][i] \in Key /\ ChatOf[SubKeys[k][i]] = ChatOf[k]
  OBVIOUS
<1>3. CASE pc[u] = "verified" /\ rung'[u] = rung[u] /\ cand'[u] = cand[u]
  <2>1. rung[u] \in DOMAIN SubKeys[k] /\ lock[ChatOf[k]] = u
    BY <1>1, <1>3 DEF CandidateFound, LockedInside, InCriticalSection, Holds
  <2>2. ASSUME NEW i \in DOMAIN SubKeys[k]
        PROVE  local'[s][SubKeys[k][i]] \in {None, local[s][SubKeys[k][i]]}
    <3>1. ASSUME NEW c \in Call, ListenStore(c), SubKeys[k][i] = key[c]
          PROVE  FALSE
      <4>1. c \in Proc /\ lock[ChatOf[key[c]]] = c
        BY <3>1 DEF ListenStore, LockedInside, InCriticalSection, Holds, Proc
      <4>. QED
        BY <1>2, <2>1, <2>2, <3>1, <4>1
    <3>. QED
      BY <1>2, <3>1, LocalStep
  <2>3. \A i \in 1..(rung[u] - 1) : i \in DOMAIN SubKeys[k] /\ local[s][SubKeys[k][i]] = None
    BY <1>1, <1>3, <2>1, SMTT(30) DEF SearchInv, Listener
  <2>4. local[s][SubKeys[k][rung[u]]] \in {None, cand[u]}
    BY <1>1, <1>3 DEF SearchInv, Listener, Slot
  <2>5. \A i \in 1..(rung[u] - 1) : local'[s][SubKeys[k][i]] = None
    BY <2>2, <2>3
  <2>6. local'[s][SubKeys[k][rung[u]]] \in {None, cand[u]}
    BY <2>1, <2>2, <2>4
  <2>. QED
    BY <1>1, <1>3, <2>5, <2>6 DEF Listener, Slot
<1>4. ASSUME ResolveAcquire(u)
      PROVE  (/\ \A i \in 1..(rung[u] - 1) : Listener(at[u], SubKeys[key[u]][i]) = None
              /\ Listener(at[u], Slot(u)) \in {None, cand[u]})'
  <2>1. PICK j \in DOMAIN SubKeys[k] : FirstMatch(u, 1, j) /\ Verify(u, j)
    BY <1>1, <1>4 DEF ResolveAcquire, Goto, TypeOK
  <2>2. rung'[u] = j /\ cand'[u] = local[s][SubKeys[k][j]] /\ local' = local
    BY <1>1, <1>4, <2>1 DEF ResolveAcquire, Verify, Listener, sessionVars, TypeOK
  <2>3. \A i \in 1..(j - 1) : local[s][SubKeys[k][i]] = None
    <3>. TAKE i \in 1..(j - 1)
    <3>1. SubKeys[k] \in Seq(Key)
      OBVIOUS
    <3>2. PICK n \in Nat : DOMAIN SubKeys[k] = 1..n
      BY <3>1
    <3>3. i \in 1..n /\ ~(j <= i)
      BY <2>1, <3>2
    <3>4. \A m \in DOMAIN SubKeys[k] : local[s][SubKeys[k][m]] # None /\ m >= 1 => j <= m
      BY <1>1, <2>1, Zenon DEF FirstMatch, Listener
    <3>5. i \in DOMAIN SubKeys[k] /\ i >= 1
      BY <3>2, <3>3
    <3>. QED
      BY <3>3, <3>4, <3>5, Zenon
  <2>. QED
    BY <1>1, <2>2, <2>3 DEF Listener, Slot
<1>5. ASSUME ResolveDiscard(u)
      PROVE  (/\ \A i \in 1..(rung[u] - 1) : Listener(at[u], SubKeys[key[u]][i]) = None
              /\ Listener(at[u], Slot(u)) \in {None, cand[u]})'
  <2>1. PICK j \in DOMAIN SubKeys[k] : FirstMatch(u, rung[u] + 1, j) /\ Verify(u, j)
    BY <1>1, <1>5 DEF ResolveDiscard, Leave, Goto, TypeOK
  <2>2. rung'[u] = j /\ cand'[u] = local[s][SubKeys[k][j]] /\ rung[u] \in DOMAIN SubKeys[k]
    BY <1>1, <1>5, <2>1 DEF ResolveDiscard, Verify, Listener, CandidateFound, TypeOK
  <2>3. PICK slot \in Key : slot = SubKeys[k][rung[u]] /\ Slot(u) = slot
    BY <1>1, <2>2 DEF Slot
  <2>4. local[s][slot] \in {None, cand[u]}
    BY <1>1, <1>5, <2>3 DEF SearchInv, ResolveDiscard, Listener
  <2>5. \/ local' = [local EXCEPT ![s][slot] = None]
        \/ local' = local /\ local[s][slot] = None
    BY <1>1, <1>5, <2>3, <2>4 DEF ResolveDiscard, DropLocal, Listener
  <2>6. /\ local'[s][slot] = None
        /\ \A i \in DOMAIN SubKeys[k] :
             local'[s][SubKeys[k][i]] \in {None, local[s][SubKeys[k][i]]}
    <3>1. ASSUME NEW m \in Key
          PROVE  local'[s][m] \in {None, local[s][m]}
      <4>1. CASE local' = [local EXCEPT ![s][slot] = None] /\ m = slot
        BY <4>1 DEF TypeOK
      <4>2. CASE local' = [local EXCEPT ![s][slot] = None] /\ m # slot
        BY <4>2 DEF TypeOK
      <4>. QED
        BY <2>5, <4>1, <4>2
    <3>2. local'[s][slot] = None
      BY <2>5, SMTT(30) DEF TypeOK
    <3>. QED
      BY <1>2, <3>1, <3>2
  <2>7. \A i \in 1..(rung[u] - 1) : i \in DOMAIN SubKeys[k] /\ local[s][SubKeys[k][i]] = None
    <3>1. \A i \in 1..(rung[u] - 1) : local[s][SubKeys[k][i]] = None
      BY <1>1, <1>5 DEF SearchInv, Listener, ResolveDiscard
    <3>2. \A i \in 1..(rung[u] - 1) : i \in DOMAIN SubKeys[k]
      BY <2>2
    <3>. QED
      BY <3>1, <3>2
  <2>8. \A i \in DOMAIN SubKeys[k] : i >= rung[u] + 1 /\ i < j => local[s][SubKeys[k][i]] = None
    BY <1>1, <2>1, <2>2, SMTT(30) DEF FirstMatch, Listener
  <2>9. ASSUME NEW i \in 1..(j - 1)
        PROVE  local'[s][SubKeys[k][i]] = None
    <3>1. /\ i \in DOMAIN SubKeys[k]
          /\ \/ i \in 1..(rung[u] - 1) \/ i = rung[u]
             \/ i >= rung[u] + 1 /\ i < j
      BY <2>2, SMTT(30)
    <3>. QED
      BY <2>3, <2>6, <2>7, <2>8, <3>1
  <2>. QED
    BY <1>1, <2>2, <2>6, <2>9 DEF Listener, Slot
<1>. QED
  BY <1>3, <1>4, <1>5, VerifiedStep DEF JustVerified

(***************************************************************************)
(* An update goes to the most specific of the session's listeners that     *)
(* match it: those the search passed by were gone, and stayed so.          *)
(***************************************************************************)
THEOREM MostSpecific ==
  ASSUME "expire" \notin Env
  PROVE  Spec => DeliveredToMostSpecific
<1>1. IInv /\ SearchInv /\ [Next]_vars => (IInv /\ SearchInv)'
  BY NextIInv, SearchStep
<1>2. Init => IInv /\ SearchInv
  BY InitIInv DEF Init, SearchInv, Proc
<1>3. ASSUME IInv, SearchInv, [Next]_vars
      PROVE  [\A u \in Update, c \in Call :
                fut[c] = Pending /\ fut'[c] = u =>
                  \A i \in 1..(rung[u] - 1) :
                    LET k == SubKeys[key[u]][i]
                        l == Listener(at[u], k)
                    IN l # None /\ fut[l] = Pending => registry[k] # token[l]]_vars
  <2>1. ASSUME NEW u \in Update, NEW c \in Call, fut[c] = Pending, fut'[c] = u
        PROVE  \A i \in 1..(rung[u] - 1) : Listener(at[u], SubKeys[key[u]][i]) = None
    <3>1. PICK v \in Update : ResolveDeliver(v) /\ cand[v] = c
      BY <1>3, <2>1, DeliveryStep DEF IInv
    <3>2. v = u /\ pc[v] = "verified"
      BY <1>3, <2>1, <3>1 DEF ResolveDeliver, IInv, TypeOK
    <3>. QED
      BY <1>3, <3>2 DEF SearchInv
  <2>. QED
    BY <2>1
<1>. QED
  BY <1>1, <1>2, <1>3, PTL DEF Spec, DeliveredToMostSpecific

\* How the outcome of an update comes to be.
UpdatesUndecided ==
  \A u \in Update :
    /\ pc[u] \in {"idle", "lock", "verified", "bypassed"} => outcome[u] = "none"
    /\ pc[u] = "bypassed" => "bypass" \in Env

LEMMA UpdateMoves ==
  ASSUME TypeOK, [Next]_vars, NEW u \in Update
  PROVE  \/ pc'[u] = pc[u] /\ outcome'[u] = outcome[u]
         \/ \E s \in Session, k \in Key : Resolve(u, s, k)
         \/ ResolveStep(u)
         \/ pc'[u] = "done" /\ outcome'[u] = "lock_error"
         \/ pc'[u] = "crashed" /\ outcome'[u] = outcome[u]
<1>. DEFINE Still == pc'[u] = pc[u] /\ outcome'[u] = outcome[u]
<1>. u \in Proc /\ u \notin Call
  BY DEF Proc
<1>m. ASSUME NEW p \in Proc, p # u,
             \/ \E l : Goto(p, l) /\ UNCHANGED outcome
             \/ \E l, r : Goto(p, l) /\ outcome' = [outcome EXCEPT ![p] = r]
             \/ \E r : Leave(p, r)
      PROVE  Still
  BY <1>m DEF Goto, Leave, TypeOK
<1>1. ASSUME NEW d \in Call, ListenStep(d)
      PROVE  Still
  <2>1. CASE DoneCallback(d) \/ ListenPublish(d)
    BY <2>1 DEF DoneCallback, ListenPublish, procVars
  <2>2. CASE Finally(d)
    <3>1. Goto(d, "done") /\ \E r : outcome' = [outcome EXCEPT ![d] = r]
      BY <2>2 DEF Finally
    <3>. QED
      BY <3>1, <1>m DEF Proc
  <2>3. CASE ListenAcquire(d) \/ Wake(d) \/ ListenReject(d) \/ ListenOutOfSync(d)
    BY <2>3, <1>m DEF ListenAcquire, Wake, ListenReject, ListenOutOfSync, Proc
  <2>4. CASE ListenReplace(d)
    BY <2>4, <1>m DEF ListenReplace, Proc
  <2>5. CASE ListenRegister(d)
    BY <2>5, <1>m DEF ListenRegister, Proc
  <2>6. CASE ListenStore(d)
    BY <2>6, <1>m DEF ListenStore, Proc
  <2>. QED
    BY <1>1, <2>1, <2>2, <2>3, <2>4, <2>5, <2>6 DEF ListenStep
<1>2. ASSUME NEW v \in Update, v # u, ResolveStep(v)
      PROVE  Still
  <2>1. \/ \E l : Goto(v, l) /\ UNCHANGED outcome
        \/ \E r : Goto(v, "done") /\ outcome' = [outcome EXCEPT ![v] = r]
        \/ \E r : Leave(v, r)
    BY <1>2 DEF ResolveStep, ResolveAcquire, ResolveDiscard, ResolveBypass, ResolvePublish,
                ResolveDeliver, Verify
  <2>. QED
    BY <1>2, <2>1, <1>m DEF Proc
<1>3. ASSUME NEW s \in Session, SessionStep(s)
      PROVE  Still \/ (pc'[u] = "crashed" /\ outcome'[u] = outcome[u])
  <2>1. CASE Crash(s)
    BY <2>1 DEF Crash, TypeOK
  <2>2. CASE ~Crash(s)
    BY <1>3, <2>2 DEF SessionStep, Stop, StopMemory, Unsubscribe, BulkUnregister, ForgetOwned,
                      Start, Cancel, StopCancel, CancelAlone, procVars
  <2>. QED
    BY <2>1, <2>2
<1>4. ASSUME NEW p \in Proc, NEW s \in Session, NEW k \in Key, p # u, Listen(p, s,
k) \/ Resolve(p, s, k)
      PROVE  Still
  BY <1>4 DEF Listen, Resolve, Goto, TypeOK
<1>5. ASSUME NEW p \in Proc, GiveUpLock(p)
      PROVE  Still \/ (pc'[u] = "done" /\ outcome'[u] = "lock_error")
  BY <1>5 DEF GiveUpLock, Goto, TypeOK
<1>6. ASSUME NEW d \in Call, AbortAnywhere(d) \/ GiveUpLate(d)
      PROVE  Still
  BY <1>6 DEF AbortAnywhere, GiveUpLate, Goto, TypeOK, procVars
<1>7. ASSUME \/ UNCHANGED vars
             \/ \E d \in Call : Timeout(d) \/ Abort(d)
             \/ \E m \in signals : ApplySignal(m) \/ LoseSignal(m)
             \/ \E m \in unsent : CancelPublish(m) \/ AbortCancel(m)
             \/ \E ch \in Chat : LockExpires(ch)
      PROVE  Still
  BY <1>7 DEF Timeout, Abort, GiveUp, ApplySignal, LoseSignal, LockExpires, CancelPublish,
              AbortCancel, vars, procVars
<1>8. ASSUME NEW c \in Call, NEW s \in Session, NEW k \in Key, Listen(c, s, k)
      PROVE  Still
  BY <1>8, <1>4 DEF Proc
<1>9. ASSUME NEW v \in Update, NEW s \in Session, NEW k \in Key, v # u, Resolve(v, s, k)
      PROVE  Still
  BY <1>9, <1>4 DEF Proc
<1>. QED
  BY <1>1, <1>2, <1>3, <1>5, <1>6, <1>7, <1>8, <1>9 DEF Next

LEMMA UndecidedStep ==
  ASSUME TypeOK, UpdatesUndecided, [Next]_vars
  PROVE  UpdatesUndecided'
<1>. SUFFICES ASSUME NEW u \in Update, pc'[u] \in {"idle", "lock", "verified", "bypassed"}
              PROVE  outcome'[u] = "none" /\ (pc'[u] = "bypassed" => "bypass" \in Env)
  BY DEF UpdatesUndecided
<1>. u \in Proc
  BY DEF Proc
<1>1. ASSUME NEW s \in Session, NEW k \in Key, Resolve(u, s, k)
      PROVE  outcome'[u] = "none" /\ pc'[u] # "bypassed"
  BY <1>1 DEF Resolve, Goto, UpdatesUndecided, TypeOK
<1>2. CASE ResolveStep(u)
  <2>1. pc[u] \in {"lock", "verified"}
    BY <1>2 DEF ResolveStep, ResolveAcquire, ResolveDiscard, ResolveBypass, ResolvePublish,
                ResolveDeliver, Leave, Goto, TypeOK
  <2>2. UNCHANGED outcome
    BY <1>2 DEF ResolveStep, ResolveAcquire, ResolveDiscard, ResolveBypass, ResolvePublish,
                ResolveDeliver, Leave, Goto, TypeOK
  <2>3. pc'[u] = "bypassed" => "bypass" \in Env
    BY <1>2 DEF ResolveStep, ResolveAcquire, ResolveDiscard, ResolveBypass, ResolvePublish,
                ResolveDeliver, Verify, Leave, Goto, TypeOK
  <2>. QED
    BY <2>1, <2>2, <2>3 DEF UpdatesUndecided
<1>. QED
  BY <1>1, <1>2, UpdateMoves DEF UpdatesUndecided

(***************************************************************************)
(* Where no update is bypassed, which ends a search at once: an update     *)
(* that is left unresolved was nobody's.  The listeners that matched it    *)
(* were gone, or had lost their registrations.                             *)
(***************************************************************************)
THEOREM Unresolved ==
  ASSUME {"expire", "bypass"} \cap Env = {}, TokensAreFresh
  PROVE  Spec => UnresolvedMeansNobodyWaits
<1>. DEFINE J == IInv /\ GenerationInv /\ SearchInv /\ UpdatesUndecided
<1>1. J /\ [Next]_vars => J'
  BY NextIInv, GenerationStep, SearchStep, UndecidedStep DEF IInv
<1>2. Init => J
  BY InitIInv, InitGeneration DEF Init, SearchInv, UpdatesUndecided, Proc
<1>3. ASSUME J, [Next]_vars
      PROVE  [\A u \in Update :
                pc[u] \in {"lock", "verified", "bypassed"} /\ outcome'[u] = "unresolved" =>
                  \A i \in DOMAIN SubKeys[key[u]] :
                    LET k == SubKeys[key[u]][i]
                        l == Listener(at[u], k)
                    IN l # None /\ fut[l] = Pending => registry'[k] # token[l]]_vars
  <2>. USE DEF IInv, OwnershipInv
  <2>. SUFFICES ASSUME NEW u \in Update, pc[u] \in {"lock", "verified", "bypassed"},
                       outcome'[u] = "unresolved",
                       NEW i \in DOMAIN SubKeys[key[u]],
                       Listener(at[u], SubKeys[key[u]][i]) # None
                PROVE  registry'[SubKeys[key[u]][i]] # token[Listener(at[u], SubKeys[key[u]][i])]
    OBVIOUS
  <2>1. u \in Proc /\ at[u] \in Session /\ key[u] \in Key
    BY <1>3, StartedType DEF Proc
  <2>2. PICK k \in Key : k = SubKeys[key[u]][i]
    BY <2>1
  <2>3. ResolveStep(u)
    <3>1. outcome[u] = "none"
      BY <1>3 DEF UpdatesUndecided
    <3>. QED
      BY <1>3, <3>1, UpdateMoves DEF Resolve
  <2>4. ResolveAcquire(u) \/ ResolveDiscard(u)
    <3>1. outcome \in [Proc -> Outcome]
      BY <1>3 DEF TypeOK
    <3>2. ~ResolveBypass(u) /\ ~ResolvePublish(u)
      BY <1>3 DEF ResolveBypass, ResolvePublish, UpdatesUndecided
    <3>3. ~ResolveDeliver(u)
      BY <2>1, <3>1 DEF ResolveDeliver, Leave
    <3>. QED
      BY <2>3, <3>2, <3>3 DEF ResolveStep
  <2>5. CASE ResolveAcquire(u)
    <3>1. NoMatch(u, 1)
      <4>1. outcome[u] = "none"
        BY <1>3, <2>5 DEF ResolveAcquire, UpdatesUndecided
      <4>. QED
        BY <1>3, <2>5, <4>1 DEF ResolveAcquire
    <3>. QED
      BY <2>1, <3>1 DEF NoMatch
  <2>6. CASE ResolveDiscard(u)
    <3>1. pc[u] = "verified" /\ ~saw[u] /\ registry' = registry
      BY <2>6 DEF ResolveDiscard
    <3>2. rung[u] \in DOMAIN SubKeys[key[u]]
      BY <1>3, <3>1 DEF CandidateFound
    <3>3. NoMatch(u, rung[u] + 1)
      <4>1. outcome[u] = "none"
        BY <1>3, <3>1 DEF UpdatesUndecided
      <4>. QED
        BY <1>3, <2>1, <2>6, <3>1, <4>1, SMTT(30) DEF ResolveDiscard, Leave, TypeOK
    <3>4. i = rung[u]
      <4>1. ~(i >= rung[u] + 1)
        BY <3>3 DEF NoMatch
      <4>2. ~(i \in 1..(rung[u] - 1))
        BY <1>3, <3>1 DEF SearchInv
      <4>. QED
        BY <2>1, <3>2, <4>1, <4>2, SMTT(30)
    <3>5. Slot(u) = SubKeys[key[u]][i] /\ Listener(at[u], Slot(u)) = cand[u]
      BY <1>3, <3>1, <3>4 DEF SearchInv, Slot
    <3>. QED
      BY <1>3, <3>1, <3>5 DEF GenerationInv, CandidateStaysLost
  <2>. QED
    BY <2>4, <2>5, <2>6
<1>. QED
  BY <1>1, <1>2, <1>3, PTL DEF Spec, UnresolvedMeansNobodyWaits

(***************************************************************************)
(* What a session withdraws as it stops: the registrations it remembers    *)
(* when it sweeps.  A listener that waits and is registered is remembered  *)
(* from then on at the latest, or is one of those yet to be cancelled.     *)
(***************************************************************************)
OwnedWhileWaiting ==
  \A c \in Call :
    pc[c] = "wait" /\ fut[c] = Pending /\ registry[key[c]] = token[c] =>
      \/ owned[at[c]][key[c]] = token[c]
      \/ phase[at[c]] \notin {"stopping", "closing"}
      \/ phase[at[c]] = "stopping" /\ key[c] \in active[at[c]]

\* What the registry and a session remember of a key goes together.
LEMMA OwnedStep ==
  ASSUME TypeOK, CandidateFound, Backend = "redis", [Next]_vars, NEW s \in Session, NEW k \in Key,
         owned[s][k] # 0, registry'[k] = owned[s][k]
  PROVE  \/ owned'[s][k] = owned[s][k]
         \/ phase'[s] \in {"crashed", "down"}
         \/ \E c \in Call : ListenStore(c) /\ at[c] = s /\ key[c] = k
<1>. DEFINE Kept == owned'[s][k] = owned[s][k]
<1>x. ASSUME NEW t \in Session, NEW j \in Key, NEW v, owned' = [owned EXCEPT ![t][j] = v],
             ~(t = s /\ j = k)
      PROVE  Kept
  <2>1. CASE t = s
    BY <1>x, <2>1 DEF TypeOK
  <2>2. CASE t # s
    BY <1>x, <2>2 DEF TypeOK
  <2>. QED
    BY <2>1, <2>2
<1>c. ASSUME NEW t \in Session, NEW j \in Key, NEW by, CancelKey(t, j, by)
      PROVE  Kept
  <2>1. CASE CoordinatorCancel(t, j, by)
    <3>1. ~(t = s /\ j = k)
      BY <2>1 DEF CoordinatorCancel, TypeOK
    <3>. QED
      BY <2>1, <3>1, <1>x DEF CoordinatorCancel
  <2>. QED
    BY <1>c, <2>1 DEF CancelKey
<1>1. ASSUME NEW d \in Call, ListenStep(d)
      PROVE  Kept \/ (ListenStore(d) /\ at[d] = s /\ key[d] = k)
  <2>. d \in Proc
    BY DEF Proc
  <2>1. CASE ListenStore(d)
    <3>1. at[d] \in Session /\ key[d] \in Key
      BY <2>1, StartedType DEF ListenStore
    <3>. QED
      BY <2>1, <3>1, <1>x DEF ListenStore
  <2>2. CASE ListenReplace(d)
    <3>1. at[d] \in Session /\ key[d] \in Key
      BY <2>2, StartedType DEF ListenReplace
    <3>2. CancelKey(at[d], key[d], d)
      BY <2>2 DEF ListenReplace
    <3>. QED
      BY <3>1, <3>2, <1>c
  <2>3. CASE Finally(d)
    <3>1. at[d] \in Session /\ key[d] \in Key
      BY <2>3, StartedType DEF Finally
    <3>2. CoordinatorUnregister(at[d], key[d], token[d])
      BY <2>3 DEF Finally
    <3>3. CASE at[d] = s /\ key[d] = k
      <4>1. /\ owned'[s][k] = IF owned[s][k] = token[d] THEN 0 ELSE owned[s][k]
            /\ registry'[k] = IF registry[k] = token[d] THEN 0 ELSE registry[k]
        BY <3>1, <3>2, <3>3 DEF CoordinatorUnregister, TypeOK
      <4>. QED
        BY <4>1
    <3>4. CASE ~(at[d] = s /\ key[d] = k)
      <4>1. \E v : owned' = [owned EXCEPT ![at[d]][key[d]] = v]
        BY <3>2 DEF CoordinatorUnregister
      <4>. QED
        BY <3>1, <3>4, <4>1, <1>x
    <3>. QED
      BY <3>3, <3>4
  <2>. QED
    BY <1>1, <2>1, <2>2, <2>3
       DEF ListenStep, ListenAcquire, ListenReject, ListenPublish, ListenOutOfSync,
           ListenRegister, DoneCallback, Wake, sessionVars
<1>2. ASSUME NEW u \in Update, ResolveStep(u)
      PROVE  Kept
  <2>1. CASE ResolveBypass(u)
    <3>1. at[u] \in Session /\ Slot(u) \in Key
      BY <2>1, StartedType DEF ResolveBypass, CandidateFound, Slot, Proc
    <3>2. CancelKey(at[u], Slot(u), u) \/ owned' = owned
      BY <2>1 DEF ResolveBypass
    <3>. QED
      BY <3>1, <3>2, <1>c
  <2>. QED
    BY <1>2, <2>1
       DEF ResolveStep, ResolveAcquire, ResolveDiscard, ResolvePublish, ResolveDeliver, sessionVars
<1>3. ASSUME NEW t \in Session, SessionStep(t)
      PROVE  Kept \/ phase'[s] \in {"crashed", "down"}
  <2>1. CASE ForgetOwned(t)
    BY <2>1 DEF ForgetOwned, TypeOK
  <2>2. CASE Crash(t)
    BY <2>2 DEF Crash, TypeOK
  <2>3. ASSUME NEW j \in Key, Cancel(t, j) \/ StopCancel(t, j)
        PROVE  Kept
    <3>1. \E by : CancelKey(t, j, by)
      BY <2>3 DEF Cancel, StopCancel, CancelAlone
    <3>. QED
      BY <3>1, <1>c
  <2>. QED
    BY <1>3, <2>1, <2>2, <2>3
       DEF SessionStep, Stop, StopMemory, Unsubscribe, BulkUnregister, Start
<1>4. ASSUME \/ UNCHANGED vars
             \/ \E p \in Proc, t \in Session, j \in Key : Listen(p, t, j) \/ Resolve(p, t, j)
             \/ \E p \in Proc : \/ Timeout(p) \/ Abort(p) \/ GiveUpLate(p)
                                \/ AbortAnywhere(p) \/ GiveUpLock(p)
             \/ \E m \in signals : ApplySignal(m) \/ LoseSignal(m)
             \/ \E m \in unsent : CancelPublish(m) \/ AbortCancel(m)
             \/ \E ch \in Chat : LockExpires(ch)
      PROVE  Kept
  BY <1>4 DEF vars, sessionVars, Listen, Resolve, Timeout, Abort, GiveUp, GiveUpLate,
              AbortAnywhere, GiveUpLock, ApplySignal, LoseSignal, LockExpires, CancelPublish,
              AbortCancel
<1>. QED
  BY <1>1, <1>2, <1>3, <1>4 DEF Next, Proc

LEMMA ActiveMoves ==
  ASSUME [Next]_vars
  PROVE  \/ active' = active
         \/ \E s \in Session : Stop(s) \/ Crash(s) \/ \E k \in Key : StopCancel(s, k)
BY ZenonT(30)
   DEF Next, vars, sessionVars, SessionStep, Cancel, StopMemory, Unsubscribe, BulkUnregister,
       ForgetOwned, Start,
       ListenStep, ListenAcquire, ListenReject, ListenReplace, ListenPublish, ListenOutOfSync,
       ListenRegister, ListenStore, DoneCallback, Wake, Finally, ResolveStep, ResolveAcquire,
       ResolveDiscard, ResolveBypass, ResolvePublish, ResolveDeliver, Listen, Resolve, Timeout,
       Abort, GiveUp, GiveUpLate, AbortAnywhere, GiveUpLock, ApplySignal, LoseSignal,
       LockExpires, CancelPublish, AbortCancel

LEMMA OwnedWhileWaitingStep ==
  ASSUME IInv, PlaceInv, OwnedWhileWaiting, Backend = "redis", [Next]_vars
  PROVE  OwnedWhileWaiting'
<1>. USE DEF IInv, OwnershipInv
<1>. SUFFICES ASSUME NEW c \in Call, pc'[c] = "wait", fut'[c] = Pending,
                     registry'[key'[c]] = token'[c]
              PROVE  (\/ owned[at[c]][key[c]] = token[c]
                      \/ phase[at[c]] \notin {"stopping", "closing"}
                      \/ phase[at[c]] = "stopping" /\ key[c] \in active[at[c]])'
  BY DEF OwnedWhileWaiting
<1>. c \in Proc /\ c # None
  BY DEF Proc
<1>1. CASE ListenStore(c)
  <2>1. at[c] \in Session /\ key[c] \in Key
    BY <1>1, StartedType DEF ListenStore
  <2>. QED
    BY <1>1, <2>1 DEF ListenStore, callVars, TypeOK
<1>2. CASE ~ListenStore(c)
  <2>1. pc[c] = "wait" /\ fut[c] = Pending
    BY <1>2, ArriveStep, FutureIsSetOnce DEF Arrives
  <2>2. PICK s \in Session, k \in Key : /\ s = at[c] /\ at'[c] = s
                                        /\ k = key[c] /\ key'[c] = k
    BY <2>1, StartedStays, StartedType
  <2>3. token'[c] = token[c]
    BY <2>1, StoredStays DEF Stored
  <2>4. Listener(s, k) = c
    BY <2>1, <2>2 DEF PlaceInv, WaitsInDict
  <2>5. token[c] # 0 /\ token[c] \in Nat /\ token[c] <= issued /\ issued \in Nat
    BY <2>2, <2>4 DEF PlaceInv, GenerationInv, HasToken, TokensBounded, TypeOK
  <2>6. registry[k] = token[c]
    <3>1. ASSUME NEW d \in Call, NewRegistration(d)
          PROVE  registry'[k] \in {registry[k], issued + 1}
      BY <3>1 DEF NewRegistration, TypeOK
    <3>2. token[c] # issued + 1
      BY <2>5
    <3>3. registry'[k] = token[c]
      BY <2>2, <2>3
    <3>4. TokensAreFresh
      BY DEF TokensAreFresh
    <3>5. \/ registry'[k] \in {0, registry[k]}
          \/ \E d \in Call : NewRegistration(d)
      BY <3>4, TokenStep
    <3>. QED
      BY <2>5, <3>1, <3>2, <3>3, <3>5
  <2>7. CASE owned[s][k] = token[c]
    <3>1. ASSUME NEW d \in Call, ListenStore(d), at[d] = s, key[d] = k
          PROVE  FALSE
      BY <2>4, <3>1 DEF ListenStore, PlaceInv, Vacant
    <3>2. owned[s][k] # 0 /\ registry'[k] = owned[s][k]
      BY <2>2, <2>3, <2>5, <2>7
    <3>3. owned'[s][k] = token[c] \/ phase'[s] \in {"crashed", "down"}
      BY <2>7, <3>1, <3>2, OwnedStep
    <3>. QED
      BY <2>2, <2>3, <3>3
  <2>8. CASE phase[s] \notin {"stopping", "closing"}
    <3>1. CASE phase' = phase
      BY <2>2, <2>8, <3>1
    <3>2. CASE Stop(s)
      BY <2>2, <2>4, <3>2 DEF Stop, Listener, TypeOK
    <3>3. ASSUME NEW t \in Session, MovesPhase(t), t # s
          PROVE  phase'[s] = phase[s]
      BY <3>3 DEF MovesPhase, Stop, StopMemory, Unsubscribe, BulkUnregister, ForgetOwned, Start,
                  Crash, TypeOK
    <3>4. ASSUME MovesPhase(s), ~Stop(s)
          PROVE  phase'[s] \notin {"stopping", "closing"}
      BY <2>8, <3>4
         DEF MovesPhase, StopMemory, Unsubscribe, ActiveCancelled, BulkUnregister, ForgetOwned,
             Start, Crash, TypeOK
    <3>. QED
      BY <2>2, <2>8, <3>1, <3>2, <3>3, <3>4, PhaseMoves
  <2>9. CASE phase[s] = "stopping" /\ k \in active[s]
    <3>1. phase'[s] \in {"stopping", "crashed"}
      <4>1. ASSUME NEW t \in Session, MovesPhase(t), t # s
            PROVE  phase'[s] = phase[s]
        BY <4>1 DEF MovesPhase, Stop, StopMemory, Unsubscribe, BulkUnregister, ForgetOwned, Start,
                    Crash, TypeOK
      <4>2. ASSUME MovesPhase(s)
            PROVE  phase'[s] = "crashed"
        BY <2>9, <4>2
           DEF MovesPhase, Stop, StopMemory, Unsubscribe, ActiveCancelled, BulkUnregister,
               ForgetOwned, Start, Crash, TypeOK
      <4>. QED
        BY <2>9, <4>1, <4>2, PhaseMoves
    <3>2. CASE active' = active
      BY <2>2, <2>9, <3>1, <3>2
    <3>3. ASSUME NEW t \in Session, Stop(t) \/ Crash(t)
          PROVE  k \in active'[s] \/ phase'[s] = "crashed"
      BY <2>9, <3>3 DEF Stop, Crash, TypeOK
    <3>4. ASSUME NEW t \in Session, NEW j \in Key, StopCancel(t, j)
          PROVE  k \in active'[s]
      <4>1. ~(t = s /\ j = k)
        <5>1. SUFFICES ASSUME t = s, j = k PROVE FALSE
          OBVIOUS
        <5>2. DropLocal(s, k)
          BY <3>4, <5>1 DEF StopCancel, CancelAlone, CancelKey
        <5>. QED
          BY <2>1, <2>4, <5>2 DEF DropLocal, Pending
      <4>. QED
        BY <2>9, <3>4, <4>1 DEF StopCancel, TypeOK
    <3>. QED
      BY <2>2, <3>1, <3>2, <3>3, <3>4, ActiveMoves
  <2>. QED
    BY <2>1, <2>2, <2>6, <2>7, <2>8, <2>9 DEF OwnedWhileWaiting
<1>. QED
  BY <1>1, <1>2

(***************************************************************************)
(* When a session has swept, none of its listeners both waits and is       *)
(* registered, whatever the other sessions do, and whatever is stored      *)
(* between its cancels and its sweep.                                      *)
(***************************************************************************)
THEOREM StoppedIsWithdrawn ==
  ASSUME "expire" \notin Env, Backend = "redis"
  PROVE  Spec => StopLeavesNothing
<1>. DEFINE J == IInv /\ PlaceInv /\ OwnedWhileWaiting
<1>1. J /\ [Next]_vars => J'
  BY NextIInv, PlaceInvStep, OwnedWhileWaitingStep DEF TokensAreFresh
<1>2. Init => J
  BY InitIInv, InitPlace DEF Init, OwnedWhileWaiting, Proc
<1>3. ASSUME J, [Next]_vars
      PROVE  [\A s \in Session, c \in Call :
                Sweeps(s) /\ at[c] = s /\ pc[c] = "wait" /\ fut[c] = Pending =>
                  registry'[key[c]] # token[c]]_vars
  <2>. SUFFICES ASSUME NEW s \in Session, NEW c \in Call,
                       Sweeps(s), at[c] = s, pc[c] = "wait", fut[c] = Pending
                PROVE  registry'[key[c]] # token[c]
    OBVIOUS
  <2>. USE DEF IInv, OwnershipInv
  <2>1. BulkUnregister(s)
    <3>1. phase[s] = "closing" /\ phase'[s] # "closing"
      BY DEF Sweeps
    <3>2. MovesPhase(s)
      <4>1. ASSUME NEW t \in Session, MovesPhase(t), t # s
            PROVE  phase'[s] = phase[s]
        BY <1>3, <4>1
           DEF MovesPhase, Stop, StopMemory, Unsubscribe, BulkUnregister, ForgetOwned, Start,
               Crash, TypeOK
      <4>. QED
        BY <1>3, <3>1, <4>1, PhaseMoves
    <3>. QED
      BY <1>3, <3>1, <3>2
         DEF MovesPhase, Stop, StopMemory, Unsubscribe, ActiveCancelled, ForgetOwned, Start,
             Crash, Sweeps, TypeOK
  <2>2. c \in Proc /\ key[c] \in Key /\ c # None
    BY <1>3, StartedType DEF Proc
  <2>3. token[c] # 0
    <3>1. Listener(s, key[c]) = c
      BY <1>3 DEF PlaceInv, WaitsInDict
    <3>. QED
      BY <1>3, <2>2, <3>1 DEF PlaceInv, GenerationInv, HasToken
  <2>4. registry'[key[c]] =
          IF registry[key[c]] = owned[s][key[c]] THEN 0 ELSE registry[key[c]]
    BY <2>1, <2>2 DEF BulkUnregister
  <2>5. registry[key[c]] = token[c] => owned[s][key[c]] = token[c]
    BY <1>3, <2>1 DEF OwnedWhileWaiting, BulkUnregister
  <2>. QED
    BY <2>3, <2>4, <2>5
<1>. QED
  BY <1>1, <1>2, <1>3, PTL DEF Spec, StopLeavesNothing
=============================================================================
