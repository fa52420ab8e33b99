---------------------- MODULE UpdateCoordination_proofs ---------------------
(* Proofs about UpdateCoordination, for every value of its constants: its   *)
(* locks and releases first, then that it implements ProcessOnce.           *)
EXTENDS UpdateCoordinationOnce, SequenceTheorems, TLAPS

USE ConstantsAssumption

LEMMA ScopeType == \A d \in Delivery : IdAt(d) \in Id /\ ScopeAt(d) \in Scope
BY DEF Delivery, UpdateOf, ScopeAt, IdAt

(***************************************************************************)
(* What a step of delivery d does to the release objects and to the lock:  *)
(* nothing to the other deliveries; and the lock changes hands only where  *)
(* d enters or leaves its critical part.                                   *)
(***************************************************************************)
Frame(d) ==
  \A e \in Delivery \ {d} :
    /\ pc'[e] = pc[e] /\ bare'[e] = bare[e] /\ group'[e] = group[e]
    /\ early'[e] = early[e] /\ claims'[e] = claims[e] /\ settled'[e] = settled[e]

LockEffect(d) ==
  \/ UNCHANGED lockVars /\ (Critical(d)' <=> Critical(d))
  \/ /\ lock[ScopeAt(d)] = NoOne /\ Critical(d)'
     /\ lock' = [lock EXCEPT ![ScopeAt(d)] = d] /\ kept' = kept
  \/ Release(d) /\ ~Critical(d)'

StepEffect(d) == pc[d] # "crashed" /\ Frame(d) /\ ReleaseAgrees(d)' /\ LockEffect(d)

IInv == TypeOK /\ ReleaseInv /\ LockIffCritical

\* Whether or not the lock was given back, kept says who still has it.
LEMMA ReleaseEffect ==
  ASSUME TypeOK, NEW d \in Delivery, d \in kept => ~Settling(d), Settling(d), Release(d)
  PROVE  d \in kept' => lock'[ScopeAt(d)] = d
BY DEF Release

LEMMA ReleaseType ==
  ASSUME TypeOK, NEW d \in Delivery, Release(d)
  PROVE  lock' \in [Scope -> Delivery \cup {NoOne}] /\ kept' \subseteq Delivery
<1>1. CASE /\ lock' = [lock EXCEPT ![ScopeAt(d)] = IF @ = d THEN NoOne ELSE @]
           /\ UNCHANGED kept
  BY <1>1 DEF TypeOK
<1>2. CASE kept' = kept \cup {d} /\ UNCHANGED lock
  BY <1>2 DEF TypeOK
<1>. QED
  BY <1>1, <1>2 DEF Release

LEMMA WorkerEffect ==
  ASSUME IInv, NEW d \in Delivery, Take(d) \/ WorkerStep(d)
  PROVE  StepEffect(d)
<1>. TypeOK /\ ReleaseAgrees(d) /\ ScopeAt(d) \in Scope
  BY ScopeType DEF IInv, ReleaseInv
<1>. USE DEF StepEffect, Frame, LockEffect, ReleaseAgrees, Waiting, Critical, Unsettled,
             Settling, Goto, End, TypeOK, handlerVars, claimVars, lockVars
<1>1. CASE Take(d)
  BY <1>1 DEF Take
<1>2. CASE Setup(d)
  BY <1>2 DEF Setup
<1>3. CASE AcquireLock(d)
  BY <1>3 DEF AcquireLock
<1>4. CASE AcquireFails(d)
  BY <1>4 DEF AcquireFails
<1>5. CASE SkipLocked(d)
  BY <1>5 DEF SkipLocked
<1>6. CASE Identify(d)
  BY <1>6 DEF Identify, ToSettle
<1>7. CASE CheckHandled(d)
  BY <1>7 DEF CheckHandled, ToSettle
<1>8. CASE ListenerTakes(d)
  BY <1>8 DEF ListenerTakes, Leave, ToSettle
<1>9. CASE StartHandler(d)
  BY <1>9 DEF StartHandler
<1>10. CASE EndHandler(d)
  BY <1>10 DEF EndHandler, Leave, ToSettle
<1>11. CASE NoMoreHandlers(d)
  BY <1>11 DEF NoMoreHandlers, Leave, ToSettle
<1>12. CASE Settle(d)
  BY <1>12 DEF Settle
<1>13. CASE SettleWait(d)
  BY <1>13 DEF SettleWait
<1>14. CASE SettleTake(d)
  BY <1>14 DEF SettleTake
<1>15. CASE SettleMark(d)
  BY <1>15 DEF SettleMark
<1>16. CASE SettleUnlock(d)
  <2>1. /\ pc[d] = "unlocking" /\ pc'[d] = "done" /\ Release(d) /\ settled[d] # "no"
        /\ early[d] \notin {"marking", "unlocking"}
    BY <1>16 DEF SettleUnlock
  <2>2. d \in kept' => lock'[ScopeAt(d)] = d
    BY <2>1, ReleaseEffect
  <2>3. ~Critical(d)' /\ Frame(d)
    BY <1>16, <2>1 DEF SettleUnlock
  <2>4. ReleaseAgrees(d)'
    BY <1>16, <2>1, <2>2 DEF SettleUnlock, ScopeAt, UpdateOf
  <2>. QED
    BY <2>1, <2>3, <2>4
<1>. QED
  BY <1>1, <1>2, <1>3, <1>4, <1>5, <1>6, <1>7, <1>8, <1>9, <1>10, <1>11, <1>12, <1>13,
     <1>14, <1>15, <1>16 DEF WorkerStep

LEMMA ClaimEffect ==
  ASSUME IInv, NEW d \in Delivery,
         EarlyStep(d) \/ Claim(d) \/ ThreadCheck(d) \/ ThreadClaim(d)
  PROVE  StepEffect(d)
<1>. TypeOK /\ ReleaseAgrees(d) /\ ScopeAt(d) \in Scope
  BY ScopeType DEF IInv, ReleaseInv
<1>. USE DEF StepEffect, Frame, LockEffect, ReleaseAgrees, Waiting, Critical, Unsettled,
             Settling, TypeOK, handlerVars, Open, lockVars
<1>1. CASE EarlyTake(d)
  <2>1. CASE settled[d] = "no"
    <3>1. Unsettled(d)
      <4>1. early[d] = "scheduled" /\ pc[d] # "crashed" /\ pc[d] \in Label /\ group[d] \in 0..Groups
        BY <1>1 DEF EarlyTake
      <4>2. group[d] > 0 /\ ~bare[d]
        BY <4>1
      <4>. QED
        BY <2>1, <4>1, <4>2 DEF Label
    <3>2. Critical(d)' /\ lock' = lock /\ Frame(d)
      BY <1>1, <2>1 DEF EarlyTake
    <3>. QED
      BY <1>1, <2>1, <3>1, <3>2 DEF EarlyTake
  <2>2. CASE settled[d] # "no"
    BY <1>1, <2>2 DEF EarlyTake
  <2>. QED
    BY <2>1, <2>2
<1>2. CASE EarlyMark(d)
  BY <1>2 DEF EarlyMark
<1>3. CASE EarlyUnlock(d)
  <2>1. /\ early[d] = "unlocking" /\ pc[d] # "crashed" /\ Release(d) /\ settled[d] # "no"
        /\ early' = [early EXCEPT ![d] = "done"] /\ pc[d] \notin {"marking", "unlocking"}
        /\ UNCHANGED <<pc, bare, group, claims, settled>>
    BY <1>3 DEF EarlyUnlock
  <2>2. d \in kept' => lock'[ScopeAt(d)] = d
    BY <2>1, ReleaseEffect
  <2>3. ~Critical(d)' /\ Frame(d)
    BY <2>1
  <2>4. ReleaseAgrees(d)'
    BY <2>1, <2>2 DEF ScopeAt, UpdateOf
  <2>. QED
    BY <2>1, <2>3, <2>4
<1>4. CASE Claim(d)
  BY <1>4 DEF Claim
<1>5. CASE ThreadCheck(d)
  BY <1>5 DEF ThreadCheck
<1>6. CASE ThreadClaim(d)
  BY <1>6 DEF ThreadClaim
<1>. QED
  BY <1>1, <1>2, <1>3, <1>4, <1>5, <1>6 DEF EarlyStep

LEMMA StepKeepsLocks ==
  ASSUME IInv, NEW d \in Delivery, StepEffect(d)
  PROVE  ReleaseInv' /\ LockIffCritical'
<1>. TypeOK /\ ReleaseInv /\ LockIffCritical /\ NoOne \notin Delivery /\ ReleaseAgrees(d)'
  BY DEF IInv, StepEffect
<1>1. ScopeAt(d) \in Scope /\ lock \in [Scope -> Delivery \cup {NoOne}]
  BY ScopeType DEF TypeOK
<1>2. \/ lock' = lock
      \/ lock[ScopeAt(d)] \in {d, NoOne} /\ \E h \in {d, NoOne} :
                                             lock' = [lock EXCEPT ![ScopeAt(d)] = h]
  <2>1. CASE Release(d)
    <3>1. CASE lock[ScopeAt(d)] = d
      BY <2>1, <3>1 DEF Release
    <3>2. CASE lock[ScopeAt(d)] # d
      BY <1>1, <2>1, <3>2 DEF Release
    <3>. QED
      BY <3>1, <3>2
  <2>. QED
    BY <2>1 DEF StepEffect, LockEffect, lockVars
<1>3. /\ \A e \in Delivery \ {d} : (e \in kept' <=> e \in kept)
      /\ "error" \notin Env => kept' = {}
  BY DEF StepEffect, LockEffect, Release, lockVars, ReleaseInv
<1>4. ASSUME NEW e \in Delivery, e # d
      PROVE  lock'[ScopeAt(e)] = e <=> lock[ScopeAt(e)] = e
  BY <1>1, <1>2, <1>4, ScopeType
<1>5. ASSUME NEW e \in Delivery, e # d
      PROVE  (Critical(e)' <=> Critical(e)) /\ (Settling(e)' <=> Settling(e)) /\ pc'[e] = pc[e]
  BY <1>5 DEF StepEffect, Frame, Critical, Unsettled, Settling
<1>6. ASSUME NEW e \in Delivery, e # d
      PROVE  ReleaseAgrees(e)'
  <2>1. ReleaseAgrees(e) /\ ScopeAt(e)' = ScopeAt(e)
    BY DEF ReleaseInv, ScopeAt, UpdateOf
  <2>. QED
    BY <1>3, <1>4, <1>5, <1>6, <2>1 DEF StepEffect, Frame, ReleaseAgrees, Waiting
<1>7. \A sc \in Scope : lock'[sc] # NoOne => ScopeAt(lock'[sc]) = sc
  BY <1>1, <1>2 DEF ReleaseInv
<1>8. ASSUME NEW e \in Delivery, pc'[e] # "crashed"
      PROVE  lock'[ScopeAt(e)] = e <=> Critical(e)' \/ e \in kept'
  <2>1. CASE e # d
    BY <1>3, <1>4, <1>5, <1>8, <2>1 DEF LockIffCritical
  <2>2. CASE e = d
    <3>1. CASE UNCHANGED lockVars /\ (Critical(d)' <=> Critical(d))
      BY <2>2, <3>1 DEF LockIffCritical, StepEffect, lockVars
    <3>2. CASE Critical(d)' /\ lock' = [lock EXCEPT ![ScopeAt(d)] = d]
      BY <1>1, <2>2, <3>2
    <3>3. CASE Release(d) /\ ~Critical(d)'
      <4>1. lock'[ScopeAt(d)] = d => d \in kept'
        BY <1>1, <3>3 DEF Release
      <4>2. d \in kept' => lock'[ScopeAt(d)] = d
        BY DEF ReleaseAgrees, ScopeAt, UpdateOf
      <4>. QED
        BY <2>2, <3>3, <4>1, <4>2
    <3>. QED
      BY <3>1, <3>2, <3>3 DEF StepEffect, LockEffect
  <2>. QED
    BY <2>1, <2>2
<1>9. LockIffCritical'
  BY <1>8 DEF LockIffCritical, ScopeAt, UpdateOf
<1>10. ReleaseInv'
  BY <1>3, <1>6, <1>7 DEF ReleaseInv, ScopeAt, UpdateOf
<1>. QED
  BY <1>9, <1>10

LEMMA FaultKeepsLocks ==
  ASSUME IInv, "expire" \notin Env,
         \/ \E sc \in Scope : LockExpires(sc)
         \/ \E id \in Id : ForgetHandled(id)
         \/ \E s \in Session : Crash(s)
         \/ UNCHANGED vars
  PROVE  ReleaseInv' /\ LockIffCritical'
<1>. TypeOK /\ ReleaseInv /\ LockIffCritical /\ NoOne \notin Delivery
  BY DEF IInv
<1>1. ASSUME NEW sc \in Scope, LockExpires(sc)
      PROVE  ReleaseInv' /\ LockIffCritical'
  <2>1. PICK h \in Delivery : h = lock[sc]
    BY <1>1 DEF LockExpires, TypeOK
  <2>2. /\ pc[h] = "crashed" \/ h \in kept
        /\ lock' = [lock EXCEPT ![sc] = NoOne] /\ kept' = kept \ {h}
        /\ UNCHANGED <<pc, bare, group, early, claims, settled>>
    BY <1>1, <2>1 DEF LockExpires, handlerVars, claimVars
  <2>3. ScopeAt(h) = sc /\ lock \in [Scope -> Delivery \cup {NoOne}]
    BY <1>1, <2>1 DEF LockExpires, ReleaseInv, TypeOK
  <2>4. ASSUME NEW d \in Delivery
        PROVE  /\ lock'[ScopeAt(d)] = d <=> lock[ScopeAt(d)] = d /\ d # h
               /\ d \in kept' <=> d \in kept /\ d # h
               /\ Critical(d)' = Critical(d) /\ Settling(d)' = Settling(d)
    BY <2>1, <2>2, <2>3, ScopeType DEF Critical, Unsettled, Settling
  <2>5. h \in kept => ~Critical(h)
    BY DEF ReleaseInv, ReleaseAgrees, Critical, Unsettled
  <2>6. LockIffCritical'
    <3>1. SUFFICES ASSUME NEW d \in Delivery, pc'[d] # "crashed"
                   PROVE  lock'[ScopeAt(d)] = d <=> Critical(d)' \/ d \in kept'
      BY DEF LockIffCritical, ScopeAt, UpdateOf
    <3>. QED
      BY <2>2, <2>4, <2>5, <3>1 DEF LockIffCritical
  <2>7. ASSUME NEW d \in Delivery
        PROVE  ReleaseAgrees(d)'
    <3>1. ReleaseAgrees(d) /\ ScopeAt(d)' = ScopeAt(d)
      BY DEF ReleaseInv, ScopeAt, UpdateOf
    <3>. QED
      BY <2>2, <2>4, <3>1 DEF ReleaseAgrees, Waiting
  <2>8. \A s \in Scope : lock'[s] # NoOne => ScopeAt(lock'[s]) = s
    BY <2>2, <2>3 DEF ReleaseInv
  <2>9. "error" \notin Env => kept' = {}
    BY <2>2 DEF ReleaseInv
  <2>. QED
    BY <2>6, <2>7, <2>8, <2>9 DEF ReleaseInv, ScopeAt, UpdateOf
<1>2. ASSUME NEW id \in Id, ForgetHandled(id)
      PROVE  ReleaseInv' /\ LockIffCritical'
  BY <1>2 DEF ForgetHandled, handlerVars, claimVars, lockVars, ReleaseInv, ReleaseAgrees, Waiting,
              LockIffCritical, Critical, Unsettled, Settling
<1>3. ASSUME NEW s \in Session, Crash(s)
      PROVE  ReleaseInv' /\ LockIffCritical'
  <2>1. /\ \A d \in Delivery : pc'[d] \in {pc[d], "crashed"}
        /\ UNCHANGED <<lock, kept, bare, group, early, claims, settled>>
    BY <1>3 DEF Crash, handlerVars, claimVars, lockVars
  <2>2. LockIffCritical'
    BY <2>1 DEF LockIffCritical, Critical, Unsettled, Settling
  <2>. QED
    BY <2>1, <2>2 DEF ReleaseInv, ReleaseAgrees, Waiting, Settling
<1>4. CASE UNCHANGED vars
  BY <1>4 DEF vars, handlerVars, claimVars, lockVars, ReleaseInv, ReleaseAgrees, Waiting,
              LockIffCritical, Critical, Unsettled, Settling
<1>. QED
  BY <1>1, <1>2, <1>3, <1>4

LEMMA GotoType ==
  ASSUME TypeOK, NEW d \in Delivery, NEW l \in Label, Goto(d, l)
  PROVE  pc' \in [Delivery -> Label]
BY DEF TypeOK, Goto

LEMMA ToSettleType ==
  ASSUME TypeOK, NEW d \in Delivery, NEW o \in Outcome,
         \/ Leave(d, o)
         \/ ToSettle(d, FALSE) /\ outcome' = [outcome EXCEPT ![d] = o]
  PROVE  /\ pc' \in [Delivery -> Label] /\ result' \in [Delivery -> BOOLEAN]
         /\ outcome' \in [Delivery -> Outcome]
<1>1. "settle" \in Label /\ "done" \in Label
  BY DEF Label
<1>2. Goto(d, "settle") \/ Goto(d, "done")
  BY DEF ToSettle, Leave, End
<1>3. result' \in [Delivery -> BOOLEAN]
  BY DEF ToSettle, Leave, TypeOK
<1>4. outcome' \in [Delivery -> Outcome]
  BY DEF ToSettle, Leave, End, TypeOK
<1>. QED
  BY <1>1, <1>2, <1>3, <1>4, GotoType

LEMMA TypeStep ==
  ASSUME TypeOK, [Next]_vars
  PROVE  TypeOK'
<1>l. /\ {"parsed", "lock", "identify", "check", "handling", "running", "settle", "taking",
          "waiting", "marking", "unlocking", "done", "crashed"} \subseteq Label
      /\ {"scheduled", "marking", "unlocking", "done"} \subseteq Early
      /\ {"handled", "untouched"} \subseteq Settled
      /\ {"stopped", "handed_back", "ran_out", "duplicate", "skipped", "lost"} \subseteq Outcome
      /\ {"none", "checked", "made", "replaced"} \subseteq Claims
  BY DEF Label, Early, Settled, Outcome, Claims
<1>g. ASSUME NEW d \in Delivery, NEW l \in Label, Goto(d, l),
             UNCHANGED <<lockVars, handled, known, handlerVars, result, claimVars, settled>>,
             bare' \in [Delivery -> BOOLEAN], outcome' \in [Delivery -> Outcome]
      PROVE  TypeOK'
  <2>1. pc' \in [Delivery -> Label]
    BY <1>g, GotoType
  <2>. QED
    BY <1>g, <2>1 DEF TypeOK, handlerVars, claimVars, lockVars
<1>1. ASSUME NEW d \in Delivery, Take(d) \/ Setup(d) \/ AcquireFails(d) \/ SkipLocked(d)
                                 \/ Settle(d) \/ SettleWait(d)
      PROVE  TypeOK'
  <2>1. bare' \in [Delivery -> BOOLEAN] /\ outcome' \in [Delivery -> Outcome]
    <3>1. bare' = bare \/ bare' = [bare EXCEPT ![d] = TRUE]
      BY <1>1 DEF Take, Setup, AcquireFails, SkipLocked, Settle, SettleWait
    <3>2. outcome' = outcome \/ outcome' = [outcome EXCEPT ![d] = "skipped"]
      BY <1>1 DEF Take, Setup, AcquireFails, SkipLocked, Settle, SettleWait, End
    <3>3. bare \in [Delivery -> BOOLEAN] /\ outcome \in [Delivery -> Outcome]
      BY DEF TypeOK
    <3>4. bare' \in [Delivery -> BOOLEAN]
      BY <3>1, <3>3
    <3>5. outcome' \in [Delivery -> Outcome]
      BY <3>2, <3>3, <1>l
    <3>. QED
      BY <3>4, <3>5
  <2>2. \E l \in Label : Goto(d, l)
    BY <1>1, <1>l DEF Take, Setup, AcquireFails, SkipLocked, Settle, SettleWait, End
  <2>3. UNCHANGED <<lockVars, handled, known, handlerVars, result, claimVars, settled>>
    BY <1>1 DEF Take, Setup, AcquireFails, SkipLocked, Settle, SettleWait
  <2>. QED
    BY <2>1, <2>2, <2>3, <1>g
<1>2. ASSUME NEW d \in Delivery, AcquireLock(d) \/ SettleUnlock(d)
      PROVE  TypeOK'
  <2>1. lock' \in [Scope -> Delivery \cup {NoOne}] /\ kept' \subseteq Delivery
    <3>1. CASE AcquireLock(d)
      BY <3>1 DEF AcquireLock, TypeOK
    <3>2. CASE SettleUnlock(d)
      BY <3>2, ReleaseType DEF SettleUnlock
    <3>. QED
      BY <1>2, <3>1, <3>2
  <2>2. pc' \in [Delivery -> Label]
    BY <1>2, <1>l, GotoType DEF AcquireLock, SettleUnlock
  <2>. QED
    BY <1>2, <2>1, <2>2 DEF AcquireLock, SettleUnlock, TypeOK, handlerVars, claimVars, lockVars
<1>3. ASSUME NEW d \in Delivery, SettleMark(d)
      PROVE  TypeOK'
  <2>1. handled' \subseteq Id
    BY <1>3, ScopeType DEF SettleMark, Register, TypeOK
  <2>2. pc' \in [Delivery -> Label]
    BY <1>3, <1>l, GotoType DEF SettleMark
  <2>. QED
    BY <1>3, <2>1, <2>2 DEF SettleMark, TypeOK, handlerVars, claimVars, lockVars
<1>4. ASSUME NEW d \in Delivery, Identify(d)
      PROVE  TypeOK'
  <2>1. known' \in [Delivery -> BOOLEAN]
    BY <1>4 DEF Identify, TypeOK
  <2>2. CASE Goto(d, "check") /\ UNCHANGED <<result, outcome>>
    <3>1. pc' \in [Delivery -> Label]
      BY <2>2, <1>l, GotoType
    <3>. QED
      BY <1>4, <2>1, <2>2, <3>1 DEF Identify, TypeOK, handlerVars, claimVars, lockVars
  <2>3. CASE ToSettle(d, FALSE) /\ outcome' = [outcome EXCEPT ![d] = "lost"]
    <3>1. /\ pc' \in [Delivery -> Label] /\ result' \in [Delivery -> BOOLEAN]
          /\ outcome' \in [Delivery -> Outcome]
      BY <2>3, <1>l, ToSettleType
    <3>. QED
      BY <1>4, <2>1, <3>1 DEF Identify, TypeOK, handlerVars, claimVars, lockVars
  <2>. QED
    BY <1>4, <2>2, <2>3 DEF Identify
<1>5. ASSUME NEW d \in Delivery, CheckHandled(d)
      PROVE  TypeOK'
  <2>1. CASE Goto(d, "handling") /\ UNCHANGED <<result, outcome>>
    <3>1. pc' \in [Delivery -> Label]
      BY <2>1, <1>l, GotoType
    <3>. QED
      BY <1>5, <2>1, <3>1 DEF CheckHandled, TypeOK, handlerVars, claimVars, lockVars
  <2>2. ASSUME NEW o \in Outcome, ToSettle(d, FALSE), outcome' = [outcome EXCEPT ![d] = o]
        PROVE  TypeOK'
    <3>1. /\ pc' \in [Delivery -> Label] /\ result' \in [Delivery -> BOOLEAN]
          /\ outcome' \in [Delivery -> Outcome]
      BY <2>2, ToSettleType
    <3>. QED
      BY <1>5, <3>1 DEF CheckHandled, TypeOK, handlerVars, claimVars, lockVars
  <2>. QED
    BY <1>5, <1>l, <2>1, <2>2 DEF CheckHandled
<1>6. ASSUME NEW d \in Delivery, NEW o \in Outcome, Leave(d, o), UNCHANGED ran,
             UNCHANGED <<lockVars, handled, bare, known, group, claimVars, settled>>
      PROVE  TypeOK'
  <2>1. /\ pc' \in [Delivery -> Label] /\ result' \in [Delivery -> BOOLEAN]
        /\ outcome' \in [Delivery -> Outcome]
    BY <1>6, ToSettleType
  <2>. QED
    BY <1>6, <2>1 DEF TypeOK, claimVars, lockVars
<1>7. ASSUME NEW d \in Delivery, ListenerTakes(d) \/ NoMoreHandlers(d) \/ EndHandler(d)
      PROVE  TypeOK'
  <2>1. CASE ListenerTakes(d) \/ NoMoreHandlers(d)
    <3>1. \E o \in Outcome : Leave(d, o)
      BY <2>1, <1>l DEF ListenerTakes, NoMoreHandlers
    <3>. QED
      BY <2>1, <3>1, <1>6 DEF ListenerTakes, NoMoreHandlers, handlerVars
  <2>2. CASE EndHandler(d)
    <3>1. UNCHANGED <<lockVars, handled, bare, known, group, claimVars, settled>>
      BY <2>2 DEF EndHandler
    <3>2. CASE Goto(d, "handling") /\ UNCHANGED <<result, outcome>>
      <4>1. pc' \in [Delivery -> Label]
        BY <3>2, <1>l, GotoType
      <4>2. ran' \in [Delivery -> Nat]
        <5>1. ran' = [ran EXCEPT ![d] = ran[d] + 1] \/ ran' = ran
          BY <2>2 DEF EndHandler
        <5>2. ran[d] + 1 \in Nat
          BY DEF TypeOK
        <5>. QED
          BY <5>1, <5>2 DEF TypeOK
      <4>. QED
        BY <3>1, <3>2, <4>1, <4>2 DEF TypeOK, claimVars, lockVars
    <3>3. CASE (Leave(d, "stopped") \/ Leave(d, "handed_back")) /\ UNCHANGED ran
      BY <3>1, <3>3, <1>6, <1>l
    <3>. QED
      BY <2>2, <3>2, <3>3 DEF EndHandler
  <2>. QED
    BY <1>7, <2>1, <2>2
<1>8. ASSUME NEW d \in Delivery, StartHandler(d)
      PROVE  TypeOK'
  <2>1. group' \in [Delivery -> 0..Groups]
    BY <1>8 DEF StartHandler, TypeOK
  <2>2. pc' \in [Delivery -> Label]
    BY <1>8, <1>l, GotoType DEF StartHandler
  <2>. QED
    BY <1>8, <2>1, <2>2 DEF StartHandler, TypeOK, claimVars, lockVars
<1>9. ASSUME NEW d \in Delivery, SettleTake(d)
      PROVE  TypeOK'
  <2>1. settled' \in [Delivery -> Settled]
    BY <1>9, <1>l DEF SettleTake, TypeOK
  <2>2. \E l \in Label : Goto(d, l)
    BY <1>9, <1>l DEF SettleTake
  <2>3. pc' \in [Delivery -> Label]
    BY <2>2, GotoType
  <2>. QED
    BY <1>9, <2>1, <2>3 DEF SettleTake, TypeOK, handlerVars, claimVars, lockVars
<1>10. ASSUME NEW d \in Delivery, Claim(d) \/ ThreadCheck(d) \/ ThreadClaim(d) \/ EarlyTake(d)
      PROVE  TypeOK'
  <2>1. /\ early' \in [Delivery -> Early]
        /\ claims' \in [Delivery -> Claims]
        /\ claimed' \in [Delivery -> BOOLEAN] /\ settled' \in [Delivery -> Settled]
    <3>1. CASE Claim(d)
      BY <3>1, <1>l DEF Claim, TypeOK
    <3>2. CASE ThreadCheck(d)
      BY <3>2, <1>l DEF ThreadCheck, TypeOK
    <3>3. CASE ThreadClaim(d)
      BY <3>3, <1>l DEF ThreadClaim, TypeOK
    <3>4. CASE EarlyTake(d)
      BY <3>4, <1>l DEF EarlyTake, TypeOK
    <3>. QED
      BY <1>10, <3>1, <3>2, <3>3, <3>4
  <2>2. UNCHANGED <<pc, lockVars, handled, bare, known, handlerVars, result, outcome>>
    BY <1>10 DEF Claim, ThreadCheck, ThreadClaim, EarlyTake
  <2>. QED
    BY <2>1, <2>2 DEF TypeOK, handlerVars, lockVars
<1>11. ASSUME NEW d \in Delivery, EarlyMark(d) \/ EarlyUnlock(d)
      PROVE  TypeOK'
  <2>1. /\ handled' \subseteq Id /\ lock' \in [Scope -> Delivery \cup {NoOne}]
        /\ kept' \subseteq Delivery
    BY <1>11, ScopeType, ReleaseType DEF EarlyMark, EarlyUnlock, Register, TypeOK, lockVars
  <2>2. early' \in [Delivery -> Early]
    BY <1>11, <1>l DEF EarlyMark, EarlyUnlock, TypeOK
  <2>3. UNCHANGED <<pc, bare, known, handlerVars, result, claims, claimed, settled, outcome>>
    BY <1>11 DEF EarlyMark, EarlyUnlock
  <2>. QED
    BY <2>1, <2>2, <2>3 DEF TypeOK, handlerVars
<1>12. ASSUME NEW sc \in Scope, LockExpires(sc)
      PROVE  TypeOK'
  BY <1>12 DEF LockExpires, TypeOK, handlerVars, claimVars, lockVars
<1>13. ASSUME NEW id \in Id, ForgetHandled(id)
      PROVE  TypeOK'
  BY <1>13 DEF ForgetHandled, TypeOK, handlerVars, claimVars, lockVars
<1>14. ASSUME NEW s \in Session, Crash(s)
      PROVE  TypeOK'
  <2>1. pc' \in [Delivery -> Label]
    BY <1>14, <1>l DEF Crash, TypeOK
  <2>. QED
    BY <1>14, <2>1 DEF Crash, TypeOK, handlerVars, claimVars, lockVars
<1>15. CASE UNCHANGED vars
  BY <1>15 DEF vars, TypeOK, handlerVars, claimVars, lockVars
<1>. QED
  BY <1>1, <1>2, <1>3, <1>4, <1>5, <1>7, <1>8, <1>9, <1>10, <1>11, <1>12, <1>13, <1>14, <1>15
     DEF Next, WorkerStep, EarlyStep

LEMMA InitIInv == Init => IInv
<1>. SUFFICES ASSUME Init PROVE IInv
  OBVIOUS
<1>1. TypeOK
  BY DEF Init, TypeOK, Label, Early, Settled, Outcome, Claims
<1>2. ReleaseInv
  BY DEF Init, ReleaseInv, ReleaseAgrees, Waiting
<1>3. LockIffCritical
  BY ScopeType DEF Init, LockIffCritical, Critical, Unsettled, Settling
<1>. QED
  BY <1>1, <1>2, <1>3 DEF IInv

LEMMA NextIInv ==
  ASSUME IInv, [Next]_vars, "expire" \notin Env
  PROVE  IInv'
<1>1. TypeOK'
  BY TypeStep DEF IInv
<1>2. ReleaseInv' /\ LockIffCritical'
  BY WorkerEffect, ClaimEffect, StepKeepsLocks, FaultKeepsLocks DEF Next
<1>. QED
  BY <1>1, <1>2 DEF IInv

(***************************************************************************)
(* The state is well typed in every reachable state.                       *)
(***************************************************************************)
THEOREM TypeCorrect == Spec => []TypeOK
<1>1. Init => TypeOK
  BY InitIInv DEF IInv
<1>. QED
  BY <1>1, TypeStep, PTL DEF Spec

(***************************************************************************)
(* While no lock outlives its TTL with its holder alive, the lock of a     *)
(* scope is held by exactly the delivery that is between its acquisition   *)
(* and its one settlement, or that could not release it because the        *)
(* backend failed: in every session, whatever its handlers, its early      *)
(* settlement, a stray thread or an error did.                             *)
(***************************************************************************)
THEOREM Exclusion ==
  ASSUME "expire" \notin Env
  PROVE  Spec => []LockIffCritical
<1>1. IInv /\ [Next]_vars => IInv'
  BY NextIInv
<1>2. IInv => LockIffCritical
  BY DEF IInv
<1>. QED
  BY <1>1, <1>2, InitIInv, PTL DEF Spec

(***************************************************************************)
(* What the settlement of a delivery went through, where no stray thread   *)
(* claims it: the early coroutine, if there is one, settles it as handled, *)
(* and settle() takes it only where there is none, as its end demands.     *)
(***************************************************************************)
EarlyAgrees(d) ==
  /\ claims[d] = "none"
  /\ Waiting(d) \/ bare[d] \/ pc[d] \in {"identify", "check", "taking", "marking", "unlocking"}
       => early[d] = "none"
  /\ pc[d] = "done" => early[d] \in {"none", "done"}
  /\ claimed[d] <=> early[d] # "none"
  /\ early[d] = "scheduled" => settled[d] = "no"
  /\ early[d] \in {"marking", "unlocking", "done"} => settled[d] = "handled"
  /\ early[d] = "none" /\ pc[d] \notin {"marking", "unlocking", "done", "crashed"} =>
       settled[d] = "no"

\* The result of the handlers, and what it was settled as.
ResultAgrees(d) ==
  /\ bare[d] => pc[d] \in {"handling", "running", "done", "crashed"}
  /\ ~bare[d] /\ pc[d] \in {"check", "handling", "running"} => known[d]
  /\ Waiting(d) \/ pc[d] \in {"identify", "check"} => ~bare[d]
  /\ pc[d] \in {"settle", "taking"} => result[d] = Demanded(d) /\ (Demanded(d) => known[d])
  /\ pc[d] \in {"marking", "unlocking", "done"} /\ ~bare[d] /\ outcome[d] # "skipped"
       /\ early[d] = "none" => settled[d] = IF Demanded(d) THEN "handled" ELSE "untouched"

\* Whoever holds a lock is in its critical part, or could not leave it behind.
HolderAgrees(d) ==
  /\ \A sc \in Scope : lock[sc] = d => sc = ScopeAt(d)
  /\ lock[ScopeAt(d)] = d => Critical(d) \/ d \in kept \/ pc[d] = "crashed"

EndAgrees(d) == EarlyAgrees(d) /\ ResultAgrees(d) /\ HolderAgrees(d)

EndInv == \A d \in Delivery : EndAgrees(d)

LEMMA StepKeepsEarly ==
  ASSUME TypeOK, EndInv, "thread" \notin Env, NEW d \in Delivery,
         \/ Take(d) \/ WorkerStep(d) \/ EarlyStep(d)
         \/ Claim(d) \/ ThreadCheck(d) \/ ThreadClaim(d)
  PROVE  EarlyAgrees(d)'
<1>. TypeOK /\ EarlyAgrees(d) /\ ResultAgrees(d)
  BY DEF EndInv, EndAgrees
<1>. USE DEF EarlyAgrees, ResultAgrees, Waiting, Goto, End, TypeOK, handlerVars, claimVars
<1>1. CASE Take(d)
  BY <1>1 DEF Take
<1>2. CASE Setup(d)
  BY <1>2 DEF Setup
<1>3. CASE AcquireLock(d)
  BY <1>3 DEF AcquireLock
<1>4. CASE AcquireFails(d)
  BY <1>4 DEF AcquireFails
<1>5. CASE SkipLocked(d)
  BY <1>5 DEF SkipLocked
<1>6. CASE Identify(d)
  BY <1>6 DEF Identify, ToSettle
<1>7. CASE CheckHandled(d)
  BY <1>7 DEF CheckHandled, ToSettle
<1>8. CASE ListenerTakes(d)
  BY <1>8 DEF ListenerTakes, Leave, ToSettle
<1>9. CASE StartHandler(d)
  BY <1>9 DEF StartHandler
<1>10. CASE EndHandler(d)
  BY <1>10 DEF EndHandler, Leave, ToSettle
<1>11. CASE NoMoreHandlers(d)
  BY <1>11 DEF NoMoreHandlers, Leave, ToSettle
<1>12. CASE Settle(d)
  BY <1>12 DEF Settle
<1>13. CASE SettleWait(d)
  BY <1>13 DEF SettleWait
<1>14. CASE SettleTake(d)
  BY <1>14 DEF SettleTake
<1>15. CASE SettleMark(d)
  BY <1>15 DEF SettleMark
<1>16. CASE SettleUnlock(d)
  BY <1>16 DEF SettleUnlock
<1>17. CASE EarlyTake(d)
  BY <1>17 DEF EarlyTake
<1>18. CASE EarlyMark(d)
  BY <1>18 DEF EarlyMark
<1>19. CASE EarlyUnlock(d)
  BY <1>19 DEF EarlyUnlock
<1>20. CASE Claim(d)
  BY <1>20 DEF Claim, Open
<1>21. CASE ThreadCheck(d)
  BY <1>21 DEF ThreadCheck
<1>22. CASE ThreadClaim(d)
  BY <1>22 DEF ThreadClaim
<1>. QED
  BY <1>1, <1>2, <1>3, <1>4, <1>5, <1>6, <1>7, <1>8, <1>9, <1>10, <1>11, <1>12, <1>13,
     <1>14, <1>15, <1>16, <1>17, <1>18, <1>19, <1>20, <1>21, <1>22
     DEF WorkerStep, EarlyStep

LEMMA StepKeepsResult ==
  ASSUME TypeOK, EndInv, "thread" \notin Env, NEW d \in Delivery,
         \/ Take(d) \/ WorkerStep(d) \/ EarlyStep(d)
         \/ Claim(d) \/ ThreadCheck(d) \/ ThreadClaim(d)
  PROVE  ResultAgrees(d)'
<1>. TypeOK /\ EarlyAgrees(d) /\ ResultAgrees(d)
  BY DEF EndInv, EndAgrees
<1>. USE DEF EarlyAgrees, ResultAgrees, Demanded, Waiting, Goto, End, TypeOK, handlerVars,
             claimVars
<1>1. CASE Take(d)
  BY <1>1 DEF Take
<1>2. CASE Setup(d)
  BY <1>2 DEF Setup
<1>3. CASE AcquireLock(d)
  BY <1>3 DEF AcquireLock
<1>4. CASE AcquireFails(d)
  BY <1>4 DEF AcquireFails
<1>5. CASE SkipLocked(d)
  BY <1>5 DEF SkipLocked
<1>6. CASE Identify(d)
  BY <1>6 DEF Identify, ToSettle
<1>7. CASE CheckHandled(d)
  BY <1>7 DEF CheckHandled, ToSettle
<1>8. CASE ListenerTakes(d)
  BY <1>8 DEF ListenerTakes, Leave, ToSettle
<1>9. CASE StartHandler(d)
  BY <1>9 DEF StartHandler
<1>10. CASE EndHandler(d)
  BY <1>10 DEF EndHandler, Leave, ToSettle
<1>11. CASE NoMoreHandlers(d)
  BY <1>11 DEF NoMoreHandlers, Leave, ToSettle
<1>12. CASE Settle(d)
  BY <1>12 DEF Settle
<1>13. CASE SettleWait(d)
  BY <1>13 DEF SettleWait
<1>14. CASE SettleTake(d)
  BY <1>14 DEF SettleTake
<1>15. CASE SettleMark(d)
  BY <1>15 DEF SettleMark
<1>16. CASE SettleUnlock(d)
  BY <1>16 DEF SettleUnlock
<1>17. CASE EarlyTake(d)
  BY <1>17 DEF EarlyTake
<1>18. CASE EarlyMark(d)
  BY <1>18 DEF EarlyMark
<1>19. CASE EarlyUnlock(d)
  BY <1>19 DEF EarlyUnlock
<1>20. CASE Claim(d)
  BY <1>20 DEF Claim, Open
<1>21. CASE ThreadCheck(d)
  BY <1>21 DEF ThreadCheck
<1>22. CASE ThreadClaim(d)
  BY <1>22 DEF ThreadClaim
<1>. QED
  BY <1>1, <1>2, <1>3, <1>4, <1>5, <1>6, <1>7, <1>8, <1>9, <1>10, <1>11, <1>12, <1>13,
     <1>14, <1>15, <1>16, <1>17, <1>18, <1>19, <1>20, <1>21, <1>22
     DEF WorkerStep, EarlyStep

LEMMA StepKeepsHolder ==
  ASSUME TypeOK, EndInv, "thread" \notin Env, NEW d \in Delivery,
         \/ Take(d) \/ WorkerStep(d) \/ EarlyStep(d)
         \/ Claim(d) \/ ThreadCheck(d) \/ ThreadClaim(d)
  PROVE  HolderAgrees(d)'
<1>. TypeOK /\ EarlyAgrees(d) /\ ResultAgrees(d) /\ HolderAgrees(d)
  BY DEF EndInv, EndAgrees
<1>. ScopeAt(d) \in Scope /\ ScopeAt(d)' = ScopeAt(d) /\ NoOne # d
  BY ScopeType DEF ScopeAt, UpdateOf
<1>. USE DEF EarlyAgrees, ResultAgrees, HolderAgrees, Critical, Unsettled, Settling, Waiting, Goto,
             End, TypeOK, handlerVars, claimVars, lockVars
<1>1. CASE Take(d)
  BY <1>1 DEF Take
<1>2. CASE Setup(d)
  BY <1>2 DEF Setup
<1>3. CASE AcquireLock(d)
  BY <1>3 DEF AcquireLock
<1>4. CASE AcquireFails(d)
  BY <1>4 DEF AcquireFails
<1>5. CASE SkipLocked(d)
  BY <1>5 DEF SkipLocked
<1>6. CASE Identify(d)
  BY <1>6 DEF Identify, ToSettle
<1>7. CASE CheckHandled(d)
  BY <1>7 DEF CheckHandled, ToSettle
<1>8. CASE ListenerTakes(d)
  BY <1>8 DEF ListenerTakes, Leave, ToSettle
<1>9. CASE StartHandler(d)
  BY <1>9 DEF StartHandler
<1>10. CASE EndHandler(d)
  BY <1>10 DEF EndHandler, Leave, ToSettle
<1>11. CASE NoMoreHandlers(d)
  BY <1>11 DEF NoMoreHandlers, Leave, ToSettle
<1>12. CASE Settle(d)
  BY <1>12 DEF Settle
<1>13. CASE SettleWait(d)
  BY <1>13 DEF SettleWait
<1>14. CASE SettleTake(d)
  BY <1>14 DEF SettleTake
<1>15. CASE SettleMark(d)
  BY <1>15 DEF SettleMark
<1>16. CASE SettleUnlock(d)
  BY <1>16 DEF SettleUnlock, Release
<1>17. CASE EarlyTake(d)
  BY <1>17 DEF EarlyTake
<1>18. CASE EarlyMark(d)
  BY <1>18 DEF EarlyMark
<1>19. CASE EarlyUnlock(d)
  BY <1>19 DEF EarlyUnlock, Release
<1>20. CASE Claim(d)
  BY <1>20 DEF Claim, Open
<1>21. CASE ThreadCheck(d)
  BY <1>21 DEF ThreadCheck
<1>22. CASE ThreadClaim(d)
  BY <1>22 DEF ThreadClaim
<1>. QED
  BY <1>1, <1>2, <1>3, <1>4, <1>5, <1>6, <1>7, <1>8, <1>9, <1>10, <1>11, <1>12, <1>13,
     <1>14, <1>15, <1>16, <1>17, <1>18, <1>19, <1>20, <1>21, <1>22
     DEF WorkerStep, EarlyStep

LEMMA OthersKeepEnd ==
  ASSUME TypeOK, EndInv, NEW d \in Delivery, NEW e \in Delivery, e # d,
         \/ Take(d) \/ WorkerStep(d) \/ EarlyStep(d)
         \/ Claim(d) \/ ThreadCheck(d) \/ ThreadClaim(d)
  PROVE  EndAgrees(e)'
<1>1. /\ pc'[e] = pc[e] /\ bare'[e] = bare[e] /\ outcome'[e] = outcome[e]
      /\ claimed'[e] = claimed[e]
  BY DEF Take, WorkerStep, EarlyStep, Setup, AcquireLock, AcquireFails, SkipLocked,
         Identify, CheckHandled, ListenerTakes, StartHandler, EndHandler, NoMoreHandlers,
         Settle, SettleWait, SettleTake, SettleMark, SettleUnlock, EarlyTake, EarlyMark,
         EarlyUnlock, Claim, ThreadCheck, ThreadClaim, Leave, ToSettle, Goto, End, TypeOK,
         claimVars
<1>2. early'[e] = early[e] /\ settled'[e] = settled[e] /\ claims'[e] = claims[e]
  BY DEF Take, WorkerStep, EarlyStep, Setup, AcquireLock, AcquireFails, SkipLocked,
         Identify, CheckHandled, ListenerTakes, StartHandler, EndHandler, NoMoreHandlers,
         Settle, SettleWait, SettleTake, SettleMark, SettleUnlock, EarlyTake, EarlyMark,
         EarlyUnlock, Claim, ThreadCheck, ThreadClaim, TypeOK, claimVars
<1>3. known'[e] = known[e] /\ result'[e] = result[e] /\ ran'[e] = ran[e]
  BY DEF Take, WorkerStep, EarlyStep, Setup, AcquireLock, AcquireFails, SkipLocked,
         Identify, CheckHandled, ListenerTakes, StartHandler, EndHandler, NoMoreHandlers,
         Settle, SettleWait, SettleTake, SettleMark, SettleUnlock, EarlyTake, EarlyMark,
         EarlyUnlock, Claim, ThreadCheck, ThreadClaim, Leave, ToSettle, TypeOK, handlerVars
<1>4. /\ ScopeAt(e)' = ScopeAt(e) /\ NoOne # e
      /\ \A sc \in Scope : lock'[sc] = e => lock[sc] = e
      /\ e \in kept => e \in kept'
  <2>1. UNCHANGED lockVars \/ AcquireLock(d) \/ Release(d)
    BY DEF Take, WorkerStep, EarlyStep, Setup, AcquireLock, AcquireFails, SkipLocked,
           Identify, CheckHandled, ListenerTakes, StartHandler, EndHandler, NoMoreHandlers,
           Settle, SettleWait, SettleTake, SettleMark, SettleUnlock, EarlyTake, EarlyMark,
           EarlyUnlock, Claim, ThreadCheck, ThreadClaim
  <2>2. /\ ScopeAt(d) \in Scope /\ ScopeAt(e) \in Scope
        /\ lock \in [Scope -> Delivery \cup {NoOne}]
    BY ScopeType DEF TypeOK
  <2>. QED
    BY <2>1, <2>2 DEF lockVars, AcquireLock, Release, ScopeAt, UpdateOf
<1>5. EarlyAgrees(e) /\ ResultAgrees(e) /\ HolderAgrees(e)
  BY DEF EndInv, EndAgrees
<1>6. EarlyAgrees(e)'
  BY <1>1, <1>2, <1>5 DEF EarlyAgrees, Waiting
<1>7. ResultAgrees(e)'
  BY <1>1, <1>2, <1>3, <1>5 DEF ResultAgrees, Demanded, Waiting
<1>8. HolderAgrees(e)'
  BY <1>1, <1>2, <1>4, <1>5, ScopeType DEF HolderAgrees, Critical, Unsettled, Settling
<1>. QED
  BY <1>6, <1>7, <1>8 DEF EndAgrees

LEMMA NextEndInv ==
  ASSUME TypeOK, EndInv, "thread" \notin Env, [Next]_vars
  PROVE  EndInv'
<1>. USE DEF EndAgrees, EarlyAgrees, ResultAgrees, Demanded, Waiting
<1>1. ASSUME NEW d \in Delivery,
             \/ Take(d) \/ WorkerStep(d) \/ EarlyStep(d)
             \/ Claim(d) \/ ThreadCheck(d) \/ ThreadClaim(d)
      PROVE  EndInv'
  <2>1. EndAgrees(d)'
    BY <1>1, StepKeepsEarly, StepKeepsResult, StepKeepsHolder
  <2>. QED
    BY <1>1, <2>1, OthersKeepEnd DEF EndInv
<1>2. ASSUME NEW sc \in Scope, LockExpires(sc)
      PROVE  EndInv'
  <2>1. UNCHANGED <<pc, bare, known, ran, result, early, claims, claimed, settled, outcome>>
    BY <1>2 DEF LockExpires, handlerVars, claimVars
  <2>2. lock' = [lock EXCEPT ![sc] = NoOne] /\ kept' = kept \ {lock[sc]}
    BY <1>2 DEF LockExpires
  <2>3. ASSUME NEW d \in Delivery
        PROVE  HolderAgrees(d)'
    <3>1. /\ ScopeAt(d) \in Scope /\ ScopeAt(d)' = ScopeAt(d) /\ NoOne # d
          /\ lock \in [Scope -> Delivery \cup {NoOne}]
      BY ScopeType DEF TypeOK, ScopeAt, UpdateOf
    <3>2. \A z \in Scope : lock'[z] = d => lock[z] = d /\ z # sc
      BY <2>2, <3>1
    <3>3. HolderAgrees(d)
      BY DEF EndInv
    <3>4. lock'[ScopeAt(d)] = d => lock[sc] # d
      BY <1>2, <3>1, <3>2, <3>3 DEF HolderAgrees
    <3>. QED
      BY <2>1, <2>2, <3>1, <3>2, <3>3, <3>4 DEF HolderAgrees, Critical, Unsettled, Settling
  <2>4. ASSUME NEW d \in Delivery
        PROVE  EarlyAgrees(d)' /\ ResultAgrees(d)'
    BY <2>1 DEF EndInv
  <2>. QED
    BY <2>3, <2>4 DEF EndInv
<1>3. ASSUME (\E id \in Id : ForgetHandled(id)) \/ UNCHANGED vars
      PROVE  EndInv'
  BY <1>3 DEF ForgetHandled, vars, handlerVars, claimVars, lockVars, EndInv, HolderAgrees, Critical,
              Unsettled, Settling, ScopeAt, UpdateOf
<1>4. ASSUME NEW s \in Session, Crash(s)
      PROVE  EndInv'
  <2>1. /\ \A d \in Delivery : pc'[d] \in {pc[d], "crashed"}
        /\ UNCHANGED <<lockVars, bare, known, ran, result, early, claims, claimed, settled, outcome>>
    BY <1>4 DEF Crash, handlerVars, claimVars
  <2>2. \A d \in Delivery : HolderAgrees(d)'
    BY <2>1 DEF EndInv, HolderAgrees, Critical, Unsettled, Settling, lockVars, ScopeAt, UpdateOf
  <2>. QED
    BY <2>1, <2>2 DEF EndInv
<1>. QED
  BY <1>1, <1>2, <1>3, <1>4 DEF Next

(***************************************************************************)
(* While no stray thread claims it, a delivery under coordination ends     *)
(* settled as its early settlement decided if there was one, and as its    *)
(* end demands if not; nothing of the early one is left to run, and the    *)
(* lock is given back unless its release failed: whatever crashes,         *)
(* expires, is forgotten or fails.                                         *)
(***************************************************************************)
THEOREM Settlement ==
  ASSUME "thread" \notin Env
  PROVE  Spec => []EndsSettled
<1>1. Init => TypeOK /\ EndInv
  <2>1. Init => TypeOK
    BY InitIInv DEF IInv
  <2>2. Init => EndInv
    BY ScopeType DEF Init, EndInv, EndAgrees, EarlyAgrees, ResultAgrees, HolderAgrees, Waiting
  <2>. QED
    BY <2>1, <2>2
<1>2. TypeOK /\ EndInv /\ [Next]_vars => TypeOK' /\ EndInv'
  BY TypeStep, NextEndInv
<1>3. TypeOK /\ EndInv => EndsSettled
  <2>1. SUFFICES ASSUME EndInv, NEW d \in Delivery,
                        pc[d] = "done", ~bare[d], outcome[d] # "skipped"
                 PROVE  /\ settled[d] = IF claimed[d] \/ Demanded(d)
                                          THEN "handled" ELSE "untouched"
                        /\ early[d] \in {"none", "done"}
                        /\ lock[ScopeAt(d)] = d => d \in kept
    BY DEF EndsSettled
  <2>2. EarlyAgrees(d) /\ ResultAgrees(d) /\ HolderAgrees(d)
    BY <2>1 DEF EndInv, EndAgrees
  <2>3. early[d] \in {"none", "done"} /\ (claimed[d] <=> early[d] = "done")
    BY <2>1, <2>2 DEF EarlyAgrees
  <2>4. settled[d] = IF claimed[d] \/ Demanded(d) THEN "handled" ELSE "untouched"
    BY <2>1, <2>2, <2>3 DEF EarlyAgrees, ResultAgrees
  <2>5. ~Critical(d)
    BY <2>1, <2>3 DEF Critical, Unsettled, Settling
  <2>. QED
    BY <2>1, <2>2, <2>3, <2>4, <2>5 DEF HolderAgrees
<1>. QED
  BY <1>1, <1>2, <1>3, PTL DEF Spec

(***************************************************************************)
(* UpdateCoordination implements ProcessOnce.                              *)
(***************************************************************************)
\* No call of a backend fails, no session dies, nothing is forgotten or expires.
Reliable == Env \cap {"expire", "forget", "error", "crash"} = {}

\* Updates that extract_update_id() does not tell apart have one scope.
IdsKeepScope == \A u, v \in Update : IdOf[u] = IdOf[v] => ScopeOf[u] = ScopeOf[v]

(***************************************************************************)
(* What a delivery's locals say about its outcome and its settlement, and  *)
(* the registry about both: it holds what was settled as handled, but for  *)
(* the delivery that is about to write it, and nothing that is processed.  *)
(***************************************************************************)
OutcomeAgrees(d) ==
  /\ pc[d] # "crashed" /\ outcome[d] # "lost"
  /\ outcome[d] = "skipped" => pc[d] = "done" /\ group[d] = 0
  /\ outcome[d] = "duplicate" =>
       group[d] = 0 /\ ~result[d] /\ pc[d] \in {"settle", "taking", "unlocking", "done"}
  /\ Marking(d) \/ early[d] = "unlocking" => settled[d] = "handled"

RegistryAgrees(d) ==
  /\ settled[d] = "handled" => IdAt(d) \in handled \/ Marking(d)
  /\ Stage(d) = "processing" => IdAt(d) \notin handled

OnceInv == \A d \in Delivery : OutcomeAgrees(d) /\ RegistryAgrees(d)

CInv == IInv /\ OnceInv /\ HandledOnce

(***************************************************************************)
(* The steps of the contract, as one delivery sees them.                   *)
(***************************************************************************)
Stays(d) == Stage(d)' = Stage(d) /\ UNCHANGED <<lockVars, handled>>

Enters(d) ==
  /\ Stage(d) = "outside" /\ Stage(d)' = "holding" /\ lock[ScopeAt(d)] = NoOne
  /\ lock' = [lock EXCEPT ![ScopeAt(d)] = d] /\ UNCHANGED <<kept, handled>>

Begins(d) ==
  /\ Stage(d) = "holding" /\ Stage(d)' = "processing" /\ IdAt(d) \notin handled
  /\ UNCHANGED <<lockVars, handled>>

Registers(d) ==
  /\ Stage(d) = "processing" /\ Stage(d)' = "registered"
  /\ handled' = handled \cup {IdAt(d)} /\ UNCHANGED lockVars

Leaves(d) ==
  /\ Stage(d) \in {"holding", "processing", "registered"} /\ Stage(d)' = "left"
  /\ Release(d) /\ UNCHANGED handled

GivesUp(d) ==
  /\ Stage(d) = "outside" /\ Stage(d)' = "left" /\ UNCHANGED <<lockVars, handled>>

StageStep(d) ==
  Stays(d) \/ Enters(d) \/ Begins(d) \/ Registers(d) \/ Leaves(d) \/ GivesUp(d)

\* It is settled as handled while it is processed, and registered afterwards.
SettleEffect(d) ==
  settled'[d] = "handled" =>
    IF settled[d] = "handled" THEN Marking(d) => Marking(d)' \/ IdAt(d) \in handled'
                              ELSE Marking(d)' /\ Stage(d) = "processing"

DeliveryStep(d) == \/ Take(d) \/ WorkerStep(d) \/ EarlyStep(d)
                   \/ Claim(d) \/ ThreadCheck(d) \/ ThreadClaim(d)

LEMMA WorkerStage ==
  ASSUME CInv, Reliable, NEW d \in Delivery, Take(d) \/ WorkerStep(d)
  PROVE  StageStep(d) /\ OutcomeAgrees(d)'
<1>. TypeOK /\ ReleaseAgrees(d) /\ OutcomeAgrees(d)
  BY DEF CInv, IInv, ReleaseInv, OnceInv
<1>. "error" \notin Env
  BY DEF Reliable
<1>. USE DEF StageStep, Stays, Enters, Begins, Registers, Leaves, GivesUp, OutcomeAgrees,
             ReleaseAgrees, Stage, StageInside, Marking, Unlocking, Waiting, Critical, Unsettled,
             Settling, Goto, End, TypeOK, handlerVars, claimVars, lockVars
<1>1. CASE Take(d)
  BY <1>1 DEF Take
<1>2. CASE Setup(d)
  BY <1>2 DEF Setup
<1>3. CASE AcquireLock(d)
  <2>1. pc[d] = "lock" /\ pc'[d] = "identify" /\ settled'[d] = "no" /\ ~bare'[d]
    BY <1>3 DEF AcquireLock
  <2>2. Stage(d) = "outside" /\ Stage(d)' = "holding"
    BY <1>3, <2>1 DEF AcquireLock
  <2>3. Enters(d)
    BY <1>3, <2>2 DEF AcquireLock
  <2>4. OutcomeAgrees(d)'
    BY <1>3, <2>1 DEF AcquireLock
  <2>. QED
    BY <2>3, <2>4
<1>4. CASE AcquireFails(d)
  BY <1>4 DEF AcquireFails
<1>5. CASE SkipLocked(d)
  BY <1>5 DEF SkipLocked
<1>6. CASE Identify(d)
  BY <1>6 DEF Identify, ToSettle
<1>7. CASE CheckHandled(d)
  BY <1>7 DEF CheckHandled, ToSettle
<1>8. CASE ListenerTakes(d)
  BY <1>8 DEF ListenerTakes, Leave, ToSettle
<1>9. CASE StartHandler(d)
  BY <1>9 DEF StartHandler
<1>10. CASE EndHandler(d)
  BY <1>10 DEF EndHandler, Leave, ToSettle
<1>11. CASE NoMoreHandlers(d)
  BY <1>11 DEF NoMoreHandlers, Leave, ToSettle
<1>12. CASE Settle(d)
  BY <1>12 DEF Settle
<1>13. CASE SettleWait(d)
  BY <1>13 DEF SettleWait
<1>14. CASE SettleTake(d)
  BY <1>14 DEF SettleTake
<1>15. CASE SettleMark(d)
  BY <1>15 DEF SettleMark, Register
<1>16. CASE SettleUnlock(d)
  <2>1. /\ pc[d] = "unlocking" /\ pc'[d] = "done" /\ settled[d] # "no"
        /\ early[d] \notin {"marking", "unlocking"}
    BY <1>16 DEF SettleUnlock
  <2>2. Stage(d) \in {"holding", "processing", "registered"} /\ Stage(d)' = "left"
    BY <1>16, <2>1 DEF SettleUnlock
  <2>3. Leaves(d)
    BY <1>16, <2>2 DEF SettleUnlock
  <2>4. OutcomeAgrees(d)'
    BY <1>16, <2>1 DEF SettleUnlock
  <2>. QED
    BY <2>3, <2>4
<1>. QED
  BY <1>1, <1>2, <1>3, <1>4, <1>5, <1>6, <1>7, <1>8, <1>9, <1>10, <1>11, <1>12, <1>13,
     <1>14, <1>15, <1>16 DEF WorkerStep

LEMMA ClaimStage ==
  ASSUME CInv, Reliable, NEW d \in Delivery,
         EarlyStep(d) \/ Claim(d) \/ ThreadCheck(d) \/ ThreadClaim(d)
  PROVE  StageStep(d) /\ OutcomeAgrees(d)'
<1>. TypeOK /\ ReleaseAgrees(d) /\ OutcomeAgrees(d)
  BY DEF CInv, IInv, ReleaseInv, OnceInv
<1>. "error" \notin Env
  BY DEF Reliable
<1>. USE DEF StageStep, Stays, Enters, Begins, Registers, Leaves, GivesUp, OutcomeAgrees,
             ReleaseAgrees, Stage, StageInside, Marking, Unlocking, Waiting, Critical, Unsettled,
             Settling, TypeOK, handlerVars, lockVars
<1>1. CASE EarlyTake(d)
  <2>1. /\ pc' = pc /\ outcome' = outcome /\ group' = group /\ UNCHANGED <<lockVars, handled, bare>>
        /\ outcome[d] # "duplicate" /\ early[d] = "scheduled" /\ ~Waiting(d) /\ ~bare[d]
        /\ pc[d] \notin {"identify", "check"}
    BY <1>1 DEF EarlyTake
  <2>2. CASE settled[d] = "no"
    <3>1. Unsettled(d)
      <4>1. pc[d] \in Label /\ group[d] \in 0..Groups /\ group[d] > 0
        BY <2>1
      <4>. QED
        BY <2>1, <2>2, <4>1 DEF Label
    <3>2. early'[d] = "marking" /\ settled'[d] = "handled"
      BY <1>1, <2>2 DEF EarlyTake
    <3>3. Stage(d) = "processing" /\ Stage(d)' = "processing"
      BY <2>1, <2>2, <3>1, <3>2
    <3>. QED
      BY <1>1, <2>1, <3>2, <3>3 DEF EarlyTake
  <2>3. CASE settled[d] # "no"
    BY <1>1, <2>1, <2>3 DEF EarlyTake
  <2>. QED
    BY <2>2, <2>3
<1>2. CASE EarlyMark(d)
  BY <1>2 DEF EarlyMark, Register
<1>3. CASE EarlyUnlock(d)
  <2>1. /\ early[d] = "unlocking" /\ early'[d] = "done" /\ settled[d] = "handled"
        /\ pc[d] \notin {"marking", "unlocking", "identify", "check"} /\ outcome[d] # "duplicate"
        /\ ~Waiting(d) /\ pc' = pc /\ settled' = settled
    BY <1>3 DEF EarlyUnlock
  <2>2. Stage(d) = "registered" /\ Stage(d)' = "left"
    BY <2>1
  <2>3. Leaves(d)
    BY <1>3, <2>2 DEF EarlyUnlock
  <2>4. OutcomeAgrees(d)'
    BY <1>3, <2>1 DEF EarlyUnlock
  <2>. QED
    BY <2>3, <2>4
<1>4. CASE Claim(d)
  BY <1>4 DEF Claim, Open
<1>5. CASE ThreadCheck(d)
  BY <1>5 DEF ThreadCheck, Open
<1>6. CASE ThreadClaim(d)
  BY <1>6 DEF ThreadClaim
<1>. QED
  BY <1>1, <1>2, <1>3, <1>4, <1>5, <1>6 DEF EarlyStep

LEMMA StepSettles ==
  ASSUME CInv, Reliable, NEW d \in Delivery, DeliveryStep(d)
  PROVE  SettleEffect(d)
<1>. TypeOK /\ ReleaseAgrees(d) /\ OutcomeAgrees(d) /\ "error" \notin Env
  BY DEF CInv, IInv, ReleaseInv, OnceInv, Reliable
<1>1. CASE SettleTake(d)
  BY <1>1 DEF SettleTake, SettleEffect, Stage, StageInside, Marking, Unlocking, OutcomeAgrees,
              ReleaseAgrees, Waiting, Critical, Unsettled, Settling, Goto, TypeOK, claimVars
<1>2. CASE EarlyTake(d)
  <2>1. CASE settled[d] = "no"
    <3>1. /\ pc[d] \in Label /\ group[d] \in 0..Groups /\ group[d] > 0 /\ ~bare[d]
          /\ early[d] = "scheduled" /\ early'[d] = "marking"
      BY <1>2, <2>1 DEF EarlyTake, ReleaseAgrees, TypeOK
    <3>2. Unsettled(d) /\ ~Waiting(d) /\ pc[d] \notin {"identify", "check"}
      BY <1>2, <2>1, <3>1 DEF EarlyTake, ReleaseAgrees, OutcomeAgrees, Unsettled, Waiting, Label
    <3>3. Stage(d) = "processing"
      BY <2>1, <3>1, <3>2 DEF Stage, StageInside, Unlocking, Critical, OutcomeAgrees
    <3>. QED
      BY <2>1, <3>1, <3>3 DEF SettleEffect, Marking
  <2>2. CASE settled[d] # "no"
    BY <1>2, <2>2 DEF EarlyTake, SettleEffect, Marking, TypeOK
  <2>. QED
    BY <2>1, <2>2
<1>3. CASE SettleMark(d) \/ EarlyMark(d)
  BY <1>3 DEF SettleMark, EarlyMark, Register, SettleEffect, TypeOK, claimVars
<1>4. ASSUME ~SettleTake(d), ~EarlyTake(d), ~SettleMark(d), ~EarlyMark(d)
      PROVE  SettleEffect(d)
  <2>1. settled' = settled
    BY <1>4 DEF DeliveryStep, Take, WorkerStep, EarlyStep, Setup, AcquireLock, AcquireFails,
         SkipLocked, Identify, CheckHandled, ListenerTakes, StartHandler, EndHandler,
         NoMoreHandlers, Settle, SettleWait, SettleUnlock, EarlyUnlock, Claim, ThreadCheck,
         ThreadClaim, claimVars
  <2>2. Marking(d) => Marking(d)'
    <3>1. CASE pc[d] = "marking"
      BY <1>4, <3>1 DEF DeliveryStep, Take, WorkerStep, EarlyStep, Setup, AcquireLock,
         AcquireFails, SkipLocked, Identify, CheckHandled, ListenerTakes, StartHandler,
         EndHandler, NoMoreHandlers, Settle, SettleWait, SettleUnlock, EarlyUnlock, Claim,
         ThreadCheck, ThreadClaim, Marking
    <3>2. CASE early[d] = "marking"
      BY <1>4, <3>2 DEF DeliveryStep, Take, WorkerStep, EarlyStep, Setup, AcquireLock,
         AcquireFails, SkipLocked, Identify, CheckHandled, ListenerTakes, StartHandler,
         EndHandler, NoMoreHandlers, Settle, SettleWait, SettleUnlock, EarlyUnlock, Claim,
         ThreadCheck, ThreadClaim, Marking, Open, TypeOK, claimVars
    <3>. QED
      BY <3>1, <3>2 DEF Marking
  <2>. QED
    BY <2>1, <2>2 DEF SettleEffect
<1>. QED
  BY <1>1, <1>2, <1>3, <1>4

(***************************************************************************)
(* The others do not move meanwhile, and so the step is one of the         *)
(* contract.                                                               *)
(***************************************************************************)
LEMMA OthersStay ==
  ASSUME NEW d \in Delivery, DeliveryStep(d), TypeOK,
         NEW e \in Delivery, e # d
  PROVE  /\ Stage(e)' = Stage(e) /\ (OutcomeAgrees(e) => OutcomeAgrees(e)')
         /\ Marking(e)' = Marking(e) /\ settled'[e] = settled[e]
<1>1. /\ pc'[e] = pc[e] /\ bare'[e] = bare[e] /\ group'[e] = group[e]
      /\ result'[e] = result[e] /\ outcome'[e] = outcome[e]
  BY DEF DeliveryStep, Take, WorkerStep, EarlyStep, Setup, AcquireLock, AcquireFails, SkipLocked,
         Identify, CheckHandled, ListenerTakes, StartHandler, EndHandler, NoMoreHandlers,
         Settle, SettleWait, SettleTake, SettleMark, SettleUnlock, EarlyTake, EarlyMark,
         EarlyUnlock, Claim, ThreadCheck, ThreadClaim, Leave, ToSettle, Goto, End, TypeOK,
         handlerVars
<1>2. early'[e] = early[e] /\ settled'[e] = settled[e]
  BY DEF DeliveryStep, Take, WorkerStep, EarlyStep, Setup, AcquireLock, AcquireFails, SkipLocked,
         Identify, CheckHandled, ListenerTakes, StartHandler, EndHandler, NoMoreHandlers,
         Settle, SettleWait, SettleTake, SettleMark, SettleUnlock, EarlyTake, EarlyMark,
         EarlyUnlock, Claim, ThreadCheck, ThreadClaim, TypeOK, claimVars
<1>. QED
  BY <1>1, <1>2 DEF Stage, StageInside, OutcomeAgrees, Marking, Unlocking, Waiting, Critical,
                    Unsettled, Settling

LEMMA UpdateType == \A d \in Delivery : UpdateOf(d) \in Update
<1>. SUFFICES ASSUME NEW d \in Delivery PROVE Arrival[d[2]] \in Update
  BY DEF UpdateOf
<1>1. d[2] \in DOMAIN Arrival
  BY DEF Delivery
<1>2. Arrival \in [1..Len(Arrival) -> Update]
  BY ConstantsAssumption, LenProperties
<1>. QED
  BY <1>1, <1>2

\* Two deliveries of one update are not in their critical part together.
LEMMA OneCritical ==
  ASSUME CInv, IdsKeepScope, NEW d \in Delivery, NEW e \in Delivery, Critical(d), Critical(e),
         IdAt(d) = IdAt(e)
  PROVE  d = e
<1>1. UpdateOf(d) \in Update /\ UpdateOf(e) \in Update
  BY UpdateType
<1>2. ScopeAt(d) = ScopeAt(e)
  BY <1>1 DEF IdsKeepScope, IdAt, ScopeAt
<1>. QED
  BY <1>2 DEF CInv, IInv, LockIffCritical, OnceInv, OutcomeAgrees

LEMMA InsideIsCritical ==
  ASSUME NEW d \in Delivery, Stage(d) \in {"holding", "processing", "registered"}
  PROVE  Critical(d)
BY DEF Stage, StageInside

LEMMA StepIsOnce ==
  ASSUME CInv, Reliable, IdsKeepScope, NEW d \in Delivery, DeliveryStep(d)
  PROVE  [Once!Next]_(Once!vars)
<1>. DEFINE stages == [e \in Delivery |-> Stage(e)]
<1>1. StageStep(d)
  BY WorkerStage, ClaimStage DEF DeliveryStep
<1>2. stages' = [stages EXCEPT ![d] = Stage(d)']
  BY OthersStay DEF CInv, IInv
<1>3. Critical(d) => lock[ScopeAt(d)] = d
  BY DEF CInv, IInv, LockIffCritical, OnceInv, OutcomeAgrees
<1>4. ScopeAt(d) \in Scope /\ lock \in [Scope -> Delivery \cup {NoOne}]
  BY ScopeType DEF CInv, IInv, TypeOK
<1>5. CASE Stays(d)
  <2>1. stages' = stages
    BY <1>2, <1>5 DEF Stays
  <2>. QED
    BY <1>5, <2>1 DEF Stays, Once!vars, lockVars
<1>6. CASE Enters(d)
  BY <1>2, <1>6 DEF Enters, Once!Next, Once!Enter, Once!Becomes
<1>7. CASE Begins(d)
  BY <1>2, <1>3, <1>7, InsideIsCritical
     DEF Begins, lockVars, Once!Next, Once!Begin, Once!Becomes, Once!Holds
<1>8. CASE Registers(d)
  BY <1>2, <1>3, <1>8, InsideIsCritical
     DEF Registers, lockVars, CInv, OnceInv, RegistryAgrees, Once!Next, Once!Register, Once!Becomes,
         Once!Holds
<1>9. CASE Leaves(d)
  BY <1>2, <1>3, <1>4, <1>9, InsideIsCritical
     DEF Leaves, Release, Reliable, Once!Next, Once!Leave, Once!Becomes, Once!Holds
<1>10. CASE GivesUp(d)
  BY <1>2, <1>10 DEF GivesUp, Once!Next, Once!GiveUp, Once!Becomes, lockVars
<1>. QED
  BY <1>1, <1>5, <1>6, <1>7, <1>8, <1>9, <1>10 DEF StageStep

LEMMA StepKeepsOnce ==
  ASSUME CInv, Reliable, IdsKeepScope, NEW d \in Delivery, DeliveryStep(d)
  PROVE  OnceInv' /\ HandledOnce'
<1>1. StageStep(d) /\ OutcomeAgrees(d)' /\ SettleEffect(d)
  BY WorkerStage, ClaimStage, StepSettles DEF DeliveryStep
<1>2. ASSUME NEW e \in Delivery, e # d
      PROVE  /\ Stage(e)' = Stage(e) /\ OutcomeAgrees(e)'
             /\ Marking(e)' = Marking(e) /\ settled'[e] = settled[e]
  BY <1>2, OthersStay DEF CInv, IInv, OnceInv
<1>3. handled' = handled \/ Registers(d)
  BY <1>1 DEF StageStep, Stays, Enters, Begins, Leaves, GivesUp
<1>4. Registers(d) => handled' = handled \cup {IdAt(d)}
  BY DEF Registers
<1>5. RegistryAgrees(d)'
  <2>1. settled'[d] = "handled" => IdAt(d) \in handled' \/ Marking(d)'
    BY <1>1, <1>3, <1>4 DEF SettleEffect, CInv, OnceInv, RegistryAgrees
  <2>2. Stage(d)' = "processing" => IdAt(d) \notin handled'
    BY <1>1 DEF StageStep, Stays, Enters, Begins, Registers, Leaves, GivesUp, CInv, OnceInv,
                RegistryAgrees
  <2>. QED
    BY <2>1, <2>2 DEF RegistryAgrees, IdAt, UpdateOf
<1>6. ASSUME NEW e \in Delivery, e # d
      PROVE  RegistryAgrees(e)'
  <2>1. settled'[e] = "handled" => IdAt(e) \in handled' \/ Marking(e)'
    BY <1>2, <1>3, <1>4, <1>6 DEF CInv, OnceInv, RegistryAgrees
  <2>2. Stage(e)' = "processing" => IdAt(e) \notin handled'
    <3>1. SUFFICES ASSUME Stage(e) = "processing", IdAt(e) \in handled'
                   PROVE  FALSE
      BY <1>2, <1>6
    <3>2. IdAt(e) = IdAt(d) /\ Stage(d) = "processing"
      BY <1>3, <1>4, <3>1 DEF CInv, OnceInv, RegistryAgrees, Registers
    <3>. QED
      BY <1>6, <3>1, <3>2, OneCritical, InsideIsCritical
  <2>. QED
    BY <2>1, <2>2 DEF RegistryAgrees, IdAt, UpdateOf
<1>7. ASSUME NEW e \in Delivery, e # d, UpdateOf(e) = UpdateOf(d),
             settled'[d] = "handled", settled'[e] = "handled"
      PROVE  FALSE
  <2>1. settled[e] = "handled" /\ settled[d] # "handled"
    BY <1>2, <1>7 DEF CInv, HandledOnce
  <2>2. Stage(d) = "processing"
    BY <1>1, <1>7, <2>1 DEF SettleEffect
  <2>3. IdAt(e) = IdAt(d)
    BY <1>7 DEF IdAt
  <2>4. Marking(e)
    BY <2>1, <2>2, <2>3 DEF CInv, OnceInv, RegistryAgrees
  <2>5. Critical(e)
    BY <2>4 DEF Marking, Critical, Settling, CInv, OnceInv, OutcomeAgrees
  <2>. QED
    BY <1>7, <2>2, <2>3, <2>5, OneCritical, InsideIsCritical
<1>8. ASSUME NEW e \in Delivery, NEW f \in Delivery, e # f, UpdateOf(e) = UpdateOf(f),
             settled'[e] = "handled", settled'[f] = "handled"
      PROVE  FALSE
  BY <1>2, <1>7, <1>8 DEF CInv, HandledOnce
<1>9. OnceInv'
  BY <1>1, <1>2, <1>5, <1>6 DEF OnceInv
<1>. QED
  BY <1>8, <1>9 DEF HandledOnce, UpdateOf

LEMMA InitCInv == Init => CInv
<1>. SUFFICES ASSUME Init PROVE CInv
  OBVIOUS
<1>1. OnceInv
  BY DEF Init, OnceInv, OutcomeAgrees, RegistryAgrees, Marking, Stage, Waiting
<1>2. HandledOnce
  BY DEF Init, HandledOnce
<1>. QED
  BY <1>1, <1>2, InitIInv DEF CInv

\* Where calls do not fail, every step is a delivery's.
LEMMA StepOfDelivery ==
  ASSUME CInv, Reliable, [Next]_vars
  PROVE  UNCHANGED vars \/ \E d \in Delivery : DeliveryStep(d)
<1>1. ASSUME NEW sc \in Scope, LockExpires(sc) PROVE FALSE
  BY <1>1 DEF LockExpires, Reliable, CInv, IInv, TypeOK, ReleaseInv, OnceInv, OutcomeAgrees
<1>2. ASSUME NEW id \in Id, ForgetHandled(id) PROVE FALSE
  BY <1>2 DEF ForgetHandled, Reliable
<1>3. ASSUME NEW s \in Session, Crash(s) PROVE FALSE
  BY <1>3 DEF Crash, Reliable
<1>. QED
  BY <1>1, <1>2, <1>3 DEF Next, DeliveryStep

LEMMA NextCInv ==
  ASSUME CInv, Reliable, IdsKeepScope, [Next]_vars
  PROVE  CInv'
<1>1. IInv'
  BY NextIInv DEF CInv, Reliable
<1>2. CASE UNCHANGED vars
  <2>1. OnceInv' /\ HandledOnce'
    BY <1>2 DEF CInv, OnceInv, HandledOnce, OutcomeAgrees, RegistryAgrees, Marking, Stage,
                StageInside, Unlocking, Waiting, Critical, Unsettled, Settling, UpdateOf, IdAt,
                vars, handlerVars, claimVars, lockVars
  <2>. QED
    BY <1>1, <2>1 DEF CInv
<1>3. ASSUME NEW d \in Delivery, DeliveryStep(d) PROVE CInv'
  BY <1>1, <1>3, StepKeepsOnce DEF CInv
<1>. QED
  BY <1>2, <1>3, StepOfDelivery

(***************************************************************************)
(* Of all the deliveries of an update, to all sessions, one is handled:    *)
(* while no backend call fails, no session dies and nothing is forgotten.  *)
(***************************************************************************)
THEOREM HandledByOne ==
  ASSUME Reliable, IdsKeepScope
  PROVE  Spec => []HandledOnce
<1>1. CInv /\ [Next]_vars => CInv'
  BY NextCInv
<1>2. CInv => HandledOnce
  BY DEF CInv
<1>. QED
  BY <1>1, <1>2, InitCInv, PTL DEF Spec

(***************************************************************************)
(* Under the same assumptions coordination keeps the contract of           *)
(* ProcessOnce: every step of every session is one of its steps.           *)
(***************************************************************************)
THEOREM Implementation ==
  ASSUME Reliable, IdsKeepScope
  PROVE  Spec => ImplementsOnce
<1>1. Init => Once!Init
  BY DEF Init, Once!Init, Stage, Waiting
<1>2. CInv /\ [Next]_vars => [Once!Next]_(Once!vars)
  <2>1. SUFFICES ASSUME CInv, [Next]_vars PROVE [Once!Next]_(Once!vars)
    OBVIOUS
  <2>2. CASE UNCHANGED vars
    <3>1. \A e \in Delivery : Stage(e)' = Stage(e)
      BY <2>2 DEF Stage, StageInside, Unlocking, Waiting, Critical, Unsettled, Settling, vars,
                  handlerVars, claimVars, lockVars
    <3>. QED
      BY <2>2, <3>1 DEF Once!vars, vars, lockVars
  <2>. QED
    BY <2>1, <2>2, StepOfDelivery, StepIsOnce
<1>3. CInv /\ [Next]_vars => CInv'
  BY NextCInv
<1>. QED
  BY <1>1, <1>2, <1>3, InitCInv, PTL DEF Spec, ImplementsOnce, Once!Spec
=============================================================================
