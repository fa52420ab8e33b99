-------------------------- MODULE ProcessOnce_proofs ------------------------
(* What the contract of coordination is good for, for every value of its   *)
(* constants.  UpdateCoordination_proofs shows that the code keeps it.     *)
EXTENDS ProcessOnce, TLAPS

\* The constants are what their names say.
SomeDeliveries ==
  /\ ScopeIn \in [Delivery -> Scope] /\ IdIn \in [Delivery -> Id]
  /\ NoOne \notin Delivery

TypeOK ==
  /\ holder \in [Scope -> Delivery \cup {NoOne}]
  /\ registered \subseteq Id
  /\ stage \in [Delivery -> Inside \cup {"outside", "left"}]

\* Who is inside holds the scope.
InsideHolds == \A d \in Delivery : stage[d] \in Inside => holder[ScopeIn[d]] = d

\* Which is why an update in processing is in nobody's registry.
ProcessingIsNew == \A d \in Delivery : stage[d] = "processing" => IdIn[d] \notin registered

Inv == TypeOK /\ InsideHolds

LEMMA Initially == ASSUME SomeDeliveries PROVE Init => Inv
  BY DEF SomeDeliveries, Init, Inv, TypeOK, InsideHolds, Inside

LEMMA Stepwise == ASSUME SomeDeliveries PROVE Inv /\ [Next]_vars => Inv'
<1> SUFFICES ASSUME Inv, [Next]_vars PROVE Inv'
  OBVIOUS
<1> USE DEF SomeDeliveries, Inv, TypeOK, InsideHolds, Inside, Holds, Becomes
<1>1. CASE UNCHANGED vars
  BY <1>1 DEF vars
<1>2. ASSUME NEW d \in Delivery, Enter(d) PROVE Inv'
  BY <1>2 DEF Enter
<1>3. ASSUME NEW d \in Delivery, Begin(d) PROVE Inv'
  BY <1>3 DEF Begin
<1>4. ASSUME NEW d \in Delivery, Register(d) PROVE Inv'
  BY <1>4 DEF Register
<1>5. ASSUME NEW d \in Delivery, Leave(d) PROVE Inv'
  BY <1>5 DEF Leave
<1>6. ASSUME NEW d \in Delivery, GiveUp(d) PROVE Inv'
  BY <1>6 DEF GiveUp
<1> QED
  BY <1>1, <1>2, <1>3, <1>4, <1>5, <1>6 DEF Next

LEMMA Invariance == ASSUME SomeDeliveries PROVE Spec => []Inv
  BY Initially, Stepwise, PTL DEF Spec

\* No two deliveries of one scope are between lock and settlement together
\* (Dispatcher.handle_update, under the lock).
THEOREM Exclusion == ASSUME SomeDeliveries PROVE Spec => []OneInside
<1>1. Inv => OneInside
  BY DEF Inv, InsideHolds, OneInside
<1> QED
  BY <1>1, Invariance, PTL

\* Two deliveries with one id have one scope.
IdsShareScope == \A d, e \in Delivery : IdIn[d] = IdIn[e] => ScopeIn[d] = ScopeIn[e]

NewInv == Inv /\ ProcessingIsNew

LEMMA NewStepwise == ASSUME SomeDeliveries, IdsShareScope PROVE NewInv /\ [Next]_vars => NewInv'
<1> SUFFICES ASSUME NewInv, [Next]_vars PROVE ProcessingIsNew'
  BY Stepwise DEF NewInv
<1> USE DEF SomeDeliveries, NewInv, Inv, TypeOK, InsideHolds, Inside, ProcessingIsNew,
            IdsShareScope, Holds, Becomes
<1>1. CASE UNCHANGED vars
  BY <1>1 DEF vars
<1>2. ASSUME NEW d \in Delivery, Enter(d) PROVE ProcessingIsNew'
  BY <1>2 DEF Enter
<1>3. ASSUME NEW d \in Delivery, Begin(d) PROVE ProcessingIsNew'
  BY <1>3 DEF Begin
<1>4. ASSUME NEW d \in Delivery, Register(d) PROVE ProcessingIsNew'
  <2> SUFFICES ASSUME NEW e \in Delivery, stage'[e] = "processing"
               PROVE IdIn[e] \notin registered'
    OBVIOUS
  <2>1. e # d /\ stage[e] = "processing"
    BY <1>4 DEF Register
  <2>2. IdIn[e] # IdIn[d]
    BY <1>4, <2>1 DEF Register
  <2> QED
    BY <1>4, <2>1, <2>2 DEF Register
<1>5. ASSUME NEW d \in Delivery, Leave(d) PROVE ProcessingIsNew'
  BY <1>5 DEF Leave
<1>6. ASSUME NEW d \in Delivery, GiveUp(d) PROVE ProcessingIsNew'
  BY <1>6 DEF GiveUp
<1> QED
  BY <1>1, <1>2, <1>3, <1>4, <1>5, <1>6 DEF Next

\* What is processed is not registered by anybody else meanwhile, as long as the
\* deliveries of an update share a scope: a handler never runs for an update
\* that is known to be handled (Dispatcher.handle_update, the check).
THEOREM ProcessedIsNew == ASSUME SomeDeliveries, IdsShareScope PROVE Spec => []ProcessingIsNew
<1>1. Init => NewInv
  BY Initially DEF Init, NewInv, ProcessingIsNew
<1>2. NewInv /\ [Next]_vars => NewInv'
  BY NewStepwise
<1>3. NewInv => ProcessingIsNew
  BY DEF NewInv
<1> QED
  BY <1>1, <1>2, <1>3, PTL DEF Spec
=============================================================================
