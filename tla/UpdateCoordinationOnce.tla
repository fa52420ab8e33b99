----------------------- MODULE UpdateCoordinationOnce -----------------------
(***************************************************************************)
(* UpdateCoordination implements ProcessOnce where no call of a backend    *)
(* fails: the stage of a delivery is read off its settlement, not off the  *)
(* handler, which may go on for long after an early settlement.            *)
(***************************************************************************)
EXTENDS UpdateCoordination

\* Settling as handled, the registry not yet told or just told.
Marking(d) == pc[d] = "marking" \/ early[d] = "marking"
Unlocking(d) == pc[d] = "unlocking" \/ early[d] = "unlocking"

\* Where a delivery in its critical part is.
StageInside(d) ==
  IF Unlocking(d) /\ settled[d] = "handled" THEN "registered"
  ELSE IF pc[d] \in {"identify", "check"} \/ outcome[d] = "duplicate" THEN "holding"
  ELSE "processing"

Stage(d) ==
  IF Waiting(d) THEN "outside"
  ELSE IF Critical(d) THEN StageInside(d) ELSE "left"

Once == INSTANCE ProcessOnce WITH
  holder <- lock, registered <- handled,
  stage <- [d \in Delivery |-> Stage(d)],
  IdIn <- [d \in Delivery |-> IdAt(d)],
  ScopeIn <- [d \in Delivery |-> ScopeAt(d)]

\* Every step of the sessions is a step of the contract: handlers begin only for
\* an update nobody registered, while its scope is held; whoever settles, early,
\* late or from a thread, registers it once, before the scope is given back.
ImplementsOnce == Once!Spec
=============================================================================
