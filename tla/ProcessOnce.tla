---------------------------- MODULE ProcessOnce -----------------------------
(***************************************************************************)
(* What coordination promises, without early settlements, results or       *)
(* errors: a scope has at most one holder; only the holder finds out       *)
(* whether its update was processed, begins to process it or registers it; *)
(* and what is left without being registered was not processed, or was     *)
(* handed back.  It is the contract Dispatcher.handle_update() documents.  *)
(***************************************************************************)
CONSTANTS Delivery,           \* an update, as one session received it
          Id, IdIn,           \* what tells its update from others
          Scope, ScopeIn,     \* the scope that serialises it
          NoOne               \* nobody holds the scope

VARIABLES holder,      \* of each scope
          registered,  \* the updates known to be handled
          stage        \* "outside", "holding", "processing", "registered", "left"

vars == <<holder, registered, stage>>

Init ==
  /\ holder = [sc \in Scope |-> NoOne]
  /\ registered = {}
  /\ stage = [d \in Delivery |-> "outside"]

Holds(d) == holder[ScopeIn[d]] = d
Becomes(d, label) == stage' = [stage EXCEPT ![d] = label]

Enter(d) ==
  /\ stage[d] = "outside" /\ holder[ScopeIn[d]] = NoOne
  /\ holder' = [holder EXCEPT ![ScopeIn[d]] = d]
  /\ Becomes(d, "holding")
  /\ UNCHANGED registered

\* Handlers may run: nobody processed the update, and nobody will meanwhile.
Begin(d) ==
  /\ stage[d] = "holding" /\ Holds(d) /\ IdIn[d] \notin registered
  /\ Becomes(d, "processing")
  /\ UNCHANGED <<holder, registered>>

Register(d) ==
  /\ stage[d] = "processing" /\ Holds(d) /\ IdIn[d] \notin registered
  /\ registered' = registered \cup {IdIn[d]}
  /\ Becomes(d, "registered")
  /\ UNCHANGED holder

\* The scope is given back: the update is registered, or it stays as it was.
Leave(d) ==
  /\ stage[d] \in {"holding", "processing", "registered"} /\ Holds(d)
  /\ holder' = [holder EXCEPT ![ScopeIn[d]] = NoOne]
  /\ Becomes(d, "left")
  /\ UNCHANGED registered

GiveUp(d) ==
  /\ stage[d] = "outside"
  /\ Becomes(d, "left")
  /\ UNCHANGED <<holder, registered>>

Next == \E d \in Delivery : Enter(d) \/ Begin(d) \/ Register(d) \/ Leave(d) \/ GiveUp(d)

Spec == Init /\ [][Next]_vars
-----------------------------------------------------------------------------
(* What the contract is for. *)

Inside == {"holding", "processing", "registered"}

\* No two deliveries of one scope are processed together, and a delivery that
\* registered its update is the only one that ever does: Register() of another
\* delivery of the update never follows.
OneInside ==
  \A d, e \in Delivery :
    stage[d] \in Inside /\ stage[e] \in Inside /\ ScopeIn[d] = ScopeIn[e] => d = e
=============================================================================
