--------------------------- MODULE ListenerSlots ----------------------------
(***************************************************************************)
(* What listen() promises, without sessions, locks, tokens or signals: a   *)
(* key is a slot with at most one owner; an update goes to the owner of a  *)
(* slot and to nobody else; a listener that has lost its slot is cancelled *)
(* sooner or later, and the owner never is unless its slot is taken away.  *)
(* It is the contract that ListenerCoordinator.register(), registered()    *)
(* and cancel() document, seen from the callers of listen().               *)
(***************************************************************************)
CONSTANTS Key, Call, Update, None

VARIABLES owner,    \* the call that owns each key, or None
          slot,     \* the key each call was given, or None
          result    \* "pending", a failure, or the update a call was given

vars == <<owner, slot, result>>

Init ==
  /\ owner = [k \in Key |-> None]
  /\ slot = [c \in Call |-> None]
  /\ result = [c \in Call |-> "pending"]

Claim(c, k) ==
  /\ slot[c] = None /\ owner[k] = None
  /\ owner' = [owner EXCEPT ![k] = c]
  /\ slot' = [slot EXCEPT ![c] = k]
  /\ UNCHANGED result

\* The slots in vacated lose their owners, and the waiting listeners in
\* cancelled, none of which owns its slot any more, learn about it.
Withdraw(vacated, cancelled) ==
  /\ owner' = [k \in Key |-> IF k \in vacated THEN None ELSE owner[k]]
  /\ \A c \in cancelled : /\ slot[c] # None /\ result[c] = "pending"
                          /\ owner'[slot[c]] # c
  /\ result' = [c \in Call |-> IF c \in cancelled THEN "cancelled" ELSE result[c]]
  /\ UNCHANGED slot

Deliver(c, u) ==
  /\ slot[c] # None /\ owner[slot[c]] = c /\ result[c] = "pending"
  /\ \A d \in Call : result[d] # u
  /\ result' = [result EXCEPT ![c] = u]
  /\ UNCHANGED <<owner, slot>>

GiveUp(c, why) ==
  /\ slot[c] # None /\ result[c] = "pending"
  /\ result' = [result EXCEPT ![c] = why]
  /\ UNCHANGED <<owner, slot>>

Next ==
  \/ \E c \in Call, k \in Key : Claim(c, k)
  \/ \E vacated \in SUBSET Key, cancelled \in SUBSET Call : Withdraw(vacated, cancelled)
  \/ \E c \in Call : \/ \E u \in Update : Deliver(c, u)
                     \/ \E why \in {"timeout", "aborted"} : GiveUp(c, why)

Spec == Init /\ [][Next]_vars
=============================================================================
