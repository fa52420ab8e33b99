------------------------- MODULE UpdateListenerSlots ------------------------
(***************************************************************************)
(* UpdateListener implements ListenerSlots: the owner of a key is the call *)
(* whose token is registered for it, wherever that call runs and whatever  *)
(* the dicts of the sessions say.                                          *)
(***************************************************************************)
EXTENDS UpdateListener

Owner == [k \in Key |->
            IF registry[k] = 0 THEN None
            ELSE CHOOSE c \in Call : token[c] = registry[k]]

SlotOf == [c \in Call |-> IF token[c] = 0 THEN None ELSE key[c]]

Slots == INSTANCE ListenerSlots WITH owner <- Owner, slot <- SlotOf, result <- fut

\* Every step of the listeners is a step of their contract: no interleaving of
\* sessions, loss or delay of a signal, crash or failed lock gives an update to
\* a listener that does not own its key, or cancels one that still does.
ImplementsSlots == Slots!Spec
=============================================================================
