--------------------------- MODULE MCUpdateHistory ---------------------------
(***************************************************************************)
(* The constants of the runs of UpdateHistory: three updates, two of one   *)
(* conversation, and two handler groups, the second with two handlers.     *)
(***************************************************************************)
EXTENDS UpdateHistory

CONSTANTS u1, u2, u3, k1, k2, first, second, third

MCKeyOf == [u \in Update |-> IF u = u3 THEN k2 ELSE k1]
MCGroups == <<<<first>>, <<second, third>>>>
MCOneGroup == <<<<first>>>>
MCTwoGroups == <<<<first>>, <<second>>>>
=============================================================================
