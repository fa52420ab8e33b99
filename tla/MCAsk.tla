-------------------------------- MODULE MCAsk --------------------------------
(***************************************************************************)
(* The constants of the runs of Ask: two calls in one conversation and a   *)
(* third in another, and error handlers of the first for timeouts.         *)
(***************************************************************************)
EXTENDS Ask

CONSTANTS c1, c2, c3, k1, k2, u1, u2

MCKeyOf == [c \in Call |-> IF c = c3 THEN k2 ELSE k1]
MCCallHandlers == [c \in Call |-> IF c = c1 THEN {"timeout"} ELSE {}]
=============================================================================
