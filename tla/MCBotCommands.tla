---------------------------- MODULE MCBotCommands ----------------------------
(***************************************************************************)
(* The constants of the runs of BotCommands: two handlers that declare one *)
(* command in common, in the default scope, and each another command.      *)
(***************************************************************************)
EXTENDS BotCommands

CONSTANTS h1, h2, default, admins, help, ban

MCDeclares ==
  [h \in Handler |-> IF h = h1 THEN {<<default, help>>, <<admins, ban>>}
                               ELSE {<<default, help>>, <<default, ban>>}]
=============================================================================
