--------------------------- MODULE MCApplication ---------------------------
(***************************************************************************)
(* An instance of Application: callables of any kind, a OneBot bot, and a  *)
(* Telegram bot whose connection type is not known.                        *)
(***************************************************************************)
EXTENDS Application

MCBots == [q |-> [type |-> "qq", connection |-> "websocket"],
           t |-> [type |-> "telegram", connection |-> "?"]]
=============================================================================
