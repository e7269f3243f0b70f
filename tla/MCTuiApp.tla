------------------------------ MODULE MCTuiApp ------------------------------
(* Two incoming transfers and three generations, enough for a send that is *)
(* left or retried while its successor is under way; without transfers,    *)
(* two messages to tell a send from its retry.                             *)
EXTENDS TuiApp
=============================================================================
