------------------------------ MODULE MCProcess ------------------------------
(* Process with a couple of workers. *)
EXTENDS Process
=============================================================================
