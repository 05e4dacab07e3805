-------------------------- MODULE MCNewMessagesTies --------------------------
(* One command over one chat whose messages may be of the same second. *)
EXTENDS NewMessages
=============================================================================
