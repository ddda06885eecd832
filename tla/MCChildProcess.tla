--------------------------- MODULE MCChildProcess ---------------------------
(* One output stream with two chunks, and two calls on stdin: enough for a     *)
(* read, an exit, a cancel and an end() in every order.                       *)
EXTENDS ChildProcess
=============================================================================
