----------------------------- MODULE MCReadable -----------------------------
(* Three chunks and five calls of the consumer: enough to attach, detach and  *)
(* attach again around a flush, and to destroy the stream with a backlog.     *)
EXTENDS Readable
=============================================================================
