-------------------------- MODULE MCConcurrentLoop --------------------------
(***************************************************************************)
(* Small instances of ConcurrentLoop: two requests, one of them with       *)
(* replies that are too big to send, and a wake pipe of one byte.          *)
(***************************************************************************)
EXTENDS ConcurrentLoop
=============================================================================
