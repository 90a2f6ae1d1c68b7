--------------------------- MODULE MCVynkorClient ---------------------------
(***************************************************************************)
(* A client with a secret, reused for or replaced by a second connection.  *)
(***************************************************************************)
EXTENDS VynkorClient
=============================================================================
