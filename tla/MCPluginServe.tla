--------------------------- MODULE MCPluginServe ----------------------------
(***************************************************************************)
(* Two events, one ping and two envelopes for on_message.                  *)
(***************************************************************************)
EXTENDS PluginServe
=============================================================================
