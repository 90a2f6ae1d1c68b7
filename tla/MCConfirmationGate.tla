------------------------- MODULE MCConfirmationGate -------------------------
(***************************************************************************)
(* A gate whose allowlist is {"hub", "phone.*"}.                           *)
(***************************************************************************)
EXTENDS ConfirmationGate, TLC

CONSTANTS c1, c2, c3, c4

MCCalls == {c1, c2, c3, c4}
MCCallers == {<<"hub">>, <<"phone">>, <<"phone", "geo">>}
MCConfirmCallers == {[glob |-> FALSE, id |-> <<"hub">>], [glob |-> TRUE, id |-> <<"phone">>]}
Symmetry == Permutations(MCCalls)
=============================================================================
