---------------------------- MODULE MCReassembly ----------------------------
(***************************************************************************)
(* Two messages and stray fragments into a receiver that holds two sets.   *)
(***************************************************************************)
EXTENDS Reassembly, TLC

\* A sequence past its total, a first fragment, a second one that makes the set too large
\* together with it, and a first fragment with another total.
Header(seq, total, len) == [seq |-> seq, total |-> total, len |-> len]
MCStrayHeaders == {Header(2, 2, 0), Header(0, 3, 1), Header(1, 3, 3), Header(0, 2, 1)}

Symmetry == Permutations(Messages)
=============================================================================
