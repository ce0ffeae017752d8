--------------------------- MODULE MCTelnetSocket --------------------------
(***************************************************************************)
(* Instances of TelnetSocket for TLC.                                      *)
(***************************************************************************)
EXTENDS TelnetSocket

Symmetry == Permutations(Listeners)

=============================================================================
