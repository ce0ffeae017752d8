------------------------------ MODULE MCSocket ------------------------------
(***************************************************************************)
(* Instances of Socket for TLC.  The objects are interchangeable.          *)
(***************************************************************************)
EXTENDS Socket, TLC

Symmetry == Permutations(Objects)

=============================================================================
