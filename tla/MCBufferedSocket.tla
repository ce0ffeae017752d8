-------------------------- MODULE MCBufferedSocket --------------------------
(***************************************************************************)
(* Instances of BufferedSocket for TLC.                                    *)
(***************************************************************************)
EXTENDS BufferedSocket

=============================================================================
