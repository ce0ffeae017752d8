---------------------------- MODULE MCHttpClient ---------------------------
(***************************************************************************)
(* Instances of HttpClient for TLC.                                        *)
(***************************************************************************)
EXTENDS HttpClient

\* A uri that was parsed, and one that was not.
MCUris == {[valid |-> TRUE], [valid |-> FALSE]}

=============================================================================
