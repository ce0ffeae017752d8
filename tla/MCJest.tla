------------------------------- MODULE MCJest -------------------------------
(***************************************************************************)
(* Instances of Jest for TLC.                                              *)
(***************************************************************************)
EXTENDS Jest

\* "m" and "u" stand for the words method and uri.
MCAlphabet == <<"=", "D", "G", "a", "m", "u", "x">>
MCMethodKey == <<"m">>
MCUriKey == <<"u">>
MCGetName == <<"G">>
MCMethods == {<<"G">>, <<"D", "D">>}

\* A short uri, longer ones whose end looks like an entry when a shorter text is written
\* over their beginning, and one with a blank.
MCUriTexts == {<<"x">>, <<"x", "a", "m", "=", "D", "D">>, <<"x", "x", "a", "=">>,
               <<"x", "sp", "m", "=", "D", "D">>}

Symmetry == Permutations(Procs)

=============================================================================
