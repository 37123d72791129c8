------------------------------- MODULE MCDrain -------------------------------
(***************************************************************************)
(* Small instances of the Drain engine for TLC.  The lines are numbered;   *)
(* tokens are strings, a digit token is listed in MCNumericTokens.         *)
(***************************************************************************)
EXTENDS DrainProperties

(* The unlimited engine, depth 4: the first token routes. Line 1 brings    *)
(* the wildcard child (numeric token), 2 joins it there, 3 earns token z   *)
(* a child of its own, so that 2 is routed away from its cluster later;    *)
(* the last of 3, 4 and 7 finds the node full. 5 has no tokens, 6 a        *)
(* wildcard of its own.                                                    *)
MCLinesTree == 1..7
MCTokensTree ==
  << <<"7", "b", "c", "d">>, <<"z", "b", "c", "e">>, <<"z", "q", "r", "e">>,
     <<"y", "b", "r", "d">>, << >>, <<"*", "b", "r", "*">>, <<"x", "b", "r", "d">> >>

(* Two tokens route (depth 5) and the store holds two clusters. Lines 3    *)
(* and 6 are two clusters of one leaf.                                     *)
MCLinesLru == 1..6
MCTokensLru ==
  << <<"a", "b", "c", "d">>, <<"a", "b", "c", "e">>, <<"a", "7", "c", "e">>,
     <<"x", "y", "c", "d">>, << >>, <<"a", "8", "f", "f">> >>

(* A masker that replaces numbers: line 1 and 2 read the same once masked. *)
MCLinesMask == 1..3
MCRawMask    == << <<"a", "7">>, <<"a", "8">>, <<"a", "b">> >>
MCMaskedMask == << <<"a", "<NUM>">>, <<"a", "<NUM>">>, <<"a", "b">> >>

MCTokens == {"a", "b", "c", "d", "e", "f", "q", "r", "x", "y", "z", "7", "8", "*", "<NUM>"}
MCNumericTokens == {"7", "8"}
=============================================================================
