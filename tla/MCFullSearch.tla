----------------------------- MODULE MCFullSearch -----------------------------
(***************************************************************************)
(* Six lines of four tokens that tie in every way, one of two, one of      *)
(* none; batches of up to five lines.                                      *)
(***************************************************************************)
EXTENDS FullSearchGrouper

MCLines == 1..8
MCTokensOf ==
  << <<"a", "b", "c", "d">>, <<"a", "b", "e", "f">>, <<"x", "y", "c", "d">>,
     <<"a", "y", "c", "f">>, <<"x", "b", "e", "d">>, <<"*", "b", "c", "*">>,
     <<"a", "b">>, << >> >>
MCTokens == {"a", "b", "c", "d", "e", "f", "x", "y", "*"}
=============================================================================
