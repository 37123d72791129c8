---------------------------- MODULE MCStatistical ----------------------------
(***************************************************************************)
(* Batches of up to four lines.  Token i is a short word, n1 and n2 are    *)
(* numbers.  The last two lines tie: a line can share as much with one     *)
(* cluster as with another.  The weights are 100 times                     *)
(* ln((n + 1) / (df + 1)) + 1, rounded.                                    *)
(***************************************************************************)
EXTENDS StatisticalGrouper

MCLines == 1..9
MCTokensOf ==
  << <<"open", "file", "n1">>, <<"open", "file", "n2">>, <<"open", "port", "i">>,
     <<"shut", "port", "i">>, <<"i", "i", "n1">>, <<"open", "n1", "i">>, <<"n1", "n2">>,
     <<"n1", "file", "port">>, <<"open", "file", "port">> >>
MCAnchors == {"open", "file", "port", "shut", "i"}
MCChars == [t \in MCAnchors |-> IF t = "i" THEN 1 ELSE 4]
MCWeight ==
  << <<100>>, <<141, 100>>, <<169, 129, 100>>, <<192, 151, 122, 100>> >>
=============================================================================
