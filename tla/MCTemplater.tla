------------------------------ MODULE MCTemplater ------------------------------
(***************************************************************************)
(* Batches of up to three lines of seventeen that differ in a word, in two *)
(* words with and without something between, in blanks and in commas, that *)
(* are in another order, compact, or without an anchor; with numbers,      *)
(* numbers with a unit, with a fraction and behind a word, an address and  *)
(* a hex literal.                                                          *)
(***************************************************************************)
EXTENDS Templater

MCLines ==
  { <<"a", " ", "x", " ", "b">>,
    <<"a", " ", "y", " ", "b">>,
    <<"a", " ", "x", " ", "y", " ", "b">>,
    <<"a", " ", "y", " ", "x", " ", "b">>,
    <<"a", " ", " ", "x", " ", "b">>,
    <<"a", " ", "x", ",", "b">>,
    <<"a", ":", "b", ":", "x">>,
    <<"a", ":", "y", ":", "y">>,
    <<"-", " ", "x">>,
    <<"-", " ", "y">>,
    <<"7", " ", "8", " ", "9">>,
    <<"9", " ", "9", " ", "7">>,
    <<"a", " ", "7", "x", " ", "b">>,
    <<"a", " ", "8", ".", "9", " ", "b">>,
    <<"a", " ", "x", "-", "7", " ", "b">>,
    <<"a", " ", "7", ".", "8", ".", "9", ".", "7", " ", "b">>,
    <<"a", " ", "0", "x", "8", "9", " ", "b">> }

(* No blanks or commas that could matter. *)
MCPlainLines ==
  { <<"a", " ", "x", " ", "b">>, <<"a", " ", "x", " ", "y", " ", "b">>,
    <<"a", " ", "y", " ", "x", " ", "b">> }

MCLetters == {"a", "b", "x", "y"}
MCDigit == [c \in {"7", "8", "9"} |-> CASE c = "7" -> 7 [] c = "8" -> 8 [] c = "9" -> 9]
MCDigits == DOMAIN MCDigit
MCMasks == {"<IP>", "<HEX>", "<NUM>"}

MCKind ==
  [c \in MCLetters \cup MCDigits \cup {"0", "-"} |-> "word"]
    @@ [c \in {":", ",", "."} \cup MCMasks |-> "punct"] @@ (" " :> "blank")
MCWordChars == MCLetters \cup MCDigits \cup {"0"}
MCNoise == {":", ",", "-", "."}
MCDelimiters == {":", ","}
MCGroupers == {"drain", "drain-stock", "drain-delimited"}
MCOneGrouper == {"drain"}
=============================================================================
