----------------------------- MODULE Similarity -----------------------------
(***************************************************************************)
(* The token algebra of drain3_rust/src/similarity.rs.  A template is a    *)
(* sequence of tokens in which ParamStr stands for a varying position.     *)
(* The code divides the number of matching positions by the length; two    *)
(* scores compared by the code always have the same length, so the model   *)
(* keeps the numerator and compares with a threshold num/den by cross      *)
(* multiplication, which is exact where the code uses f64.                 *)
(***************************************************************************)
EXTENDS Naturals, Sequences, FiniteSets

CONSTANT ParamStr      \* the wildcard string, "<*>" by default

(* Positions of a template that hold the wildcard. *)
Params(template) == {i \in DOMAIN template : template[i] = ParamStr}

(* Positions at which the template has a token of its own and the message  *)
(* has the same one: the tokens get_seq_distance counts.                   *)
Matches(template, msg) ==
  {i \in DOMAIN template : template[i] # ParamStr /\ template[i] = msg[i]}

(* get_seq_distance: the numerator of the similarity, and the param count. *)
SimTokens(template, msg, includeParams) ==
  Cardinality(Matches(template, msg))
    + (IF includeParams THEN Cardinality(Params(template)) ELSE 0)

ParamCount(template) == Cardinality(Params(template))

(* count / len >= num / den; an empty sequence has similarity 1.           *)
Reaches(count, len, num, den) ==
  IF len = 0 THEN num <= den ELSE num * len <= count * den

(* Mutant of CreateTemplate: a differing position keeps the older token.   *)
CreateTemplateKeeping(seq1, seq2) == [i \in DOMAIN seq1 |-> seq2[i]]

(* create_template: equal tokens stay, different ones become the wildcard. *)
CreateTemplate(seq1, seq2) ==
  [i \in DOMAIN seq1 |-> IF seq1[i] = seq2[i] THEN seq2[i] ELSE ParamStr]

(* What a template of a non-empty set of equally long messages should be:  *)
(* the token they all share at a position, the wildcard where they differ. *)
LeastGeneral(msgs) ==
  LET any == CHOOSE m \in msgs : TRUE
  IN  [i \in DOMAIN any |->
         IF \A m \in msgs : m[i] = any[i] THEN any[i] ELSE ParamStr]
=============================================================================
