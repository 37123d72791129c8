------------------------- MODULE StatisticalGrouper -------------------------
(***************************************************************************)
(* StatisticalGrouper of codag-drain/src/compress/grouper.rs: a line joins *)
(* the cluster of its length that shares the heaviest anchors with it.     *)
(* Anchors are words without digits; they weigh more the fewer lines of    *)
(* the batch have them.  A step groups the next line of the batch.         *)
(***************************************************************************)
EXTENDS Naturals, Sequences, FiniteSets, FiniteSetsExt

CONSTANTS
  Lines,              \* the lines of a batch
  TokensOf,           \* line -> its lexical tokens
  Anchors,            \* the tokens that are anchors
  Chars,              \* anchor -> its alphanumeric characters
  Weight,             \* batch length -> lines with a token -> its idf weight
  SimNum, SimDen,     \* sim_th as a fraction
  MinSharedAnchors, MinRemainingAnchors, MinStaticChars,
  MaxLines,           \* bound on the length of the batch
  None                \* a position that varies

ASSUME BatchAssumption ==
  /\ MaxLines \in Nat
  /\ \A l \in Lines : TokensOf[l] \in Seq({TokensOf[l][i] : i \in DOMAIN TokensOf[l]})
ASSUME AnchorAssumption == None \notin Anchors
ASSUME LimitsAssumption ==
  /\ {MinSharedAnchors, MinRemainingAnchors, MinStaticChars} \subseteq Nat
  /\ SimNum \in Nat /\ SimDen \in Nat /\ SimNum <= SimDen
ASSUME WeightAssumption == \A n \in 1..MaxLines : \A df \in 1..n : Weight[n][df] \in Nat

VARIABLES
  batch,     \* the lines to group
  clusters,  \* sequence of [template, size]
  log        \* history: [line, id, update] of every line grouped

vars == <<batch, clusters, log>>

Init ==
  /\ batch \in UNION {[1..n -> Lines] : n \in 1..MaxLines}
  /\ clusters = <<>> /\ log = <<>>

AnchorsAt(toks) == {i \in DOMAIN toks : toks[i] \in Anchors}

(* idf_table: the weight of a token in this batch.                         *)
Idf(tok) ==
  Weight[Len(batch)][Cardinality({i \in DOMAIN batch :
                        \E j \in DOMAIN TokensOf[batch[i]] : TokensOf[batch[i]][j] = tok})]

(* The anchors of a line that a cluster has at the same positions: those   *)
(* its template would keep.                                                *)
Shared(c, toks) == {i \in AnchorsAt(toks) : clusters[c].template[i] = toks[i]}

MatchWeight(c, toks) == MapThenSumSet(LAMBDA i : Idf(toks[i]), Shared(c, toks))

Required(toks) == Min({MinRemainingAnchors, Max({1, Cardinality(AnchorsAt(toks))})})

(* Mutant of Admits: the characters that would remain are not counted.     *)
AdmitsShort(c, toks) ==
  LET shared == Cardinality(Shared(c, toks))
      anchors == Cardinality(AnchorsAt(toks))
  IN  /\ Len(clusters[c].template) = Len(toks) /\ anchors > 0
      /\ SimNum * anchors <= SimDen * shared
      /\ shared >= Required(toks)

(* score returns a score: enough anchors are shared and would remain.      *)
Admits(c, toks) ==
  LET shared == Cardinality(Shared(c, toks))
      anchors == Cardinality(AnchorsAt(toks))
  IN  /\ Len(clusters[c].template) = Len(toks)
      /\ anchors > 0
      /\ shared >= Min({MinSharedAnchors, Required(toks)})
      /\ SimNum * anchors <= SimDen * shared
      /\ shared >= Required(toks)
      /\ MapThenSumSet(LAMBDA i : Chars[toks[i]], Shared(c, toks)) >= MinStaticChars

Static(c) == {i \in DOMAIN clusters[c].template : clusters[c].template[i] # None}

(* Mutant of Better: among equals, the cluster with more static tokens.    *)
BetterIfSpecific(c, d, toks) ==
  \/ MatchWeight(c, toks) > MatchWeight(d, toks)
  \/ /\ MatchWeight(c, toks) = MatchWeight(d, toks)
     /\ \/ Cardinality(Static(c)) > Cardinality(Static(d))
        \/ Cardinality(Static(c)) = Cardinality(Static(d)) /\ c < d

(* Heavier, else more of the line's anchors, else earlier.                 *)
Better(c, d, toks) ==
  LET wc == MatchWeight(c, toks)
      wd == MatchWeight(d, toks)
      nc == Cardinality(Shared(c, toks))
      nd == Cardinality(Shared(d, toks))
  IN  wc > wd \/ (wc = wd /\ (nc > nd \/ (nc = nd /\ c < d)))

Best(toks) ==
  LET admitting == {c \in DOMAIN clusters : Admits(c, toks)}
  IN  {c \in admitting : \A d \in admitting \ {c} : Better(c, d, toks)}

(* Mutant of Merge: a wildcard position takes the token of the new line.   *)
MergeRefilling(template, toks) ==
  [i \in DOMAIN template |->
     IF template[i] \in {toks[i], None} THEN toks[i] ELSE None]

(* A position stays static while every line has the same token there.      *)
Merge(template, toks) ==
  [i \in DOMAIN template |-> IF template[i] = toks[i] THEN toks[i] ELSE None]

Join(l) ==
  \E c \in Best(TokensOf[l]) :
    LET old == clusters[c].template
        new == Merge(old, TokensOf[l])
    IN  /\ clusters' = [clusters EXCEPT ![c] = [template |-> new, size |-> @.size + 1]]
        /\ log' = Append(log, [line |-> l, id |-> c, update |->
                     IF new = old THEN "none" ELSE "cluster_template_changed"])

Open(l) ==
  /\ Best(TokensOf[l]) = {}
  /\ clusters' = Append(clusters, [template |-> TokensOf[l], size |-> 1])
  /\ log' = Append(log, [line |-> l, id |-> Len(clusters) + 1, update |-> "cluster_created"])

Next ==
  /\ Len(log) < Len(batch)
  /\ Join(batch[Len(log) + 1]) \/ Open(batch[Len(log) + 1])
  /\ UNCHANGED batch

Spec == Init /\ [][Next]_vars

-----------------------------------------------------------------------------
(* Properties.                                                             *)

Miner == INSTANCE TemplateMiner WITH
           ParamStr <- None, MaxCalls <- MaxLines, live <- clusters

(* The grouper is a template miner: each cluster's template has exactly    *)
(* the tokens that all its lines share.                                    *)
GroupsAreMined == Miner!MinerSpec

(* "weak anchor" merges are refused for good: whatever lines joined it, a  *)
(* joined cluster still has MinStaticChars characters of anchors and       *)
(* MinRemainingAnchors of them, or all those of its line with the fewest.  *)
JoinedStayAnchored ==
  \A c \in DOMAIN clusters : clusters[c].size > 1 =>
    LET t == clusters[c].template
        fewest == Min({Cardinality(AnchorsAt(TokensOf[log[i].line])) :
                         i \in {j \in DOMAIN log : log[j].id = c}})
    IN  /\ Cardinality(AnchorsAt(t)) >= Min({MinRemainingAnchors, fewest})
        /\ MapThenSumSet(LAMBDA i : Chars[t[i]], AnchorsAt(t)) >= MinStaticChars

(* Equal neighbours are grouped, if the line is not too weak to be joined  *)
(* at all: joining a cluster does not make another one the better choice.  *)
EqualNeighboursGrouped ==
  \A i \in 2..Len(log) :
    LET toks == TokensOf[log[i].line]
    IN  (/\ log[i].line = log[i - 1].line
         /\ AnchorsAt(toks) # {}
         /\ MapThenSumSet(LAMBDA j : Chars[toks[j]], AnchorsAt(toks)) >= MinStaticChars)
        => log[i].id = log[i - 1].id
=============================================================================
