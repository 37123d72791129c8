-------------------------- MODULE FullSearchGrouper --------------------------
(***************************************************************************)
(* DrainFullSearchGrouper of codag-drain/src/compress/grouper.rs: Drain's  *)
(* scorer and template rule over every cluster, written without the engine *)
(* of drain3_rust.  A step groups the next line of the batch; members are  *)
(* line numbers.                                                           *)
(***************************************************************************)
EXTENDS Similarity

CONSTANTS
  Lines,            \* the lines of a batch
  Tokens,           \* the tokens lines are made of
  TokensOf,         \* line -> drain_tokens of its message
  SimNum, SimDen,   \* sim_th as a fraction
  MaxLines,         \* bound on the length of the batch
  NoLimit           \* capacity of the engine's unlimited store

ASSUME LinesAssumption == TokensOf \in [Lines -> Seq(Tokens)]
ASSUME ThresholdAssumption == SimNum \in Nat /\ SimDen \in Nat \ {0} /\ SimNum <= SimDen
ASSUME StoreAssumption == NoLimit \notin Nat

VARIABLES
  clusters,  \* sequence of [template, members]
  log        \* history: [line, id, update] of every line so far

vars == <<clusters, log>>

Init == clusters = <<>> /\ log = <<>>

Sim(c, toks) == SimTokens(clusters[c].template, toks, FALSE)
Wildcards(c) == ParamCount(clusters[c].template)

(* Mutant of Better: of two equal clusters the later one is better.        *)
BetterIfLater(c, d, toks) ==
  \/ Sim(c, toks) > Sim(d, toks)
  \/ /\ Sim(c, toks) = Sim(d, toks)
     /\ Wildcards(c) > Wildcards(d) \/ (Wildcards(c) = Wildcards(d) /\ c > d)

(* More similar, else more general, else earlier.                          *)
Better(c, d, toks) ==
  \/ Sim(c, toks) > Sim(d, toks)
  \/ /\ Sim(c, toks) = Sim(d, toks)
     /\ Wildcards(c) > Wildcards(d) \/ (Wildcards(c) = Wildcards(d) /\ c < d)

(* The best of the clusters with the line's length, if it reaches sim_th.  *)
Matching(toks) ==
  LET candidates == {c \in DOMAIN clusters : Len(clusters[c].template) = Len(toks)}
  IN  {c \in candidates :
         /\ \A d \in candidates \ {c} : ~Better(d, c, toks)
         /\ Reaches(Sim(c, toks), Len(toks), SimNum, SimDen)}

Join(l) ==
  \E c \in Matching(TokensOf[l]) :
    LET old == clusters[c].template
        new == CreateTemplate(TokensOf[l], old)
    IN  /\ clusters' = [clusters EXCEPT
                          ![c] = [template |-> new, members |-> Append(@.members, Len(log) + 1)]]
        /\ log' = Append(log, [line |-> l, id |-> c, update |->
                     IF new = old THEN "none" ELSE "cluster_template_changed"])

Open(l) ==
  /\ Matching(TokensOf[l]) = {}
  /\ clusters' = Append(clusters, [template |-> TokensOf[l], members |-> <<Len(log) + 1>>])
  /\ log' = Append(log, [line |-> l, id |-> Len(clusters) + 1, update |-> "cluster_created"])

Next ==
  /\ Len(log) < MaxLines
  /\ \E l \in Lines : Join(l) \/ Open(l)

Spec == Init /\ [][Next]_vars

-----------------------------------------------------------------------------
Ids == DOMAIN clusters

(* "Drain's similarity scorer over every existing same-length cluster",    *)
(* with its template rule and threshold and without the prefix-tree        *)
(* routing (grouper.rs:184-188): the grouper behaves exactly as the engine *)
(* would with a tree that does not route, depth 3, and an unlimited store; *)
(* ties, repeated lines and lines without tokens included.                 *)
FlatDrain ==
  INSTANCE Drain WITH
    RawTokens <- TokensOf, MaskedTokens <- TokensOf, NumericTokens <- {},
    MaxNodeDepth <- 1, MaxChildren <- 1, MaxClusters <- NoLimit,
    MaxCalls <- MaxLines,
    idToCluster <- [c \in Ids |-> [template |-> clusters[c].template,
                                   size |-> Len(clusters[c].members)]],
    recency <- [c \in Ids |-> clusters[c].members[Len(clusters[c].members)]],
    tree <- [node \in {<<Len(clusters[c].template), <<>>>> : c \in Ids} |->
               {c \in Ids : Len(clusters[c].template) = node[1]}],
    clustersCounter <- Len(clusters)

IsFlatDrain == FlatDrain!Spec
=============================================================================
