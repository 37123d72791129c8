--------------------------- MODULE FullSearchProofs ---------------------------
(***************************************************************************)
(* The full-search grouper is the Drain engine with a tree that does not   *)
(* route: every step of it is a call of the engine.                        *)
(***************************************************************************)
EXTENDS FullSearchGrouper, DataLemmas

Keys == Tokens \cup {ParamStr}

ClusterType == [template : Seq(Keys), members : Seq(Nat) \ {<<>>}]

EntryType ==
  [line : Lines, id : Nat, update : {"cluster_created", "cluster_template_changed", "none"}]

(* The state, as far as the steps depend on it.                            *)
Shapes == clusters \in Seq(ClusterType) /\ log \in Seq(EntryType)

(* Two lines without tokens are never in different clusters.               *)
OneWithoutTokens ==
  \A c, d \in DOMAIN clusters :
    Len(clusters[c].template) = 0 /\ Len(clusters[d].template) = 0 => c = d

FlatInv == Shapes /\ OneWithoutTokens

OfLength(n) == {c \in DOMAIN clusters : Len(clusters[c].template) = n}

-----------------------------------------------------------------------------
(* What the steps read.                                                    *)

LEMMA ClustersSay ==
  ASSUME FlatInv
  PROVE  /\ Len(clusters) \in Nat
         /\ DOMAIN clusters = 1..Len(clusters)
         /\ \A c \in DOMAIN clusters :
              /\ clusters[c].template \in Seq(Keys)
              /\ clusters[c].members \in Seq(Nat) \ {<<>>}
<1>1. clusters \in Seq(ClusterType)
  BY DEF FlatInv, Shapes
<1>2. /\ Len(clusters) \in Nat
      /\ DOMAIN clusters = 1..Len(clusters)
      /\ \A c \in DOMAIN clusters : clusters[c] \in ClusterType
  BY <1>1
<1> QED
  BY <1>2 DEF ClusterType

LEMMA Counts ==
  ASSUME FlatInv, NEW c \in DOMAIN clusters, NEW toks
  PROVE  Sim(c, toks) \in Nat /\ Wildcards(c) \in Nat
<1> DEFINE t == clusters[c].template
<1>1. IsFiniteSet(DOMAIN t)
  <2>1. t \in Seq(Keys)
    BY ClustersSay
  <2>2. DOMAIN t = 1..Len(t) /\ Len(t) \in Nat
    BY <2>1
  <2> QED
    BY <2>2, FS_Interval
<1>2. /\ Matches(t, toks) \in SUBSET DOMAIN t
      /\ Params(t) \in SUBSET DOMAIN t
  BY DEF Matches, Params
<1>3. Cardinality(Matches(t, toks)) \in Nat /\ Cardinality(Params(t)) \in Nat
  BY <1>1, <1>2, FS_Subset, FS_CardinalityType
<1> QED
  BY <1>3 DEF Sim, Wildcards, SimTokens, ParamCount

(* Lines without tokens: all are as similar as can be to all.              *)
LEMMA WithoutTokens ==
  ASSUME FlatInv, NEW c \in DOMAIN clusters, NEW toks, Len(clusters[c].template) = 0
  PROVE  Sim(c, toks) = 0 /\ Wildcards(c) = 0
<1>1. DOMAIN clusters[c].template = {}
  <2>1. clusters[c].template \in Seq(Keys)
    BY ClustersSay
  <2>2. DOMAIN clusters[c].template = 1..0
    BY <2>1
  <2> QED
    BY <2>2
<1>2. /\ Matches(clusters[c].template, toks) = {}
      /\ Params(clusters[c].template) = {}
  BY <1>1 DEF Matches, Params
<1>3. Cardinality({}) = 0
  BY FS_EmptySet
<1> QED
  BY <1>2, <1>3 DEF Sim, Wildcards, SimTokens, ParamCount

(* The engine's helpers are the grouper's.                                 *)
LEMMA SameAlgebra ==
  /\ \A S : FlatDrain!Cardinality(S) = Cardinality(S)
  /\ \A t : FlatDrain!ParamCount(t) = ParamCount(t)
  /\ \A t, m : FlatDrain!SimTokens(t, m, FALSE) = SimTokens(t, m, FALSE)
  /\ \A s, t : FlatDrain!CreateTemplate(s, t) = CreateTemplate(s, t)
  /\ \A s, n : FlatDrain!Reaches(s, n, SimNum, SimDen) = Reaches(s, n, SimNum, SimDen)
<1>1. \A S : FlatDrain!Cardinality(S) = Cardinality(S)
  BY DEF FlatDrain!Cardinality, Cardinality
<1>2. \A t : FlatDrain!ParamCount(t) = ParamCount(t)
  BY <1>1 DEF FlatDrain!ParamCount, ParamCount, FlatDrain!Params, Params
<1>3. \A t, m : FlatDrain!SimTokens(t, m, FALSE) = SimTokens(t, m, FALSE)
  BY <1>1 DEF FlatDrain!SimTokens, SimTokens, FlatDrain!Matches, Matches
<1>4. \A s, t : FlatDrain!CreateTemplate(s, t) = CreateTemplate(s, t)
  BY DEF FlatDrain!CreateTemplate, CreateTemplate
<1>5. \A s, n : FlatDrain!Reaches(s, n, SimNum, SimDen) = Reaches(s, n, SimNum, SimDen)
  BY DEF FlatDrain!Reaches, Reaches
<1> QED
  BY <1>1, <1>2, <1>3, <1>4, <1>5

(* The tree has one leaf for each token count there is.                    *)

LEMMA NoRouting ==
  ASSUME NEW n \in Nat PROVE FlatDrain!RouteLen(n) = 0
BY DEF FlatDrain!RouteLen

LEMMA LeafIsLength ==
  ASSUME NEW toks \in Seq(Tokens)
  PROVE  FlatDrain!SearchLeaves(toks)
           = IF OfLength(Len(toks)) = {} THEN {} ELSE {<<Len(toks), <<>>>>}
<1> DEFINE n == Len(toks)
           nodes == {<<Len(clusters[c].template), <<>>>> : c \in Ids}
<1>1. n \in Nat /\ FlatDrain!RouteLen(n) = 0
  BY NoRouting
<1>2. FlatDrain!SearchLeaves(toks)
        = {node \in nodes : node[1] = n /\ Len(node[2]) = 0}
  BY <1>1 DEF FlatDrain!SearchLeaves
<1>3. \A node \in nodes : node[1] = n /\ Len(node[2]) = 0 <=> node = <<n, <<>>>>
  OBVIOUS
<1>4. <<n, <<>>>> \in nodes <=> OfLength(n) # {}
  BY DEF OfLength, Ids
<1> QED
  BY <1>2, <1>3, <1>4

(* How the engine compares the clusters of a leaf.                         *)
LEMMA EngineCompares ==
  ASSUME NEW toks
  PROVE  /\ FlatDrain!Live = Ids
         /\ \A c, d \in Ids :
              FlatDrain!Better(c, d, toks, FALSE)
                <=> Sim(c, toks) > Sim(d, toks)
                    \/ (Sim(c, toks) = Sim(d, toks) /\ Wildcards(c) > Wildcards(d))
         /\ \A c \in Ids :
              FlatDrain!GoodEnough(c, toks, SimNum, SimDen, FALSE)
                <=> Reaches(Sim(c, toks), Len(toks), SimNum, SimDen)
<1>1. FlatDrain!Live = Ids
  BY DEF FlatDrain!Live
<1>2. \A c \in Ids : FlatDrain!Score(c, toks, FALSE) = Sim(c, toks)
  BY SameAlgebra DEF FlatDrain!Score, Sim
<1>3. \A c, d \in Ids :
        FlatDrain!Better(c, d, toks, FALSE)
          <=> Sim(c, toks) > Sim(d, toks)
              \/ (Sim(c, toks) = Sim(d, toks) /\ Wildcards(c) > Wildcards(d))
  BY <1>2, SameAlgebra DEF FlatDrain!Better, Wildcards
<1>4. \A c \in Ids :
        FlatDrain!GoodEnough(c, toks, SimNum, SimDen, FALSE)
          <=> Reaches(Sim(c, toks), Len(toks), SimNum, SimDen)
  BY <1>2, SameAlgebra DEF FlatDrain!GoodEnough
<1> QED
  BY <1>1, <1>3, <1>4

(* The first of the engine's best is the grouper's best: its tie-break is  *)
(* part of the grouper's comparison.                                       *)
LEMMA SameMatch ==
  ASSUME FlatInv, NEW toks \in Seq(Tokens)
  PROVE  FlatDrain!FastMatch(OfLength(Len(toks)), toks, SimNum, SimDen, FALSE) = Matching(toks)
<1> DEFINE C == OfLength(Len(toks))
           found == FlatDrain!FastMatch(C, toks, SimNum, SimDen, FALSE)
           best == FlatDrain!Best(C, toks, FALSE)
           Above(c, d) == Sim(c, toks) > Sim(d, toks)
                            \/ (Sim(c, toks) = Sim(d, toks) /\ Wildcards(c) > Wildcards(d))
           First(c, d) == Above(c, d) \/ (Sim(c, toks) = Sim(d, toks)
                                            /\ Wildcards(c) = Wildcards(d) /\ c < d)
<1>1. /\ C \subseteq Ids /\ C \subseteq Nat
      /\ \A c \in C : Sim(c, toks) \in Nat /\ Wildcards(c) \in Nat
  BY ClustersSay, Counts DEF OfLength, Ids
<1>2. best = {c \in C : \A d \in C : ~Above(d, c)}
  BY <1>1, EngineCompares DEF FlatDrain!Best
<1>3. found = {c \in best : /\ \A d \in best : c <= d
                            /\ Reaches(Sim(c, toks), Len(toks), SimNum, SimDen)}
  BY <1>1, <1>2, EngineCompares DEF FlatDrain!FastMatch
<1>4. Matching(toks) = {c \in C : /\ \A d \in C \ {c} : ~First(d, c)
                                  /\ Reaches(Sim(c, toks), Len(toks), SimNum, SimDen)}
  BY <1>1 DEF Matching, OfLength, Better
<1>5. ASSUME NEW c \in C
      PROVE  (\A d \in C \ {c} : ~First(d, c)) <=> (c \in best /\ \A d \in best : c <= d)
  <2>1. ASSUME \A d \in C \ {c} : ~First(d, c)
        PROVE  c \in best /\ \A d \in best : c <= d
    <3>1. \A d \in C : ~Above(d, c)
      BY <1>1, <2>1
    <3>2. ASSUME NEW d \in best, ~(c <= d)
          PROVE  FALSE
      <4>1. d \in C /\ d # c /\ c \in Nat /\ d \in Nat /\ d < c
        <5>1. d \in C /\ c \in Nat /\ d \in Nat
          BY <1>1, <1>2
        <5> QED
          BY <3>2, <5>1
      <4>2. ~Above(c, d) /\ ~First(d, c)
        BY <1>2, <2>1, <4>1
      <4>3. /\ Sim(c, toks) \in Nat /\ Wildcards(c) \in Nat
            /\ Sim(d, toks) \in Nat /\ Wildcards(d) \in Nat
        BY <1>1, <4>1
      <4> QED
        BY <4>1, <4>2, <4>3
    <3> QED
      BY <1>2, <3>1, <3>2
  <2>2. ASSUME c \in best, \A d \in best : c <= d
        PROVE  \A d \in C \ {c} : ~First(d, c)
    <3>1. SUFFICES ASSUME NEW d \in C, d # c, First(d, c)
                   PROVE  FALSE
      OBVIOUS
    <3>2. ~Above(d, c) /\ \A e \in C : ~Above(e, c)
      BY <1>2, <2>2, <3>1
    <3>3. Sim(c, toks) = Sim(d, toks) /\ Wildcards(c) = Wildcards(d) /\ d < c
      BY <3>1, <3>2
    <3>4. \A e \in C : ~Above(e, d)
      BY <3>2, <3>3
    <3>5. d \in best /\ c \in Nat /\ d \in Nat
      BY <1>1, <1>2, <3>1, <3>4
    <3>6. c <= d
      BY <2>2, <3>5
    <3> QED
      BY <3>3, <3>5, <3>6
  <2> QED
    BY <2>1, <2>2
<1>6. best \subseteq C
  BY <1>2
<1> HIDE DEF found, best, First, C
<1> QED
  BY <1>3, <1>4, <1>5, <1>6 DEF found, C

(* Without tokens there is nothing to compare: the first is taken.         *)
LEMMA EmptyMatch ==
  ASSUME FlatInv, NEW toks \in Seq(Tokens), Len(toks) = 0
  PROVE  Matching(toks) = OfLength(0)
<1>1. /\ OfLength(0) \subseteq DOMAIN clusters
      /\ \A c \in OfLength(0) : Sim(c, toks) = 0 /\ Wildcards(c) = 0
      /\ \A c, d \in OfLength(0) : c = d
  BY WithoutTokens DEF OfLength, FlatInv, OneWithoutTokens
<1>2. Reaches(0, 0, SimNum, SimDen)
  BY ThresholdAssumption DEF Reaches
<1>3. Matching(toks) = {c \in OfLength(0) :
                          /\ \A d \in OfLength(0) \ {c} : ~Better(d, c, toks)
                          /\ Reaches(Sim(c, toks), Len(toks), SimNum, SimDen)}
  BY DEF Matching, OfLength
<1> QED
  BY <1>1, <1>2, <1>3

LEMMA SameChoice ==
  ASSUME FlatInv, NEW l \in Lines
  PROVE  FlatDrain!Chosen(l) = Matching(TokensOf[l])
<1> DEFINE toks == TokensOf[l]
           n == Len(toks)
           leaf == <<n, <<>>>>
           Listed(node) == {c \in Ids : Len(clusters[c].template) = node[1]}
           Found(ids) == IF n = 0 THEN ids \cap Ids
                         ELSE FlatDrain!FastMatch(ids, toks, SimNum, SimDen, FALSE)
           leaves == FlatDrain!SearchLeaves(toks)
           tree == [node \in {<<Len(clusters[c].template), <<>>>> : c \in Ids} |-> Listed(node)]
<1>1. toks \in Seq(Tokens) /\ n \in Nat
  BY LinesAssumption
<1>2. leaves = IF OfLength(n) = {} THEN {} ELSE {leaf}
  BY <1>1, LeafIsLength
<1>3. FlatDrain!Chosen(l) = UNION {Found(tree[node]) : node \in leaves}
  BY EngineCompares DEF FlatDrain!Chosen, FlatDrain!TreeSearch
<1>4. OfLength(n) # {} => tree[leaf] = OfLength(n)
  BY DEF OfLength, Ids
<1>5. Found(OfLength(n)) = Matching(toks)
  BY <1>1, SameMatch, EmptyMatch DEF OfLength, Ids
<1>6. OfLength(n) = {} => Matching(toks) = {}
  BY DEF Matching, OfLength
<1> HIDE DEF Found, tree, leaf, leaves
<1> QED
  BY <1>2, <1>3, <1>4, <1>5, <1>6

-----------------------------------------------------------------------------
(* The steps.                                                              *)

LEMMA InitFlat == Init => FlatInv /\ FlatDrain!Init
<1> SUFFICES ASSUME Init PROVE FlatInv /\ FlatDrain!Init
  OBVIOUS
<1>1. clusters = <<>> /\ log = <<>> /\ Ids = {}
  BY DEF Init, Ids
<1>2. FlatInv
  BY <1>1 DEF FlatInv, Shapes, OneWithoutTokens
<1>3. FlatDrain!Init
  <2>1. \A F : [c \in {} |-> F] = <<>>
    OBVIOUS
  <2> QED
    BY <1>1, <2>1 DEF FlatDrain!Init
<1> QED
  BY <1>2, <1>3

(* A line that joins a cluster: the engine's update.                       *)
LEMMA JoinIsUpdate ==
  ASSUME FlatInv, NEW l \in Lines, Join(l)
  PROVE  FlatDrain!UpdateCluster(l) /\ FlatInv'
<1> DEFINE toks == TokensOf[l]
<1>1. PICK c \in Matching(toks) :
        LET old == clusters[c].template
            new == CreateTemplate(toks, old)
        IN  /\ clusters' = [clusters EXCEPT ![c] = [template |-> new,
                              members |-> Append(@.members, Len(log) + 1)]]
            /\ log' = Append(log, [line |-> l, id |-> c, update |->
                         IF new = old THEN "none" ELSE "cluster_template_changed"])
  BY DEF Join
<1> DEFINE old == clusters[c].template
           new == CreateTemplate(toks, old)
           kept == [template |-> new, members |-> Append(clusters[c].members, Len(log) + 1)]
<1>2. /\ toks \in Seq(Tokens) /\ c \in Ids /\ Len(old) = Len(toks)
      /\ c \in FlatDrain!Chosen(l)
  BY LinesAssumption, SameChoice DEF Matching, Ids
<1>3. /\ Ids = 1..Len(clusters) /\ Len(clusters) \in Nat /\ clusters \in Seq(ClusterType)
      /\ Len(log) \in Nat
      /\ clusters[c].members \in Seq(Nat) /\ old \in Seq(Keys)
  BY <1>2, ClustersSay DEF Ids, FlatInv, Shapes
<1>4. new \in Seq(Keys) /\ Len(new) = Len(old)
  <2>1. new = [i \in DOMAIN toks |-> IF toks[i] = old[i] THEN old[i] ELSE ParamStr]
    BY DEF CreateTemplate
  <2>2. DOMAIN toks = 1..Len(toks) /\ Len(toks) \in Nat /\ \A i \in 1..Len(toks) : toks[i] \in Tokens
    BY <1>2
  <2>3. new \in [1..Len(toks) -> Keys]
    BY <2>1, <2>2 DEF Keys
  <2> HIDE DEF new
  <2> QED
    BY <1>2, <2>2, <2>3, SeqDef, LenProperties
<1>5. /\ kept \in ClusterType
      /\ Len(kept.members) = Len(clusters[c].members) + 1
      /\ kept.members[Len(kept.members)] = Len(log) + 1
  <2> DEFINE ms == Append(clusters[c].members, Len(log) + 1)
  <2>1. /\ ms \in Seq(Nat) /\ Len(ms) = Len(clusters[c].members) + 1
        /\ Len(clusters[c].members) \in Nat /\ ms[Len(clusters[c].members) + 1] = Len(log) + 1
    BY <1>3, AppendProperties
  <2>2. ms # <<>>
    BY <2>1
  <2> QED
    BY <1>4, <2>1, <2>2 DEF ClusterType
<1> DEFINE upd == IF new = old THEN "none" ELSE "cluster_template_changed"
           entry == [line |-> l, id |-> c, update |-> upd]
<1>6. entry \in EntryType /\ log' = Append(log, entry)
  BY <1>1, <1>2, <1>3 DEF EntryType
<1>7. /\ clusters' = [clusters EXCEPT ![c] = kept]
      /\ kept.template = new /\ new = FlatDrain!CreateTemplate(toks, old)
  BY <1>1, SameAlgebra
<1> HIDE DEF new, kept, upd
<1>8. /\ clusters' \in Seq(ClusterType) /\ Len(clusters') = Len(clusters) /\ Ids' = Ids
      /\ clusters'[c] = kept
      /\ \A d \in Ids : d # c => clusters'[d] = clusters[d]
  BY <1>2, <1>3, <1>5, <1>7 DEF Ids
<1>9. \A d \in Ids : Len(clusters'[d].template) = Len(clusters[d].template)
  BY <1>4, <1>7, <1>8
<1>10. /\ Shapes' /\ OneWithoutTokens'
  <2>1. log' \in Seq(EntryType)
    BY <1>3, <1>6 DEF FlatInv, Shapes
  <2> QED
    BY <1>8, <1>9, <2>1 DEF FlatInv, Shapes, OneWithoutTokens, Ids
<1>11. FlatDrain!UpdateCluster(l)
  <2> DEFINE Entry(cl, d) == [template |-> cl[d].template, size |-> Len(cl[d].members)]
             Latest(cl, d) == cl[d].members[Len(cl[d].members)]
             store == [d \in Ids |-> Entry(clusters, d)]
             recent == [d \in Ids |-> Latest(clusters, d)]
             nodes == {<<Len(clusters[d].template), <<>>>> : d \in Ids}
             listed == [node \in nodes |-> {d \in Ids : Len(clusters[d].template) = node[1]}]
  <2>1. [d \in Ids' |-> Entry(clusters', d)]
          = [store EXCEPT ![c] = [template |-> new, size |-> @.size + 1]]
    BY <1>2, <1>5, <1>7, <1>8
  <2>2. [d \in Ids' |-> Latest(clusters', d)] = [recent EXCEPT ![c] = Len(log) + 1]
    <3>1. Latest(clusters', c) = Len(log) + 1
      BY <1>5, <1>8
    <3>2. \A d \in Ids : d # c => Latest(clusters', d) = Latest(clusters, d)
      BY <1>8
    <3> HIDE DEF Latest
    <3> QED
      BY <1>2, <1>8, <3>1, <3>2
  <2>3. {<<Len(clusters'[d].template), <<>>>> : d \in Ids'} = nodes
    BY <1>8, <1>9
  <2>4. \A node : {d \in Ids' : Len(clusters'[d].template) = node[1]}
                    = {d \in Ids : Len(clusters[d].template) = node[1]}
    BY <1>8, <1>9
  <2>5. [node \in {<<Len(clusters'[d].template), <<>>>> : d \in Ids'} |->
           {d \in Ids' : Len(clusters'[d].template) = node[1]}] = listed
    BY <2>3, <2>4
  <2>6. Len(clusters)' = Len(clusters)
    BY <1>8
  <2>7. store[c].template = old
    BY <1>2
  <2>8. FlatDrain!Promote(c)
    BY <2>2 DEF FlatDrain!Promote
  <2>9. FlatDrain!Record(l, c, upd)
    BY <1>6 DEF FlatDrain!Record
  <2> QED
    BY <1>2, <1>7, <2>1, <2>5, <2>6, <2>7, <2>8, <2>9 DEF FlatDrain!UpdateCluster, upd
<1> QED
  BY <1>10, <1>11 DEF FlatInv

(* A line that opens a cluster: the engine stores it, forgets none, and    *)
(* lists it in the leaf of its token count.                                *)
LEMMA OpenIsCreate ==
  ASSUME FlatInv, NEW l \in Lines, Open(l)
  PROVE  FlatDrain!CreateCluster(l) /\ FlatInv'
<1> DEFINE toks == TokensOf[l]
           n == Len(toks)
           N == Len(clusters)
           opened == [template |-> toks, members |-> <<Len(log) + 1>>]
           entry == [line |-> l, id |-> N + 1, update |-> "cluster_created"]
           Entry(cl, d) == [template |-> cl[d].template, size |-> Len(cl[d].members)]
           Latest(cl, d) == cl[d].members[Len(cl[d].members)]
           Nodes(cl) == {<<Len(cl[d].template), <<>>>> : d \in DOMAIN cl}
           Listed(cl, node) == {d \in DOMAIN cl : Len(cl[d].template) = node[1]}
           after == Append(clusters, opened)
<1>1. /\ toks \in Seq(Tokens) /\ n \in Nat /\ Matching(toks) = {}
      /\ FlatDrain!Chosen(l) = {}
  BY LinesAssumption, SameChoice DEF Open
<1>2. /\ Ids = 1..N /\ N \in Nat /\ clusters \in Seq(ClusterType) /\ Len(log) \in Nat
      /\ clusters' = after /\ log' = Append(log, entry)
  BY ClustersSay DEF Ids, FlatInv, Shapes, Open
<1>3. opened \in ClusterType /\ Len(opened.members) = 1 /\ opened.members[1] = Len(log) + 1
  <2>1. toks \in Seq(Keys)
    BY <1>1 DEF Keys
  <2> QED
    BY <1>2, <2>1 DEF ClusterType
<1> HIDE DEF toks, opened, entry
<1>4. /\ after \in Seq(ClusterType) /\ DOMAIN after = Ids \cup {N + 1} /\ Len(after) = N + 1
      /\ after[N + 1] = opened /\ N + 1 \notin Ids
      /\ \A d \in Ids : after[d] = clusters[d]
  BY <1>2, <1>3 DEF Ids
<1>5. n = 0 => OfLength(0) = {}
  BY <1>1, EmptyMatch DEF toks
<1>6. FlatInv'
  <2>1. entry \in EntryType
    BY <1>2 DEF EntryType, entry
  <2>2. log' \in Seq(EntryType)
    BY <1>2, <2>1 DEF FlatInv, Shapes
  <2>3. \A c, d \in DOMAIN after :
          Len(after[c].template) = 0 /\ Len(after[d].template) = 0 => c = d
    <3>1. opened.template = toks
      BY DEF opened
    <3> QED
      BY <1>4, <1>5, <3>1 DEF FlatInv, OneWithoutTokens, OfLength, Ids
  <2> QED
    BY <1>2, <1>4, <2>2, <2>3 DEF FlatInv, Shapes, OneWithoutTokens
<1>7. FlatDrain!StoreNew(l, N + 1)
  <2>1. FlatDrain!Evicted = {}
    <3>1. FlatDrain!Cardinality(Ids) \in Nat
      BY <1>2, SameAlgebra, FS_Interval, FS_CardinalityType
    <3> QED
      BY <3>1, StoreAssumption, EngineCompares DEF FlatDrain!Evicted
  <2>2. [d \in DOMAIN after |-> Entry(after, d)]
          = [d \in Ids \cup {N + 1} |->
               IF d = N + 1 THEN [template |-> toks, size |-> 1] ELSE Entry(clusters, d)]
    <3>1. Entry(after, N + 1) = [template |-> toks, size |-> 1]
      BY <1>3, <1>4 DEF opened
    <3>2. \A d \in Ids : Entry(after, d) = Entry(clusters, d)
      BY <1>4
    <3> HIDE DEF Entry
    <3> QED
      BY <1>4, <3>1, <3>2
  <2>3. [d \in DOMAIN after |-> Latest(after, d)]
          = [d \in Ids \cup {N + 1} |-> IF d = N + 1 THEN Len(log) + 1 ELSE Latest(clusters, d)]
    <3>1. Latest(after, N + 1) = Len(log) + 1
      BY <1>3, <1>4
    <3>2. \A d \in Ids : Latest(after, d) = Latest(clusters, d)
      BY <1>4
    <3> HIDE DEF Latest
    <3> QED
      BY <1>4, <3>1, <3>2
  <2>4. /\ [d \in Ids |-> Entry(clusters, d)]' = [d \in DOMAIN after |-> Entry(after, d)]
        /\ [d \in Ids |-> Latest(clusters, d)]' = [d \in DOMAIN after |-> Latest(after, d)]
    BY <1>2 DEF Ids
  <2> QED
    BY <2>1, <2>2, <2>3, <2>4, EngineCompares DEF FlatDrain!StoreNew, toks
<1>8. FlatDrain!RouteLen(n) = 0
  BY <1>1, NoRouting
<1>9. ~FlatDrain!InsertPanics(toks)
  BY <1>8 DEF FlatDrain!InsertPanics
<1>10. FlatDrain!AddSeqToPrefixTree(l, N + 1)
  <2> DEFINE leaf == <<n, <<>>>>
             tree == [node \in Nodes(clusters) |-> Listed(clusters, node)]
             grown == [node \in Nodes(after) |-> Listed(after, node)]
             ids(node) == IF node \in Nodes(clusters) THEN Listed(clusters, node) ELSE {}
             kept(node) == FlatDrain!LeafIds(ids(node), n, N + 1)
  <2>1. /\ <<>> \in FlatDrain!Paths(toks, FlatDrain!RouteLen(n))
        /\ FlatDrain!InsertPath(toks, <<>>)
        /\ {<<n, SubSeq(<<>>, 1, i)>> : i \in 0..FlatDrain!RouteLen(n)} = {leaf}
    <3>1. <<>> \in [1..0 -> {toks[i] : i \in DOMAIN toks} \cup {ParamStr}]
      OBVIOUS
    <3>2. FlatDrain!InsertPath(toks, <<>>)
      BY DEF FlatDrain!InsertPath
    <3>3. SubSeq(<<>>, 1, 0) = <<>> /\ 0..0 = {0}
      OBVIOUS
    <3> QED
      BY <1>8, <3>1, <3>2, <3>3 DEF FlatDrain!Paths
  <2>2. opened.template = toks
    BY DEF opened
  <2>3. Nodes(after) = Nodes(clusters) \cup {leaf}
    BY <1>4, <2>2 DEF Ids
  <2>4. \A node : FlatDrain!LeafIds(Listed(clusters, node), n, N + 1)
                    = {d \in Listed(clusters, node) : n > 0} \cup {N + 1}
    <3>1. DOMAIN [d \in Ids |-> Entry(clusters, d)]' = Ids \cup {N + 1}
      BY <1>2, <1>4 DEF Ids
    <3> QED
      BY <3>1 DEF FlatDrain!LeafIds, Ids
  <2>5. leaf[1] = n /\ leaf[2] = <<>> /\ \A node \in Nodes(after) : node[1] = n => node = leaf
    OBVIOUS
  <2>6. Listed(after, leaf) = kept(leaf)
    <3>1. Listed(after, leaf) = Listed(clusters, leaf) \cup {N + 1}
      BY <1>4, <2>2, <2>5 DEF Ids
    <3>2. ids(leaf) = Listed(clusters, leaf)
      BY DEF OfLength, Ids
    <3>3. Listed(clusters, leaf) = {d \in Listed(clusters, leaf) : n > 0}
      BY <1>1, <1>5, <2>5 DEF OfLength, Ids
    <3> HIDE DEF Listed, ids
    <3> QED
      BY <2>4, <3>1, <3>2, <3>3
  <2>7. \A node \in Nodes(after) : node # leaf => Listed(after, node) = ids(node)
    <3>1. SUFFICES ASSUME NEW node \in Nodes(after), node # leaf
                   PROVE  Listed(after, node) = ids(node)
      OBVIOUS
    <3>2. node \in Nodes(clusters) /\ node[1] # n
      BY <2>3, <2>5, <3>1
    <3> QED
      BY <1>4, <2>2, <3>2 DEF Ids
  <2>8. grown = [node \in Nodes(clusters) \cup {leaf} |->
                   IF node = leaf THEN kept(node) ELSE ids(node)]
    <3> HIDE DEF kept, ids, Listed, leaf, Nodes
    <3> QED
      BY <2>3, <2>6, <2>7
  <2>9. [node \in Nodes(clusters) |-> Listed(clusters, node)]' = grown
    BY <1>2
  <2> DEFINE listed(node) == IF node \in DOMAIN tree THEN tree[node] ELSE {}
  <2>10. grown = [node \in DOMAIN tree
                            \cup {<<n, SubSeq(<<>>, 1, i)>> : i \in 0..FlatDrain!RouteLen(n)} |->
                    IF node = <<n, <<>>>> THEN FlatDrain!LeafIds(listed(node), n, N + 1)
                    ELSE listed(node)]
    <3>1. DOMAIN tree = Nodes(clusters) /\ \A node : listed(node) = ids(node)
      OBVIOUS
    <3> HIDE DEF tree, listed, ids, grown, Nodes
    <3> QED
      BY <2>1, <2>8, <3>1
  <2> HIDE DEF grown
  <2>11. \E path \in FlatDrain!Paths(toks, FlatDrain!RouteLen(n)) :
           /\ FlatDrain!InsertPath(toks, path)
           /\ grown = [node \in DOMAIN tree
                            \cup {<<n, SubSeq(path, 1, i)>> : i \in 0..FlatDrain!RouteLen(n)} |->
                         IF node = <<n, path>> THEN FlatDrain!LeafIds(listed(node), n, N + 1)
                         ELSE listed(node)]
    <3> HIDE DEF tree, listed
    <3> QED
      BY <2>1, <2>10
  <2> QED
    BY <2>9, <2>11 DEF FlatDrain!AddSeqToPrefixTree, toks, Ids
<1>11. FlatDrain!Record(l, N + 1, "cluster_created")
  BY <1>2 DEF FlatDrain!Record, entry
<1>12. Len(clusters)' = N + 1
  BY <1>2, <1>4
<1> QED
  BY <1>1, <1>6, <1>7, <1>9, <1>10, <1>11, <1>12 DEF FlatDrain!CreateCluster, toks

(* The full-search grouper is Drain with a tree that does not route: each  *)
(* line of a batch goes where add_log_message would put it, with the same  *)
(* template, and with the same answer.                                     *)
THEOREM FullSearchIsFlatDrain == Spec => IsFlatDrain
<1>1. Init => FlatInv /\ FlatDrain!Init
  BY InitFlat
<1>2. FlatInv /\ [Next]_vars => FlatInv' /\ [FlatDrain!Next]_FlatDrain!vars
  <2> SUFFICES ASSUME FlatInv, [Next]_vars
               PROVE  FlatInv' /\ [FlatDrain!Next]_FlatDrain!vars
    OBVIOUS
  <2>1. CASE Next
    <3>1. PICK l \in Lines : Len(log) < MaxLines /\ (Join(l) \/ Open(l))
      BY <2>1 DEF Next
    <3>2. (FlatDrain!UpdateCluster(l) \/ FlatDrain!CreateCluster(l)) /\ FlatInv'
      BY <3>1, JoinIsUpdate, OpenIsCreate
    <3> QED
      BY <3>1, <3>2 DEF FlatDrain!Next, FlatDrain!AddLogMessage
  <2>2. CASE UNCHANGED vars
    <3>1. clusters' = clusters /\ log' = log
      BY <2>2 DEF vars
    <3>2. FlatInv'
      BY <3>1 DEF FlatInv, Shapes, OneWithoutTokens
    <3> QED
      BY <3>1, <3>2 DEF FlatDrain!vars, Ids
  <2> QED
    BY <2>1, <2>2
<1> QED
  BY <1>1, <1>2, PTL DEF Spec, IsFlatDrain, FlatDrain!Spec
=============================================================================
