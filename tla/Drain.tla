-------------------------------- MODULE Drain --------------------------------
(***************************************************************************)
(* The Drain engine of drain3_rust/src/drain.rs with its cluster store     *)
(* (storage.rs): a prefix tree routes a tokenised line to a leaf, the      *)
(* leaf's clusters are scored, and the line joins the best one or opens a  *)
(* new cluster.                                                            *)
(*                                                                         *)
(* Data kept abstract.  The tree is a function from nodes to the set of    *)
(* cluster ids listed there; a node is <<token count, path of keys>>.  A   *)
(* leaf's Vec is always ascending, because ids are appended once, with a   *)
(* fresh counter value, so the set with the order of the ids is the Vec.   *)
(* The LRU list is each entry's time of last promotion.                    *)
(***************************************************************************)
EXTENDS Similarity

CONSTANTS
  Lines,            \* the lines callers may submit
  Tokens,           \* the tokens lines are made of
  RawTokens,        \* line -> its tokens (get_content_as_tokens)
  MaskedTokens,     \* line -> the tokens of the line after the masker
  NumericTokens,    \* tokens with a digit; {} without parametrize_numeric_tokens
  SimNum, SimDen,   \* sim_th as a fraction
  MaxNodeDepth,     \* depth - 2
  MaxChildren,      \* children an interior node may have
  MaxClusters,      \* capacity of the store, or NoLimit
  NoLimit,          \* the unlimited store
  MaxCalls          \* bound on the lines submitted

ASSUME LinesAssumption ==
  /\ RawTokens \in [Lines -> Seq(Tokens)]
  /\ MaskedTokens \in [Lines -> Seq(Tokens)]
ASSUME ThresholdAssumption == SimNum \in Nat /\ SimDen \in Nat \ {0} /\ SimNum <= SimDen
ASSUME TreeAssumption == MaxNodeDepth \in Nat \ {0} /\ MaxChildren \in Nat
ASSUME StoreAssumption == NoLimit \notin Nat /\ MaxClusters \in (Nat \ {0}) \cup {NoLimit}
ASSUME BoundAssumption == MaxCalls \in Nat

VARIABLES
  idToCluster,      \* id -> [template, size], the live clusters
  recency,          \* live id -> call that promoted it last
  tree,             \* node -> ids listed there, stale ones included
  clustersCounter,  \* ids given out so far
  log               \* history: [line, id, update] of every call, in order

vars == <<idToCluster, recency, tree, clustersCounter, log>>

Live == DOMAIN idToCluster
Keys == Tokens \cup {ParamStr}

Init ==
  /\ idToCluster = <<>>
  /\ recency = <<>>
  /\ tree = <<>>
  /\ clustersCounter = 0
  /\ log = <<>>

-----------------------------------------------------------------------------
(* The tree.  A line of n tokens is routed by its first RouteLen(n) ones.  *)

RouteLen(n) ==
  IF n = 0 THEN 0 ELSE (IF n < MaxNodeDepth THEN n ELSE MaxNodeDepth) - 1

Children(n, path) == {k \in Keys : <<n, Append(path, k)>> \in DOMAIN tree}

(* Mutant of Descends: a search that never falls back to the wildcard.     *)
DescendsExactly(kids, token, key) == key \in kids /\ key = token

(* One step down while searching: the token's own child, else the wildcard *)
(* child, else nowhere.                                                    *)
Descends(kids, token, key) ==
  /\ key \in kids
  /\ key = token \/ (key = ParamStr /\ token \notin kids)

(* The leaf tree_search ends in: at most one.                              *)
SearchLeaves(toks) ==
  LET n == Len(toks)
  IN  {node \in DOMAIN tree :
         /\ node[1] = n
         /\ Len(node[2]) = RouteLen(n)
         /\ \A i \in 1..RouteLen(n) :
              Descends(Children(n, SubSeq(node[2], 1, i - 1)), toks[i], node[2][i])}

(* Mutant of HasRoom: no room is kept for the wildcard child.              *)
HasRoomUnreserved(kids) == Cardinality(kids) < MaxChildren

(* One step down while inserting: a token keeps a child of its own if it   *)
(* has one already, or if it is not numeric and there is room left beside  *)
(* the wildcard child, present or still to come.                           *)
HasRoom(kids) ==
  Cardinality(kids) + (IF ParamStr \in kids THEN 0 ELSE 1) < MaxChildren

InsertKey(kids, token) ==
  IF token \in kids \/ (token \notin NumericTokens /\ HasRoom(kids))
    THEN token ELSE ParamStr

(* A path, or the beginning of one, that add_seq_to_prefix_tree takes.     *)
InsertPath(toks, path) ==
  \A i \in DOMAIN path :
    path[i] = InsertKey(Children(Len(toks), SubSeq(path, 1, i - 1)), toks[i])

Paths(toks, n) == [1..n -> {toks[i] : i \in DOMAIN toks} \cup {ParamStr}]

(* get_mut(param_str).unwrap() finds no wildcard child, and none is made.  *)
Stuck(kids, token) ==
  /\ token \notin kids \cup NumericTokens /\ ParamStr \notin kids
  /\ Cardinality(kids) + 1 > MaxChildren

(* Somewhere on its way down the insertion panics.                         *)
InsertPanics(toks) ==
  \E i \in 1..RouteLen(Len(toks)) : \E path \in Paths(toks, i - 1) :
    InsertPath(toks, path) /\ Stuck(Children(Len(toks), path), toks[i])

-----------------------------------------------------------------------------
(* Scoring the live clusters among ids against a line.                     *)

Score(c, toks, includeParams) ==
  SimTokens(idToCluster[c].template, toks, includeParams)

Better(c, d, toks, includeParams) ==
  LET sc == Score(c, toks, includeParams)
      sd == Score(d, toks, includeParams)
  IN  \/ sc > sd
      \/ /\ sc = sd
         /\ ParamCount(idToCluster[c].template) > ParamCount(idToCluster[d].template)

Best(ids, toks, includeParams) ==
  {c \in ids \cap Live : \A d \in ids \cap Live : ~Better(d, c, toks, includeParams)}

GoodEnough(c, toks, num, den, includeParams) ==
  Reaches(Score(c, toks, includeParams), Len(toks), num, den)

(* fast_match over one leaf: the first of the best, if it is good enough.  *)
FastMatch(ids, toks, num, den, includeParams) ==
  LET best == Best(ids, toks, includeParams)
  IN  {c \in best : /\ \A d \in best : c <= d
                    /\ GoodEnough(c, toks, num, den, includeParams)}

(* A line without tokens belongs to the one cluster its leaf lists.        *)
TreeSearch(toks, num, den, includeParams) ==
  UNION {IF Len(toks) = 0 THEN tree[leaf] \cap Live
         ELSE FastMatch(tree[leaf], toks, num, den, includeParams)
           : leaf \in SearchLeaves(toks)}

(* fast_match over the leaves of one token count, whose order is that of a *)
(* HashMap: among the best, any that comes first in its own leaf.          *)
FullSearch(toks, num, den, includeParams) ==
  LET leaves == {node \in DOMAIN tree : node[1] = Len(toks)}
      best == Best(UNION {tree[leaf] : leaf \in leaves}, toks, includeParams)
  IN  {c \in best :
         /\ GoodEnough(c, toks, num, den, includeParams)
         /\ \A leaf \in leaves :
              c \in tree[leaf] => \A d \in best \cap tree[leaf] : c <= d}

(* Mutant of MatchLog: the fallback to the full search is missing.         *)
MatchLogTreeOnly(l, strategy) ==
  IF strategy = "always" THEN FullSearch(RawTokens[l], 1, 1, TRUE)
  ELSE TreeSearch(RawTokens[l], 1, 1, TRUE)

(* match_log: the possible answers, {} for None.  It tokenises the line    *)
(* without masking it.                                                     *)
MatchLog(l, strategy) ==
  LET full  == FullSearch(RawTokens[l], 1, 1, TRUE)
      found == TreeSearch(RawTokens[l], 1, 1, TRUE)
  IN  IF strategy = "always" THEN full
      ELSE IF found # {} \/ strategy = "never" THEN found
      ELSE full

-----------------------------------------------------------------------------
(* add_log_message.                                                        *)

(* Mutant of Chosen: wildcard positions count as matches while ingesting.  *)
ChosenWithParams(l) == TreeSearch(MaskedTokens[l], SimNum, SimDen, TRUE)

Chosen(l) == TreeSearch(MaskedTokens[l], SimNum, SimDen, FALSE)

Record(l, c, u) == log' = Append(log, [line |-> l, id |-> c, update |-> u])

(* Mutant of Promote: an update leaves the LRU list as it was.             *)
PromoteNothing(c) == recency' = recency

(* get_mut and touch put the cluster at the recent end of the LRU list.    *)
Promote(c) == recency' = [recency EXCEPT ![c] = Len(log) + 1]

(* A cluster matched: its template is generalised, its size grows.         *)
UpdateCluster(l) ==
  \E c \in Chosen(l) :
    LET old == idToCluster[c].template
        new == CreateTemplate(MaskedTokens[l], old)
    IN  /\ idToCluster' = [idToCluster EXCEPT
                             ![c] = [template |-> new, size |-> @.size + 1]]
        /\ Promote(c)
        /\ Record(l, c, IF new = old THEN "none" ELSE "cluster_template_changed")
        /\ UNCHANGED <<tree, clustersCounter>>

(* What LruCache::put drops to make room: the least recently used entry of *)
(* a full store.                                                           *)
Evicted ==
  {v \in Live : /\ Cardinality(Live) = MaxClusters
                /\ \A w \in Live : recency[v] <= recency[w]}

StoreNew(l, c) ==
  LET kept == (Live \ Evicted) \cup {c}
  IN  /\ idToCluster' = [d \in kept |->
                           IF d = c THEN [template |-> MaskedTokens[l], size |-> 1]
                           ELSE idToCluster[d]]
      /\ recency' = [d \in kept |-> IF d = c THEN Len(log) + 1 ELSE recency[d]]

(* Mutant of LeafIds: every leaf keeps only its newest cluster.            *)
LeafIdsNewest(ids, n, c) == {c}

(* What the leaf of a new cluster lists afterwards: the ids still live and *)
(* the new one; without tokens the list is replaced.                       *)
LeafIds(ids, n, c) == {d \in ids : n > 0 /\ d \in DOMAIN idToCluster'} \cup {c}

AddSeqToPrefixTree(l, c) ==
  LET toks == MaskedTokens[l]
      n    == Len(toks)
      ids(node) == IF node \in DOMAIN tree THEN tree[node] ELSE {}
  IN  \E path \in Paths(toks, RouteLen(n)) :
        /\ InsertPath(toks, path)
        /\ tree' = [node \in DOMAIN tree \cup {<<n, SubSeq(path, 1, i)>> : i \in 0..RouteLen(n)} |->
                      IF node = <<n, path>> THEN LeafIds(ids(node), n, c) ELSE ids(node)]

(* Mutant of CreateCluster: the id is taken before the counter moves.      *)
CreateClusterPostIncrement(l) ==
  /\ Chosen(l) = {}
  /\ clustersCounter' = clustersCounter + 1
  /\ StoreNew(l, clustersCounter)
  /\ AddSeqToPrefixTree(l, clustersCounter)
  /\ Record(l, clustersCounter, "cluster_created")

(* Mutant of CreateCluster: ids are numbered by the size of the store.     *)
CreateClusterReusingIds(l) ==
  /\ Chosen(l) = {}
  /\ clustersCounter' = clustersCounter + 1
  /\ StoreNew(l, Cardinality(Live) + 1)
  /\ AddSeqToPrefixTree(l, Cardinality(Live) + 1)
  /\ Record(l, Cardinality(Live) + 1, "cluster_created")

(* No cluster matched: a new one is stored, which may evict another, and   *)
(* then entered in the tree.  If the insertion panics the call does not    *)
(* return and the engine is not used again.                                *)
CreateCluster(l) ==
  /\ Chosen(l) = {} /\ ~InsertPanics(MaskedTokens[l])
  /\ clustersCounter' = clustersCounter + 1
  /\ StoreNew(l, clustersCounter + 1)
  /\ AddSeqToPrefixTree(l, clustersCounter + 1)
  /\ Record(l, clustersCounter + 1, "cluster_created")

AddLogMessage(l) ==
  /\ Len(log) < MaxCalls
  /\ UpdateCluster(l) \/ CreateCluster(l)

Next == \E l \in Lines : AddLogMessage(l)

Spec == Init /\ [][Next]_vars
=============================================================================
