--------------------------- MODULE DrainProperties ---------------------------
(***************************************************************************)
(* What makes the Drain engine correct.                                    *)
(***************************************************************************)
EXTENDS Drain

ClusterType == [template : Seq(Keys), size : Nat \ {0}]

UpdateTypes == {"cluster_created", "cluster_template_changed", "none"}

EntryType(n) == [line : Lines, id : 1..n, update : UpdateTypes]

(* Shapes of the engine's state: ids come from the counter, the tree lists *)
(* ids that were given out, the store and the LRU list hold the same ids.  *)
TypeOK ==
  /\ clustersCounter \in 0..Len(log)
  /\ Live \subseteq 1..clustersCounter
  /\ idToCluster \in [Live -> ClusterType]
  /\ recency \in [Live -> 1..Len(log)]
  /\ DOMAIN tree \subseteq Nat \X Seq(Keys)
  /\ tree \in [DOMAIN tree -> SUBSET (1..clustersCounter)]
  /\ log \in Seq(EntryType(clustersCounter))
  /\ Len(log) <= MaxCalls

Miner == INSTANCE TemplateMiner WITH TokensOf <- MaskedTokens, live <- idToCluster

(* The engine is a template miner: the size and the template it keeps      *)
(* incrementally (add_log_message_from_tokens) are at every moment the     *)
(* number of lines assigned to the cluster and their least general         *)
(* template, whatever was evicted meanwhile.                               *)
MinerSpec == Miner!MinerSpec

(* What makes the step-by-step bookkeeping add up, an inductive            *)
(* strengthening of the refinement: a cluster listed in the tree has the   *)
(* token count of its node, so a chosen cluster has that of the line; no   *)
(* two live clusters were promoted by the same call, so one is evicted at  *)
(* most; and what is stored of a cluster is what the log says.             *)
ListedLengths ==
  \A node \in DOMAIN tree : \A c \in tree[node] \cap Live :
    Len(idToCluster[c].template) = node[1]

RecencyDistinct == \A c, d \in Live : recency[c] = recency[d] => c = d

ReportsExact ==
  \A c \in Live :
    /\ Miner!Assigned(log, c) # {}
    /\ \A m \in Miner!Contents(log, c) : Len(m) = Len(idToCluster[c].template)
    /\ idToCluster[c] = Miner!Report(log, c)

MinerInv == ListedLengths /\ RecencyDistinct /\ ReportsExact

Members(c) == {i \in DOMAIN log : log[i].id = c}

(* However often a cluster is generalised, each line that ever joined it   *)
(* still reaches sim_th against the template it has now: templates do not  *)
(* drift away from their members.  A cluster of one line is its line.      *)
MembersStayAdmissible ==
  \A c \in Live : idToCluster[c].size > 1 =>
    \A i \in Members(c) :
      LET toks == MaskedTokens[log[i].line]
      IN  Reaches(SimTokens(idToCluster[c].template, toks, FALSE),
                  Len(toks), SimNum, SimDen)

Lists(node, c) == c \in tree[node]

(* Every live cluster is listed in exactly one leaf; the stale-id clean-up *)
(* of add_seq_to_prefix_tree never drops it.  The leaf has its token count *)
(* (get_seq_distance asserts equal lengths) and its template still has the *)
(* tokens that lead there.                                                 *)
LeafHomes ==
  \A c \in Live :
    LET t == idToCluster[c].template
        homes == {node \in DOMAIN tree : Lists(node, c)}
    IN  /\ Cardinality(homes) = 1
        /\ \A node \in homes :
             /\ node[1] = Len(t)
             /\ Len(node[2]) = RouteLen(Len(t))
             /\ \A j \in DOMAIN node[2] : node[2][j] \in {t[j], ParamStr}

(* With max_children at least one the get_mut(param_str).unwrap() of       *)
(* add_seq_to_prefix_tree finds a wildcard child whenever a line has to    *)
(* take it: no line makes the engine panic.                                *)
NeverPanics ==
  MaxChildren > 0 => \A l \in Lines : Chosen(l) = {} => ~InsertPanics(MaskedTokens[l])

(* A line repeated at once goes to the cluster it just went to and changes *)
(* nothing: insertion and search take the same path, and generalising the  *)
(* chosen cluster does not make another one the better choice.             *)
RepeatIsNoop ==
  [][\A l \in Lines :
       (/\ log # <<>>
        /\ log[Len(log)].line = l
        /\ \A i \in DOMAIN MaskedTokens[l] : MaskedTokens[l][i] # ParamStr
        /\ log' # log
        /\ log'[Len(log')].line = l)
       => /\ log'[Len(log')].id = log[Len(log)].id
          /\ log'[Len(log')].update = "none"]_vars

(* A line that was assigned to a cluster still live is matched by          *)
(* match_log, whatever the tree did with later lines.                      *)
IngestedLinesMatch ==
  \A i \in DOMAIN log : log[i].id \in Live =>
    \A strategy \in {"always", "fallback"} : MatchLog(log[i].line, strategy) # {}

(* The store is an LRU store of clusters by the lines assigned to them:    *)
(* it is full before it forgets one, and a forgotten cluster got its last  *)
(* line before the last line of each live one.  Reading (peek, match_log)  *)
(* promotes nothing.                                                       *)
LiveAreMostRecent ==
  /\ MaxClusters \in Nat => Cardinality(Live) <= MaxClusters
  /\ \A i \in DOMAIN log : log[i].id \notin Live =>
       /\ Cardinality(Live) = MaxClusters
       /\ \A c \in Live : \E j \in DOMAIN log : j > i /\ log[j].id = c
=============================================================================
