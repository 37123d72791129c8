----------------------------- MODULE DrainProofs -----------------------------
(***************************************************************************)
(* Machine-checked proofs about the Drain engine, for every set of lines,  *)
(* threshold, tree shape, store capacity and number of calls: the token    *)
(* algebra; the store, what its clusters are and the refinement of the     *)
(* template miner; the least recently used order; the prefix tree.         *)
(***************************************************************************)
EXTENDS DrainProperties, DataLemmas

-----------------------------------------------------------------------------
(* The token algebra, for every wildcard and every set of tokens.          *)

(* The least general template position by position.                        *)
LEMMA LeastGeneralAt ==
  ASSUME NEW msgs, NEW n \in Nat, msgs # {},
         \A m \in msgs : DOMAIN m = 1..n
  PROVE  /\ DOMAIN LeastGeneral(msgs) = 1..n
         /\ LeastGeneral(msgs) = [i \in 1..n |-> LeastGeneral(msgs)[i]]
         /\ \A i \in 1..n, m \in msgs :
              LeastGeneral(msgs)[i] =
                IF \A o \in msgs : o[i] = m[i] THEN m[i] ELSE ParamStr
<1> DEFINE any == CHOOSE m \in msgs : TRUE
<1>1. any \in msgs
  OBVIOUS
<1>2. LeastGeneral(msgs) =
        [i \in 1..n |-> IF \A m \in msgs : m[i] = any[i] THEN any[i] ELSE ParamStr]
  BY <1>1 DEF LeastGeneral
<1> HIDE DEF any
<1>3. ASSUME NEW i \in 1..n, NEW m \in msgs
      PROVE  LeastGeneral(msgs)[i] =
               IF \A o \in msgs : o[i] = m[i] THEN m[i] ELSE ParamStr
  <2>1. CASE \A o \in msgs : o[i] = m[i]
    BY <1>1, <1>2, <2>1
  <2>2. CASE ~ \A o \in msgs : o[i] = m[i]
    <3>1. ~ \A o \in msgs : o[i] = any[i]
      BY <1>1, <2>2
    <3> QED
      BY <1>2, <2>2, <3>1
  <2> QED
    BY <2>1, <2>2
<1> QED
  BY <1>2, <1>3

(* Generalising the least general template of some messages with one more  *)
(* message gives the least general template of them all: create_template   *)
(* applied message by message computes the batch result.                   *)
LEMMA CreateTemplateExtends ==
  ASSUME NEW msgs, NEW n \in Nat, msgs # {}, NEW x,
         \A m \in msgs : DOMAIN m = 1..n, DOMAIN x = 1..n
  PROVE  CreateTemplate(x, LeastGeneral(msgs)) = LeastGeneral(msgs \cup {x})
<1> DEFINE old == LeastGeneral(msgs)
           new == CreateTemplate(x, old)
           all == LeastGeneral(msgs \cup {x})
<1>1. /\ DOMAIN old = 1..n
      /\ \A i \in 1..n, m \in msgs :
           old[i] = IF \A o \in msgs : o[i] = m[i] THEN m[i] ELSE ParamStr
  BY LeastGeneralAt
<1>2. /\ all = [i \in 1..n |-> all[i]]
      /\ \A i \in 1..n, m \in msgs \cup {x} :
           all[i] = IF \A o \in msgs \cup {x} : o[i] = m[i] THEN m[i] ELSE ParamStr
  <2>1. msgs \cup {x} # {} /\ \A m \in msgs \cup {x} : DOMAIN m = 1..n
    OBVIOUS
  <2> QED
    BY <2>1, LeastGeneralAt
<1>3. new = [i \in 1..n |-> IF x[i] = old[i] THEN old[i] ELSE ParamStr]
  BY DEF CreateTemplate
<1> HIDE DEF old, new, all
<1>4. ASSUME NEW i \in 1..n PROVE new[i] = all[i]
  <2>1. PICK m \in msgs : TRUE
    OBVIOUS
  <2>2. CASE \A o \in msgs : o[i] = m[i]
    <3>1. old[i] = m[i]
      BY <1>1, <2>2
    <3>2. all[i] = IF x[i] = m[i] THEN m[i] ELSE ParamStr
      BY <1>2, <2>2
    <3> QED
      BY <1>3, <3>1, <3>2
  <2>3. CASE ~ \A o \in msgs : o[i] = m[i]
    <3>1. old[i] = ParamStr
      BY <1>1, <2>3
    <3>2. all[i] = ParamStr
      BY <1>2, <2>3
    <3> QED
      BY <1>3, <3>1, <3>2
  <2> QED
    BY <2>2, <2>3
<1>5. new = [i \in 1..n |-> new[i]]
  BY <1>3
<1> QED
  BY <1>2, <1>4, <1>5 DEF old, new, all

(* One message is its own least general template.                          *)
LEMMA LeastGeneralOfOne ==
  ASSUME NEW x, NEW n \in Nat, DOMAIN x = 1..n, x = [i \in 1..n |-> x[i]]
  PROVE  LeastGeneral({x}) = x
<1>1. {x} # {} /\ \A m \in {x} : DOMAIN m = 1..n
  OBVIOUS
<1>2. /\ LeastGeneral({x}) = [i \in 1..n |-> LeastGeneral({x})[i]]
      /\ \A i \in 1..n, m \in {x} :
           LeastGeneral({x})[i] = IF \A o \in {x} : o[i] = m[i] THEN m[i] ELSE ParamStr
  BY <1>1, LeastGeneralAt
<1>3. \A i \in 1..n : LeastGeneral({x})[i] = x[i]
  BY <1>2
<1> QED
  BY <1>2, <1>3

-----------------------------------------------------------------------------
(* The store.                                                              *)

USE DEF Live, Keys

(* The depth at which a line is routed is a natural number, at most the    *)
(* number of its tokens.                                                   *)
LEMMA RouteLenType ==
  ASSUME NEW n \in Nat
  PROVE  RouteLen(n) \in Nat /\ RouteLen(n) <= n
BY TreeAssumption DEF RouteLen

(* A generalised template is as long as the line and made of the line's    *)
(* tokens and the wildcard.                                                *)
LEMMA CreateTemplateType ==
  ASSUME NEW toks \in Seq(Tokens), NEW old
  PROVE  /\ CreateTemplate(toks, old) \in Seq(Keys)
         /\ Len(CreateTemplate(toks, old)) = Len(toks)
         /\ DOMAIN CreateTemplate(toks, old) = 1..Len(toks)
<1> DEFINE new == CreateTemplate(toks, old)
<1>1. new = [i \in 1..Len(toks) |-> IF toks[i] = old[i] THEN old[i] ELSE ParamStr]
  BY DEF CreateTemplate
<1>2. \A i \in 1..Len(toks) : (IF toks[i] = old[i] THEN old[i] ELSE ParamStr) \in Keys
  OBVIOUS
<1>3. new \in [1..Len(toks) -> Keys]
  BY <1>1, <1>2
<1>4. Len(toks) \in Nat
  OBVIOUS
<1> HIDE DEF new
<1>5. new \in Seq(Keys) /\ Len(new) = Len(toks) /\ DOMAIN new = 1..Len(toks)
  BY <1>3, <1>4
<1> QED
  BY <1>5 DEF new

(* Only a live cluster is ever chosen.                                     *)
LEMMA ChosenIsLive ==
  ASSUME NEW l \in Lines, NEW c \in Chosen(l)
  PROVE  c \in Live
<1>1. PICK leaf \in SearchLeaves(MaskedTokens[l]) :
        c \in (IF Len(MaskedTokens[l]) = 0 THEN tree[leaf] \cap Live
               ELSE FastMatch(tree[leaf], MaskedTokens[l], SimNum, SimDen, FALSE))
  BY DEF Chosen, TreeSearch
<1> QED
  BY <1>1 DEF FastMatch, Best

(* The tokens of a line.                                                   *)
LEMMA LineTokens ==
  ASSUME NEW l \in Lines
  PROVE  MaskedTokens[l] \in Seq(Tokens) /\ Len(MaskedTokens[l]) \in Nat
BY LinesAssumption

(* The shapes of a new engine.                                             *)
THEOREM InitTypeOK == Init => TypeOK
BY BoundAssumption DEF Init, TypeOK

(* The log grows by one well-formed entry; entries stay well-formed when   *)
(* the counter grows.                                                      *)
LEMMA RecordType ==
  ASSUME NEW n \in Nat, log \in Seq(EntryType(n)), NEW m \in Nat, n <= m,
         NEW l \in Lines, NEW c \in 1..m, NEW u \in UpdateTypes, Record(l, c, u)
  PROVE  /\ log' \in Seq(EntryType(m))
         /\ Len(log') = Len(log) + 1
         /\ Len(log) \in Nat
         /\ \A i \in 1..Len(log) : log'[i] = log[i]
         /\ log'[Len(log) + 1] = [line |-> l, id |-> c, update |-> u]
<1> DEFINE e == [line |-> l, id |-> c, update |-> u]
<1>1. EntryType(n) \subseteq EntryType(m)
  BY DEF EntryType
<1>2. log \in Seq(EntryType(m))
  BY <1>1
<1>3. e \in EntryType(m)
  BY DEF EntryType
<1>4. log' = Append(log, e)
  BY DEF Record
<1> HIDE DEF e
<1>5. /\ log' \in Seq(EntryType(m))
      /\ Len(log') = Len(log) + 1
      /\ Len(log) \in Nat
      /\ \A i \in 1..Len(log) : log'[i] = log[i]
      /\ log'[Len(log) + 1] = e
  BY <1>2, <1>3, <1>4
<1> QED
  BY <1>5 DEF e

(* What UpdateCluster does, with its local definitions named.              *)
LEMMA UpdateClusterEffect ==
  ASSUME TypeOK, NEW l \in Lines, UpdateCluster(l)
  PROVE  \E c \in Chosen(l) :
           LET new == CreateTemplate(MaskedTokens[l], idToCluster[c].template)
           IN  /\ c \in Live
               /\ idToCluster' = [idToCluster EXCEPT
                     ![c] = [template |-> new, size |-> idToCluster[c].size + 1]]
               /\ recency' = [recency EXCEPT ![c] = Len(log) + 1]
               /\ \E u \in UpdateTypes :
                     /\ Record(l, c, u)
                     /\ u \in {"cluster_template_changed", "none"}
                     /\ (u = "none") <=> (new = idToCluster[c].template)
               /\ UNCHANGED <<tree, clustersCounter>>
<1>1. PICK c \in Chosen(l) :
        LET old == idToCluster[c].template
            new == CreateTemplate(MaskedTokens[l], old)
        IN  /\ idToCluster' = [idToCluster EXCEPT
                                 ![c] = [template |-> new, size |-> @.size + 1]]
            /\ Promote(c)
            /\ Record(l, c, IF new = old THEN "none" ELSE "cluster_template_changed")
            /\ UNCHANGED <<tree, clustersCounter>>
  BY DEF UpdateCluster
<1> DEFINE new == CreateTemplate(MaskedTokens[l], idToCluster[c].template)
           u   == IF new = idToCluster[c].template THEN "none" ELSE "cluster_template_changed"
<1>2. c \in Live
  BY ChosenIsLive
<1>3. /\ u \in UpdateTypes
      /\ u \in {"cluster_template_changed", "none"}
      /\ (u = "none") <=> (new = idToCluster[c].template)
  BY DEF UpdateTypes
<1>4. /\ idToCluster' = [idToCluster EXCEPT
            ![c] = [template |-> new, size |-> idToCluster[c].size + 1]]
      /\ recency' = [recency EXCEPT ![c] = Len(log) + 1]
      /\ Record(l, c, u)
      /\ UNCHANGED <<tree, clustersCounter>>
  BY <1>1, <1>2 DEF Promote
<1> HIDE DEF new, u
<1>5. \E v \in UpdateTypes : /\ Record(l, c, v)
                             /\ v \in {"cluster_template_changed", "none"}
                             /\ (v = "none") <=> (new = idToCluster[c].template)
  BY <1>3, <1>4
<1> QED
  BY <1>2, <1>4, <1>5 DEF new

(* Joining a cluster keeps the shapes.                                     *)
LEMMA UpdateTypeOK ==
  ASSUME TypeOK, NEW l \in Lines, Len(log) < MaxCalls, UpdateCluster(l)
  PROVE  TypeOK'
<1>1. PICK c \in Chosen(l) :
        LET new == CreateTemplate(MaskedTokens[l], idToCluster[c].template)
        IN  /\ c \in Live
            /\ idToCluster' = [idToCluster EXCEPT
                  ![c] = [template |-> new, size |-> idToCluster[c].size + 1]]
            /\ recency' = [recency EXCEPT ![c] = Len(log) + 1]
            /\ \E u \in UpdateTypes :
                  /\ Record(l, c, u)
                  /\ u \in {"cluster_template_changed", "none"}
                  /\ (u = "none") <=> (new = idToCluster[c].template)
            /\ UNCHANGED <<tree, clustersCounter>>
  BY UpdateClusterEffect
<1> DEFINE new == CreateTemplate(MaskedTokens[l], idToCluster[c].template)
<1>2. PICK u \in UpdateTypes : Record(l, c, u)
  BY <1>1
<1>3. clustersCounter \in Nat /\ Len(log) \in Nat /\ c \in 1..clustersCounter
  BY <1>1 DEF TypeOK
<1>4. /\ log' \in Seq(EntryType(clustersCounter))
      /\ Len(log') = Len(log) + 1
  <2>1. log \in Seq(EntryType(clustersCounter)) /\ clustersCounter <= clustersCounter
    BY <1>3 DEF TypeOK
  <2> QED
    BY <1>2, <1>3, <2>1, RecordType
<1>5. [template |-> new, size |-> idToCluster[c].size + 1] \in ClusterType
  <2>1. new \in Seq(Keys)
    BY CreateTemplateType, LineTokens
  <2>2. idToCluster[c].size \in Nat
    BY <1>1 DEF TypeOK, ClusterType
  <2> QED
    BY <2>1, <2>2 DEF ClusterType
<1> HIDE DEF new
<1>6. idToCluster' \in [Live -> ClusterType]
  BY <1>1, <1>5 DEF TypeOK, new
<1>7. Live' = Live
  BY <1>6
<1>8. recency' \in [Live -> 1..Len(log')]
  BY <1>1, <1>3, <1>4 DEF TypeOK
<1>9. UNCHANGED <<tree, clustersCounter>>
  BY <1>1
<1>10. Len(log') <= MaxCalls
  BY <1>3, <1>4, BoundAssumption
<1>11. clustersCounter' \in 0..Len(log') /\ Live' \subseteq 1..clustersCounter'
  BY <1>3, <1>4, <1>7, <1>9 DEF TypeOK
<1>12. /\ DOMAIN tree' \subseteq Nat \X Seq(Keys)
       /\ tree' \in [DOMAIN tree' -> SUBSET (1..clustersCounter')]
  BY <1>9 DEF TypeOK
<1> QED
  BY <1>4, <1>6, <1>7, <1>8, <1>9, <1>10, <1>11, <1>12 DEF TypeOK

(* What CreateCluster does to the store, the LRU list and the tree.        *)
Kept(id) == (Live \ Evicted) \cup {id}

TreeIds(node) == IF node \in DOMAIN tree THEN tree[node] ELSE {}

LEMMA CreateClusterEffect ==
  ASSUME TypeOK, NEW l \in Lines, CreateCluster(l)
  PROVE  LET id   == clustersCounter + 1
             toks == MaskedTokens[l]
         IN  /\ Chosen(l) = {}
             /\ clustersCounter' = id
             /\ id \notin Live
             /\ idToCluster' = [d \in Kept(id) |->
                   IF d = id THEN [template |-> toks, size |-> 1] ELSE idToCluster[d]]
             /\ recency' = [d \in Kept(id) |->
                   IF d = id THEN Len(log) + 1 ELSE recency[d]]
             /\ Live' = Kept(id)
             /\ Record(l, id, "cluster_created")
             /\ \E path \in Seq(Keys) :
                  /\ Len(path) = RouteLen(Len(toks))
                  /\ InsertPath(toks, path)
                  /\ tree' = [node \in DOMAIN tree \cup
                                  {<<Len(toks), SubSeq(path, 1, i)>> : i \in 0..Len(path)} |->
                        IF node = <<Len(toks), path>>
                          THEN LeafIds(TreeIds(node), Len(toks), id) ELSE TreeIds(node)]
<1> DEFINE id == clustersCounter + 1
           toks == MaskedTokens[l]
           n == Len(toks)
<1>1. /\ Chosen(l) = {}
      /\ clustersCounter' = id
      /\ StoreNew(l, id)
      /\ AddSeqToPrefixTree(l, id)
      /\ Record(l, id, "cluster_created")
  BY DEF CreateCluster
<1>2. id \notin Live
  BY DEF TypeOK
<1>3. /\ idToCluster' = [d \in Kept(id) |->
           IF d = id THEN [template |-> toks, size |-> 1] ELSE idToCluster[d]]
      /\ recency' = [d \in Kept(id) |-> IF d = id THEN Len(log) + 1 ELSE recency[d]]
  BY <1>1 DEF StoreNew, Kept
<1>4. Live' = Kept(id)
  BY <1>3
<1>5. PICK path \in Paths(toks, RouteLen(n)) :
        /\ InsertPath(toks, path)
        /\ tree' = [node \in DOMAIN tree \cup {<<n, SubSeq(path, 1, i)>> : i \in 0..RouteLen(n)} |->
                      IF node = <<n, path>> THEN LeafIds(TreeIds(node), n, id)
                      ELSE TreeIds(node)]
  BY <1>1 DEF AddSeqToPrefixTree, TreeIds
<1>6. toks \in Seq(Tokens) /\ n \in Nat /\ RouteLen(n) \in Nat
  BY LineTokens, RouteLenType
<1>7. {toks[i] : i \in DOMAIN toks} \cup {ParamStr} \subseteq Keys
  BY <1>6
<1>8. path \in [1..RouteLen(n) -> Keys]
  BY <1>5, <1>7 DEF Paths
<1>9. path \in Seq(Keys) /\ Len(path) = RouteLen(n)
  BY <1>6, <1>8
<1> HIDE DEF id, toks, n
<1>10. \E p \in Seq(Keys) :
         /\ Len(p) = RouteLen(n)
         /\ InsertPath(toks, p)
         /\ tree' = [node \in DOMAIN tree \cup {<<n, SubSeq(p, 1, i)>> : i \in 0..Len(p)} |->
                       IF node = <<n, p>> THEN LeafIds(TreeIds(node), n, id)
                       ELSE TreeIds(node)]
  BY <1>5, <1>9
<1> QED
  BY <1>1, <1>2, <1>3, <1>4, <1>10 DEF id, toks, n

(* Opening a cluster keeps the shapes.                                     *)
LEMMA CreateTypeOK ==
  ASSUME TypeOK, NEW l \in Lines, Len(log) < MaxCalls, CreateCluster(l)
  PROVE  TypeOK'
<1> DEFINE id == clustersCounter + 1
           toks == MaskedTokens[l]
<1>1. /\ clustersCounter' = id
      /\ id \notin Live
      /\ idToCluster' = [d \in Kept(id) |->
            IF d = id THEN [template |-> toks, size |-> 1] ELSE idToCluster[d]]
      /\ recency' = [d \in Kept(id) |-> IF d = id THEN Len(log) + 1 ELSE recency[d]]
      /\ Live' = Kept(id)
      /\ Record(l, id, "cluster_created")
      /\ \E path \in Seq(Keys) :
            /\ Len(path) = RouteLen(Len(toks))
            /\ InsertPath(toks, path)
            /\ tree' = [node \in DOMAIN tree \cup
                            {<<Len(toks), SubSeq(path, 1, i)>> : i \in 0..Len(path)} |->
                  IF node = <<Len(toks), path>>
                    THEN LeafIds(TreeIds(node), Len(toks), id) ELSE TreeIds(node)]
  BY CreateClusterEffect
<1>2. clustersCounter \in Nat /\ id \in 1..id /\ clustersCounter <= id /\ Len(log) \in Nat
  BY DEF TypeOK
<1>3. toks \in Seq(Tokens) /\ Len(toks) \in Nat
  BY LineTokens
<1>4. /\ log' \in Seq(EntryType(id))
      /\ Len(log') = Len(log) + 1
  <2>1. log \in Seq(EntryType(clustersCounter)) /\ id \in Nat
    BY <1>2 DEF TypeOK
  <2>2. "cluster_created" \in UpdateTypes
    BY DEF UpdateTypes
  <2> QED
    BY <1>1, <1>2, <2>1, <2>2, RecordType
<1>5. Kept(id) \subseteq 1..id
  BY <1>2 DEF Kept, TypeOK
<1>6. idToCluster' \in [Kept(id) -> ClusterType]
  <2>1. [template |-> toks, size |-> 1] \in ClusterType
    BY <1>3 DEF ClusterType
  <2>2. \A d \in Kept(id) : d # id => idToCluster[d] \in ClusterType
    BY DEF TypeOK, Kept
  <2> QED
    BY <1>1, <2>1, <2>2
<1>7. recency' \in [Kept(id) -> 1..Len(log')]
  <2>1. \A d \in Kept(id) : d # id => recency[d] \in 1..Len(log)
    BY DEF TypeOK, Kept
  <2> QED
    BY <1>1, <1>2, <1>4, <2>1
<1>8. /\ DOMAIN tree' \subseteq Nat \X Seq(Keys)
      /\ tree' \in [DOMAIN tree' -> SUBSET (1..id)]
  <2>1. PICK path \in Seq(Keys) :
          tree' = [node \in DOMAIN tree \cup
                      {<<Len(toks), SubSeq(path, 1, i)>> : i \in 0..Len(path)} |->
                    IF node = <<Len(toks), path>>
                      THEN LeafIds(TreeIds(node), Len(toks), id) ELSE TreeIds(node)]
    BY <1>1
  <2>2. \A i \in 0..Len(path) : SubSeq(path, 1, i) \in Seq(Keys)
    OBVIOUS
  <2>3. DOMAIN tree' \subseteq Nat \X Seq(Keys)
    <3> HIDE DEF toks
    <3>1. \A i \in 0..Len(path) : <<Len(toks), SubSeq(path, 1, i)>> \in Nat \X Seq(Keys)
      BY <1>3, <2>2
    <3>2. DOMAIN tree' = DOMAIN tree \cup
            {<<Len(toks), SubSeq(path, 1, i)>> : i \in 0..Len(path)}
      BY <2>1 DEF toks
    <3>3. DOMAIN tree \subseteq Nat \X Seq(Keys)
      BY DEF TypeOK
    <3> QED
      BY <3>1, <3>2, <3>3
  <2>4. \A node : TreeIds(node) \subseteq 1..id
    BY <1>2 DEF TypeOK, TreeIds
  <2>5. \A node : LeafIds(TreeIds(node), Len(toks), id) \subseteq 1..id
    BY <1>2, <2>4 DEF LeafIds
  <2> QED
    BY <2>1, <2>3, <2>4, <2>5
<1>9. id \in 0..Len(log') /\ Len(log') <= MaxCalls
  BY <1>2, <1>4, BoundAssumption DEF TypeOK
<1> HIDE DEF id, toks
<1> QED
  BY <1>1, <1>4, <1>5, <1>6, <1>7, <1>8, <1>9 DEF TypeOK

(* Every call keeps the shapes.                                            *)
LEMMA NextTypeOK == TypeOK /\ [Next]_vars => TypeOK'
<1> SUFFICES ASSUME TypeOK, [Next]_vars PROVE TypeOK'
  OBVIOUS
<1>1. ASSUME NEW l \in Lines, AddLogMessage(l) PROVE TypeOK'
  BY <1>1, UpdateTypeOK, CreateTypeOK DEF AddLogMessage
<1>2. CASE UNCHANGED vars
  BY <1>2 DEF TypeOK, vars
<1> QED
  BY <1>1, <1>2 DEF Next

(* The shapes are kept by every behaviour of the engine.                   *)
THEOREM Typing == Spec => []TypeOK
<1> QED
  BY InitTypeOK, NextTypeOK, PTL DEF Spec

-----------------------------------------------------------------------------
(* The engine implements the template miner.                               *)

(* One more entry for cluster c adds one line to c and none to another.    *)
LEMMA OneMoreEntry ==
  ASSUME TypeOK, NEW l \in Lines, NEW c \in Nat \ {0}, NEW u \in UpdateTypes,
         Record(l, c, u)
  PROVE  /\ Miner!Assigned(log', c) = Miner!Assigned(log, c) \cup {Len(log) + 1}
         /\ Miner!Contents(log', c) = Miner!Contents(log, c) \cup {MaskedTokens[l]}
         /\ \A d : d # c => /\ Miner!Assigned(log', d) = Miner!Assigned(log, d)
                           /\ Miner!Contents(log', d) = Miner!Contents(log, d)
<1> DEFINE N == Len(log)
           e == [line |-> l, id |-> c, update |-> u]
<1>1. N \in Nat /\ DOMAIN log = 1..N
  BY DEF TypeOK
<1>2. log' = Append(log, e)
  BY DEF Record
<1>3. /\ DOMAIN log' = 1..(N+1)
      /\ \A i \in 1..N : log'[i] = log[i]
      /\ log'[N+1] = e
  <2> HIDE DEF e
  <2>1. log \in Seq(EntryType(clustersCounter))
    BY DEF TypeOK
  <2>2. log \in Seq(EntryType(clustersCounter) \cup {e})
    BY <2>1
  <2> QED
    BY <1>1, <1>2, <2>2
<1>4. e.id = c /\ e.line = l
  OBVIOUS
<1> HIDE DEF e, N
<1>5. Miner!Assigned(log', c) = Miner!Assigned(log, c) \cup {N + 1}
  BY <1>1, <1>3, <1>4 DEF Miner!Assigned
<1>6. \A d : d # c => Miner!Assigned(log', d) = Miner!Assigned(log, d)
  BY <1>1, <1>3, <1>4 DEF Miner!Assigned
<1>7. \A d : Miner!Assigned(log, d) \subseteq 1..N
  BY <1>1 DEF Miner!Assigned
<1>8. Miner!Contents(log', c) = Miner!Contents(log, c) \cup {MaskedTokens[l]}
  BY <1>1, <1>3, <1>4, <1>5, <1>7 DEF Miner!Contents
<1>9. \A d : d # c => Miner!Contents(log', d) = Miner!Contents(log, d)
  BY <1>3, <1>6, <1>7 DEF Miner!Contents
<1> QED
  BY <1>5, <1>6, <1>8, <1>9 DEF N

(* The instance's least general template is the module's own.              *)
LEMMA SameLeastGeneral ==
  ASSUME NEW S PROVE Miner!LeastGeneral(S) = LeastGeneral(S)
BY DEF Miner!LeastGeneral, LeastGeneral

(* So is its cardinality.                                                  *)
LEMMA SameCardinality ==
  ASSUME NEW S PROVE Miner!Cardinality(S) = Cardinality(S)
BY DEF Miner!Cardinality, Cardinality

(* What a cluster contains are token sequences; the lines assigned to it   *)
(* are finitely many.                                                      *)
LEMMA ContentsType ==
  ASSUME TypeOK, NEW c
  PROVE  /\ Miner!Contents(log, c) \subseteq Seq(Tokens)
         /\ Miner!Assigned(log, c) \subseteq 1..Len(log)
         /\ IsFiniteSet(Miner!Assigned(log, c))
         /\ Miner!Assigned(log, c) # {} => Miner!Contents(log, c) # {}
<1>1. Len(log) \in Nat /\ DOMAIN log = 1..Len(log)
  BY DEF TypeOK
<1>2. Miner!Assigned(log, c) \subseteq 1..Len(log)
  BY <1>1 DEF Miner!Assigned
<1>3. \A i \in 1..Len(log) : log[i].line \in Lines
  <2>1. log \in Seq(EntryType(clustersCounter))
    BY DEF TypeOK
  <2>2. \A i \in 1..Len(log) : log[i] \in EntryType(clustersCounter)
    BY <2>1
  <2> QED
    BY <2>2 DEF EntryType
<1>4. Miner!Contents(log, c) \subseteq Seq(Tokens)
  BY <1>2, <1>3, LineTokens DEF Miner!Contents
<1>5. IsFiniteSet(1..Len(log))
  BY <1>1, FS_Interval
<1>6. IsFiniteSet(Miner!Assigned(log, c))
  BY <1>2, <1>5, FS_Subset
<1> QED
  BY <1>2, <1>4, <1>6 DEF Miner!Contents

(* A chosen cluster has as many tokens as the line.                        *)
LEMMA ChosenLength ==
  ASSUME ListedLengths, NEW l \in Lines, NEW c \in Chosen(l)
  PROVE  Len(idToCluster[c].template) = Len(MaskedTokens[l])
<1>1. PICK leaf \in SearchLeaves(MaskedTokens[l]) :
        c \in (IF Len(MaskedTokens[l]) = 0 THEN tree[leaf] \cap Live
               ELSE FastMatch(tree[leaf], MaskedTokens[l], SimNum, SimDen, FALSE))
  BY DEF Chosen, TreeSearch
<1>2. leaf \in DOMAIN tree /\ leaf[1] = Len(MaskedTokens[l])
  BY DEF SearchLeaves
<1>3. c \in tree[leaf] \cap Live
  BY <1>1 DEF FastMatch, Best
<1> QED
  BY <1>2, <1>3 DEF ListedLengths

(* The report of a cluster that gained a line.                             *)
LEMMA ReportExtends ==
  ASSUME TypeOK, ReportsExact, NEW c \in Live, NEW l \in Lines, NEW u \in UpdateTypes,
         Record(l, c, u), Len(idToCluster[c].template) = Len(MaskedTokens[l])
  PROVE  LET new == CreateTemplate(MaskedTokens[l], idToCluster[c].template)
         IN  /\ Miner!Report(log', c) = [template |-> new, size |-> idToCluster[c].size + 1]
             /\ \A m \in Miner!Contents(log', c) : Len(m) = Len(new)
             /\ Len(new) = Len(idToCluster[c].template)
<1> DEFINE toks == MaskedTokens[l]
           msgs == Miner!Contents(log, c)
           n == Len(toks)
           new == CreateTemplate(toks, idToCluster[c].template)
<1>1. toks \in Seq(Tokens) /\ n \in Nat /\ DOMAIN toks = 1..n
  BY LineTokens
<1>2. c \in Nat \ {0}
  BY DEF TypeOK
<1>3. /\ Miner!Assigned(log, c) # {}
      /\ \A m \in msgs : Len(m) = n
      /\ idToCluster[c] = Miner!Report(log, c)
  BY DEF ReportsExact
<1>4. msgs # {} /\ msgs \subseteq Seq(Tokens)
  BY <1>3, ContentsType
<1>5. \A m \in msgs : DOMAIN m = 1..n
  BY <1>3, <1>4
<1>6. idToCluster[c].template = LeastGeneral(msgs)
  BY <1>3, SameLeastGeneral DEF Miner!Report
<1>7. idToCluster[c].size = Cardinality(Miner!Assigned(log, c))
  BY <1>3, SameCardinality DEF Miner!Report
<1>8. /\ Miner!Assigned(log', c) = Miner!Assigned(log, c) \cup {Len(log) + 1}
      /\ Miner!Contents(log', c) = msgs \cup {toks}
  BY <1>2, OneMoreEntry
<1>9. new = LeastGeneral(msgs \cup {toks})
  <2> HIDE DEF toks, msgs, n
  <2>1. CreateTemplate(toks, LeastGeneral(msgs)) = LeastGeneral(msgs \cup {toks})
    BY <1>1, <1>4, <1>5, CreateTemplateExtends
  <2> QED
    BY <1>6, <2>1
<1>10. Cardinality(Miner!Assigned(log', c)) = idToCluster[c].size + 1
  <2>1. Len(log) + 1 \notin Miner!Assigned(log, c) /\ IsFiniteSet(Miner!Assigned(log, c))
    <3>1. Len(log) \in Nat
      BY DEF TypeOK
    <3> QED
      BY <3>1, ContentsType
  <2>2. Cardinality(Miner!Assigned(log, c) \cup {Len(log) + 1})
          = Cardinality(Miner!Assigned(log, c)) + 1
    <3> HIDE DEF toks, msgs, n, new
    <3> DEFINE S == Miner!Assigned(log, c)
               x == Len(log) + 1
    <3> HIDE DEF S, x
    <3>1. IsFiniteSet(S) /\ x \notin S
      BY <2>1 DEF S, x
    <3>2. Cardinality(S \cup {x}) = Cardinality(S) + 1
      BY <3>1, FS_AddElement
    <3> QED
      BY <3>2 DEF S, x
  <2> QED
    BY <1>7, <1>8, <2>2
<1>11. Len(new) = n
  BY <1>1, CreateTemplateType
<1> HIDE DEF toks, msgs, n, new
<1>12. Miner!Report(log', c) = [template |-> new, size |-> idToCluster[c].size + 1]
  BY <1>8, <1>9, <1>10, SameLeastGeneral, SameCardinality DEF Miner!Report
<1>13. \A m \in Miner!Contents(log', c) : Len(m) = n
  BY <1>3, <1>8 DEF n
<1> QED
  BY <1>11, <1>12, <1>13 DEF toks, n, new

(* The report of a cluster that gained no line.                            *)
LEMMA ReportUnaffected ==
  ASSUME TypeOK, NEW l \in Lines, NEW c \in Nat \ {0}, NEW u \in UpdateTypes,
         Record(l, c, u), NEW d, d # c
  PROVE  /\ Miner!Assigned(log', d) = Miner!Assigned(log, d)
         /\ Miner!Contents(log', d) = Miner!Contents(log, d)
         /\ Miner!Report(log', d) = Miner!Report(log, d)
<1>1. /\ Miner!Assigned(log', d) = Miner!Assigned(log, d)
      /\ Miner!Contents(log', d) = Miner!Contents(log, d)
  BY OneMoreEntry
<1> QED
  BY <1>1 DEF Miner!Report

(* The books of a new engine are empty and agree.                          *)
LEMMA InitMinerInv == Init => MinerInv
BY DEF Init, MinerInv, ListedLengths, RecencyDistinct, ReportsExact

(* Joining a cluster keeps the books.                                      *)
LEMMA UpdateMinerInv ==
  ASSUME TypeOK, MinerInv, NEW l \in Lines, UpdateCluster(l)
  PROVE  MinerInv'
<1>1. PICK c \in Chosen(l) :
        LET new == CreateTemplate(MaskedTokens[l], idToCluster[c].template)
        IN  /\ c \in Live
            /\ idToCluster' = [idToCluster EXCEPT
                  ![c] = [template |-> new, size |-> idToCluster[c].size + 1]]
            /\ recency' = [recency EXCEPT ![c] = Len(log) + 1]
            /\ \E u \in UpdateTypes :
                  /\ Record(l, c, u)
                  /\ u \in {"cluster_template_changed", "none"}
                  /\ (u = "none") <=> (new = idToCluster[c].template)
            /\ UNCHANGED <<tree, clustersCounter>>
  BY UpdateClusterEffect
<1> DEFINE new == CreateTemplate(MaskedTokens[l], idToCluster[c].template)
<1>2. PICK u \in UpdateTypes : Record(l, c, u)
  BY <1>1
<1>3. c \in Live /\ c \in Nat \ {0} /\ DOMAIN recency = Live
  BY <1>1 DEF TypeOK
<1>4. Len(idToCluster[c].template) = Len(MaskedTokens[l])
  BY ChosenLength DEF MinerInv
<1>5. /\ Miner!Report(log', c) = [template |-> new, size |-> idToCluster[c].size + 1]
      /\ \A m \in Miner!Contents(log', c) : Len(m) = Len(new)
      /\ Len(new) = Len(idToCluster[c].template)
  BY <1>2, <1>3, <1>4, ReportExtends DEF MinerInv
<1>6. Miner!Assigned(log', c) # {}
  BY <1>2, <1>3, OneMoreEntry
<1> HIDE DEF new
<1>7. /\ idToCluster'[c] = [template |-> new, size |-> idToCluster[c].size + 1]
      /\ \A d \in Live : d # c => idToCluster'[d] = idToCluster[d]
      /\ Live' = Live
  BY <1>1, <1>3 DEF new
<1>8. \A d \in Live : Len(idToCluster'[d].template) = Len(idToCluster[d].template)
  BY <1>5, <1>7
<1>9. ListedLengths'
  BY <1>1, <1>7, <1>8 DEF MinerInv, ListedLengths
<1>10. RecencyDistinct'
  <2>1. Len(log) \in Nat /\ \A d \in Live : recency[d] \in 1..Len(log)
    BY DEF TypeOK
  <2>2. recency'[c] = Len(log) + 1 /\ \A d \in Live : d # c => recency'[d] = recency[d]
    BY <1>1, <1>3
  <2> QED
    BY <1>7, <2>1, <2>2 DEF MinerInv, RecencyDistinct
<1>11. ReportsExact'
  <2>1. ASSUME NEW d \in Live, d # c
        PROVE  /\ Miner!Assigned(log', d) # {}
               /\ \A m \in Miner!Contents(log', d) : Len(m) = Len(idToCluster'[d].template)
               /\ idToCluster'[d] = Miner!Report(log', d)
    <3>1. /\ Miner!Assigned(log', d) = Miner!Assigned(log, d)
          /\ Miner!Contents(log', d) = Miner!Contents(log, d)
          /\ Miner!Report(log', d) = Miner!Report(log, d)
      BY <1>2, <1>3, <2>1, ReportUnaffected
    <3> QED
      BY <1>7, <2>1, <3>1 DEF MinerInv, ReportsExact
  <2>2. /\ Miner!Assigned(log', c) # {}
        /\ \A m \in Miner!Contents(log', c) : Len(m) = Len(idToCluster'[c].template)
        /\ idToCluster'[c] = Miner!Report(log', c)
    BY <1>5, <1>6, <1>7
  <2> QED
    BY <1>7, <2>1, <2>2 DEF ReportsExact
<1> QED
  BY <1>9, <1>10, <1>11 DEF MinerInv

(* No line was assigned to an id not given out yet.                        *)
LEMMA FreshIsUnassigned ==
  ASSUME TypeOK
  PROVE  /\ Miner!Assigned(log, clustersCounter + 1) = {}
         /\ Miner!Contents(log, clustersCounter + 1) = {}
<1>1. log \in Seq(EntryType(clustersCounter)) /\ clustersCounter \in Nat
  BY DEF TypeOK
<1>2. \A i \in DOMAIN log : log[i] \in EntryType(clustersCounter)
  BY <1>1
<1>3. \A i \in DOMAIN log : log[i].id \in 1..clustersCounter
  BY <1>2 DEF EntryType
<1>4. Miner!Assigned(log, clustersCounter + 1) = {}
  BY <1>1, <1>3 DEF Miner!Assigned
<1> QED
  BY <1>4 DEF Miner!Contents

(* The report of a cluster opened by a line.                               *)
LEMMA ReportOfNew ==
  ASSUME TypeOK, NEW l \in Lines, NEW u \in UpdateTypes,
         Record(l, clustersCounter + 1, u)
  PROVE  /\ Miner!Assigned(log', clustersCounter + 1) # {}
         /\ Miner!Contents(log', clustersCounter + 1) = {MaskedTokens[l]}
         /\ Miner!Report(log', clustersCounter + 1)
              = [template |-> MaskedTokens[l], size |-> 1]
<1> DEFINE id == clustersCounter + 1
           toks == MaskedTokens[l]
<1>1. id \in Nat \ {0}
  BY DEF TypeOK
<1>2. /\ Miner!Assigned(log', id) = Miner!Assigned(log, id) \cup {Len(log) + 1}
      /\ Miner!Contents(log', id) = Miner!Contents(log, id) \cup {toks}
  BY <1>1, OneMoreEntry
<1>3. /\ Miner!Assigned(log', id) = {Len(log) + 1}
      /\ Miner!Contents(log', id) = {toks}
  BY <1>2, FreshIsUnassigned
<1>4. Cardinality(Miner!Assigned(log', id)) = 1
  BY <1>3, FS_Singleton
<1>5. LeastGeneral({toks}) = toks
  <2>1. toks \in Seq(Tokens)
    BY LineTokens
  <2> HIDE DEF toks
  <2>2. Len(toks) \in Nat /\ DOMAIN toks = 1..Len(toks)
        /\ toks = [i \in 1..Len(toks) |-> toks[i]]
    BY <2>1
  <2> QED
    BY <2>2, LeastGeneralOfOne
<1> HIDE DEF id, toks
<1>6. Miner!Report(log', id) = [template |-> toks, size |-> 1]
  BY <1>3, <1>4, <1>5, SameLeastGeneral, SameCardinality DEF Miner!Report
<1> QED
  BY <1>3, <1>6 DEF id, toks

(* Opening a cluster keeps the books.                                      *)
LEMMA CreateMinerInv ==
  ASSUME TypeOK, MinerInv, NEW l \in Lines, CreateCluster(l)
  PROVE  MinerInv'
<1> DEFINE id == clustersCounter + 1
           toks == MaskedTokens[l]
<1>1. /\ id \notin Live
      /\ idToCluster' = [d \in Kept(id) |->
            IF d = id THEN [template |-> toks, size |-> 1] ELSE idToCluster[d]]
      /\ recency' = [d \in Kept(id) |-> IF d = id THEN Len(log) + 1 ELSE recency[d]]
      /\ Live' = Kept(id)
      /\ Record(l, id, "cluster_created")
      /\ \E path \in Seq(Keys) :
            /\ Len(path) = RouteLen(Len(toks))
            /\ InsertPath(toks, path)
            /\ tree' = [node \in DOMAIN tree \cup
                            {<<Len(toks), SubSeq(path, 1, i)>> : i \in 0..Len(path)} |->
                  IF node = <<Len(toks), path>>
                    THEN LeafIds(TreeIds(node), Len(toks), id) ELSE TreeIds(node)]
  BY CreateClusterEffect
<1>2. id \in Nat \ {0} /\ Len(log) \in Nat /\ clustersCounter \in Nat
  BY DEF TypeOK
<1>3. Kept(id) \subseteq Live \cup {id} /\ id \in Kept(id)
  BY DEF Kept
<1>4. /\ idToCluster'[id] = [template |-> toks, size |-> 1]
      /\ \A d \in Live' : d # id => d \in Live /\ idToCluster'[d] = idToCluster[d]
  BY <1>1, <1>3
<1>5. \A node : id \notin TreeIds(node)
  BY <1>2 DEF TreeIds, TypeOK
<1> HIDE DEF id
<1>6. ListedLengths'
  <2>1. PICK path \in Seq(Keys) :
          tree' = [node \in DOMAIN tree \cup
                      {<<Len(toks), SubSeq(path, 1, i)>> : i \in 0..Len(path)} |->
                    IF node = <<Len(toks), path>>
                      THEN LeafIds(TreeIds(node), Len(toks), id) ELSE TreeIds(node)]
    BY <1>1
  <2> SUFFICES ASSUME NEW node \in DOMAIN tree', NEW c \in tree'[node], c \in Live'
               PROVE  Len(idToCluster'[c].template) = node[1]
    BY DEF ListedLengths
  <2>2. ASSUME c \in TreeIds(node)
        PROVE  Len(idToCluster'[c].template) = node[1]
    <3>1. c # id /\ node \in DOMAIN tree /\ c \in tree[node]
      BY <1>5, <2>2 DEF TreeIds
    <3>2. c \in Live /\ idToCluster'[c] = idToCluster[c]
      BY <1>4, <3>1
    <3> QED
      BY <3>1, <3>2 DEF MinerInv, ListedLengths
  <2>3. CASE node = <<Len(toks), path>>
    <3>1. tree'[node] = LeafIds(TreeIds(node), Len(toks), id)
      BY <2>1, <2>3
    <3>2. c \in TreeIds(node) \/ c = id
      BY <3>1 DEF LeafIds
    <3>3. node[1] = Len(toks)
      BY <2>3
    <3>4. c = id => idToCluster'[c].template = toks
      BY <1>4
    <3> QED
      BY <2>2, <3>2, <3>3, <3>4
  <2>4. CASE node # <<Len(toks), path>>
    <3>1. tree'[node] = TreeIds(node)
      BY <2>1, <2>4
    <3> QED
      BY <2>2, <3>1
  <2> QED
    BY <2>3, <2>4
<1>7. RecencyDistinct'
  <2>1. \A d \in Live : recency[d] \in 1..Len(log)
    BY DEF TypeOK
  <2>2. recency'[id] = Len(log) + 1 /\ \A d \in Live' : d # id => recency'[d] = recency[d]
    BY <1>1, <1>3
  <2> QED
    BY <1>2, <1>4, <2>1, <2>2 DEF MinerInv, RecencyDistinct
<1>8. ReportsExact'
  <2>1. "cluster_created" \in UpdateTypes
    BY DEF UpdateTypes
  <2>2. ASSUME NEW d \in Live', d # id
        PROVE  /\ Miner!Assigned(log', d) # {}
               /\ \A m \in Miner!Contents(log', d) : Len(m) = Len(idToCluster'[d].template)
               /\ idToCluster'[d] = Miner!Report(log', d)
    <3>1. /\ Miner!Assigned(log', d) = Miner!Assigned(log, d)
          /\ Miner!Contents(log', d) = Miner!Contents(log, d)
          /\ Miner!Report(log', d) = Miner!Report(log, d)
      BY <1>1, <1>2, <2>1, <2>2, ReportUnaffected
    <3> QED
      BY <1>4, <2>2, <3>1 DEF MinerInv, ReportsExact
  <2>3. /\ Miner!Assigned(log', id) # {}
        /\ Miner!Contents(log', id) = {toks}
        /\ Miner!Report(log', id) = [template |-> toks, size |-> 1]
    BY <1>1, <2>1, ReportOfNew DEF id
  <2>4. /\ Miner!Assigned(log', id) # {}
        /\ \A m \in Miner!Contents(log', id) : Len(m) = Len(idToCluster'[id].template)
        /\ idToCluster'[id] = Miner!Report(log', id)
    BY <1>4, <2>3
  <2> QED
    BY <2>2, <2>4 DEF ReportsExact
<1> QED
  BY <1>6, <1>7, <1>8 DEF MinerInv

(* Each call keeps the books.                                              *)
LEMMA NextMinerInv ==
  ASSUME TypeOK, MinerInv, [Next]_vars
  PROVE  MinerInv'
<1>1. ASSUME NEW l \in Lines, AddLogMessage(l) PROVE MinerInv'
  BY <1>1, UpdateMinerInv, CreateMinerInv DEF AddLogMessage
<1>2. CASE UNCHANGED vars
  BY <1>2 DEF vars, MinerInv, ListedLengths, RecencyDistinct, ReportsExact
<1> QED
  BY <1>1, <1>2 DEF Next

(* The log, the store and the tree agree in every reachable state.         *)
THEOREM MinerInvariance == Spec => [](TypeOK /\ MinerInv)
<1>1. Init => TypeOK /\ MinerInv
  BY InitTypeOK, InitMinerInv
<1>2. TypeOK /\ MinerInv /\ [Next]_vars => (TypeOK /\ MinerInv)'
  BY NextTypeOK, NextMinerInv
<1> QED
  BY <1>1, <1>2, PTL DEF Spec

(* What the caller is told of the line just ingested: the size its cluster *)
(* now has counts the lines assigned to it so far, and its template covers *)
(* the line.                                                               *)
LEMMA LatestEntry ==
  ASSUME TypeOK, MinerInv, NEW l \in Lines, AddLogMessage(l)
  PROVE  /\ TypeOK' /\ MinerInv'
         /\ Len(log') = Len(log) + 1
         /\ \A i \in 1..Len(log) : log'[i] = log[i]
         /\ LET c == log'[Len(log')].id
            IN  /\ idToCluster'[c].size = Cardinality({j \in 1..Len(log') : log'[j].id = c})
                /\ \A p \in DOMAIN idToCluster'[c].template :
                     idToCluster'[c].template[p] \in {ParamStr, MaskedTokens[l][p]}
<1> DEFINE toks == MaskedTokens[l]
           Covers(t) == \A p \in DOMAIN t : t[p] \in {ParamStr, toks[p]}
<1>1. Len(log) < MaxCalls /\ (UpdateCluster(l) \/ CreateCluster(l))
  BY DEF AddLogMessage
<1>2. TypeOK' /\ MinerInv'
  BY <1>1, UpdateTypeOK, CreateTypeOK, UpdateMinerInv, CreateMinerInv
<1>3. log \in Seq(EntryType(clustersCounter)) /\ clustersCounter \in Nat /\ toks \in Seq(Tokens)
  BY LineTokens DEF TypeOK
<1>4. \E c \in Live', u \in UpdateTypes :
        /\ c \in Nat \ {0} /\ Record(l, c, u)
        /\ Covers(idToCluster'[c].template)
  <2>1. CASE UpdateCluster(l)
    <3>1. PICK c \in Chosen(l) :
            LET new == CreateTemplate(toks, idToCluster[c].template)
            IN  /\ c \in Live
                /\ idToCluster' = [idToCluster EXCEPT
                      ![c] = [template |-> new, size |-> idToCluster[c].size + 1]]
                /\ \E u \in UpdateTypes : Record(l, c, u)
      BY <2>1, UpdateClusterEffect
    <3>2. Covers(CreateTemplate(toks, idToCluster[c].template))
      BY DEF CreateTemplate
    <3>3. c \in Live' /\ idToCluster'[c].template = CreateTemplate(toks, idToCluster[c].template)
      BY <3>1
    <3>4. c \in Nat \ {0}
      BY <3>1 DEF TypeOK
    <3> HIDE DEF Covers
    <3> QED
      BY <3>1, <3>2, <3>3, <3>4
  <2>2. CASE CreateCluster(l)
    <3> DEFINE id == clustersCounter + 1
    <3>1. /\ idToCluster' = [d \in Kept(id) |->
               IF d = id THEN [template |-> toks, size |-> 1] ELSE idToCluster[d]]
          /\ Live' = Kept(id)
          /\ Record(l, id, "cluster_created")
      BY <2>2, CreateClusterEffect
    <3>2. id \in Live' /\ idToCluster'[id].template = toks
      BY <3>1 DEF Kept
    <3>3. "cluster_created" \in UpdateTypes /\ id \in Nat \ {0}
      BY <1>3 DEF UpdateTypes
    <3>4. Covers(toks)
      OBVIOUS
    <3> HIDE DEF Covers, id
    <3> QED
      BY <3>1, <3>2, <3>3, <3>4
  <2> QED
    BY <1>1, <2>1, <2>2
<1>5. PICK c \in Live', u \in UpdateTypes :
        /\ c \in Nat \ {0} /\ Record(l, c, u)
        /\ Covers(idToCluster'[c].template)
  BY <1>4
<1> DEFINE m == IF c <= clustersCounter THEN clustersCounter ELSE c
<1>6. /\ log' \in Seq(EntryType(m))
      /\ Len(log') = Len(log) + 1 /\ Len(log) \in Nat
      /\ \A i \in 1..Len(log) : log'[i] = log[i]
      /\ log'[Len(log) + 1] = [line |-> l, id |-> c, update |-> u]
  <2>1. m \in Nat /\ clustersCounter <= m /\ c \in 1..m
    BY <1>3, <1>5
  <2> HIDE DEF m
  <2> QED
    BY <1>3, <1>5, <2>1, RecordType
<1>7. log'[Len(log')].id = c
  BY <1>6
<1>8. idToCluster'[c].size = Cardinality({j \in 1..Len(log') : log'[j].id = c})
  <2>1. idToCluster'[c] = Miner!Report(log', c)
    BY <1>2, <1>5 DEF MinerInv, ReportsExact
  <2>2. DOMAIN log' = 1..Len(log')
    BY <1>6
  <2>3. idToCluster'[c].size = Cardinality(Miner!Assigned(log', c))
    BY <2>1, SameCardinality DEF Miner!Report
  <2> QED
    BY <2>2, <2>3 DEF Miner!Assigned
<1> HIDE DEF m
<1> QED
  BY <1>2, <1>5, <1>6, <1>7, <1>8

(* At most one cluster is evicted to make room for another.                *)
LEMMA EvictsAtMostOne ==
  ASSUME TypeOK, RecencyDistinct
  PROVE  Evicted \subseteq Live /\ IsFiniteSet(Evicted) /\ Cardinality(Evicted) <= 1
<1>1. Evicted \subseteq Live
  BY DEF Evicted
<1>2. \A v, w \in Evicted : v = w
  <2> SUFFICES ASSUME NEW v \in Evicted, NEW w \in Evicted PROVE v = w
    OBVIOUS
  <2>1. recency[v] <= recency[w] /\ recency[w] <= recency[v]
    BY DEF Evicted
  <2>2. recency[v] \in Nat /\ recency[w] \in Nat
    BY <1>1 DEF TypeOK
  <2> QED
    BY <1>1, <2>1, <2>2 DEF RecencyDistinct
<1>3. Evicted = {} \/ \E v : Evicted = {v}
  BY <1>2
<1>4. CASE Evicted = {}
  BY <1>1, <1>4, FS_EmptySet
<1>5. ASSUME NEW v, Evicted = {v} PROVE IsFiniteSet(Evicted) /\ Cardinality(Evicted) <= 1
  <2>1. IsFiniteSet({v}) /\ Cardinality({v}) = 1
    BY FS_Singleton
  <2>2. IsFiniteSet(Evicted) /\ Cardinality(Evicted) = 1
    BY <1>5, <2>1, Zenon
  <2> QED
    BY <2>2
<1> QED
  BY <1>1, <1>3, <1>4, <1>5

(* A step of the engine is a step of the miner, or changes neither the log *)
(* nor the clusters.                                                       *)
LEMMA StepRefines ==
  ASSUME TypeOK, TypeOK', MinerInv, MinerInv', [Next]_vars
  PROVE  [Miner!MinerNext]_(Miner!minerVars)
<1>1. CASE UNCHANGED vars
  BY <1>1 DEF vars, Miner!minerVars
<1>2. ASSUME NEW l \in Lines, Len(log) < MaxCalls, UpdateCluster(l)
      PROVE  Miner!MinerNext
  <2>1. PICK c \in Chosen(l) :
        LET new == CreateTemplate(MaskedTokens[l], idToCluster[c].template)
        IN  /\ c \in Live
            /\ idToCluster' = [idToCluster EXCEPT
                  ![c] = [template |-> new, size |-> idToCluster[c].size + 1]]
            /\ recency' = [recency EXCEPT ![c] = Len(log) + 1]
            /\ \E u \in UpdateTypes :
                  /\ Record(l, c, u)
                  /\ u \in {"cluster_template_changed", "none"}
                  /\ (u = "none") <=> (new = idToCluster[c].template)
            /\ UNCHANGED <<tree, clustersCounter>>
    BY <1>2, UpdateClusterEffect
  <2> DEFINE new == CreateTemplate(MaskedTokens[l], idToCluster[c].template)
  <2>2. PICK u \in UpdateTypes :
          /\ Record(l, c, u)
          /\ u \in {"cluster_template_changed", "none"}
          /\ (u = "none") <=> (new = idToCluster[c].template)
    BY <2>1
  <2>3. c \in Live
    BY <2>1
  <2>4. idToCluster' = [idToCluster EXCEPT ![c] = Miner!Report(log', c)]
    <3>1. Len(idToCluster[c].template) = Len(MaskedTokens[l])
      BY ChosenLength DEF MinerInv
    <3>2. Miner!Report(log', c) = [template |-> new, size |-> idToCluster[c].size + 1]
      BY <2>2, <2>3, <3>1, ReportExtends DEF MinerInv
    <3> QED
      BY <2>1, <3>2
  <2>5. idToCluster'[c].template = new
    BY <2>1, <2>3
  <2>6. \A m \in Miner!Contents(log, c) : Len(m) = Len(MaskedTokens[l])
    BY <2>3, ChosenLength DEF MinerInv, ReportsExact
  <2>7. log' = Append(log, [line |-> l, id |-> c, update |-> u])
    BY <2>2 DEF Record
  <2> HIDE DEF new
  <2>8. Miner!Join(l, c)
    BY <2>2, <2>3, <2>4, <2>5, <2>6, <2>7 DEF Miner!Join
  <2>9. c \in 1..MaxCalls
    BY <2>3, BoundAssumption DEF TypeOK
  <2> QED
    BY <1>2, <2>8, <2>9 DEF Miner!MinerNext
<1>3. ASSUME NEW l \in Lines, Len(log) < MaxCalls, CreateCluster(l)
      PROVE  Miner!MinerNext
  <2> DEFINE id == clustersCounter + 1
             toks == MaskedTokens[l]
  <2>1. /\ Record(l, id, "cluster_created")
        /\ id \notin Live
        /\ Live' = Kept(id)
        /\ idToCluster' = [d \in Kept(id) |->
              IF d = id THEN [template |-> toks, size |-> 1] ELSE idToCluster[d]]
    BY <1>3, CreateClusterEffect
  <2>2. Miner!Assigned(log, id) = {}
    BY FreshIsUnassigned
  <2>3. Miner!Report(log', id) = [template |-> toks, size |-> 1]
    <3>1. "cluster_created" \in UpdateTypes
      BY DEF UpdateTypes
    <3> QED
      BY <2>1, <3>1, ReportOfNew
  <2>4. log' = Append(log, [line |-> l, id |-> id, update |-> "cluster_created"])
    BY <2>1 DEF Record
  <2>5. id \in 1..MaxCalls
    BY <1>3, BoundAssumption DEF TypeOK
  <2> HIDE DEF id, toks
  <2>6. idToCluster' = [d \in (Live \ Evicted) \cup {id} |->
                          IF d = id THEN Miner!Report(log', id) ELSE idToCluster[d]]
    BY <2>1, <2>3 DEF Kept
  <2>7. Evicted \in SUBSET Live /\ Miner!Cardinality(Evicted) <= 1
    BY EvictsAtMostOne, SameCardinality DEF MinerInv
  <2>8. Miner!Open(l, id)
    BY <2>2, <2>4, <2>6, <2>7 DEF Miner!Open
  <2> QED
    BY <1>3, <2>5, <2>8 DEF Miner!MinerNext
<1> QED
  BY <1>1, <1>2, <1>3 DEF Next, AddLogMessage

(* The engine, with its tree and its bounded store, implements the         *)
(* template miner: sizes and templates are those of the assigned lines.    *)
THEOREM Refinement == Spec => MinerSpec
<1>1. Init => Miner!MinerInit
  BY DEF Init, Miner!MinerInit
<1>2. TypeOK /\ MinerInv /\ (TypeOK /\ MinerInv)' /\ [Next]_vars
        => [Miner!MinerNext]_(Miner!minerVars)
  BY StepRefines
<1>3. Spec => [](TypeOK /\ MinerInv)
  BY MinerInvariance
<1> QED
  BY <1>1, <1>2, <1>3, PTL DEF Spec, MinerSpec, Miner!MinerSpec

-----------------------------------------------------------------------------
(* Templates do not drift away from their members.                         *)

(* The positions of a template that still hold a token.                    *)
Static(template) == {i \in DOMAIN template : template[i] # ParamStr}

(* A cluster that was joined has enough of them.                           *)
StaticEnough ==
  \A c \in Live : idToCluster[c].size > 1 =>
    Reaches(Cardinality(Static(idToCluster[c].template)),
            Len(idToCluster[c].template), SimNum, SimDen)

(* Without params the similarity is the number of matching positions.      *)
LEMMA SimTokensWithoutParams ==
  ASSUME NEW t \in Seq(Keys), NEW m
  PROVE  SimTokens(t, m, FALSE) = Cardinality(Matches(t, m))
<1>1. Matches(t, m) \subseteq 1..Len(t) /\ Len(t) \in Nat
  BY DEF Matches
<1>2. IsFiniteSet(1..Len(t))
  BY <1>1, FS_Interval
<1>3. IsFiniteSet(Matches(t, m))
  BY <1>1, <1>2, FS_Subset
<1>4. Cardinality(Matches(t, m)) \in Nat
  BY <1>3, FS_CardinalityType
<1> QED
  BY <1>4 DEF SimTokens

(* A cluster chosen for a line with tokens is good enough for it.          *)
LEMMA ChosenGoodEnough ==
  ASSUME NEW l \in Lines, NEW c \in Chosen(l), Len(MaskedTokens[l]) # 0
  PROVE  Reaches(SimTokens(idToCluster[c].template, MaskedTokens[l], FALSE),
                 Len(MaskedTokens[l]), SimNum, SimDen)
<1>1. PICK leaf \in SearchLeaves(MaskedTokens[l]) :
        c \in (IF Len(MaskedTokens[l]) = 0 THEN tree[leaf] \cap Live
               ELSE FastMatch(tree[leaf], MaskedTokens[l], SimNum, SimDen, FALSE))
  BY DEF Chosen, TreeSearch
<1>2. c \in FastMatch(tree[leaf], MaskedTokens[l], SimNum, SimDen, FALSE)
  BY <1>1
<1> QED
  BY <1>2 DEF FastMatch, GoodEnough, Score

(* What stays static in a generalised template is what matched.            *)
LEMMA StaticOfNew ==
  ASSUME NEW toks \in Seq(Tokens), NEW old \in Seq(Keys), Len(old) = Len(toks)
  PROVE  Static(CreateTemplate(toks, old)) = Matches(old, toks)
<1>1. DOMAIN CreateTemplate(toks, old) = 1..Len(toks) /\ DOMAIN old = 1..Len(toks)
  BY CreateTemplateType
<1>2. CreateTemplate(toks, old) =
        [i \in 1..Len(toks) |-> IF toks[i] = old[i] THEN old[i] ELSE ParamStr]
  BY DEF CreateTemplate
<1> QED
  BY <1>1, <1>2 DEF Static, Matches

(* Every call leaves a joined cluster enough static tokens.                *)
LEMMA NextStaticEnough ==
  ASSUME TypeOK, TypeOK', MinerInv, StaticEnough, [Next]_vars
  PROVE  StaticEnough'
<1>1. CASE UNCHANGED vars
  BY <1>1 DEF vars, StaticEnough
<1>2. ASSUME NEW l \in Lines, UpdateCluster(l)
      PROVE  StaticEnough'
  <2>1. PICK c \in Chosen(l) :
        LET new == CreateTemplate(MaskedTokens[l], idToCluster[c].template)
        IN  /\ c \in Live
            /\ idToCluster' = [idToCluster EXCEPT
                  ![c] = [template |-> new, size |-> idToCluster[c].size + 1]]
            /\ recency' = [recency EXCEPT ![c] = Len(log) + 1]
            /\ \E u \in UpdateTypes :
                  /\ Record(l, c, u)
                  /\ u \in {"cluster_template_changed", "none"}
                  /\ (u = "none") <=> (new = idToCluster[c].template)
            /\ UNCHANGED <<tree, clustersCounter>>
    BY <1>2, UpdateClusterEffect
  <2> DEFINE toks == MaskedTokens[l]
             old == idToCluster[c].template
             new == CreateTemplate(toks, old)
  <2>2. toks \in Seq(Tokens) /\ Len(toks) \in Nat
    BY LineTokens
  <2>3. old \in Seq(Keys) /\ Len(old) = Len(toks)
    BY <2>1, ChosenLength DEF MinerInv, TypeOK, ClusterType
  <2>4. Len(new) = Len(toks)
    BY <2>2, CreateTemplateType
  <2>5. Static(new) = Matches(old, toks)
    <3> HIDE DEF toks, old
    <3> QED
      BY <2>2, <2>3, StaticOfNew
  <2>6. SimTokens(old, toks, FALSE) = Cardinality(Static(new))
    BY <2>3, <2>5, SimTokensWithoutParams
  <2>7. Reaches(Cardinality(Static(new)), Len(new), SimNum, SimDen)
    <3>1. CASE Len(toks) = 0
      BY <2>4, <3>1, ThresholdAssumption DEF Reaches
    <3>2. CASE Len(toks) # 0
      BY <2>4, <2>6, <3>2, ChosenGoodEnough
    <3> QED
      BY <3>1, <3>2
  <2>8. /\ Live' = Live
        /\ idToCluster'[c].template = new
        /\ \A d \in Live : d # c => idToCluster'[d] = idToCluster[d]
    BY <2>1
  <2> HIDE DEF toks, old, new
  <2> QED
    BY <2>7, <2>8 DEF StaticEnough
<1>3. ASSUME NEW l \in Lines, CreateCluster(l)
      PROVE  StaticEnough'
  <2>1. /\ Live' = Kept(clustersCounter + 1)
        /\ idToCluster' = [d \in Kept(clustersCounter + 1) |->
              IF d = clustersCounter + 1
                THEN [template |-> MaskedTokens[l], size |-> 1] ELSE idToCluster[d]]
    BY <1>3, CreateClusterEffect
  <2>2. \A d \in Live' : \/ d \in Live /\ idToCluster'[d] = idToCluster[d]
                         \/ idToCluster'[d].size = 1
    BY <2>1 DEF Kept
  <2> QED
    BY <2>2 DEF StaticEnough
<1> QED
  BY <1>1, <1>2, <1>3 DEF Next, AddLogMessage

(* A member has every static token of its cluster's template.              *)
LEMMA StaticMatchesMembers ==
  ASSUME TypeOK, ReportsExact, NEW c \in Live, NEW m \in Miner!Contents(log, c)
  PROVE  Matches(idToCluster[c].template, m) = Static(idToCluster[c].template)
<1> DEFINE msgs == Miner!Contents(log, c)
           t == idToCluster[c].template
<1>1. t \in Seq(Keys) /\ Len(t) \in Nat
  BY DEF TypeOK, ClusterType
<1>2. t = LeastGeneral(msgs)
  BY SameLeastGeneral DEF ReportsExact, Miner!Report
<1>3. \A o \in msgs : DOMAIN o = 1..Len(t)
  BY ContentsType DEF ReportsExact
<1> HIDE DEF t, msgs
<1>4. m \in msgs
  BY DEF msgs
<1>5. /\ DOMAIN t = 1..Len(t)
      /\ \A i \in 1..Len(t) :
           t[i] = IF \A o \in msgs : o[i] = m[i] THEN m[i] ELSE ParamStr
  BY <1>1, <1>2, <1>3, <1>4, LeastGeneralAt
<1> QED
  BY <1>5 DEF Matches, Static, t

(* Enough static tokens in the template are enough for every member.       *)
LEMMA StaticEnoughSuffices ==
  ASSUME TypeOK, MinerInv, StaticEnough
  PROVE  MembersStayAdmissible
<1> SUFFICES ASSUME NEW c \in Live, idToCluster[c].size > 1, NEW i \in Members(c)
             PROVE  Reaches(SimTokens(idToCluster[c].template, MaskedTokens[log[i].line], FALSE),
                            Len(MaskedTokens[log[i].line]), SimNum, SimDen)
  BY DEF MembersStayAdmissible
<1> DEFINE m == MaskedTokens[log[i].line]
           t == idToCluster[c].template
<1>1. m \in Miner!Contents(log, c)
  BY DEF Members, Miner!Contents, Miner!Assigned
<1>2. t \in Seq(Keys)
  BY DEF TypeOK, ClusterType
<1>3. Len(m) = Len(t)
  BY <1>1 DEF MinerInv, ReportsExact
<1>4. SimTokens(t, m, FALSE) = Cardinality(Static(t))
  BY <1>1, <1>2, SimTokensWithoutParams, StaticMatchesMembers DEF MinerInv
<1> QED
  BY <1>3, <1>4 DEF StaticEnough

(* Every line still reaches sim_th against the template its cluster has    *)
(* come to, however many lines generalised it since.                       *)
THEOREM NoDrift == Spec => []MembersStayAdmissible
<1>1. Init => StaticEnough
  BY DEF Init, StaticEnough
<1>2. TypeOK /\ MinerInv /\ (TypeOK /\ MinerInv)' /\ StaticEnough /\ [Next]_vars
        => StaticEnough'
  BY NextStaticEnough
<1>3. TypeOK /\ MinerInv /\ StaticEnough => MembersStayAdmissible
  BY StaticEnoughSuffices
<1> QED
  BY <1>1, <1>2, <1>3, MinerInvariance, PTL DEF Spec

-----------------------------------------------------------------------------
(* The bounded store forgets the least recently used cluster, and only     *)
(* when it is full.                                                        *)

(* A live cluster's recency is its last line in the log; a forgotten one   *)
(* got its last line before any live cluster did; the store is never       *)
(* larger than its capacity and forgets nothing before it is full.         *)
LastUse ==
  \A c \in Live : /\ log[recency[c]].id = c
                  /\ \A i \in DOMAIN log : log[i].id = c => i <= recency[c]

ForgottenBefore ==
  \A i \in DOMAIN log : log[i].id \notin Live => \A c \in Live : i < recency[c]

Capacity ==
  /\ MaxClusters \in Nat => Cardinality(Live) <= MaxClusters
  /\ \A i \in DOMAIN log : log[i].id \notin Live => Cardinality(Live) = MaxClusters

LruInv == LastUse /\ ForgottenBefore /\ Capacity

(* The store holds finitely many clusters.                                 *)
LEMMA LiveFinite ==
  ASSUME TypeOK PROVE IsFiniteSet(Live) /\ Cardinality(Live) \in Nat
<1>1. clustersCounter \in Nat /\ Live \subseteq 1..clustersCounter
  BY DEF TypeOK
<1>2. IsFiniteSet(1..clustersCounter)
  BY <1>1, FS_Interval
<1> QED
  BY <1>1, <1>2, FS_Subset, FS_CardinalityType

(* A full store evicts exactly one cluster, any other store none.          *)
LEMMA EvictsWhenFull ==
  ASSUME TypeOK, RecencyDistinct
  PROVE  IF Cardinality(Live) = MaxClusters
           THEN \E v \in Live : /\ Evicted = {v}
                               /\ \A w \in Live \ {v} : recency[v] < recency[w]
           ELSE Evicted = {}
<1>1. CASE Cardinality(Live) # MaxClusters
  BY <1>1 DEF Evicted
<1>2. CASE Cardinality(Live) = MaxClusters
  <2>1. \A c \in Live : recency[c] \in Nat
    BY DEF TypeOK
  <2>2. Live # {}
    <3>1. MaxClusters # 0
      BY StoreAssumption
    <3> QED
      BY <1>2, <3>1, FS_EmptySet
  <2> DEFINE T == {recency[c] : c \in Live}
  <2>3. T \subseteq Nat /\ T # {}
    BY <2>1, <2>2
  <2>4. PICK x \in T : \A y \in T : x <= y
    <3> HIDE DEF T
    <3> QED
      BY <2>3, LeastNatural
  <2>5. PICK v \in Live : \A w \in Live : recency[v] <= recency[w]
    BY <2>4
  <2>6. \A w \in Live \ {v} : recency[v] < recency[w]
    BY <2>1, <2>5 DEF RecencyDistinct
  <2>7. Evicted = {v}
    BY <1>2, <2>1, <2>5, <2>6 DEF Evicted
  <2> QED
    BY <1>2, <2>6, <2>7
<1> QED
  BY <1>1, <1>2

(* Joining a cluster keeps the LRU order that of the last uses.            *)
LEMMA UpdateLruInv ==
  ASSUME TypeOK, LruInv, NEW l \in Lines, UpdateCluster(l)
  PROVE  LruInv'
<1>1. PICK c \in Chosen(l) :
        LET new == CreateTemplate(MaskedTokens[l], idToCluster[c].template)
        IN  /\ c \in Live
            /\ idToCluster' = [idToCluster EXCEPT
                  ![c] = [template |-> new, size |-> idToCluster[c].size + 1]]
            /\ recency' = [recency EXCEPT ![c] = Len(log) + 1]
            /\ \E u \in UpdateTypes :
                  /\ Record(l, c, u)
                  /\ u \in {"cluster_template_changed", "none"}
                  /\ (u = "none") <=> (new = idToCluster[c].template)
            /\ UNCHANGED <<tree, clustersCounter>>
  BY UpdateClusterEffect
<1>2. PICK u \in UpdateTypes : Record(l, c, u)
  BY <1>1
<1> DEFINE N == Len(log)
<1>3. /\ c \in 1..clustersCounter /\ clustersCounter \in Nat /\ N \in Nat
      /\ DOMAIN recency = Live /\ \A d \in Live : recency[d] \in 1..N
      /\ log \in Seq(EntryType(clustersCounter))
      /\ clustersCounter <= clustersCounter
  BY <1>1 DEF TypeOK
<1>4. /\ Len(log') = N + 1
      /\ log' \in Seq(EntryType(clustersCounter))
      /\ \A i \in 1..N : log'[i] = log[i]
      /\ log'[N + 1] = [line |-> l, id |-> c, update |-> u]
  BY <1>2, <1>3, RecordType
<1>5. /\ DOMAIN log = 1..N /\ DOMAIN log' = 1..(N + 1)
      /\ log'[N + 1].id = c
  BY <1>3, <1>4
<1>6. /\ Live' = Live
      /\ recency'[c] = N + 1
      /\ \A d \in Live : d # c => recency'[d] = recency[d]
  BY <1>1, <1>3
<1> HIDE DEF N
<1>7. LastUse'
  BY <1>1, <1>3, <1>4, <1>5, <1>6 DEF LruInv, LastUse
<1>8. \A i \in DOMAIN log' : log'[i].id \notin Live' =>
         i \in DOMAIN log /\ log[i].id \notin Live
  <2> SUFFICES ASSUME NEW i \in 1..(N + 1), log'[i].id \notin Live'
               PROVE  i \in 1..N /\ log[i].id \notin Live
    BY <1>5
  <2>1. i # N + 1
    BY <1>1, <1>5, <1>6
  <2> QED
    BY <1>3, <1>4, <1>6, <2>1
<1>9. ForgottenBefore'
  <2>1. \A d \in Live : recency[d] <= recency'[d]
    BY <1>3, <1>6
  <2> SUFFICES ASSUME NEW i \in DOMAIN log', log'[i].id \notin Live', NEW d \in Live'
               PROVE  i < recency'[d]
    BY DEF ForgottenBefore
  <2>2. i \in 1..N /\ i < recency[d] /\ d \in Live
    BY <1>5, <1>6, <1>8 DEF LruInv, ForgottenBefore
  <2> QED
    BY <1>3, <1>6, <2>2
<1>10. Capacity'
  BY <1>6, <1>8 DEF LruInv, Capacity
<1> QED
  BY <1>7, <1>9, <1>10 DEF LruInv

(* So does opening one, with the eviction it may need.                     *)
LEMMA CreateLruInv ==
  ASSUME TypeOK, RecencyDistinct, LruInv, NEW l \in Lines, CreateCluster(l)
  PROVE  LruInv'
<1> DEFINE id == clustersCounter + 1
           N == Len(log)
<1>1. /\ id \notin Live
      /\ recency' = [d \in Kept(id) |-> IF d = id THEN N + 1 ELSE recency[d]]
      /\ Live' = Kept(id)
      /\ Record(l, id, "cluster_created")
  BY CreateClusterEffect
<1>2. /\ clustersCounter \in Nat /\ id \in 1..id /\ id \in Nat /\ N \in Nat
      /\ clustersCounter <= id
      /\ \A d \in Live : recency[d] \in 1..N
      /\ log \in Seq(EntryType(clustersCounter))
      /\ "cluster_created" \in UpdateTypes
  BY DEF TypeOK, UpdateTypes
<1>3. /\ Len(log') = N + 1
      /\ log' \in Seq(EntryType(id))
      /\ \A i \in 1..N : log'[i] = log[i]
      /\ log'[N + 1] = [line |-> l, id |-> id, update |-> "cluster_created"]
  BY <1>1, <1>2, RecordType
<1>4. /\ DOMAIN log = 1..N /\ DOMAIN log' = 1..(N + 1)
      /\ log'[N + 1].id = id
  BY <1>2, <1>3
<1>5. \A i \in 1..N : log[i].id # id
  <2>1. \A i \in 1..N : log[i] \in EntryType(clustersCounter)
    BY <1>2
  <2> QED
    BY <1>2, <2>1 DEF EntryType
<1>6. /\ recency'[id] = N + 1
      /\ \A d \in Live' : d # id => d \in Live /\ recency'[d] = recency[d]
      /\ id \in Live'
  BY <1>1 DEF Kept
<1> HIDE DEF id, N
<1>7. LastUse'
  BY <1>2, <1>3, <1>4, <1>5, <1>6 DEF LruInv, LastUse
<1>8. \A i \in 1..N : log[i].id \in Live /\ log[i].id \notin Live' =>
        \A d \in Live' : d # id => i < recency[d]
  <2> SUFFICES ASSUME NEW i \in 1..N, log[i].id \in Live, log[i].id \notin Live',
                      NEW d \in Live', d # id
               PROVE  i < recency[d]
    OBVIOUS
  <2>1. log[i].id \in Evicted
    BY <1>1 DEF Kept
  <2>2. PICK v \in Live : Evicted = {v} /\ \A w \in Live \ {v} : recency[v] < recency[w]
    BY <2>1, EvictsWhenFull
  <2>3. d \in Live \ {v}
    BY <1>1, <1>6, <2>2 DEF Kept
  <2>4. i <= recency[v]
    BY <1>4, <2>1, <2>2 DEF LruInv, LastUse
  <2> QED
    BY <1>2, <2>2, <2>3, <2>4
<1>9. ForgottenBefore'
  <2> SUFFICES ASSUME NEW i \in 1..(N + 1), log'[i].id \notin Live', NEW d \in Live'
               PROVE  i < recency'[d]
    BY <1>4 DEF ForgottenBefore
  <2>1. i \in 1..N /\ log'[i] = log[i]
    BY <1>2, <1>3, <1>4, <1>6
  <2>2. CASE d = id
    BY <1>2, <1>6, <2>1, <2>2
  <2>3. CASE d # id /\ log[i].id \in Live
    BY <1>6, <1>8, <2>1, <2>3
  <2>4. CASE d # id /\ log[i].id \notin Live
    BY <1>4, <1>6, <2>1, <2>4 DEF LruInv, ForgottenBefore
  <2> QED
    BY <2>2, <2>3, <2>4
<1>10. Capacity'
  <2>1. IsFiniteSet(Live) /\ Cardinality(Live) \in Nat
    BY LiveFinite
  <2>2. CASE Cardinality(Live) = MaxClusters
    <3>1. PICK v \in Live : Evicted = {v}
      BY <2>2, EvictsWhenFull
    <3>2. IsFiniteSet(Live \ {v}) /\ Cardinality(Live \ {v}) = Cardinality(Live) - 1
      BY <2>1, FS_RemoveElement
    <3>3. id \notin Live \ {v}
      BY <1>1
    <3>4. Cardinality((Live \ {v}) \cup {id}) = Cardinality(Live \ {v}) + 1
      BY <3>2, <3>3, FS_AddElement
    <3>5. Live' = (Live \ {v}) \cup {id}
      BY <1>1, <3>1 DEF Kept
    <3>6. Cardinality(Live') = MaxClusters
      BY <2>1, <2>2, <3>2, <3>4, <3>5
    <3> QED
      BY <2>1, <2>2, <3>6 DEF Capacity
  <2>3. CASE Cardinality(Live) # MaxClusters
    <3>1. Live' = Live \cup {id}
      BY <1>1, <2>3, EvictsWhenFull DEF Kept
    <3>2. Cardinality(Live') = Cardinality(Live) + 1
      BY <1>1, <2>1, <3>1, FS_AddElement
    <3>3. MaxClusters \in Nat => Cardinality(Live') <= MaxClusters
      BY <2>1, <2>3, <3>2 DEF LruInv, Capacity
    <3>4. \A i \in 1..N : log[i].id \in Live
      BY <1>4, <2>3 DEF LruInv, Capacity
    <3>5. \A i \in 1..(N + 1) : log'[i].id \in Live'
      BY <1>2, <1>3, <1>4, <3>1, <3>4
    <3> QED
      BY <1>4, <3>3, <3>5 DEF Capacity
  <2> QED
    BY <2>2, <2>3
<1> QED
  BY <1>7, <1>9, <1>10 DEF LruInv

(* The LRU order being that of the last uses, the live clusters are the    *)
(* most recently used.                                                     *)
LEMMA LruInvSuffices ==
  ASSUME TypeOK, LruInv PROVE LiveAreMostRecent
<1>1. Len(log) \in Nat /\ DOMAIN log = 1..Len(log)
      /\ \A c \in Live : recency[c] \in 1..Len(log)
  BY DEF TypeOK
<1>2. ASSUME NEW i \in DOMAIN log, log[i].id \notin Live, NEW c \in Live
      PROVE  \E j \in DOMAIN log : j > i /\ log[j].id = c
  <2>1. recency[c] \in DOMAIN log /\ recency[c] > i /\ log[recency[c]].id = c
    BY <1>1, <1>2 DEF LruInv, LastUse, ForgottenBefore
  <2> QED
    BY <2>1
<1> QED
  BY <1>2 DEF LruInv, Capacity, LiveAreMostRecent

(* A store of capacity MaxClusters holds the clusters used last.           *)
THEOREM LeastRecentlyUsed == Spec => []LiveAreMostRecent
<1>1. Init => LruInv
  <2> SUFFICES ASSUME Init PROVE LruInv
    OBVIOUS
  <2>1. Live = {} /\ DOMAIN log = {}
    BY DEF Init
  <2>2. Cardinality(Live) = 0
    BY <2>1, FS_EmptySet
  <2> QED
    BY <2>1, <2>2 DEF LruInv, LastUse, ForgottenBefore, Capacity
<1>2. TypeOK /\ MinerInv /\ LruInv /\ [Next]_vars => LruInv'
  <2> SUFFICES ASSUME TypeOK, MinerInv, LruInv, [Next]_vars PROVE LruInv'
    OBVIOUS
  <2>1. ASSUME NEW l \in Lines, AddLogMessage(l) PROVE LruInv'
    BY <2>1, UpdateLruInv, CreateLruInv DEF AddLogMessage, MinerInv
  <2>2. CASE UNCHANGED vars
    BY <2>2 DEF vars, LruInv, LastUse, ForgottenBefore, Capacity
  <2> QED
    BY <2>1, <2>2 DEF Next
<1>3. TypeOK /\ LruInv => LiveAreMostRecent
  BY LruInvSuffices
<1> QED
  BY <1>1, <1>2, <1>3, MinerInvariance, PTL DEF Spec

-----------------------------------------------------------------------------
(* The prefix tree: it always has room for the wildcard child, lists every *)
(* live cluster where its lines go, and the searches find there what was   *)
(* ingested.                                                               *)

(* An inner node never has more than MaxChildren children, and while it    *)
(* has no wildcard child it has room for it.                               *)
Roomy(kids) ==
  /\ IsFiniteSet(kids) /\ Cardinality(kids) <= MaxChildren
  /\ ParamStr \notin kids => Cardinality(kids) < MaxChildren

RoomForWildcard ==
  MaxChildren > 0 => \A n \in Nat : \A path \in Seq(Keys) : Roomy(Children(n, path))

(* A child for the key that the insertion takes leaves that room.          *)
LEMMA InsertLeavesRoom ==
  ASSUME NEW kids, Roomy(kids), NEW token
  PROVE  Roomy(kids \cup {InsertKey(kids, token)})
<1> DEFINE k == InsertKey(kids, token)
           n == Cardinality(kids)
<1>1. n \in Nat /\ MaxChildren \in Nat /\ IsFiniteSet(kids) /\ n <= MaxChildren
  BY FS_CardinalityType, TreeAssumption DEF Roomy
<1>2. IsFiniteSet(kids \cup {k}) /\ Cardinality(kids \cup {k}) = IF k \in kids THEN n ELSE n + 1
  BY <1>1, FS_AddElement
<1>3. CASE k \in kids
  <2>1. kids \cup {k} = kids
    BY <1>3
  <2> QED
    BY <2>1
<1>4. CASE k \notin kids /\ k = ParamStr
  <2>1. n + 1 <= MaxChildren
    BY <1>1, <1>4 DEF Roomy
  <2> QED
    BY <1>2, <1>4, <2>1 DEF Roomy
<1>5. CASE k \notin kids /\ k # ParamStr
  <2>1. HasRoom(kids)
    BY <1>5 DEF InsertKey
  <2>2. n + 1 <= MaxChildren /\ (ParamStr \notin kids => n + 1 < MaxChildren)
    BY <1>1, <2>1 DEF HasRoom
  <2>3. ParamStr \notin kids \cup {k} => ParamStr \notin kids
    OBVIOUS
  <2> QED
    BY <1>2, <1>5, <2>2, <2>3 DEF Roomy
<1> QED
  BY <1>3, <1>4, <1>5

(* The children a node gets by an insertion: the next key of the path that *)
(* goes through it.                                                        *)
LEMMA InsertedChildren ==
  ASSUME NEW m \in Nat, NEW path \in Seq(Keys),
         DOMAIN tree' = DOMAIN tree \cup {<<m, SubSeq(path, 1, i)>> : i \in 0..Len(path)},
         NEW n \in Nat, NEW p \in Seq(Keys)
  PROVE  \/ Children(n, p)' = Children(n, p)
         \/ /\ n = m /\ Len(p) + 1 \in DOMAIN path /\ p = SubSeq(path, 1, Len(p))
            /\ Children(n, p)' = Children(n, p) \cup {path[Len(p) + 1]}
<1>1. /\ Len(path) \in Nat /\ Len(p) \in Nat
      /\ DOMAIN path = 1..Len(path) /\ \A i \in 1..Len(path) : path[i] \in Keys
  OBVIOUS
<1>2. \A i \in 0..Len(path) :
        /\ SubSeq(path, 1, i) \in Seq(Keys) /\ Len(SubSeq(path, 1, i)) = i
        /\ \A j \in 1..i : SubSeq(path, 1, i)[j] = path[j]
  BY <1>1
<1>3. \A k \in Keys : /\ Append(p, k) \in Seq(Keys) /\ Len(Append(p, k)) = Len(p) + 1
                      /\ \A j \in 1..Len(p) : Append(p, k)[j] = p[j]
                      /\ Append(p, k)[Len(p) + 1] = k
  OBVIOUS
<1>4. Children(n, p)' = {k \in Keys : <<n, Append(p, k)>> \in DOMAIN tree'}
  BY DEF Children
<1>5. \A k \in Keys : k \in Children(n, p)' <=>
        k \in Children(n, p) \/ (n = m /\ \E i \in 0..Len(path) : Append(p, k) = SubSeq(path, 1, i))
  BY <1>4 DEF Children
<1>6. \A k \in Keys, i \in 0..Len(path) : Append(p, k) = SubSeq(path, 1, i) =>
        /\ i = Len(p) + 1 /\ k = path[i]
        /\ \A j \in 1..Len(p) : p[j] = path[j]
  <2> SUFFICES ASSUME NEW k \in Keys, NEW i \in 0..Len(path), Append(p, k) = SubSeq(path, 1, i)
               PROVE  i = Len(p) + 1 /\ k = path[i] /\ \A j \in 1..Len(p) : p[j] = path[j]
    OBVIOUS
  <2>1. i = Len(p) + 1
    BY <1>2, <1>3
  <2>2. k = path[i]
    BY <1>1, <1>2, <1>3, <2>1
  <2>3. \A j \in 1..Len(p) : p[j] = path[j]
    BY <1>1, <1>2, <1>3, <2>1
  <2> QED
    BY <2>1, <2>2, <2>3
<1>7. CASE \E k \in Keys : k \notin Children(n, p) /\ k \in Children(n, p)'
  <2>1. PICK k \in Keys : k \notin Children(n, p) /\ k \in Children(n, p)'
    BY <1>7
  <2>2. PICK i \in 0..Len(path) : Append(p, k) = SubSeq(path, 1, i)
    BY <1>5, <2>1
  <2>3. n = m /\ i = Len(p) + 1 /\ k = path[i] /\ \A j \in 1..Len(p) : p[j] = path[j]
    BY <1>5, <1>6, <2>1, <2>2
  <2>4. Len(p) + 1 \in DOMAIN path /\ Len(p) \in 0..Len(path)
    BY <1>1, <2>2, <2>3
  <2>5. p = SubSeq(path, 1, Len(p))
    BY <1>2, <2>3, <2>4, SeqEqual
  <2>6. Children(n, p)' = Children(n, p) \cup {path[Len(p) + 1]}
    <3>1. \A j \in Children(n, p)' : j \in Keys
      BY <1>4
    <3>2. \A j \in Children(n, p) : j \in Keys /\ j \in Children(n, p)'
      BY <1>5 DEF Children
    <3>3. \A j \in Keys : j \in Children(n, p)' /\ j \notin Children(n, p) => j = path[Len(p) + 1]
      BY <1>5, <1>6
    <3> QED
      BY <2>1, <2>3, <3>1, <3>2, <3>3
  <2> QED
    BY <2>3, <2>4, <2>5, <2>6
<1>8. CASE ~ \E k \in Keys : k \notin Children(n, p) /\ k \in Children(n, p)'
  <2>1. \A k \in Keys : k \in Children(n, p)' <=> k \in Children(n, p)
    BY <1>5, <1>8
  <2>2. Children(n, p) \subseteq Keys /\ Children(n, p)' \subseteq Keys
    BY <1>4 DEF Children
  <2> QED
    BY <2>1, <2>2
<1> QED
  BY <1>7, <1>8

LEMMA NextRoomForWildcard ==
  ASSUME TypeOK, RoomForWildcard, [Next]_vars
  PROVE  RoomForWildcard'
<1>1. CASE UNCHANGED tree
  BY <1>1 DEF RoomForWildcard, Children
<1>2. ASSUME NEW l \in Lines, CreateCluster(l)
      PROVE  RoomForWildcard'
  <2> DEFINE toks == MaskedTokens[l]
  <2>1. PICK path \in Seq(Keys) :
          /\ InsertPath(toks, path)
          /\ DOMAIN tree' = DOMAIN tree \cup {<<Len(toks), SubSeq(path, 1, i)>> : i \in 0..Len(path)}
    BY <1>2, CreateClusterEffect
  <2>2. Len(toks) \in Nat
    BY LineTokens
  <2> HIDE DEF toks
  <2> SUFFICES ASSUME MaxChildren > 0, NEW n \in Nat, NEW p \in Seq(Keys)
               PROVE  Roomy(Children(n, p)')
    BY DEF RoomForWildcard, Roomy
  <2>3. Roomy(Children(n, p))
    BY DEF RoomForWildcard
  <2>4. CASE Children(n, p)' = Children(n, p)
    BY <2>3, <2>4
  <2>5. CASE /\ n = Len(toks) /\ Len(p) + 1 \in DOMAIN path /\ p = SubSeq(path, 1, Len(p))
             /\ Children(n, p)' = Children(n, p) \cup {path[Len(p) + 1]}
    <3>1. path[Len(p) + 1] = InsertKey(Children(n, p), toks[Len(p) + 1])
      <4>1. path[Len(p) + 1]
              = InsertKey(Children(Len(toks), SubSeq(path, 1, (Len(p) + 1) - 1)), toks[Len(p) + 1])
        BY <2>1, <2>5 DEF InsertPath
      <4>2. (Len(p) + 1) - 1 = Len(p)
        OBVIOUS
      <4> QED
        BY <2>5, <4>1, <4>2
    <3> DEFINE kids == Children(n, p)
               token == toks[Len(p) + 1]
    <3>2. Children(n, p)' = kids \cup {InsertKey(kids, token)}
      BY <2>5, <3>1
    <3>3. Roomy(kids)
      BY <2>3
    <3> HIDE DEF kids, token
    <3>4. Roomy(kids \cup {InsertKey(kids, token)})
      BY <3>3, InsertLeavesRoom
    <3> QED
      BY <3>2, <3>4
  <2> DEFINE m == Len(toks)
  <2>6. /\ m \in Nat /\ m = Len(toks)
        /\ DOMAIN tree' = DOMAIN tree \cup {<<m, SubSeq(path, 1, i)>> : i \in 0..Len(path)}
    BY <2>1, <2>2
  <2> HIDE DEF m
  <2>7. \/ Children(n, p)' = Children(n, p)
        \/ /\ n = m /\ Len(p) + 1 \in DOMAIN path /\ p = SubSeq(path, 1, Len(p))
           /\ Children(n, p)' = Children(n, p) \cup {path[Len(p) + 1]}
    BY <2>6, InsertedChildren
  <2> QED
    BY <2>4, <2>5, <2>6, <2>7
<1>3. ASSUME NEW l \in Lines, UpdateCluster(l)
      PROVE  UNCHANGED tree
  BY <1>3 DEF UpdateCluster
<1> QED
  BY <1>1, <1>2, <1>3 DEF Next, AddLogMessage, vars

(* With max_children at least one the unwrap in add_seq_to_prefix_tree     *)
(* always finds a wildcard child.                                          *)
THEOREM UnwrapFinds == Spec => []NeverPanics
<1>1. Init => RoomForWildcard
  <2> SUFFICES ASSUME Init, MaxChildren > 0, NEW n \in Nat, NEW path \in Seq(Keys)
               PROVE  Roomy(Children(n, path))
    BY DEF RoomForWildcard
  <2>1. Children(n, path) = {}
    BY DEF Init, Children
  <2> QED
    BY <2>1, FS_EmptySet, TreeAssumption DEF Roomy
<1>2. TypeOK /\ RoomForWildcard /\ [Next]_vars => RoomForWildcard'
  BY NextRoomForWildcard
<1>3. RoomForWildcard => NeverPanics
  <2> SUFFICES ASSUME RoomForWildcard, MaxChildren > 0, NEW l \in Lines,
                      InsertPanics(MaskedTokens[l])
               PROVE  FALSE
    BY DEF NeverPanics
  <2> DEFINE toks == MaskedTokens[l]
  <2>1. PICK i \in 1..RouteLen(Len(toks)) : \E path \in Paths(toks, i - 1) :
          Stuck(Children(Len(toks), path), toks[i])
    BY DEF InsertPanics
  <2>2. PICK path \in Paths(toks, i - 1) : Stuck(Children(Len(toks), path), toks[i])
    BY <2>1
  <2>3. toks \in Seq(Tokens) /\ Len(toks) \in Nat /\ i - 1 \in Nat
    BY LineTokens, RouteLenType
  <2> HIDE DEF toks
  <2>4. path \in Seq(Keys)
    <3>1. {toks[j] : j \in DOMAIN toks} \cup {ParamStr} \subseteq Keys
      <4>1. \A j \in DOMAIN toks : toks[j] \in Tokens
        BY <2>3
      <4> QED
        BY <4>1
    <3>2. path \in [1..(i - 1) -> Keys]
      BY <3>1 DEF Paths
    <3> QED
      BY <2>3, <3>2
  <2> DEFINE kids == Children(Len(toks), path)
  <2>5. Roomy(kids)
    BY <2>3, <2>4 DEF RoomForWildcard
  <2>6. Cardinality(kids) \in Nat /\ MaxChildren \in Nat
    BY <2>5, FS_CardinalityType, TreeAssumption DEF Roomy
  <2> QED
    BY <2>2, <2>5, <2>6 DEF Stuck, Roomy
<1> QED
  BY <1>1, <1>2, <1>3, Typing, PTL DEF Spec

-----------------------------------------------------------------------------
(* Where a cluster is listed.                                              *)

(* The node is one where lines of this template are looked for.            *)
Leads(node, t) ==
  /\ node[1] = Len(t)
  /\ Len(node[2]) = RouteLen(Len(t))
  /\ \A j \in DOMAIN node[2] : node[2][j] \in {t[j], ParamStr}

OneHome(c) ==
  \E home \in DOMAIN tree :
    /\ Lists(home, c) /\ Leads(home, idToCluster[c].template)
    /\ \A node \in DOMAIN tree : Lists(node, c) => node = home

HomesInv == \A c \in Live : OneHome(c)

(* A chosen cluster stays at home: the keys on the way there are tokens of *)
(* the line or wildcards, so its new template still has them.              *)
LEMMA UpdateHomes ==
  ASSUME TypeOK, HomesInv, NEW l \in Lines, UpdateCluster(l)
  PROVE  HomesInv'
<1>1. PICK c \in Chosen(l) :
        LET new == CreateTemplate(MaskedTokens[l], idToCluster[c].template)
        IN  /\ c \in Live
            /\ idToCluster' = [idToCluster EXCEPT
                  ![c] = [template |-> new, size |-> idToCluster[c].size + 1]]
            /\ recency' = [recency EXCEPT ![c] = Len(log) + 1]
            /\ \E u \in UpdateTypes :
                  /\ Record(l, c, u)
                  /\ u \in {"cluster_template_changed", "none"}
                  /\ (u = "none") <=> (new = idToCluster[c].template)
            /\ UNCHANGED <<tree, clustersCounter>>
  BY UpdateClusterEffect
<1> DEFINE toks == MaskedTokens[l]
           old == idToCluster[c].template
           new == CreateTemplate(toks, old)
<1>2. PICK leaf \in SearchLeaves(toks) : c \in tree[leaf]
  <2>1. PICK leaf \in SearchLeaves(toks) :
          c \in (IF Len(toks) = 0 THEN tree[leaf] \cap Live
                 ELSE FastMatch(tree[leaf], toks, SimNum, SimDen, FALSE))
    BY DEF Chosen, TreeSearch
  <2> QED
    BY <2>1 DEF FastMatch, Best
<1>3. /\ leaf \in DOMAIN tree /\ leaf[1] = Len(toks) /\ Len(leaf[2]) = RouteLen(Len(toks))
      /\ \A i \in 1..RouteLen(Len(toks)) : leaf[2][i] \in {toks[i], ParamStr}
  BY <1>2 DEF SearchLeaves, Descends
<1>4. PICK home \in DOMAIN tree :
        /\ Lists(home, c) /\ Leads(home, old)
        /\ \A node \in DOMAIN tree : Lists(node, c) => node = home
  BY <1>1 DEF HomesInv, OneHome
<1>5. leaf = home
  BY <1>2, <1>3, <1>4 DEF Lists
<1>6. /\ toks \in Seq(Tokens) /\ Len(toks) \in Nat
      /\ Len(new) = Len(toks)
      /\ RouteLen(Len(toks)) \in Nat /\ RouteLen(Len(toks)) <= Len(toks)
      /\ \A i \in 1..Len(toks) : new[i] = IF toks[i] = old[i] THEN old[i] ELSE ParamStr
  BY LineTokens, CreateTemplateType, RouteLenType DEF CreateTemplate
<1>7. DOMAIN leaf[2] = 1..RouteLen(Len(toks))
  <2>1. leaf[2] \in Seq(Keys)
    BY <1>3 DEF TypeOK
  <2> QED
    BY <1>3, <2>1
<1>8. Leads(leaf, new)
  <2>1. \A j \in 1..RouteLen(Len(toks)) : leaf[2][j] \in {old[j], ParamStr}
    BY <1>4, <1>5, <1>7 DEF Leads
  <2> HIDE DEF toks, old, new
  <2>2. \A j \in 1..RouteLen(Len(toks)) : leaf[2][j] \in {new[j], ParamStr}
    <3> SUFFICES ASSUME NEW j \in 1..RouteLen(Len(toks)), leaf[2][j] # ParamStr
                 PROVE  leaf[2][j] = new[j]
      OBVIOUS
    <3>1. leaf[2][j] = old[j] /\ leaf[2][j] = toks[j] /\ j \in 1..Len(toks)
      BY <1>3, <1>6, <2>1
    <3> QED
      BY <1>6, <3>1
  <2> QED
    BY <1>3, <1>6, <1>7, <2>2 DEF Leads
<1>9. tree' = tree /\ idToCluster'[c].template = new /\ Live' = Live
  BY <1>1
<1>10. \A d \in Live : d # c => idToCluster'[d] = idToCluster[d]
  BY <1>1
<1> HIDE DEF toks, old, new
<1>11. OneHome(c)'
  <2>1. \A node \in DOMAIN tree : Lists(node, c)' <=> Lists(node, c)
    BY <1>9 DEF Lists
  <2>2. Leads(home, idToCluster'[c].template)
    BY <1>5, <1>8, <1>9
  <2>3. /\ home \in DOMAIN tree' /\ Lists(home, c)'
        /\ \A node \in DOMAIN tree' : Lists(node, c)' => node = home
    BY <1>4, <1>9, <2>1
  <2> QED
    BY <2>2, <2>3 DEF OneHome, Leads
<1>12. ASSUME NEW d \in Live, d # c PROVE OneHome(d)'
  BY <1>9, <1>10, <1>12 DEF HomesInv, OneHome, Lists, Leads
<1> QED
  BY <1>9, <1>11, <1>12 DEF HomesInv

(* A new cluster is listed at the end of its path, and nowhere else; the   *)
(* clean-up there drops no live one.                                       *)
LEMMA CreateHomes ==
  ASSUME TypeOK, HomesInv, NEW l \in Lines, CreateCluster(l)
  PROVE  HomesInv'
<1> DEFINE id == clustersCounter + 1
           toks == MaskedTokens[l]
           n == Len(toks)
<1>1. /\ Chosen(l) = {} /\ id \notin Live
      /\ idToCluster' = [d \in Kept(id) |->
            IF d = id THEN [template |-> toks, size |-> 1] ELSE idToCluster[d]]
      /\ Live' = Kept(id)
  BY CreateClusterEffect
<1>2. PICK path \in Seq(Keys) :
        /\ Len(path) = RouteLen(n)
        /\ InsertPath(toks, path)
        /\ tree' = [node \in DOMAIN tree \cup {<<n, SubSeq(path, 1, i)>> : i \in 0..Len(path)} |->
              IF node = <<n, path>> THEN LeafIds(TreeIds(node), n, id) ELSE TreeIds(node)]
  BY CreateClusterEffect
<1> DEFINE leaf == <<n, path>>
<1>3. n \in Nat /\ Len(path) \in Nat /\ DOMAIN path = 1..Len(path) /\ SubSeq(path, 1, Len(path)) = path
  BY LineTokens
<1>4. leaf \in DOMAIN tree' /\ DOMAIN tree \subseteq DOMAIN tree' /\ leaf[1] = n /\ leaf[2] = path
  <2>1. Len(path) \in 0..Len(path)
    BY <1>3
  <2> QED
    BY <1>2, <1>3, <2>1
<1>5. \A node \in DOMAIN tree' : node # leaf => tree'[node] = TreeIds(node)
  BY <1>2
<1>6. tree'[leaf] = {d \in TreeIds(leaf) : n > 0 /\ d \in Live'} \cup {id}
  BY <1>2, <1>4 DEF LeafIds
<1>7. \A node \in DOMAIN tree : id \notin tree[node]
  <2>1. \A node \in DOMAIN tree : tree[node] \subseteq 1..clustersCounter /\ clustersCounter \in Nat
    BY DEF TypeOK
  <2> QED
    BY <2>1
<1>8. n = 0 => TreeIds(leaf) \cap Live = {}
  <2> SUFFICES ASSUME n = 0, leaf \in DOMAIN tree, NEW d \in tree[leaf] \cap Live
               PROVE  FALSE
    BY DEF TreeIds
  <2>1. RouteLen(n) = 0
    BY DEF RouteLen
  <2>2. leaf \in SearchLeaves(toks)
    BY <1>2, <1>4, <2>1 DEF SearchLeaves
  <2>3. d \in Chosen(l)
    BY <2>2 DEF Chosen, TreeSearch
  <2> QED
    BY <1>1, <2>3
<1>9. \A i \in DOMAIN path : path[i] \in {toks[i], ParamStr}
  BY <1>2 DEF InsertPath, InsertKey
<1>10. /\ id \in Live' /\ idToCluster'[id].template = toks
       /\ \A d \in Live' : d # id => d \in Live /\ idToCluster'[d] = idToCluster[d]
  BY <1>1 DEF Kept
<1> HIDE DEF id, toks, n, leaf
<1>11. \A d \in Live' : d # id =>
         \A node \in DOMAIN tree' : d \in tree'[node] <=> d \in TreeIds(node)
  <2> SUFFICES ASSUME NEW d \in Live', d # id, NEW node \in DOMAIN tree'
               PROVE  d \in tree'[node] <=> d \in TreeIds(node)
    OBVIOUS
  <2>1. CASE node # leaf
    BY <1>5, <2>1
  <2>2. CASE node = leaf
    <3>1. n = 0 \/ n > 0
      BY <1>3
    <3> QED
      BY <1>6, <1>8, <1>10, <2>2, <3>1
  <2> QED
    BY <2>1, <2>2
<1>12. ASSUME NEW d \in Live', d # id PROVE OneHome(d)'
  <2>1. PICK home \in DOMAIN tree :
          /\ Lists(home, d) /\ Leads(home, idToCluster[d].template)
          /\ \A node \in DOMAIN tree : Lists(node, d) => node = home
    BY <1>10, <1>12 DEF HomesInv, OneHome
  <2>2. home \in DOMAIN tree' /\ d \in tree'[home]
    BY <1>4, <1>11, <1>12, <2>1 DEF Lists, TreeIds
  <2>3. \A node \in DOMAIN tree' : d \in tree'[node] => node = home
    BY <1>11, <1>12, <2>1 DEF Lists, TreeIds
  <2>4. Leads(home, idToCluster'[d].template)
    BY <1>10, <1>12, <2>1
  <2> QED
    BY <2>2, <2>3, <2>4 DEF OneHome, Lists, Leads
<1>13. ASSUME NEW d \in Live', d = id PROVE OneHome(d)'
  <2>1. d \in tree'[leaf]
    BY <1>6, <1>13
  <2>2. \A node \in DOMAIN tree' : d \in tree'[node] => node = leaf
    BY <1>5, <1>7, <1>13 DEF TreeIds
  <2>3. Leads(leaf, idToCluster'[d].template)
    BY <1>2, <1>4, <1>9, <1>10, <1>13 DEF Leads, n
  <2> QED
    BY <1>4, <2>1, <2>2, <2>3 DEF OneHome, Lists, Leads
<1> QED
  BY <1>12, <1>13 DEF HomesInv

(* Every live cluster has its one home, in every reachable state.          *)
LEMMA HomesInvariance == Spec => []HomesInv
<1>1. Init => HomesInv
  BY DEF Init, HomesInv
<1>2. TypeOK /\ HomesInv /\ [Next]_vars => HomesInv'
  <2> SUFFICES ASSUME TypeOK, HomesInv, [Next]_vars PROVE HomesInv'
    OBVIOUS
  <2>1. ASSUME NEW l \in Lines, AddLogMessage(l) PROVE HomesInv'
    BY <2>1, UpdateHomes, CreateHomes DEF AddLogMessage
  <2>2. CASE UNCHANGED vars
    BY <2>2 DEF vars, HomesInv, OneHome, Lists, Leads
  <2> QED
    BY <2>1, <2>2 DEF Next
<1> QED
  BY <1>1, <1>2, Typing, PTL DEF Spec

(* Every live cluster is listed in exactly one leaf, where its lines are   *)
(* routed, whatever add_seq_to_prefix_tree cleans up.                      *)
THEOREM Homes == Spec => []LeafHomes
<1>1. HomesInv => LeafHomes
  <2> SUFFICES ASSUME HomesInv, NEW c \in Live
               PROVE  LET t == idToCluster[c].template
                          homes == {node \in DOMAIN tree : Lists(node, c)}
                      IN  Cardinality(homes) = 1 /\ \A node \in homes : Leads(node, t)
    BY DEF LeafHomes, Leads
  <2>1. PICK home \in DOMAIN tree :
          /\ Lists(home, c) /\ Leads(home, idToCluster[c].template)
          /\ \A node \in DOMAIN tree : Lists(node, c) => node = home
    BY DEF HomesInv, OneHome
  <2>2. {node \in DOMAIN tree : Lists(node, c)} = {home}
    BY <2>1
  <2>3. Cardinality({home}) = 1
    BY FS_Singleton
  <2> QED
    BY <2>1, <2>2, <2>3
<1> QED
  BY <1>1, HomesInvariance, PTL

-----------------------------------------------------------------------------
(* The full search finds the cluster of every line that was ingested.      *)

(* With wildcards counted, a line scores at most its length, and exactly   *)
(* its length against a template that covers it.                           *)
LEMMA FullScore ==
  ASSUME NEW t \in Seq(Keys), NEW m
  PROVE  /\ SimTokens(t, m, TRUE) \in 0..Len(t) /\ ParamCount(t) \in 0..Len(t)
         /\ (\A i \in 1..Len(t) : t[i] \in {ParamStr, m[i]}) => SimTokens(t, m, TRUE) = Len(t)
<1> DEFINE M == Matches(t, m)
           P == Params(t)
           n == Len(t)
<1>1. /\ n \in Nat /\ M \subseteq 1..n /\ P \subseteq 1..n /\ M \cap P = {}
      /\ (\A i \in 1..n : t[i] \in {ParamStr, m[i]}) => M \cup P = 1..n
  BY DEF Matches, Params
<1> HIDE DEF M, P, n
<1>2. IsFiniteSet(1..n) /\ Cardinality(1..n) = n
  BY <1>1, FS_Interval
<1>3. /\ IsFiniteSet(M) /\ IsFiniteSet(P) /\ Cardinality(M) \in Nat
      /\ Cardinality(P) \in Nat /\ Cardinality(P) <= n /\ Cardinality(M \cup P) <= n
  <2>1. \A T \in SUBSET (1..n) : IsFiniteSet(T) /\ Cardinality(T) <= n
    BY <1>2, FS_Subset
  <2>2. M \in SUBSET (1..n) /\ P \in SUBSET (1..n) /\ M \cup P \in SUBSET (1..n)
    BY <1>1
  <2>3. IsFiniteSet(M) /\ IsFiniteSet(P) /\ Cardinality(P) <= n /\ Cardinality(M \cup P) <= n
    BY <2>1, <2>2
  <2> QED
    BY <2>3, FS_CardinalityType
<1>4. Cardinality(M \cup P) = Cardinality(M) + Cardinality(P)
  <2>1. Cardinality(M \cup P) = Cardinality(M) + Cardinality(P) - Cardinality(M \cap P)
    BY <1>3, FS_Union
  <2>2. Cardinality(M \cap P) = 0
    BY <1>1, FS_EmptySet
  <2> QED
    BY <1>3, <2>1, <2>2
<1>5. SimTokens(t, m, TRUE) = Cardinality(M) + Cardinality(P) /\ ParamCount(t) = Cardinality(P)
  BY DEF SimTokens, ParamCount, M, P
<1>6. (\A i \in 1..n : t[i] \in {ParamStr, m[i]}) => SimTokens(t, m, TRUE) = n
  BY <1>1, <1>2, <1>4, <1>5
<1>7. SimTokens(t, m, TRUE) \in 0..n /\ ParamCount(t) \in 0..n
  <2>1. /\ n \in Nat /\ Cardinality(M) \in Nat /\ Cardinality(P) \in Nat
        /\ Cardinality(P) <= n /\ Cardinality(M) + Cardinality(P) <= n
    BY <1>1, <1>3, <1>4
  <2>2. Cardinality(M) + Cardinality(P) \in 0..n /\ Cardinality(P) \in 0..n
    BY <2>1
  <2> QED
    BY <1>5, <2>2
<1> QED
  BY <1>6, <1>7 DEF n

(* Without them too; a template of literals that covers a line scores the  *)
(* line's length.                                                          *)
LEMMA LiteralScore ==
  ASSUME NEW t \in Seq(Keys), NEW m
  PROVE  /\ SimTokens(t, m, FALSE) = Cardinality(Matches(t, m))
         /\ SimTokens(t, m, FALSE) \in 0..Len(t)
         /\ (\A i \in 1..Len(t) : t[i] # ParamStr /\ t[i] = m[i]) <=> SimTokens(t, m, FALSE) = Len(t)
<1> DEFINE M == Matches(t, m)
           n == Len(t)
<1>1. /\ n \in Nat /\ M \subseteq 1..n
      /\ (\A i \in 1..n : t[i] # ParamStr /\ t[i] = m[i]) <=> M = 1..n
  BY DEF Matches
<1>2. SimTokens(t, m, FALSE) = Cardinality(M)
  BY SimTokensWithoutParams
<1> HIDE DEF M, n
<1>3. IsFiniteSet(1..n) /\ Cardinality(1..n) = n
  BY <1>1, FS_Interval
<1>4. IsFiniteSet(M) /\ Cardinality(M) <= n /\ (Cardinality(M) = n => M = 1..n)
  <2>1. \A T \in SUBSET (1..n) :
          IsFiniteSet(T) /\ Cardinality(T) <= n /\ (Cardinality(T) = n => T = 1..n)
    BY <1>3, FS_Subset
  <2> QED
    BY <1>1, <2>1
<1>5. Cardinality(M) \in 0..n
  BY <1>1, <1>4, FS_CardinalityType
<1>6. SimTokens(t, m, FALSE) \in 0..n
  BY <1>2, <1>5
<1>7. (\A i \in 1..n : t[i] # ParamStr /\ t[i] = m[i]) <=> SimTokens(t, m, FALSE) = n
  BY <1>1, <1>2, <1>3, <1>4
<1> QED
  BY <1>2, <1>6, <1>7 DEF n, M

(* Among clusters of one length there is a best one.                       *)
LEMMA BestExists ==
  ASSUME TypeOK, NEW ids, NEW toks, NEW inc \in BOOLEAN, NEW n \in Nat, ids \cap Live # {},
         \A c \in ids \cap Live : Len(idToCluster[c].template) = n
  PROVE  Best(ids, toks, inc) # {}
<1> DEFINE S == ids \cap Live
           missing(c) == n - Score(c, toks, inc)
           static(c) == n - ParamCount(idToCluster[c].template)
<1>1. \A c \in S : Score(c, toks, inc) \in 0..n /\ ParamCount(idToCluster[c].template) \in 0..n
  <2> TAKE c \in S
  <2>1. idToCluster[c].template \in Seq(Keys) /\ Len(idToCluster[c].template) = n
    BY DEF TypeOK, ClusterType
  <2>2. \/ inc = TRUE /\ Score(c, toks, inc) = SimTokens(idToCluster[c].template, toks, TRUE)
        \/ inc = FALSE /\ Score(c, toks, inc) = SimTokens(idToCluster[c].template, toks, FALSE)
    BY DEF Score
  <2> QED
    BY <2>1, <2>2, FullScore, LiteralScore
<1>2. \A c \in S : missing(c) \in Nat /\ static(c) \in Nat
  <2> TAKE c \in S
  <2> DEFINE sc == Score(c, toks, inc)
             pc == ParamCount(idToCluster[c].template)
  <2>1. sc \in 0..n /\ pc \in 0..n
    BY <1>1
  <2> HIDE DEF sc, pc
  <2>2. n - sc \in Nat /\ n - pc \in Nat
    BY <2>1
  <2> QED
    BY <2>2 DEF sc, pc
<1> HIDE DEF missing, static
<1>3. PICK b \in S : \A d \in S : missing(b) <= missing(d)
  <2>1. {missing(c) : c \in S} \subseteq Nat /\ {missing(c) : c \in S} # {}
    BY <1>2
  <2>2. PICK x \in {missing(c) : c \in S} : \A y \in {missing(c) : c \in S} : x <= y
    BY <2>1, LeastNatural
  <2> QED
    BY <2>2
<1> DEFINE S1 == {c \in S : missing(c) = missing(b)}
<1>4. PICK c \in S1 : \A d \in S1 : static(c) <= static(d)
  <2>1. {static(d) : d \in S1} \subseteq Nat /\ {static(d) : d \in S1} # {}
    BY <1>2, <1>3
  <2>2. PICK x \in {static(d) : d \in S1} : \A y \in {static(d) : d \in S1} : x <= y
    BY <2>1, LeastNatural
  <2> QED
    BY <2>2
<1>5. ASSUME NEW d \in S PROVE ~Better(d, c, toks, inc)
  <2> DEFINE sc == Score(c, toks, inc)
             sd == Score(d, toks, inc)
             pc == ParamCount(idToCluster[c].template)
             pd == ParamCount(idToCluster[d].template)
  <2>1. sc \in 0..n /\ sd \in 0..n /\ pc \in 0..n /\ pd \in 0..n
    BY <1>1, <1>4
  <2>2. missing(c) <= missing(d) /\ (missing(d) = missing(c) => static(c) <= static(d))
    BY <1>3, <1>4
  <2>3. missing(c) = n - sc /\ missing(d) = n - sd /\ static(c) = n - pc /\ static(d) = n - pd
    BY DEF missing, static
  <2> HIDE DEF sc, sd, pc, pd
  <2>4. ~(sd > sc) /\ ~(sd = sc /\ pd > pc)
    BY <2>1, <2>2, <2>3
  <2> QED
    BY <2>4 DEF Better, sc, sd, pc, pd
<1> QED
  BY <1>4, <1>5 DEF Best

(* A live cluster that covers the tokens is found, or one as good.         *)
LEMMA FullSearchFinds ==
  ASSUME TypeOK, HomesInv, ListedLengths, NEW toks \in Seq(Tokens), NEW c \in Live,
         Len(idToCluster[c].template) = Len(toks),
         \A i \in 1..Len(toks) : idToCluster[c].template[i] \in {ParamStr, toks[i]}
  PROVE  FullSearch(toks, 1, 1, TRUE) # {}
<1> DEFINE n == Len(toks)
           leaves == {node \in DOMAIN tree : node[1] = n}
           ids == UNION {tree[leaf] : leaf \in leaves}
           best == Best(ids, toks, TRUE)
<1>1. n \in Nat /\ clustersCounter \in Nat /\ Live \subseteq 1..clustersCounter
  BY DEF TypeOK
<1>2. c \in ids \cap Live
  <2>1. PICK home \in DOMAIN tree : Lists(home, c) /\ Leads(home, idToCluster[c].template)
    BY DEF HomesInv, OneHome
  <2> QED
    BY <2>1 DEF Lists, Leads
<1>3. \A d \in ids \cap Live : Len(idToCluster[d].template) = n
  BY DEF ListedLengths
<1>4. best # {} /\ best \subseteq Nat
  <2> HIDE DEF ids
  <2>1. best # {}
    BY <1>1, <1>2, <1>3, BestExists
  <2>2. best \subseteq Live
    BY DEF Best
  <2>3. best \subseteq Nat
    <3>1. Live \subseteq Nat
      BY <1>1
    <3> HIDE DEF best
    <3> QED
      BY <2>2, <3>1
  <2> HIDE DEF best
  <2> QED
    BY <2>1, <2>3
<1>5. PICK b \in best : \A d \in best : b <= d
  <2> HIDE DEF best
  <2> QED
    BY <1>4, LeastNatural
<1>6. b \in ids \cap Live /\ ~Better(c, b, toks, TRUE)
  BY <1>2, <1>5 DEF Best
<1>7. GoodEnough(b, toks, 1, 1, TRUE)
  <2>1. /\ idToCluster[c].template \in Seq(Keys) /\ Len(idToCluster[c].template) = n
        /\ idToCluster[b].template \in Seq(Keys) /\ Len(idToCluster[b].template) = n
    BY <1>3, <1>6 DEF TypeOK, ClusterType
  <2> DEFINE sc == Score(c, toks, TRUE)
             sb == Score(b, toks, TRUE)
  <2>2. sb \in 0..n
    BY <2>1, FullScore DEF Score
  <2>3. sc = n
    <3> DEFINE t == idToCluster[c].template
    <3>1. t \in Seq(Keys) /\ Len(t) = n /\ \A i \in 1..Len(t) : t[i] \in {ParamStr, toks[i]}
      BY <2>1
    <3> HIDE DEF t
    <3>2. SimTokens(t, toks, TRUE) = Len(t)
      BY <3>1, FullScore
    <3> QED
      BY <3>1, <3>2 DEF Score, t
  <2>4. ~(sc > sb)
    BY <1>6 DEF Better
  <2> HIDE DEF sc, sb
  <2>5. sb = n
    BY <1>1, <2>2, <2>3, <2>4
  <2>6. Reaches(n, n, 1, 1)
    BY <1>1 DEF Reaches
  <2> QED
    BY <2>5, <2>6 DEF GoodEnough, sb
<1>8. b \in FullSearch(toks, 1, 1, TRUE)
  BY <1>5, <1>7 DEF FullSearch
<1> QED
  BY <1>8

(* A cluster covers each line that was assigned to it.                     *)
LEMMA MembersCovered ==
  ASSUME TypeOK, ReportsExact, NEW c \in Live, NEW m \in Miner!Contents(log, c)
  PROVE  /\ Len(idToCluster[c].template) = Len(m)
         /\ \A i \in 1..Len(m) : idToCluster[c].template[i] \in {ParamStr, m[i]}
<1> DEFINE msgs == Miner!Contents(log, c)
           t == idToCluster[c].template
<1>1. Len(t) \in Nat /\ t = LeastGeneral(msgs)
  BY SameLeastGeneral DEF TypeOK, ClusterType, ReportsExact, Miner!Report
<1>2. Len(t) = Len(m) /\ \A o \in msgs : DOMAIN o = 1..Len(t)
  BY ContentsType DEF ReportsExact
<1> HIDE DEF t, msgs
<1>3. \A i \in 1..Len(t) : t[i] = IF \A o \in msgs : o[i] = m[i] THEN m[i] ELSE ParamStr
  <2>1. m \in msgs
    BY DEF msgs
  <2> QED
    BY <1>1, <1>2, <2>1, LeastGeneralAt
<1> QED
  BY <1>2, <1>3 DEF t

(* With a masker that changes nothing, match_log finds every ingested line *)
(* whose cluster is live: in any tree, after any evictions.                *)
THEOREM IngestedMatch ==
  ASSUME RawTokens = MaskedTokens
  PROVE  Spec => []IngestedLinesMatch
<1>1. TypeOK /\ MinerInv /\ HomesInv => IngestedLinesMatch
  <2> SUFFICES ASSUME TypeOK, MinerInv, HomesInv, NEW i \in DOMAIN log, log[i].id \in Live,
                      NEW strategy \in {"always", "fallback"}
               PROVE  MatchLog(log[i].line, strategy) # {}
    BY DEF IngestedLinesMatch
  <2> DEFINE m == RawTokens[log[i].line]
  <2>1. log[i] \in EntryType(clustersCounter)
    BY DEF TypeOK
  <2>2. log[i].line \in Lines /\ m \in Seq(Tokens)
    BY <2>1, LineTokens DEF EntryType
  <2>3. m \in Miner!Contents(log, log[i].id)
    BY DEF Miner!Contents, Miner!Assigned
  <2>4. FullSearch(m, 1, 1, TRUE) # {}
    <3>1. /\ Len(idToCluster[log[i].id].template) = Len(m)
          /\ \A p \in 1..Len(m) : idToCluster[log[i].id].template[p] \in {ParamStr, m[p]}
      BY <2>3, MembersCovered DEF MinerInv
    <3> HIDE DEF m
    <3> QED
      BY <2>2, <3>1, FullSearchFinds DEF MinerInv
  <2> QED
    BY <2>4 DEF MatchLog
<1> QED
  BY <1>1, MinerInvariance, HomesInvariance, PTL

-----------------------------------------------------------------------------
(* A repeated line changes nothing.                                        *)

(* No line has the wildcard string for a token of its own.                 *)
Literal(l) == \A i \in DOMAIN MaskedTokens[l] : MaskedTokens[l][i] # ParamStr

(* The tree contains the way to each of its nodes, and lists at most one   *)
(* live cluster of lines without tokens.                                   *)
TreeClosed ==
  \A node \in DOMAIN tree : \A i \in 0..Len(node[2]) :
    <<node[1], SubSeq(node[2], 1, i)>> \in DOMAIN tree

EmptyLineOnce ==
  \A node \in DOMAIN tree : node[1] = 0 =>
    \A c, d \in tree[node] \cap Live : c = d

(* The line ingested last would go to its cluster again, and that would    *)
(* not change the cluster's template.                                      *)
RepeatInv ==
  \A l \in Lines : log # <<>> /\ log[Len(log)].line = l /\ Literal(l) =>
    LET c == log[Len(log)].id
        t == idToCluster[c].template
    IN  Chosen(l) = {c} /\ CreateTemplate(MaskedTokens[l], t) = t

(* A search ends in one leaf.                                              *)
LEMMA SearchUnique ==
  ASSUME TypeOK, NEW toks \in Seq(Tokens), NEW a \in SearchLeaves(toks), NEW b \in SearchLeaves(toks)
  PROVE  a = b
<1> DEFINE n == Len(toks)
           r == RouteLen(n)
           p == a[2]
           q == b[2]
<1>1. r \in Nat /\ r <= n /\ n \in Nat
  BY RouteLenType
<1>2. /\ a \in Nat \X Seq(Keys) /\ b \in Nat \X Seq(Keys)
      /\ a[1] = n /\ b[1] = n /\ Len(p) = r /\ Len(q) = r
      /\ \A i \in 1..r : Descends(Children(n, SubSeq(p, 1, i - 1)), toks[i], p[i])
      /\ \A i \in 1..r : Descends(Children(n, SubSeq(q, 1, i - 1)), toks[i], q[i])
  BY DEF SearchLeaves, TypeOK
<1>3. p \in Seq(Keys) /\ q \in Seq(Keys) /\ a = <<n, p>> /\ b = <<n, q>>
  BY <1>2
<1> HIDE DEF n, r, p, q
<1>4. \A i \in 1..r : p[i] = q[i]
  <2> SUFFICES ASSUME {i \in 1..r : p[i] # q[i]} # {} PROVE FALSE
    OBVIOUS
  <2>1. PICK i \in {j \in 1..r : p[j] # q[j]} : \A j \in {k \in 1..r : p[k] # q[k]} : i <= j
    <3>1. {j \in 1..r : p[j] # q[j]} \subseteq Nat
      BY <1>1
    <3> QED
      BY <3>1, LeastNatural
  <2>2. \A j \in 1..(i - 1) : p[j] = q[j]
    BY <1>1, <2>1
  <2>3. SubSeq(p, 1, i - 1) = SubSeq(q, 1, i - 1)
    <3>1. /\ SubSeq(p, 1, i - 1) \in Seq(Keys) /\ SubSeq(q, 1, i - 1) \in Seq(Keys)
          /\ Len(SubSeq(p, 1, i - 1)) = i - 1 /\ Len(SubSeq(q, 1, i - 1)) = i - 1
          /\ \A j \in 1..(i - 1) : SubSeq(p, 1, i - 1)[j] = p[j] /\ SubSeq(q, 1, i - 1)[j] = q[j]
      BY <1>1, <1>2, <1>3, <2>1
    <3> QED
      BY <2>2, <3>1, SeqEqual
  <2> DEFINE kids == Children(n, SubSeq(p, 1, i - 1))
  <2>4. Descends(kids, toks[i], p[i]) /\ Descends(kids, toks[i], q[i])
    BY <1>2, <2>1, <2>3
  <2> HIDE DEF kids
  <2> QED
    BY <2>1, <2>4 DEF Descends
<1>5. p = q
  BY <1>2, <1>3, <1>4, SeqEqual
<1> QED
  BY <1>3, <1>5

(* That holds of the next state as well.                                   *)
OneLeaf ==
  \A toks \in Seq(Tokens) : \A a, b : a \in SearchLeaves(toks) /\ b \in SearchLeaves(toks) => a = b

LEMMA NextOneLeaf == TypeOK' => OneLeaf'
<1>1. TypeOK => OneLeaf
  BY SearchUnique DEF OneLeaf
<1> QED
  BY <1>1, PTL

(* The ways are complete: an insertion adds all nodes of its path.         *)
LEMMA NextTreeClosed ==
  ASSUME TypeOK, TreeClosed, [Next]_vars
  PROVE  TreeClosed'
<1>1. ASSUME NEW l \in Lines, CreateCluster(l)
      PROVE  TreeClosed'
  <2>1. PICK path \in Seq(Keys) :
          DOMAIN tree' = DOMAIN tree \cup
            {<<Len(MaskedTokens[l]), SubSeq(path, 1, i)>> : i \in 0..Len(path)}
    BY <1>1, CreateClusterEffect
  <2> DEFINE n == Len(MaskedTokens[l])
  <2> SUFFICES ASSUME NEW node \in DOMAIN tree', NEW i \in 0..Len(node[2])
               PROVE  <<node[1], SubSeq(node[2], 1, i)>> \in DOMAIN tree'
    BY DEF TreeClosed
  <2>2. CASE node \in DOMAIN tree
    BY <2>1, <2>2 DEF TreeClosed
  <2>3. CASE node \notin DOMAIN tree
    <3>1. PICK j \in 0..Len(path) : node = <<n, SubSeq(path, 1, j)>>
      BY <2>1, <2>3
    <3>2. /\ node[1] = n /\ node[2] = SubSeq(path, 1, j)
          /\ Len(SubSeq(path, 1, j)) = j /\ i \in 0..j /\ i \in 0..Len(path)
      BY <3>1
    <3>3. SubSeq(SubSeq(path, 1, j), 1, i) = SubSeq(path, 1, i)
      <4> DEFINE s == SubSeq(path, 1, j)
      <4>1. s \in Seq(Keys) /\ Len(s) = j /\ \A k \in 1..j : s[k] = path[k]
        BY <3>1
      <4> HIDE DEF s
      <4>2. /\ SubSeq(s, 1, i) \in Seq(Keys) /\ Len(SubSeq(s, 1, i)) = i
            /\ \A k \in 1..i : SubSeq(s, 1, i)[k] = path[k]
        BY <3>2, <4>1
      <4>3. /\ SubSeq(path, 1, i) \in Seq(Keys) /\ Len(SubSeq(path, 1, i)) = i
            /\ \A k \in 1..i : SubSeq(path, 1, i)[k] = path[k]
        BY <3>2
      <4> QED
        BY <4>2, <4>3, SeqEqual DEF s
    <3> QED
      BY <2>1, <3>2, <3>3
  <2> QED
    BY <2>2, <2>3
<1>2. CASE UNCHANGED tree
  BY <1>2 DEF TreeClosed
<1>3. ASSUME NEW l \in Lines, UpdateCluster(l)
      PROVE  UNCHANGED tree
  BY <1>3 DEF UpdateCluster
<1> QED
  BY <1>1, <1>2, <1>3 DEF Next, AddLogMessage, vars

(* A line without tokens opens a cluster only if its leaf lists no live    *)
(* one.                                                                    *)
LEMMA NextEmptyLineOnce ==
  ASSUME TypeOK, EmptyLineOnce, [Next]_vars
  PROVE  EmptyLineOnce'
<1>1. ASSUME NEW l \in Lines, CreateCluster(l)
      PROVE  EmptyLineOnce'
  <2> DEFINE id == clustersCounter + 1
             toks == MaskedTokens[l]
             n == Len(toks)
  <2>1. PICK path \in Seq(Keys) :
          /\ Len(path) = RouteLen(n)
          /\ tree' = [node \in DOMAIN tree \cup {<<n, SubSeq(path, 1, i)>> : i \in 0..Len(path)} |->
                IF node = <<n, path>> THEN LeafIds(TreeIds(node), n, id) ELSE TreeIds(node)]
    BY <1>1, CreateClusterEffect
  <2>2. Live' = (Live \ Evicted) \cup {id} /\ \A node : id \notin TreeIds(node)
    <3>1. \A node : TreeIds(node) \subseteq 1..clustersCounter /\ clustersCounter \in Nat
      BY DEF TypeOK, TreeIds
    <3>2. Live' = (Live \ Evicted) \cup {id}
      BY <1>1, CreateClusterEffect DEF Kept
    <3> QED
      BY <3>1, <3>2
  <2> HIDE DEF id
  <2> SUFFICES ASSUME NEW node \in DOMAIN tree', node[1] = 0
               PROVE  \A c, d \in tree'[node] \cap Live' : c = d
    BY DEF EmptyLineOnce
  <2>3. CASE node = <<n, path>>
    <3>1. tree'[node] = {id}
      BY <2>1, <2>3 DEF LeafIds
    <3> QED
      BY <3>1
  <2>4. CASE node # <<n, path>>
    <3>1. tree'[node] = TreeIds(node)
      BY <2>1, <2>4
    <3>2. tree'[node] \cap Live' \subseteq TreeIds(node) \cap Live
      BY <2>2, <3>1
    <3> QED
      BY <3>2 DEF TreeIds, EmptyLineOnce
  <2> QED
    BY <2>3, <2>4
<1>2. CASE UNCHANGED <<tree, Live>>
  BY <1>2 DEF EmptyLineOnce
<1>3. ASSUME NEW l \in Lines, UpdateCluster(l)
      PROVE  UNCHANGED <<tree, Live>>
  <2>1. Live' = Live
    BY <1>3 DEF UpdateCluster
  <2> QED
    BY <1>3, <2>1 DEF UpdateCluster
<1> QED
  BY <1>1, <1>2, <1>3 DEF Next, AddLogMessage, vars

(* The line that just joined a cluster goes there again: the cluster's     *)
(* score for the line is the same, it is no less general, and the others   *)
(* are as they were.                                                       *)
LEMMA UpdateRepeats ==
  ASSUME TypeOK, ListedLengths, EmptyLineOnce, NEW l \in Lines, UpdateCluster(l)
  PROVE  \E c \in Live :
           /\ log'[Len(log')].id = c /\ log'[Len(log')].line = l
           /\ Chosen(l)' = {c}
           /\ CreateTemplate(MaskedTokens[l], idToCluster'[c].template) = idToCluster'[c].template
<1> DEFINE toks == MaskedTokens[l]
           n == Len(toks)
<1>1. PICK c \in Chosen(l) :
        LET new == CreateTemplate(MaskedTokens[l], idToCluster[c].template)
        IN  /\ c \in Live
            /\ idToCluster' = [idToCluster EXCEPT
                  ![c] = [template |-> new, size |-> idToCluster[c].size + 1]]
            /\ recency' = [recency EXCEPT ![c] = Len(log) + 1]
            /\ \E u \in UpdateTypes :
                  /\ Record(l, c, u)
                  /\ u \in {"cluster_template_changed", "none"}
                  /\ (u = "none") <=> (new = idToCluster[c].template)
            /\ UNCHANGED <<tree, clustersCounter>>
  BY UpdateClusterEffect
<1> DEFINE old == idToCluster[c].template
           new == CreateTemplate(toks, old)
<1>2. toks \in Seq(Tokens) /\ n \in Nat /\ old \in Seq(Keys) /\ Len(old) = n
  BY <1>1, LineTokens, ChosenLength DEF TypeOK, ClusterType
<1>3. /\ new \in Seq(Keys) /\ Len(new) = n /\ DOMAIN new = 1..n
      /\ \A i \in 1..n : new[i] = IF toks[i] = old[i] THEN old[i] ELSE ParamStr
  <2>1. \A i \in 1..n : new[i] = IF toks[i] = old[i] THEN old[i] ELSE ParamStr
    BY DEF CreateTemplate
  <2> QED
    BY <1>2, <2>1, CreateTemplateType
<1>4. /\ idToCluster'[c].template = new
      /\ \A d \in Live : d # c => idToCluster'[d].template = idToCluster[d].template
      /\ Live' = Live /\ tree' = tree
  BY <1>1 DEF TypeOK
<1>5. log'[Len(log')].id = c /\ log'[Len(log')].line = l
  <2>1. PICK u \in UpdateTypes : Record(l, c, u)
    BY <1>1
  <2>2. /\ log \in Seq(EntryType(clustersCounter)) /\ clustersCounter \in Nat
        /\ clustersCounter <= clustersCounter /\ c \in 1..clustersCounter
    BY <1>1 DEF TypeOK
  <2>3. Len(log') = Len(log) + 1 /\ log'[Len(log) + 1] = [line |-> l, id |-> c, update |-> u]
    BY <2>1, <2>2, RecordType
  <2> QED
    BY <2>3
<1>6. CreateTemplate(toks, new) = new
  <2> HIDE DEF new
  <2>1. new = [i \in 1..n |-> new[i]]
    BY <1>3
  <2>2. CreateTemplate(toks, new) = [i \in 1..n |-> IF toks[i] = new[i] THEN new[i] ELSE ParamStr]
    BY <1>2 DEF CreateTemplate
  <2>3. \A i \in 1..n : (IF toks[i] = new[i] THEN new[i] ELSE ParamStr) = new[i]
    BY <1>3
  <2> QED
    BY <2>1, <2>2, <2>3
<1>7. /\ SimTokens(new, toks, FALSE) = SimTokens(old, toks, FALSE)
      /\ ParamCount(old) <= ParamCount(new) /\ ParamCount(old) \in Nat /\ ParamCount(new) \in Nat
  <2> HIDE DEF old, new, toks
  <2>1. DOMAIN old = 1..n
    BY <1>2
  <2>2. Matches(new, toks) = Matches(old, toks)
    BY <1>3, <2>1 DEF Matches
  <2>3. Params(old) \subseteq Params(new) /\ Params(new) \subseteq 1..n
    BY <1>3, <2>1 DEF Params
  <2>4. IsFiniteSet(Params(new))
    <3>1. IsFiniteSet(1..n) /\ Params(new) \in SUBSET (1..n)
      BY <1>2, <2>3, FS_Interval
    <3> QED
      BY <3>1, FS_Subset
  <2>5. ParamCount(old) <= ParamCount(new)
    BY <2>3, <2>4, FS_Subset DEF ParamCount
  <2>6. ParamCount(old) \in 0..Len(old) /\ ParamCount(new) \in 0..Len(new)
    BY <1>2, <1>3, FullScore
  <2>7. ParamCount(old) \in Nat /\ ParamCount(new) \in Nat
    BY <1>2, <1>3, <2>6
  <2>8. /\ SimTokens(new, toks, FALSE) = Cardinality(Matches(new, toks))
        /\ SimTokens(old, toks, FALSE) = Cardinality(Matches(old, toks))
    BY <1>2, <1>3, LiteralScore
  <2> QED
    BY <2>2, <2>5, <2>7, <2>8
<1>8. PICK leaf \in SearchLeaves(toks) :
        c \in (IF n = 0 THEN tree[leaf] \cap Live
               ELSE FastMatch(tree[leaf], toks, SimNum, SimDen, FALSE))
  BY DEF Chosen, TreeSearch
<1>9. SearchLeaves(toks)' = {leaf}
  <2>1. SearchLeaves(toks)' = SearchLeaves(toks)
    BY <1>4 DEF SearchLeaves, Children
  <2>2. \A other \in SearchLeaves(toks) : other = leaf
    <3> HIDE DEF toks
    <3> QED
      BY <1>2, SearchUnique
  <2> QED
    BY <2>1, <2>2
<1> DEFINE ids == tree[leaf] \cap Live
<1>10. CASE n = 0
  <2>1. leaf[1] = 0 /\ leaf \in DOMAIN tree
    BY <1>10 DEF SearchLeaves
  <2>2. Chosen(l)' = ids
    BY <1>4, <1>9, <1>10 DEF Chosen, TreeSearch
  <2>3. ids = {c}
    BY <1>8, <1>10, <2>1 DEF EmptyLineOnce
  <2> QED
    BY <1>1, <1>5, <1>6, <1>4, <2>2, <2>3
<1>11. CASE n # 0
  <2> DEFINE sc(d) == Score(d, toks, FALSE)
             pc(d) == ParamCount(idToCluster[d].template)
             better(d, e) == Better(d, e, toks, FALSE)
             best == Best(tree[leaf], toks, FALSE)
  <2>1. c \in best /\ (\A d \in best : c <= d) /\ GoodEnough(c, toks, SimNum, SimDen, FALSE)
    BY <1>8, <1>11 DEF FastMatch
  <2>2. \A d \in ids : sc(d) \in Nat /\ pc(d) \in Nat /\ d \in Nat
    <3> TAKE d \in ids
    <3> DEFINE t == idToCluster[d].template
    <3>1. t \in Seq(Keys) /\ d \in Nat
      BY DEF TypeOK, ClusterType
    <3>2. sc(d) = SimTokens(t, toks, FALSE)
      BY DEF Score
    <3> HIDE DEF t, toks, sc
    <3>3. SimTokens(t, toks, FALSE) \in 0..Len(t) /\ ParamCount(t) \in 0..Len(t)
      BY <3>1, FullScore, LiteralScore
    <3>4. sc(d) \in Nat /\ ParamCount(t) \in Nat
      <4>1. Len(t) \in Nat /\ \A x \in 0..Len(t) : x \in Nat
        BY <3>1
      <4> QED
        BY <3>2, <3>3, <4>1
    <3> QED
      BY <3>1, <3>4 DEF t
  <2>3. /\ \A d \in ids : Score(d, toks, FALSE)' = sc(d)
        /\ \A d \in ids : d # c => ParamCount(idToCluster'[d].template) = pc(d)
        /\ pc(c) <= ParamCount(idToCluster'[c].template)
        /\ ParamCount(idToCluster'[c].template) \in Nat
    BY <1>4, <1>7 DEF Score
  <2>4. \A d, e \in ids : better(d, e) <=> sc(d) > sc(e) \/ (sc(d) = sc(e) /\ pc(d) > pc(e))
    BY DEF Better
  <2> DEFINE after == Best(tree[leaf], toks, FALSE)'
             pn(d) == ParamCount(idToCluster'[d].template)
  <2>5. \A d, e \in ids : Better(d, e, toks, FALSE)' <=> sc(d) > sc(e) \/ (sc(d) = sc(e) /\ pn(d) > pn(e))
    BY <2>3 DEF Better
  <2>6. best = {d \in ids : \A e \in ids : ~better(e, d)}
    BY DEF Best
  <2>7. after = {d \in ids : \A e \in ids : ~Better(e, d, toks, FALSE)'}
    BY <1>4 DEF Best
  <2>8. c \in ids
    BY <2>1, <2>6
  <2> HIDE DEF sc, pc, pn, better, best, after, ids
  <2>9. pn(c) \in Nat /\ pc(c) <= pn(c) /\ \A d \in ids : d # c => pn(d) = pc(d)
    BY <2>3 DEF pn, pc
  <2>10. \A d \in ids : sc(d) <= sc(c) /\ (sc(d) = sc(c) => pc(d) <= pc(c))
    BY <2>1, <2>2, <2>4, <2>6, <2>8
  <2>11. c \in after
    <3> SUFFICES ASSUME NEW d \in ids PROVE ~Better(d, c, toks, FALSE)'
      BY <2>7, <2>8
    <3>1. sc(d) \in Nat /\ sc(c) \in Nat /\ pc(c) \in Nat /\ pn(c) \in Nat /\ pc(d) \in Nat
      BY <2>2, <2>8, <2>9
    <3>2. ~(sc(d) > sc(c) \/ (sc(d) = sc(c) /\ pn(d) > pn(c)))
      BY <2>9, <2>10, <3>1
    <3> QED
      BY <2>5, <2>8, <3>2
  <2>12. ASSUME NEW d \in after PROVE c <= d
    <3>1. CASE d = c
      BY <2>2, <2>8, <3>1
    <3>2. CASE d # c
      <4>1. d \in ids /\ sc(d) = sc(c) /\ pc(d) = pc(c)
        <5>1. d \in ids /\ ~Better(c, d, toks, FALSE)'
          BY <2>7, <2>8, <2>12
        <5>2. ~(sc(c) > sc(d) \/ (sc(c) = sc(d) /\ pn(c) > pn(d))) /\ pn(d) = pc(d)
          BY <2>5, <2>8, <2>9, <3>2, <5>1
        <5>3. sc(d) \in Nat /\ sc(c) \in Nat /\ pc(c) \in Nat /\ pn(c) \in Nat /\ pc(d) \in Nat
          BY <2>2, <2>8, <2>9, <5>1
        <5>4. sc(d) <= sc(c) /\ (sc(d) = sc(c) => pc(d) <= pc(c)) /\ pc(c) <= pn(c)
          BY <2>9, <2>10, <5>1
        <5> QED
          BY <5>1, <5>2, <5>3, <5>4
      <4>2. d \in best
        BY <2>2, <2>4, <2>6, <2>8, <2>10, <4>1
      <4> QED
        BY <2>1, <4>2
    <3> QED
      BY <3>1, <3>2
  <2>13. GoodEnough(c, toks, SimNum, SimDen, FALSE)'
    BY <2>1, <2>3, <2>8 DEF GoodEnough, sc
  <2>14. FastMatch(tree[leaf], toks, SimNum, SimDen, FALSE)' = {c}
    <3>1. FastMatch(tree[leaf], toks, SimNum, SimDen, FALSE)'
            = {d \in after : (\A e \in after : d <= e) /\ GoodEnough(d, toks, SimNum, SimDen, FALSE)'}
      BY DEF FastMatch, after
    <3>2. \A d \in after : d <= c => d = c
      <4> TAKE d \in after
      <4>1. d \in Nat /\ c \in Nat /\ c <= d
        BY <2>2, <2>7, <2>8, <2>12
      <4> QED
        BY <4>1
    <3> QED
      BY <2>11, <2>12, <2>13, <3>1, <3>2
  <2>15. Chosen(l)' = FastMatch(tree[leaf], toks, SimNum, SimDen, FALSE)'
    BY <1>4, <1>9, <1>11 DEF Chosen, TreeSearch
  <2> QED
    BY <1>1, <1>4, <1>5, <1>6, <2>14, <2>15
<1> QED
  BY <1>10, <1>11

(* If a live cluster listed where the search ends is the line itself, the  *)
(* line is not turned away.                                                *)
LEMMA ExactIsChosen ==
  ASSUME TypeOK, ListedLengths, NEW l \in Lines, Literal(l), Len(MaskedTokens[l]) # 0,
         NEW leaf \in SearchLeaves(MaskedTokens[l]), NEW d \in tree[leaf] \cap Live,
         Score(d, MaskedTokens[l], FALSE) = Len(MaskedTokens[l])
  PROVE  Chosen(l) # {}
<1> DEFINE toks == MaskedTokens[l]
           n == Len(toks)
           best == Best(tree[leaf], toks, FALSE)
<1>1. n \in Nat /\ leaf \in DOMAIN tree /\ leaf[1] = n /\ clustersCounter \in Nat
      /\ Live \subseteq 1..clustersCounter
  BY LineTokens DEF SearchLeaves, TypeOK
<1>2. \A e \in tree[leaf] \cap Live :
        /\ idToCluster[e].template \in Seq(Keys) /\ Len(idToCluster[e].template) = n
  BY <1>1 DEF ListedLengths, TypeOK, ClusterType
<1>3. best # {} /\ best \subseteq Nat
  <2>1. best # {}
    <3> HIDE DEF toks, n
    <3> QED
      BY <1>1, <1>2, BestExists
  <2>2. best \subseteq Live
    BY DEF Best
  <2>3. best \subseteq Nat
    <3>1. Live \subseteq Nat
      BY <1>1
    <3> HIDE DEF best
    <3> QED
      BY <2>2, <3>1
  <2> QED
    BY <2>1, <2>3
<1>4. PICK b \in best : \A e \in best : b <= e
  <2> HIDE DEF best
  <2> QED
    BY <1>3, LeastNatural
<1>5. b \in tree[leaf] \cap Live /\ ~Better(d, b, toks, FALSE)
  BY <1>4 DEF Best
<1>6. GoodEnough(b, toks, SimNum, SimDen, FALSE)
  <2> DEFINE sb == Score(b, toks, FALSE)
             t == idToCluster[b].template
  <2>1. ~(n > sb)
    BY <1>5 DEF Better
  <2>2. SimTokens(t, toks, FALSE) \in 0..Len(t) /\ sb = SimTokens(t, toks, FALSE) /\ Len(t) = n
    BY <1>2, <1>5, LiteralScore DEF Score
  <2> HIDE DEF sb, t, n
  <2>3. sb = n
    <3>1. sb \in 0..n /\ n \in Nat
      BY <1>1, <2>2
    <3> QED
      BY <2>1, <3>1
  <2>4. Reaches(n, n, SimNum, SimDen)
    <3>1. SimNum * n <= n * SimDen
      BY <1>1, ThresholdAssumption
    <3> QED
      BY <3>1, ThresholdAssumption DEF Reaches
  <2> QED
    BY <2>3, <2>4 DEF GoodEnough, sb, n
<1>7. b \in FastMatch(tree[leaf], toks, SimNum, SimDen, FALSE)
  BY <1>4, <1>6 DEF FastMatch
<1> QED
  BY <1>7 DEF Chosen, TreeSearch

(* A node on the way of an insertion gets the next key of the way.         *)
LEMMA ChildrenOnTheWay ==
  ASSUME NEW path \in Seq(Keys)
  PROVE  \A m, q : m \in Nat /\ q \in Seq(Keys)
           /\ DOMAIN tree' = DOMAIN tree \cup {<<m, SubSeq(path, 1, j)>> : j \in 0..Len(path)} =>
             \/ Children(m, q)' = Children(m, q)
             \/ Children(m, q)' = Children(m, q) \cup {path[Len(q) + 1]}
<1> SUFFICES ASSUME NEW m \in Nat, NEW q \in Seq(Keys),
             DOMAIN tree' = DOMAIN tree \cup {<<m, SubSeq(path, 1, j)>> : j \in 0..Len(path)}
             PROVE \/ Children(m, q)' = Children(m, q)
                   \/ Children(m, q)' = Children(m, q) \cup {path[Len(q) + 1]}
  OBVIOUS
<1>1. \/ Children(m, q)' = Children(m, q)
      \/ /\ m = m /\ Len(q) + 1 \in DOMAIN path /\ q = SubSeq(path, 1, Len(q))
         /\ Children(m, q)' = Children(m, q) \cup {path[Len(q) + 1]}
  BY InsertedChildren
<1> QED
  BY <1>1

(* The way a line is inserted is the way it is searched, afterwards, and   *)
(* before if the leaf was there.                                           *)
LEMMA InsertedIsFound ==
  ASSUME TypeOK, TreeClosed, NEW toks \in Seq(Tokens), \A i \in DOMAIN toks : toks[i] # ParamStr,
         NEW path \in Seq(Keys), Len(path) = RouteLen(Len(toks)), InsertPath(toks, path),
         DOMAIN tree' = DOMAIN tree \cup {<<Len(toks), SubSeq(path, 1, i)>> : i \in 0..Len(path)}
  PROVE  /\ <<Len(toks), path>> \in SearchLeaves(toks)'
         /\ <<Len(toks), path>> \in DOMAIN tree => <<Len(toks), path>> \in SearchLeaves(toks)
<1> DEFINE n == Len(toks)
           r == Len(path)
           leaf == <<n, path>>
           before(i) == SubSeq(path, 1, i - 1)
           kids(i) == Children(n, before(i))
<1>1. /\ n \in Nat /\ r \in Nat /\ r <= n /\ DOMAIN path = 1..r /\ DOMAIN toks = 1..n
      /\ SubSeq(path, 1, r) = path /\ \A i \in 1..r : path[i] \in Keys
  BY RouteLenType
<1>2. \A i \in 1..r : path[i] = InsertKey(kids(i), toks[i])
  BY <1>1 DEF InsertPath
<1>3. \A i \in 1..r : /\ before(i) \in Seq(Keys) /\ Len(before(i)) = i - 1
                      /\ Append(before(i), path[i]) = SubSeq(path, 1, i)
  <2> TAKE i \in 1..r
  <2>1. before(i) \in Seq(Keys) /\ Len(before(i)) = i - 1 /\ \A j \in 1..(i - 1) : before(i)[j] = path[j]
    BY <1>1
  <2> DEFINE b == before(i)
             s == SubSeq(path, 1, i)
  <2>2. s \in Seq(Keys) /\ Len(s) = i /\ \A j \in 1..i : s[j] = path[j]
    BY <1>1
  <2> HIDE DEF b, s
  <2>3. /\ Append(b, path[i]) \in Seq(Keys) /\ Len(Append(b, path[i])) = i
        /\ \A j \in 1..i : Append(b, path[i])[j] = path[j]
    BY <1>1, <2>1 DEF b
  <2>4. Append(b, path[i]) = s
    BY <2>2, <2>3, SeqEqual
  <2> QED
    BY <2>1, <2>4 DEF b, s
<1>4. ASSUME NEW i \in 1..r
      PROVE  Descends(kids(i)', toks[i], path[i])
  <2> DEFINE b == before(i)
             kb == kids(i)
  <2>1. path[i] \in Children(n, b)'
    <3>1. <<n, Append(b, path[i])>> \in DOMAIN tree'
      BY <1>1, <1>3
    <3> QED
      BY <1>1, <3>1 DEF Children
  <2>2. Children(n, b)' \subseteq kb \cup {path[i]}
    <3>1. \/ Children(n, b)' = Children(n, b)
          \/ Children(n, b)' = Children(n, b) \cup {path[Len(b) + 1]}
      <4>1. /\ n \in Nat /\ b \in Seq(Keys)
            /\ DOMAIN tree' = DOMAIN tree \cup {<<n, SubSeq(path, 1, j)>> : j \in 0..Len(path)}
        BY <1>1, <1>3
      <4>2. \A m, q : m \in Nat /\ q \in Seq(Keys)
              /\ DOMAIN tree' = DOMAIN tree \cup {<<m, SubSeq(path, 1, j)>> : j \in 0..Len(path)} =>
                \/ Children(m, q)' = Children(m, q)
                \/ Children(m, q)' = Children(m, q) \cup {path[Len(q) + 1]}
        BY ChildrenOnTheWay
      <4> QED
        BY <4>1, <4>2
    <3>2. Len(b) + 1 = i
      BY <1>1, <1>3
    <3> QED
      BY <3>1, <3>2
  <2>3. path[i] = toks[i] \/ (path[i] = ParamStr /\ toks[i] \notin kb)
    BY <1>2 DEF InsertKey
  <2>4. toks[i] # ParamStr
    BY <1>1
  <2>5. kids(i)' = Children(n, b)'
    OBVIOUS
  <2> HIDE DEF kids, kb, b
  <2> QED
    BY <2>1, <2>2, <2>3, <2>4, <2>5 DEF Descends
<1>5. leaf \in SearchLeaves(toks)'
  <2>1. leaf \in DOMAIN tree'
    BY <1>1
  <2> QED
    BY <1>4, <2>1 DEF SearchLeaves
<1>6. ASSUME leaf \in DOMAIN tree PROVE leaf \in SearchLeaves(toks)
  <2> SUFFICES ASSUME NEW i \in 1..r PROVE Descends(kids(i), toks[i], path[i])
    BY <1>6 DEF SearchLeaves
  <2>1. <<n, SubSeq(path, 1, i)>> \in DOMAIN tree
    <3>1. leaf[1] = n /\ leaf[2] = path /\ i \in 0..Len(leaf[2])
      BY <1>1
    <3>2. <<leaf[1], SubSeq(leaf[2], 1, i)>> \in DOMAIN tree
      BY <1>6, <3>1 DEF TreeClosed
    <3> QED
      BY <3>1, <3>2
  <2>2. path[i] \in kids(i)
    BY <1>1, <1>3, <2>1 DEF Children
  <2>3. path[i] = toks[i] \/ (path[i] = ParamStr /\ toks[i] \notin kids(i))
    BY <1>2 DEF InsertKey
  <2> HIDE DEF kids
  <2> QED
    BY <2>2, <2>3 DEF Descends
<1> QED
  BY <1>5, <1>6

(* The line that just opened a cluster goes there: the search takes the    *)
(* way of the insertion, and no cluster listed there is the line itself,   *)
(* or the line would have joined it.                                       *)
LEMMA CreateRepeats ==
  ASSUME TypeOK, TypeOK', ListedLengths, TreeClosed, NEW l \in Lines, Literal(l), CreateCluster(l)
  PROVE  \E c \in Live' :
           /\ log'[Len(log')].id = c /\ log'[Len(log')].line = l
           /\ Chosen(l)' = {c}
           /\ CreateTemplate(MaskedTokens[l], idToCluster'[c].template) = idToCluster'[c].template
<1> DEFINE id == clustersCounter + 1
           toks == MaskedTokens[l]
           n == Len(toks)
<1>1. /\ Chosen(l) = {} /\ id \notin Live
      /\ idToCluster' = [d \in Kept(id) |->
            IF d = id THEN [template |-> toks, size |-> 1] ELSE idToCluster[d]]
      /\ Live' = Kept(id)
      /\ Record(l, id, "cluster_created")
  BY CreateClusterEffect
<1>2. PICK path \in Seq(Keys) :
        /\ Len(path) = RouteLen(n)
        /\ InsertPath(toks, path)
        /\ tree' = [node \in DOMAIN tree \cup {<<n, SubSeq(path, 1, i)>> : i \in 0..Len(path)} |->
              IF node = <<n, path>> THEN LeafIds(TreeIds(node), n, id) ELSE TreeIds(node)]
  BY CreateClusterEffect
<1> DEFINE leaf == <<n, path>>
<1>3. toks \in Seq(Tokens) /\ toks \in Seq(Keys) /\ n \in Nat /\ \A i \in DOMAIN toks : toks[i] # ParamStr
  BY LineTokens DEF Literal
<1>4. /\ leaf \in SearchLeaves(toks)'
      /\ leaf \in DOMAIN tree => leaf \in SearchLeaves(toks)
  <2>1. DOMAIN tree' = DOMAIN tree \cup {<<Len(toks), SubSeq(path, 1, i)>> : i \in 0..Len(path)}
    BY <1>2
  <2>2. Len(path) = RouteLen(Len(toks)) /\ InsertPath(toks, path)
    BY <1>2
  <2> HIDE DEF toks
  <2> QED
    BY <1>3, <2>1, <2>2, InsertedIsFound
<1>5. SearchLeaves(toks)' = {leaf}
  <2>1. \A a, b : a \in SearchLeaves(toks)' /\ b \in SearchLeaves(toks)' => a = b
    BY <1>3, NextOneLeaf DEF OneLeaf
  <2> HIDE DEF leaf
  <2> QED
    BY <1>4, <2>1
<1>6. tree'[leaf] = {d \in TreeIds(leaf) : n > 0 /\ d \in Live'} \cup {id}
  <2>1. leaf \in DOMAIN tree'
    BY <1>4 DEF SearchLeaves
  <2> QED
    BY <1>2, <2>1 DEF LeafIds
<1>7. /\ id \in Live' /\ idToCluster'[id].template = toks
      /\ \A d \in Live' : d # id => d \in Live /\ idToCluster'[d].template = idToCluster[d].template
  BY <1>1 DEF Kept
<1>8. log'[Len(log')].id = id /\ log'[Len(log')].line = l
  <2>1. /\ log \in Seq(EntryType(clustersCounter)) /\ clustersCounter \in Nat /\ id \in Nat
        /\ clustersCounter <= id /\ id \in 1..id /\ "cluster_created" \in UpdateTypes
    BY DEF TypeOK, UpdateTypes
  <2>2. Len(log') = Len(log) + 1 /\ log'[Len(log) + 1] = [line |-> l, id |-> id, update |-> "cluster_created"]
    BY <1>1, <2>1, RecordType
  <2> QED
    BY <2>2
<1>9. CreateTemplate(toks, toks) = toks
  <2>1. toks = [i \in DOMAIN toks |-> toks[i]]
    BY <1>3
  <2> QED
    BY <2>1 DEF CreateTemplate
<1>10. CASE n = 0
  <2>1. tree'[leaf] = {id}
    BY <1>6, <1>10
  <2>2. Chosen(l)' = tree'[leaf] \cap Live'
    BY <1>5, <1>10 DEF Chosen, TreeSearch
  <2> QED
    BY <1>7, <1>8, <1>9, <2>1, <2>2
<1>11. CASE n # 0
  <2> DEFINE ids == tree'[leaf] \cap Live'
             sc(d) == SimTokens(idToCluster'[d].template, toks, FALSE)
  <2>1. sc(id) = n
    <3> HIDE DEF toks
    <3>1. \A i \in 1..Len(toks) : toks[i] # ParamStr /\ toks[i] = toks[i]
      BY <1>3
    <3>2. SimTokens(toks, toks, FALSE) = Len(toks)
      BY <1>3, <3>1, LiteralScore
    <3> QED
      BY <1>7, <3>2
  <2>2. ASSUME NEW d \in ids, d # id PROVE sc(d) \in Nat /\ sc(d) < n
    <3>1. d \in Live /\ idToCluster'[d].template = idToCluster[d].template
      BY <1>7, <2>2
    <3>2. leaf \in DOMAIN tree /\ d \in tree[leaf]
      BY <1>6, <2>2 DEF TreeIds
    <3>3. leaf \in SearchLeaves(toks)
      BY <1>4, <3>2
    <3>4. idToCluster[d].template \in Seq(Keys) /\ Len(idToCluster[d].template) = n
      BY <3>1, <3>2 DEF ListedLengths, TypeOK, ClusterType
    <3>5. Score(d, toks, FALSE) # n
      BY <1>1, <1>11, <3>1, <3>2, <3>3, ExactIsChosen
    <3>6. sc(d) \in 0..n
      <4>1. SimTokens(idToCluster[d].template, toks, FALSE) \in 0..Len(idToCluster[d].template)
        BY <3>4, LiteralScore
      <4> QED
        BY <3>1, <3>4, <4>1
    <3>7. sc(d) # n
      BY <3>1, <3>5 DEF Score
    <3> HIDE DEF sc, n
    <3> QED
      BY <1>3, <3>6, <3>7
  <2>3. id \in ids /\ \A d, e \in ids : Better(d, e, toks, FALSE)' <=>
          \/ sc(d) > sc(e)
          \/ sc(d) = sc(e) /\ ParamCount(idToCluster'[d].template) > ParamCount(idToCluster'[e].template)
    BY <1>6, <1>7 DEF Better, Score
  <2>4. Best(tree[leaf], toks, FALSE)' = {d \in ids : \A e \in ids : ~Better(e, d, toks, FALSE)'}
    BY DEF Best
  <2>5. ParamCount(idToCluster'[id].template) \in Nat
    <3>1. ParamCount(toks) \in 0..Len(toks)
      BY <1>3, FullScore
    <3> QED
      BY <1>3, <1>7, <3>1
  <2>6. Best(tree[leaf], toks, FALSE)' = {id}
    <3> DEFINE better(d, e) == Better(d, e, toks, FALSE)'
               pn(d) == ParamCount(idToCluster'[d].template)
    <3>1. /\ n \in Nat /\ sc(id) = n /\ id \in ids /\ pn(id) \in Nat
          /\ \A d \in ids : d # id => sc(d) \in Nat /\ sc(d) < n
          /\ \A d, e \in ids : better(d, e) <=> sc(d) > sc(e) \/ (sc(d) = sc(e) /\ pn(d) > pn(e))
          /\ Best(tree[leaf], toks, FALSE)' = {d \in ids : \A e \in ids : ~better(e, d)}
      BY <1>3, <2>1, <2>2, <2>3, <2>4, <2>5
    <3> HIDE DEF ids, sc, n, id, better, pn
    <3>2. ASSUME NEW e \in ids PROVE ~better(e, id)
      <4>1. CASE e = id
        BY <3>1, <4>1
      <4>2. CASE e # id
        <5>1. sc(e) \in Nat /\ sc(e) < n /\ sc(id) = n
          BY <3>1, <4>2
        <5> QED
          BY <3>1, <5>1
      <4> QED
        BY <4>1, <4>2
    <3>3. ASSUME NEW d \in ids, d # id PROVE better(id, d)
      <4>1. sc(d) \in Nat /\ sc(d) < n /\ sc(id) = n
        BY <3>1, <3>3
      <4> QED
        BY <3>1, <4>1
    <3>4. {d \in ids : \A e \in ids : ~better(e, d)} = {id}
      BY <3>1, <3>2, <3>3
    <3> QED
      BY <3>1, <3>4
  <2>7. Reaches(sc(id), n, SimNum, SimDen)
    <3>1. SimNum * n <= n * SimDen
      BY <1>3, ThresholdAssumption
    <3> QED
      BY <1>11, <2>1, <3>1 DEF Reaches
  <2>8. FastMatch(tree[leaf], toks, SimNum, SimDen, FALSE)' = {id}
    <3>1. FastMatch(tree[leaf], toks, SimNum, SimDen, FALSE)'
            = {d \in Best(tree[leaf], toks, FALSE)' :
                 /\ \A e \in Best(tree[leaf], toks, FALSE)' : d <= e
                 /\ Reaches(sc(d), n, SimNum, SimDen)}
      BY DEF FastMatch, GoodEnough, Score
    <3>2. id <= id
      BY DEF TypeOK
    <3> HIDE DEF id, sc
    <3> QED
      BY <2>6, <2>7, <3>1, <3>2
  <2>9. Chosen(l)' = FastMatch(tree[leaf], toks, SimNum, SimDen, FALSE)'
    BY <1>5, <1>11 DEF Chosen, TreeSearch
  <2> QED
    BY <1>7, <1>8, <1>9, <2>8, <2>9
<1> QED
  BY <1>10, <1>11

(* After a call, its line would repeat.                                    *)
LEMMA NextRepeatInv ==
  ASSUME TypeOK, TypeOK', MinerInv, TreeClosed, EmptyLineOnce, RepeatInv, [Next]_vars
  PROVE  RepeatInv'
<1>1. CASE UNCHANGED vars
  <2>1. UNCHANGED <<tree, idToCluster, log>>
    BY <1>1 DEF vars
  <2>2. \A toks : SearchLeaves(toks)' = SearchLeaves(toks)
    BY <2>1 DEF SearchLeaves, Children
  <2>3. \A ids, toks : FastMatch(ids, toks, SimNum, SimDen, FALSE)'
                         = FastMatch(ids, toks, SimNum, SimDen, FALSE)
    BY <2>1 DEF FastMatch, Best, Better, Score, GoodEnough
  <2>4. \A l : Chosen(l)' = Chosen(l)
    BY <2>1, <2>2, <2>3 DEF Chosen, TreeSearch
  <2> QED
    BY <2>1, <2>4 DEF RepeatInv, Literal
<1>2. ASSUME NEW m \in Lines, AddLogMessage(m)
      PROVE  RepeatInv'
  <2> SUFFICES ASSUME NEW l \in Lines, log'[Len(log')].line = l, Literal(l)
               PROVE  LET c == log'[Len(log')].id
                          t == idToCluster'[c].template
                      IN  Chosen(l)' = {c} /\ CreateTemplate(MaskedTokens[l], t) = t
    BY DEF RepeatInv, Literal
  <2>1. CASE UpdateCluster(m)
    BY <2>1, UpdateRepeats DEF MinerInv
  <2>2. CASE CreateCluster(m)
    <3>1. log'[Len(log')].line = m
      <4>1. /\ log \in Seq(EntryType(clustersCounter)) /\ clustersCounter \in Nat
            /\ clustersCounter + 1 \in Nat /\ clustersCounter <= clustersCounter + 1
            /\ clustersCounter + 1 \in 1..(clustersCounter + 1) /\ "cluster_created" \in UpdateTypes
        BY DEF TypeOK, UpdateTypes
      <4>2. Record(m, clustersCounter + 1, "cluster_created")
        BY <2>2 DEF CreateCluster
      <4>3. Len(log') = Len(log) + 1
            /\ log'[Len(log) + 1] = [line |-> m, id |-> clustersCounter + 1, update |-> "cluster_created"]
        BY <4>1, <4>2, RecordType
      <4> QED
        BY <4>3
    <3> QED
      BY <2>2, <3>1, CreateRepeats DEF MinerInv
  <2> QED
    BY <1>2, <2>1, <2>2 DEF AddLogMessage
<1> QED
  BY <1>1, <1>2 DEF Next

(* A call adds an entry with its line to the log.                          *)
LEMMA CallIsLogged ==
  ASSUME TypeOK, NEW m \in Lines, AddLogMessage(m)
  PROVE  \E d \in 1..(clustersCounter + 1), u \in UpdateTypes :
           /\ Len(log) \in Nat /\ DOMAIN log = 1..Len(log)
           /\ Len(log') = Len(log) + 1 /\ DOMAIN log' = 1..(Len(log) + 1)
           /\ \A i \in 1..Len(log) : log'[i] = log[i]
           /\ log'[Len(log) + 1] = [line |-> m, id |-> d, update |-> u]
           /\ d \in Chosen(m) => (u = "none") <=>
                (CreateTemplate(MaskedTokens[m], idToCluster[d].template) = idToCluster[d].template)
           /\ d \in Chosen(m) \/ Chosen(m) = {}
<1>1. /\ log \in Seq(EntryType(clustersCounter)) /\ clustersCounter \in Nat
      /\ clustersCounter <= clustersCounter + 1 /\ clustersCounter + 1 \in Nat
      /\ \A d \in Live : d \in 1..(clustersCounter + 1)
  BY DEF TypeOK
<1>2. \E d \in 1..(clustersCounter + 1), u \in UpdateTypes :
        /\ Record(m, d, u)
        /\ d \in Chosen(m) => (u = "none") <=>
             (CreateTemplate(MaskedTokens[m], idToCluster[d].template) = idToCluster[d].template)
        /\ d \in Chosen(m) \/ Chosen(m) = {}
  <2>1. CASE UpdateCluster(m)
    BY <1>1, <2>1, UpdateClusterEffect
  <2>2. CASE CreateCluster(m)
    BY <1>1, <2>2 DEF CreateCluster, UpdateTypes
  <2> QED
    BY <2>1, <2>2 DEF AddLogMessage
<1>3. PICK d \in 1..(clustersCounter + 1), u \in UpdateTypes :
        /\ Record(m, d, u)
        /\ d \in Chosen(m) => (u = "none") <=>
             (CreateTemplate(MaskedTokens[m], idToCluster[d].template) = idToCluster[d].template)
        /\ d \in Chosen(m) \/ Chosen(m) = {}
  BY <1>2
<1>4. /\ log' \in Seq(EntryType(clustersCounter + 1))
      /\ Len(log') = Len(log) + 1 /\ Len(log) \in Nat
      /\ \A i \in 1..Len(log) : log'[i] = log[i]
      /\ log'[Len(log) + 1] = [line |-> m, id |-> d, update |-> u]
  BY <1>1, <1>3, RecordType
<1>5. DOMAIN log = 1..Len(log) /\ DOMAIN log' = 1..(Len(log) + 1)
  BY <1>1, <1>4
<1> QED
  BY <1>3, <1>4, <1>5

(* A line with the tokens of the line before it, none of them the          *)
(* wildcard string, joins the same cluster and changes no template.        *)
LEMMA JoinsTheLast ==
  ASSUME TypeOK, RepeatInv, NEW l \in Lines, NEW m \in Lines, AddLogMessage(m),
         log # <<>>, log[Len(log)].line = l, MaskedTokens[m] = MaskedTokens[l], Literal(l)
  PROVE  log'[Len(log')].id = log[Len(log)].id /\ log'[Len(log')].update = "none"
<1> DEFINE c == log[Len(log)].id
           t == idToCluster[c].template
<1>1. Chosen(l) = {c} /\ CreateTemplate(MaskedTokens[l], t) = t
  BY DEF RepeatInv
<1>2. Chosen(m) = {c} /\ CreateTemplate(MaskedTokens[m], t) = t
  BY <1>1 DEF Chosen
<1>3. PICK d \in 1..(clustersCounter + 1), u \in UpdateTypes :
        /\ Len(log') = Len(log) + 1
        /\ log'[Len(log) + 1] = [line |-> m, id |-> d, update |-> u]
        /\ d \in Chosen(m) => (u = "none") <=>
             (CreateTemplate(MaskedTokens[m], idToCluster[d].template) = idToCluster[d].template)
        /\ d \in Chosen(m) \/ Chosen(m) = {}
  BY CallIsLogged
<1>4. d = c /\ u = "none"
  BY <1>2, <1>3
<1> QED
  BY <1>3, <1>4

(* Two calls in a row with the same tokens have the same answer.           *)
LastJoins ==
  Len(log) > 1 =>
    LET i == Len(log)
    IN  MaskedTokens[log[i].line] = MaskedTokens[log[i - 1].line] /\ Literal(log[i - 1].line)
          => log[i].id = log[i - 1].id

(* Each call with the tokens of the call before it has its answer.         *)
LEMMA NextLastJoins ==
  ASSUME TypeOK, RepeatInv, LastJoins, [Next]_vars
  PROVE  LastJoins'
<1>1. CASE UNCHANGED vars
  BY <1>1 DEF LastJoins, Literal, vars
<1>2. ASSUME NEW m \in Lines, AddLogMessage(m)
      PROVE  LastJoins'
  <2> DEFINE n == Len(log)
             l == log[n].line
  <2>1. PICK d, u : /\ n \in Nat /\ DOMAIN log = 1..n
                    /\ Len(log') = n + 1
                    /\ \A i \in 1..n : log'[i] = log[i]
                    /\ log'[n + 1] = [line |-> m, id |-> d, update |-> u]
    BY <1>2, CallIsLogged
  <2> SUFFICES ASSUME n > 0, MaskedTokens[m] = MaskedTokens[l], Literal(l)
               PROVE  log'[n + 1].id = log[n].id
    <3>1. n > 0 => log'[n] = log[n] /\ n + 1 - 1 = n
      BY <2>1
    <3>2. n + 1 > 1 => n > 0
      BY <2>1
    <3>3. log'[n + 1].line = m
      BY <2>1
    <3> HIDE DEF n
    <3> QED
      BY <2>1, <3>1, <3>2, <3>3 DEF LastJoins, Literal, n
  <2>2. log # <<>> /\ l \in Lines
    <3> DEFINE E == EntryType(clustersCounter)
    <3>1. n \in 1..n /\ log \in Seq(E)
      BY <2>1 DEF TypeOK
    <3>2. \A e \in E : e.line \in Lines
      BY DEF EntryType
    <3> HIDE DEF E
    <3>3. log[n] \in E /\ log # <<>>
      BY <3>1
    <3> QED
      BY <3>2, <3>3
  <2>3. log'[Len(log')].id = log[Len(log)].id
    BY <1>2, <2>2, JoinsTheLast
  <2> QED
    BY <2>1, <2>3
<1> QED
  BY <1>1, <1>2 DEF Next

(* Repeated lines, as an invariant.                                        *)
LastInv ==
  TypeOK /\ MinerInv /\ TreeClosed /\ EmptyLineOnce /\ RepeatInv /\ LastJoins

(* A new engine has seen no line.                                          *)
LEMMA InitLastInv == Init => LastInv
<1>1. Init => TreeClosed /\ EmptyLineOnce /\ RepeatInv /\ LastJoins
  BY DEF Init, TreeClosed, EmptyLineOnce, RepeatInv, LastJoins
<1> QED
  BY <1>1, InitTypeOK, InitMinerInv DEF LastInv

(* Every call keeps it.                                                    *)
LEMMA NextLastInv ==
  ASSUME LastInv, [Next]_vars
  PROVE  LastInv'
<1>1. TypeOK'
  BY NextTypeOK DEF LastInv
<1>2. MinerInv'
  BY <1>1, NextMinerInv DEF LastInv
<1> QED
  BY <1>1, <1>2, NextTreeClosed, NextEmptyLineOnce, NextRepeatInv, NextLastJoins DEF LastInv

(* A line repeated at once joins the cluster it just went to and changes   *)
(* no template.                                                            *)
THEOREM RepeatsChangeNothing == Spec => RepeatIsNoop
<1> DEFINE Noop == \A l \in Lines :
                     (/\ log # <<>>
                      /\ log[Len(log)].line = l
                      /\ \A i \in DOMAIN MaskedTokens[l] : MaskedTokens[l][i] # ParamStr
                      /\ log' # log
                      /\ log'[Len(log')].line = l)
                     => /\ log'[Len(log')].id = log[Len(log)].id
                        /\ log'[Len(log')].update = "none"
<1>1. Init => LastInv
  BY InitLastInv
<1>2. LastInv /\ [Next]_vars => LastInv'
  BY NextLastInv
<1>3. LastInv /\ [Next]_vars => [Noop]_vars
  <2> SUFFICES ASSUME TypeOK, RepeatInv, NEW m \in Lines, AddLogMessage(m), NEW l \in Lines,
                      log # <<>>, log[Len(log)].line = l,
                      \A i \in DOMAIN MaskedTokens[l] : MaskedTokens[l][i] # ParamStr,
                      log'[Len(log')].line = l
               PROVE  log'[Len(log')].id = log[Len(log)].id /\ log'[Len(log')].update = "none"
    BY DEF Next, LastInv
  <2>1. PICK d, u : /\ Len(log') = Len(log) + 1
                    /\ log'[Len(log) + 1] = [line |-> m, id |-> d, update |-> u]
    BY CallIsLogged
  <2>2. log'[Len(log')].line = m
    BY <2>1
  <2> QED
    BY <2>2, JoinsTheLast DEF Literal
<1>4. RepeatIsNoop <=> [][Noop]_vars
  BY DEF RepeatIsNoop
<1> HIDE DEF Noop
<1> QED
  BY <1>1, <1>2, <1>3, <1>4, PTL DEF Spec
=============================================================================
