---------------------------- MODULE GrouperProofs ----------------------------
(***************************************************************************)
(* Machine-checked proofs about the statistical grouper, for every batch,  *)
(* table of weights and limits: it is a template miner, joined clusters    *)
(* stay anchored, and equal neighbours are grouped.                        *)
(***************************************************************************)
EXTENDS StatisticalGrouper, DataLemmas

Words == {None} \cup UNION {{TokensOf[l][i] : i \in DOMAIN TokensOf[l]} : l \in Lines}

ClusterType == [template : Seq(Words), size : Nat]

UpdateTypes == {"cluster_created", "cluster_template_changed", "none"}

EntryType == [line : Lines, id : Nat, update : UpdateTypes]

(* Shapes of the state; ids are those of clusters.                         *)
ShapesOK ==
  /\ batch \in Seq(Lines) /\ Len(batch) <= MaxLines
  /\ clusters \in Seq(ClusterType)
  /\ log \in Seq(EntryType)
  /\ Len(clusters) <= Len(log) /\ Len(log) <= Len(batch)
  /\ \A i \in DOMAIN log : log[i].id \in 1..Len(clusters)

(* What is kept of a cluster is what the log says of it.                   *)
ReportsExact ==
  \A c \in DOMAIN clusters :
    /\ Miner!Assigned(log, c) # {}
    /\ \A m \in Miner!Contents(log, c) : Len(m) = Len(clusters[c].template)
    /\ clusters[c] = Miner!Report(log, c)

(* The inductive invariant.                                                *)
GrouperInv == ShapesOK /\ ReportsExact

-----------------------------------------------------------------------------

LEMMA LineTokens ==
  ASSUME NEW l \in Lines
  PROVE  TokensOf[l] \in Seq(Words) /\ Len(TokensOf[l]) \in Nat
<1> DEFINE W == {TokensOf[l][i] : i \in DOMAIN TokensOf[l]}
<1>1. TokensOf[l] \in Seq(W)
  BY BatchAssumption
<1>2. W \subseteq Words
  BY DEF Words
<1> HIDE DEF W
<1> QED
  BY <1>1, <1>2

(* One more entry for cluster c adds one line to c and none to another.    *)
LEMMA OneMoreEntry ==
  ASSUME NEW lg \in Seq(EntryType), NEW e \in EntryType, NEW c, e.id = c
  PROVE  LET longer == Append(lg, e)
         IN  /\ Miner!Assigned(longer, c) = Miner!Assigned(lg, c) \cup {Len(lg) + 1}
             /\ Miner!Contents(longer, c) = Miner!Contents(lg, c) \cup {TokensOf[e.line]}
             /\ \A d : d # c => /\ Miner!Assigned(longer, d) = Miner!Assigned(lg, d)
                               /\ Miner!Contents(longer, d) = Miner!Contents(lg, d)
<1> DEFINE N == Len(lg)
           longer == Append(lg, e)
<1>1. N \in Nat /\ DOMAIN lg = 1..N
  OBVIOUS
<1>2. /\ DOMAIN longer = 1..(N+1)
      /\ \A i \in 1..N : longer[i] = lg[i]
      /\ longer[N+1] = e
  OBVIOUS
<1> HIDE DEF longer, N
<1>3. Miner!Assigned(longer, c) = Miner!Assigned(lg, c) \cup {N + 1}
  BY <1>1, <1>2 DEF Miner!Assigned
<1>4. \A d : d # c => Miner!Assigned(longer, d) = Miner!Assigned(lg, d)
  BY <1>1, <1>2 DEF Miner!Assigned
<1>5. \A d : Miner!Assigned(lg, d) \subseteq 1..N
  BY <1>1 DEF Miner!Assigned
<1>6. Miner!Contents(longer, c) = Miner!Contents(lg, c) \cup {TokensOf[e.line]}
  BY <1>1, <1>2, <1>3, <1>5 DEF Miner!Contents
<1>7. \A d : d # c => Miner!Contents(longer, d) = Miner!Contents(lg, d)
  BY <1>2, <1>4, <1>5 DEF Miner!Contents
<1> QED
  BY <1>3, <1>4, <1>6, <1>7 DEF longer, N

(* What a cluster contains are token sequences; the lines assigned to it   *)
(* are finitely many.                                                      *)
LEMMA ContentsType ==
  ASSUME ShapesOK, NEW c
  PROVE  /\ Miner!Contents(log, c) \subseteq Seq(Words)
         /\ Miner!Assigned(log, c) \subseteq 1..Len(log)
         /\ IsFiniteSet(Miner!Assigned(log, c))
         /\ Miner!Assigned(log, c) # {} => Miner!Contents(log, c) # {}
<1>1. Len(log) \in Nat /\ DOMAIN log = 1..Len(log)
  BY DEF ShapesOK
<1>2. Miner!Assigned(log, c) \subseteq 1..Len(log)
  BY <1>1 DEF Miner!Assigned
<1>3. \A i \in 1..Len(log) : log[i].line \in Lines
  <2>1. \A i \in 1..Len(log) : log[i] \in EntryType
    BY DEF ShapesOK
  <2> QED
    BY <2>1 DEF EntryType
<1>4. Miner!Contents(log, c) \subseteq Seq(Words)
  BY <1>2, <1>3, LineTokens DEF Miner!Contents
<1>5. IsFiniteSet(1..Len(log))
  BY <1>1, FS_Interval
<1>6. IsFiniteSet(Miner!Assigned(log, c))
  BY <1>2, <1>5, FS_Subset
<1> QED
  BY <1>2, <1>4, <1>6 DEF Miner!Contents

LEMMA SameCardinality ==
  ASSUME NEW S PROVE Miner!Cardinality(S) = Cardinality(S)
BY DEF Miner!Cardinality, Cardinality

(* The least general template position by position.                        *)
LEMMA LeastGeneralAt ==
  ASSUME NEW msgs, NEW n \in Nat, msgs # {},
         \A m \in msgs : DOMAIN m = 1..n
  PROVE  /\ Miner!LeastGeneral(msgs) = [i \in 1..n |-> Miner!LeastGeneral(msgs)[i]]
         /\ \A i \in 1..n, m \in msgs :
              Miner!LeastGeneral(msgs)[i] =
                IF \A o \in msgs : o[i] = m[i] THEN m[i] ELSE None
<1> DEFINE any == CHOOSE m \in msgs : TRUE
<1>1. any \in msgs
  OBVIOUS
<1>2. Miner!LeastGeneral(msgs) =
        [i \in 1..n |-> IF \A m \in msgs : m[i] = any[i] THEN any[i] ELSE None]
  BY <1>1 DEF Miner!LeastGeneral
<1> HIDE DEF any
<1>3. ASSUME NEW i \in 1..n, NEW m \in msgs
      PROVE  Miner!LeastGeneral(msgs)[i] =
               IF \A o \in msgs : o[i] = m[i] THEN m[i] ELSE None
  BY <1>1, <1>2
<1> QED
  BY <1>2, <1>3

(* Merging one more line into what some lines share leaves what they all   *)
(* share.                                                                  *)
LEMMA MergeExtends ==
  ASSUME NEW msgs, NEW n \in Nat, msgs # {}, NEW x,
         \A m \in msgs : DOMAIN m = 1..n, DOMAIN x = 1..n
  PROVE  Merge(Miner!LeastGeneral(msgs), x) = Miner!LeastGeneral(msgs \cup {x})
<1> DEFINE old == Miner!LeastGeneral(msgs)
           all == Miner!LeastGeneral(msgs \cup {x})
           new == Merge(old, x)
<1>1. /\ old = [i \in 1..n |-> old[i]]
      /\ \A i \in 1..n, m \in msgs :
           old[i] = IF \A o \in msgs : o[i] = m[i] THEN m[i] ELSE None
  BY LeastGeneralAt
<1>2. /\ all = [i \in 1..n |-> all[i]]
      /\ \A i \in 1..n, m \in msgs \cup {x} :
           all[i] = IF \A o \in msgs \cup {x} : o[i] = m[i] THEN m[i] ELSE None
  <2>1. msgs \cup {x} # {} /\ \A m \in msgs \cup {x} : DOMAIN m = 1..n
    OBVIOUS
  <2> QED
    BY <2>1, LeastGeneralAt
<1>3. new = [i \in 1..n |-> IF old[i] = x[i] THEN x[i] ELSE None]
  <2>1. DOMAIN old = 1..n
    BY <1>1
  <2> QED
    BY <2>1 DEF Merge
<1> HIDE DEF old, new, all
<1>4. ASSUME NEW i \in 1..n PROVE new[i] = all[i]
  <2>1. PICK m \in msgs : TRUE
    OBVIOUS
  <2>2. new[i] = IF old[i] = x[i] THEN x[i] ELSE None
    BY <1>3
  <2>3. CASE \A o \in msgs : o[i] = m[i]
    <3>1. old[i] = m[i]
      BY <1>1, <2>3
    <3>2. all[i] = IF x[i] = m[i] THEN m[i] ELSE None
      BY <1>2, <2>3
    <3> QED
      BY <2>2, <3>1, <3>2
  <2>4. CASE ~ \A o \in msgs : o[i] = m[i]
    <3>1. old[i] = None
      BY <1>1, <2>4
    <3>2. all[i] = None
      BY <1>2, <2>4
    <3> QED
      BY <2>2, <3>1, <3>2
  <2> QED
    BY <2>3, <2>4
<1>5. new = [i \in 1..n |-> new[i]]
  BY <1>3
<1> QED
  BY <1>2, <1>4, <1>5 DEF old, new, all

(* One line shares all its tokens with itself.                             *)
LEMMA LeastGeneralOfOne ==
  ASSUME NEW x, NEW n \in Nat, DOMAIN x = 1..n, x = [i \in 1..n |-> x[i]]
  PROVE  Miner!LeastGeneral({x}) = x
<1>1. {x} # {} /\ \A m \in {x} : DOMAIN m = 1..n
  OBVIOUS
<1>2. /\ Miner!LeastGeneral({x}) = [i \in 1..n |-> Miner!LeastGeneral({x})[i]]
      /\ \A i \in 1..n, m \in {x} :
           Miner!LeastGeneral({x})[i] = IF \A o \in {x} : o[i] = m[i] THEN m[i] ELSE None
  BY <1>1, LeastGeneralAt
<1>3. \A i \in 1..n : Miner!LeastGeneral({x})[i] = x[i]
  BY <1>2
<1> QED
  BY <1>2, <1>3

LEMMA MergeType ==
  ASSUME NEW old \in Seq(Words), NEW toks \in Seq(Words), Len(old) = Len(toks)
  PROVE  Merge(old, toks) \in Seq(Words) /\ Len(Merge(old, toks)) = Len(toks)
<1>1. DOMAIN old = 1..Len(toks) /\ Len(toks) \in Nat
  OBVIOUS
<1>2. \A i \in 1..Len(toks) : toks[i] \in Words
  OBVIOUS
<1>3. Merge(old, toks) \in [1..Len(toks) -> Words]
  BY <1>1, <1>2 DEF Merge, Words
<1> QED
  BY <1>1, <1>3

(* The entry a line leaves in the log.                                     *)
Logged(l, c) == \E u \in UpdateTypes : log' = Append(log, [line |-> l, id |-> c, update |-> u])

(* The report of a cluster that gained a line.                             *)
LEMMA ReportExtends ==
  ASSUME GrouperInv, NEW c \in DOMAIN clusters, NEW l \in Lines, Logged(l, c),
         Len(clusters[c].template) = Len(TokensOf[l])
  PROVE  LET new == Merge(clusters[c].template, TokensOf[l])
         IN  /\ Miner!Report(log', c) = [template |-> new, size |-> clusters[c].size + 1]
             /\ \A m \in Miner!Contents(log', c) : Len(m) = Len(new)
             /\ Miner!Assigned(log', c) # {}
             /\ new \in Seq(Words) /\ Len(new) = Len(TokensOf[l])
<1> DEFINE toks == TokensOf[l]
           old == clusters[c].template
           size == clusters[c].size
           at == Miner!Assigned(log, c)
           x == Len(log) + 1
           msgs == Miner!Contents(log, c)
           n == Len(toks)
           new == Merge(old, toks)
<1>1. toks \in Seq(Words) /\ n \in Nat /\ DOMAIN toks = 1..n
  BY LineTokens
<1>2. clusters[c] \in ClusterType /\ old \in Seq(Words) /\ DOMAIN old = 1..n
  <2>1. clusters[c] \in ClusterType
    BY DEF GrouperInv, ShapesOK
  <2>2. old \in Seq(Words)
    BY <2>1 DEF ClusterType
  <2> QED
    BY <1>1, <2>1, <2>2
<1>3. /\ at # {} /\ \A m \in msgs : Len(m) = n
      /\ clusters[c] = Miner!Report(log, c)
  BY DEF GrouperInv, ReportsExact
<1>4. msgs # {} /\ msgs \subseteq Seq(Words) /\ IsFiniteSet(at) /\ at \subseteq 1..Len(log)
  BY <1>3, ContentsType DEF GrouperInv
<1>5. \A m \in msgs : DOMAIN m = 1..n
  BY <1>3, <1>4
<1>6. old = Miner!LeastGeneral(msgs) /\ size = Cardinality(at)
  BY <1>3, SameCardinality DEF Miner!Report
<1>7. /\ Miner!Assigned(log', c) = at \cup {x}
      /\ Miner!Contents(log', c) = msgs \cup {toks}
  <2>1. PICK u \in UpdateTypes : log' = Append(log, [line |-> l, id |-> c, update |-> u])
    BY DEF Logged
  <2> DEFINE e == [line |-> l, id |-> c, update |-> u]
  <2>2. c \in Nat
    BY DEF GrouperInv, ShapesOK
  <2>3. e \in EntryType /\ e.id = c /\ e.line = l /\ log \in Seq(EntryType)
    BY <2>2 DEF EntryType, GrouperInv, ShapesOK
  <2>4. log' = Append(log, e)
    BY <2>1
  <2> HIDE DEF e
  <2> QED
    BY <2>3, <2>4, OneMoreEntry
<1>8. x \notin at
  BY <1>4 DEF GrouperInv, ShapesOK
<1>9. new \in Seq(Words) /\ Len(new) = n
  BY <1>1, <1>2, MergeType
<1> HIDE DEF toks, old, size, at, x, msgs, n, new
<1>10. new = Miner!LeastGeneral(msgs \cup {toks})
  BY <1>1, <1>4, <1>5, <1>6, MergeExtends DEF new
<1>11. Cardinality(at \cup {x}) = size + 1
  BY <1>4, <1>6, <1>8, FS_AddElement
<1>12. Miner!Report(log', c) = [template |-> new, size |-> size + 1]
  BY <1>7, <1>10, <1>11, SameCardinality DEF Miner!Report
<1>13. \A m \in Miner!Contents(log', c) : Len(m) = n
  BY <1>3, <1>7 DEF n
<1> QED
  BY <1>7, <1>9, <1>12, <1>13 DEF toks, old, size, n, new

(* The reports of the other clusters stay.                                 *)
LEMMA ReportUnaffected ==
  ASSUME ShapesOK, NEW c \in Nat, NEW l \in Lines, Logged(l, c), NEW d, d # c
  PROVE  /\ Miner!Assigned(log', d) = Miner!Assigned(log, d)
         /\ Miner!Contents(log', d) = Miner!Contents(log, d)
         /\ Miner!Report(log', d) = Miner!Report(log, d)
<1>1. PICK u \in UpdateTypes : log' = Append(log, [line |-> l, id |-> c, update |-> u])
  BY DEF Logged
<1> DEFINE e == [line |-> l, id |-> c, update |-> u]
<1>2. e \in EntryType /\ e.id = c /\ log \in Seq(EntryType)
  BY DEF EntryType, ShapesOK
<1>3. log' = Append(log, e)
  BY <1>1
<1> HIDE DEF e
<1>4. /\ Miner!Assigned(log', d) = Miner!Assigned(log, d)
      /\ Miner!Contents(log', d) = Miner!Contents(log, d)
  BY <1>2, <1>3, OneMoreEntry
<1> QED
  BY <1>4 DEF Miner!Report

(* A cluster about to be opened has no lines; then its report is its line. *)
LEMMA FreshReport ==
  ASSUME GrouperInv, NEW l \in Lines, NEW c, c = Len(clusters) + 1, Logged(l, c)
  PROVE  /\ Miner!Assigned(log, c) = {} /\ Miner!Assigned(log', c) # {}
         /\ \A m \in Miner!Contents(log', c) : Len(m) = Len(TokensOf[l])
         /\ Miner!Report(log', c) = [template |-> TokensOf[l], size |-> 1]
<1> DEFINE toks == TokensOf[l]
           n == Len(toks)
           x == Len(log) + 1
<1>1. PICK u \in UpdateTypes : log' = Append(log, [line |-> l, id |-> c, update |-> u])
  BY DEF Logged
<1>2. Miner!Assigned(log, c) = {}
  BY DEF GrouperInv, ShapesOK, Miner!Assigned
<1>3. Miner!Contents(log, c) = {}
  BY <1>2 DEF Miner!Contents
<1> DEFINE e == [line |-> l, id |-> c, update |-> u]
<1>4. e \in EntryType /\ e.id = c /\ e.line = l /\ log \in Seq(EntryType)
  BY DEF EntryType, GrouperInv, ShapesOK
<1>5. log' = Append(log, e)
  BY <1>1
<1>6. toks \in Seq(Words) /\ n \in Nat /\ DOMAIN toks = 1..n /\ toks = [i \in 1..n |-> toks[i]]
  BY LineTokens
<1> HIDE DEF e, toks, n, x
<1>7. Miner!Assigned(log', c) = {x} /\ Miner!Contents(log', c) = {toks}
  <2>1. /\ Miner!Assigned(log', c) = Miner!Assigned(log, c) \cup {Len(log) + 1}
        /\ Miner!Contents(log', c) = Miner!Contents(log, c) \cup {TokensOf[e.line]}
    BY <1>4, <1>5, OneMoreEntry
  <2> QED
    BY <1>2, <1>3, <1>4, <2>1 DEF x, toks
<1>8. Miner!LeastGeneral({toks}) = toks
  BY <1>6, LeastGeneralOfOne
<1>9. Miner!Report(log', c) = [template |-> toks, size |-> 1]
  BY <1>7, <1>8, FS_Singleton, SameCardinality DEF Miner!Report
<1> QED
  BY <1>2, <1>7, <1>9 DEF toks, n

-----------------------------------------------------------------------------
(* The steps.                                                              *)

(* A chosen cluster is one that admits the line, hence one of its length.  *)
LEMMA BestAdmits ==
  ASSUME NEW toks, NEW c \in Best(toks)
  PROVE  c \in DOMAIN clusters /\ Len(clusters[c].template) = Len(toks)
BY DEF Best, Admits

(* What a step that groups line l does: it extends the report of a cluster *)
(* of its length, or opens a cluster behind the others.                    *)
Joined(l, c) ==
  /\ c \in DOMAIN clusters /\ Len(clusters[c].template) = Len(TokensOf[l])
  /\ clusters' = [clusters EXCEPT ![c] =
                    [template |-> Merge(clusters[c].template, TokensOf[l]),
                     size |-> clusters[c].size + 1]]
  /\ log' = Append(log, [line |-> l, id |-> c, update |->
                IF Merge(clusters[c].template, TokensOf[l]) = clusters[c].template
                  THEN "none" ELSE "cluster_template_changed"])

LEMMA JoinJoins ==
  ASSUME NEW l, Join(l) PROVE \E c \in Best(TokensOf[l]) : Joined(l, c)
<1>1. PICK c \in Best(TokensOf[l]) :
        LET old == clusters[c].template
            new == Merge(old, TokensOf[l])
        IN  /\ clusters' = [clusters EXCEPT ![c] = [template |-> new, size |-> @.size + 1]]
            /\ log' = Append(log, [line |-> l, id |-> c, update |->
                         IF new = old THEN "none" ELSE "cluster_template_changed"])
  BY DEF Join
<1>2. c \in DOMAIN clusters /\ Len(clusters[c].template) = Len(TokensOf[l])
  BY BestAdmits
<1> QED
  BY <1>1, <1>2 DEF Joined

(* The line of a step.                                                     *)
LEMMA NextLine ==
  ASSUME ShapesOK, Len(log) < Len(batch)
  PROVE  batch[Len(log) + 1] \in Lines
<1>1. Len(log) \in Nat /\ Len(batch) \in Nat
  BY DEF ShapesOK
<1>2. Len(log) + 1 \in 1..Len(batch)
  BY <1>1
<1> QED
  BY <1>2 DEF ShapesOK

LEMMA JoinInv ==
  ASSUME GrouperInv, NEW l \in Lines, NEW c, Joined(l, c),
         Len(log) < Len(batch), UNCHANGED batch
  PROVE  /\ GrouperInv'
         /\ clusters'[c] = Miner!Report(log', c)
<1> DEFINE new == Merge(clusters[c].template, TokensOf[l])
           kept == [template |-> new, size |-> clusters[c].size + 1]
           u == IF new = clusters[c].template THEN "none" ELSE "cluster_template_changed"
           e == [line |-> l, id |-> c, update |-> u]
<1>1. /\ clusters \in Seq(ClusterType) /\ log \in Seq(EntryType) /\ batch \in Seq(Lines)
      /\ Len(clusters) \in Nat /\ Len(log) \in Nat /\ Len(batch) \in Nat
      /\ DOMAIN clusters = 1..Len(clusters) /\ c \in 1..Len(clusters)
  BY DEF GrouperInv, ShapesOK, Joined
<1>2. Logged(l, c)
  <2>1. u \in UpdateTypes
    BY DEF UpdateTypes
  <2> QED
    BY <2>1 DEF Logged, Joined
<1>3. /\ Miner!Report(log', c) = kept
      /\ \A m \in Miner!Contents(log', c) : Len(m) = Len(new)
      /\ Miner!Assigned(log', c) # {}
      /\ new \in Seq(Words)
  BY <1>2, ReportExtends DEF Joined
<1>4. e \in EntryType /\ e.id = c
  BY <1>1 DEF EntryType, UpdateTypes
<1>5. clusters[c].size \in Nat
  <2>1. clusters[c] \in ClusterType
    BY <1>1
  <2> QED
    BY <2>1 DEF ClusterType
<1>6. kept \in ClusterType /\ kept.template = new
  BY <1>3, <1>5 DEF ClusterType
<1>7. log' = Append(log, e) /\ clusters' = [clusters EXCEPT ![c] = kept]
  BY DEF Joined
<1> HIDE DEF new, kept, u, e
<1>8. /\ clusters' \in Seq(ClusterType) /\ Len(clusters') = Len(clusters)
      /\ DOMAIN clusters' = DOMAIN clusters
      /\ clusters'[c] = kept
      /\ \A d \in DOMAIN clusters : d # c => clusters'[d] = clusters[d]
  BY <1>1, <1>6, <1>7
<1>9. /\ log' \in Seq(EntryType) /\ Len(log') = Len(log) + 1
      /\ \A i \in DOMAIN log' : log'[i] = e \/ (i \in DOMAIN log /\ log'[i] = log[i])
  BY <1>1, <1>4, <1>7
<1>10. ShapesOK'
  <2>1. \A i \in DOMAIN log' : log'[i].id \in 1..Len(clusters)
    BY <1>1, <1>4, <1>9 DEF GrouperInv, ShapesOK
  <2> QED
    BY <1>1, <1>8, <1>9, <2>1 DEF GrouperInv, ShapesOK
<1>11. ReportsExact'
  <2> SUFFICES ASSUME NEW d \in DOMAIN clusters
               PROVE  /\ Miner!Assigned(log', d) # {}
                      /\ \A m \in Miner!Contents(log', d) : Len(m) = Len(clusters'[d].template)
                      /\ clusters'[d] = Miner!Report(log', d)
    BY <1>8 DEF ReportsExact
  <2>1. CASE d = c
    BY <1>3, <1>6, <1>8, <2>1
  <2>2. CASE d # c
    <3>1. /\ Miner!Assigned(log', d) = Miner!Assigned(log, d)
          /\ Miner!Contents(log', d) = Miner!Contents(log, d)
          /\ Miner!Report(log', d) = Miner!Report(log, d)
      BY <1>1, <1>2, <2>2, ReportUnaffected DEF GrouperInv
    <3> QED
      BY <1>8, <2>2, <3>1 DEF GrouperInv, ReportsExact
  <2> QED
    BY <2>1, <2>2
<1> QED
  BY <1>3, <1>8, <1>10, <1>11 DEF GrouperInv

LEMMA OpenInv ==
  ASSUME GrouperInv, NEW l \in Lines, Open(l), Len(log) < Len(batch), UNCHANGED batch
  PROVE  /\ GrouperInv'
         /\ Miner!Assigned(log, Len(clusters) + 1) = {}
         /\ clusters' = [d \in DOMAIN clusters \cup {Len(clusters) + 1} |->
                           IF d = Len(clusters) + 1 THEN Miner!Report(log', d) ELSE clusters[d]]
<1> DEFINE c == Len(clusters) + 1
           kept == [template |-> TokensOf[l], size |-> 1]
           e == [line |-> l, id |-> c, update |-> "cluster_created"]
<1>1. /\ clusters \in Seq(ClusterType) /\ log \in Seq(EntryType) /\ batch \in Seq(Lines)
      /\ Len(clusters) \in Nat /\ Len(log) \in Nat /\ Len(batch) \in Nat
      /\ DOMAIN clusters = 1..Len(clusters) /\ c \in Nat
  BY DEF GrouperInv, ShapesOK
<1>2. Logged(l, c)
  BY DEF Logged, Open, UpdateTypes
<1>3. /\ Miner!Assigned(log, c) = {} /\ Miner!Assigned(log', c) # {}
      /\ \A m \in Miner!Contents(log', c) : Len(m) = Len(kept.template)
      /\ Miner!Report(log', c) = kept
  BY <1>2, FreshReport
<1>4. e \in EntryType /\ e.id = c
  BY <1>1 DEF EntryType, UpdateTypes
<1>5. kept \in ClusterType
  BY LineTokens DEF ClusterType
<1>6. log' = Append(log, e) /\ clusters' = Append(clusters, kept)
  BY DEF Open
<1>7. \A d \in DOMAIN clusters : d # c
  BY <1>1
<1>0. c = Len(clusters) + 1
  OBVIOUS
<1> HIDE DEF c, kept, e
<1>8. /\ clusters' \in Seq(ClusterType) /\ Len(clusters') = c
      /\ DOMAIN clusters' = DOMAIN clusters \cup {c}
      /\ clusters'[c] = kept
      /\ \A d \in DOMAIN clusters : clusters'[d] = clusters[d]
  BY <1>0, <1>1, <1>5, <1>6
<1>9. /\ log' \in Seq(EntryType) /\ Len(log') = Len(log) + 1
      /\ \A i \in DOMAIN log' : log'[i] = e \/ (i \in DOMAIN log /\ log'[i] = log[i])
  BY <1>1, <1>4, <1>6
<1>10. ShapesOK'
  <2>1. \A i \in DOMAIN log' : log'[i].id \in 1..c
    BY <1>0, <1>1, <1>4, <1>9 DEF GrouperInv, ShapesOK
  <2> QED
    BY <1>0, <1>1, <1>8, <1>9, <2>1 DEF GrouperInv, ShapesOK
<1>11. ReportsExact'
  <2> SUFFICES ASSUME NEW d \in DOMAIN clusters \cup {c}
               PROVE  /\ Miner!Assigned(log', d) # {}
                      /\ \A m \in Miner!Contents(log', d) : Len(m) = Len(clusters'[d].template)
                      /\ clusters'[d] = Miner!Report(log', d)
    BY <1>8 DEF ReportsExact
  <2>1. CASE d = c
    BY <1>3, <1>8, <2>1
  <2>2. CASE d # c
    <3>1. /\ Miner!Assigned(log', d) = Miner!Assigned(log, d)
          /\ Miner!Contents(log', d) = Miner!Contents(log, d)
          /\ Miner!Report(log', d) = Miner!Report(log, d)
      BY <1>1, <1>2, <2>2, ReportUnaffected DEF GrouperInv
    <3> QED
      BY <1>8, <2>2, <3>1 DEF GrouperInv, ReportsExact
  <2> QED
    BY <2>1, <2>2
<1>12. clusters' = [d \in DOMAIN clusters \cup {c} |->
                      IF d = c THEN Miner!Report(log', d) ELSE clusters[d]]
  <2>1. clusters' \in [1..c -> ClusterType] /\ DOMAIN clusters' = 1..c
    <3>1. \A s \in Seq(ClusterType) : s \in [1..Len(s) -> ClusterType] /\ DOMAIN s = 1..Len(s)
      OBVIOUS
    <3> QED
      BY <1>8, <3>1
  <2>2. \A d \in DOMAIN clusters' :
          clusters'[d] = IF d = c THEN Miner!Report(log', d) ELSE clusters[d]
    BY <1>3, <1>7, <1>8
  <2> QED
    BY <1>8, <2>1, <2>2
<1> QED
  BY <1>0, <1>3, <1>10, <1>11, <1>12 DEF GrouperInv

-----------------------------------------------------------------------------
LEMMA InitInv == Init => GrouperInv
<1> SUFFICES ASSUME Init PROVE GrouperInv
  OBVIOUS
<1>1. PICK n \in 1..MaxLines : batch \in [1..n -> Lines]
  BY DEF Init
<1>2. batch \in Seq(Lines) /\ Len(batch) = n /\ n \in Nat /\ n <= MaxLines
  BY <1>1, BatchAssumption
<1>3. clusters = <<>> /\ log = <<>>
  BY DEF Init
<1> QED
  BY <1>2, <1>3 DEF GrouperInv, ShapesOK, ReportsExact

LEMMA NextInv == GrouperInv /\ [Next]_vars => GrouperInv'
<1> SUFFICES ASSUME GrouperInv, [Next]_vars PROVE GrouperInv'
  OBVIOUS
<1>1. CASE Next
  <2>1. Len(log) < Len(batch) /\ batch[Len(log) + 1] \in Lines /\ UNCHANGED batch
    BY <1>1, NextLine DEF Next, GrouperInv
  <2>2. CASE Join(batch[Len(log) + 1])
    BY <2>1, <2>2, JoinJoins, JoinInv
  <2>3. CASE Open(batch[Len(log) + 1])
    BY <2>1, <2>3, OpenInv
  <2> QED
    BY <1>1, <2>2, <2>3 DEF Next
<1>2. CASE UNCHANGED vars
  <2>1. batch' = batch /\ clusters' = clusters /\ log' = log
    BY <1>2 DEF vars
  <2>2. ShapesOK'
    BY <2>1 DEF GrouperInv, ShapesOK
  <2>3. \A c : /\ Miner!Assigned(log', c) = Miner!Assigned(log, c)
              /\ Miner!Contents(log', c) = Miner!Contents(log, c)
              /\ Miner!Report(log', c) = Miner!Report(log, c)
    BY <2>1
  <2>4. ReportsExact'
    BY <2>1, <2>3 DEF GrouperInv, ReportsExact
  <2> QED
    BY <2>2, <2>4 DEF GrouperInv
<1> QED
  BY <1>1, <1>2

(* A step of the grouper is a step of the miner.                           *)
LEMMA JoinRefines ==
  ASSUME GrouperInv, NEW l \in Lines, NEW c, Joined(l, c),
         Len(log) < Len(batch), UNCHANGED batch
  PROVE  Miner!Join(l, c) /\ c \in 1..MaxLines
<1> DEFINE new == Merge(clusters[c].template, TokensOf[l])
           u == IF new = clusters[c].template THEN "none" ELSE "cluster_template_changed"
<1>1. c \in DOMAIN clusters /\ Len(clusters[c].template) = Len(TokensOf[l])
  BY DEF Joined
<1>2. \A m \in Miner!Contents(log, c) : Len(m) = Len(TokensOf[l])
  BY <1>1 DEF GrouperInv, ReportsExact
<1>3. clusters'[c] = Miner!Report(log', c)
  BY JoinInv
<1>4. /\ clusters' = [clusters EXCEPT ![c] = clusters'[c]]
      /\ clusters'[c].template = new
      /\ log' = Append(log, [line |-> l, id |-> c, update |-> u])
  BY <1>1 DEF Joined
<1>5. u \in {"cluster_template_changed", "none"} /\ (u = "none" <=> new = clusters[c].template)
  OBVIOUS
<1>6. c \in 1..MaxLines
  BY <1>1, BatchAssumption DEF GrouperInv, ShapesOK
<1> HIDE DEF new, u
<1>7. clusters' = [clusters EXCEPT ![c] = Miner!Report(log', c)]
  BY <1>3, <1>4
<1> QED
  BY <1>1, <1>2, <1>4, <1>5, <1>6, <1>7 DEF Miner!Join

LEMMA OpenRefines ==
  ASSUME GrouperInv, NEW l \in Lines, Open(l), Len(log) < Len(batch), UNCHANGED batch
  PROVE  Miner!Open(l, Len(clusters) + 1) /\ Len(clusters) + 1 \in 1..MaxLines
<1> DEFINE c == Len(clusters) + 1
<1>1. /\ Miner!Assigned(log, c) = {}
      /\ clusters' = [d \in DOMAIN clusters \cup {c} |->
                        IF d = c THEN Miner!Report(log', d) ELSE clusters[d]]
  BY OpenInv
<1>2. log' = Append(log, [line |-> l, id |-> c, update |-> "cluster_created"])
  BY DEF Open
<1>3. c \in 1..MaxLines
  BY BatchAssumption DEF GrouperInv, ShapesOK
<1> HIDE DEF c
<1>4. {} \in SUBSET DOMAIN clusters /\ Miner!Cardinality({}) <= 1
  BY FS_EmptySet, SameCardinality
<1>5. clusters' = [d \in (DOMAIN clusters \ {}) \cup {c} |->
                     IF d = c THEN Miner!Report(log', c) ELSE clusters[d]]
  BY <1>1
<1>6. Miner!Open(l, c)
  BY <1>1, <1>2, <1>4, <1>5 DEF Miner!Open
<1> QED
  BY <1>3, <1>6 DEF c

LEMMA StepRefines ==
  ASSUME GrouperInv, [Next]_vars PROVE [Miner!MinerNext]_(Miner!minerVars)
<1>1. CASE Next
  <2> DEFINE l == batch[Len(log) + 1]
  <2>1. Len(log) < Len(batch) /\ l \in Lines /\ UNCHANGED batch
    BY <1>1, NextLine DEF Next, GrouperInv
  <2>2. Len(log) < MaxLines
    BY <2>1, BatchAssumption DEF GrouperInv, ShapesOK
  <2>3. Join(l) \/ Open(l)
    BY <1>1 DEF Next
  <2> HIDE DEF l
  <2>4. \E c \in 1..MaxLines : Miner!Join(l, c) \/ Miner!Open(l, c)
    <3>1. CASE Join(l)
      BY <2>1, <3>1, JoinJoins, JoinRefines
    <3>2. CASE Open(l)
      BY <2>1, <3>2, OpenRefines
    <3> QED
      BY <2>3, <3>1, <3>2
  <2> QED
    BY <2>1, <2>2, <2>4 DEF Miner!MinerNext
<1>2. CASE UNCHANGED vars
  BY <1>2 DEF vars, Miner!minerVars
<1> QED
  BY <1>1, <1>2

(* StatisticalGrouper::group keeps of each cluster exactly the tokens that *)
(* all its lines share, and their number: it implements the same abstract  *)
(* template miner as the Drain engine does.                                *)
THEOREM GrouperMines == Spec => GroupsAreMined
<1>1. Init => Miner!MinerInit
  BY DEF Init, Miner!MinerInit
<1>2. GrouperInv /\ [Next]_vars => [Miner!MinerNext]_(Miner!minerVars)
  BY StepRefines
<1> QED
  BY <1>1, <1>2, InitInv, NextInv, PTL DEF Spec, GroupsAreMined, Miner!MinerSpec

-----------------------------------------------------------------------------
(* Joined clusters stay anchored.                                          *)

CharsAt(t, S) == MapThenSumSet(LAMBDA i : Chars[t[i]], S)

(* The anchors of the lines that a log gives to a cluster, counted.        *)
Counts(lg, c) ==
  {Cardinality(AnchorsAt(TokensOf[lg[i].line])) : i \in {j \in DOMAIN lg : lg[j].id = c}}

StaysAnchored(t, counts) ==
  /\ Cardinality(AnchorsAt(t)) >= Min({MinRemainingAnchors, Min(counts)})
  /\ CharsAt(t, AnchorsAt(t)) >= MinStaticChars

AllStayAnchored ==
  \A c \in DOMAIN clusters :
    clusters[c].size > 1 => StaysAnchored(clusters[c].template, Counts(log, c))

LEMMA AnchoredSays == JoinedStayAnchored <=> AllStayAnchored
BY DEF JoinedStayAnchored, AllStayAnchored, StaysAnchored, CharsAt, Counts

(* Sums over the same tokens are the same.                                 *)
LEMMA SameChars ==
  ASSUME NEW S, NEW t, NEW u, \A i \in S : t[i] = u[i]
  PROVE  CharsAt(t, S) = CharsAt(u, S)
<1> DEFINE pick(s) == CHOOSE x \in s : TRUE
           Sums(w, f) == [s \in SUBSET S |->
                            IF s = {} THEN 0 ELSE Chars[w[pick(s)]] + f[s \ {pick(s)}]]
<1>1. \A s \in SUBSET S : s # {} => pick(s) \in S
  OBVIOUS
<1>2. \A f : Sums(t, f) = Sums(u, f)
  BY <1>1
<1>3. \A w : CharsAt(w, S) = (CHOOSE f : f = Sums(w, f))[S]
  BY DEF CharsAt, MapThenSumSet, MapThenFoldSet
<1> HIDE DEF Sums
<1>4. (CHOOSE f : f = Sums(t, f)) = (CHOOSE f : f = Sums(u, f))
  BY <1>2
<1> QED
  BY <1>3, <1>4

LEMMA LeastOf ==
  ASSUME NEW S, S \subseteq Nat, S # {}
  PROVE  Min(S) \in S /\ \A y \in S : Min(S) <= y
BY LeastNatural DEF Min

LEMMA LargerOf ==
  ASSUME NEW a \in Nat, NEW b \in Nat
  PROVE  Max({a, b}) \in Nat /\ Max({a, b}) >= b
<1>1. \E x \in {a, b} : \A y \in {a, b} : x >= y
  OBVIOUS
<1> QED
  BY <1>1 DEF Max

(* A token sequence has finitely many anchors.                             *)
LEMMA AnchorsFinite ==
  ASSUME NEW toks \in Seq(Words), NEW S, S \subseteq AnchorsAt(toks)
  PROVE  IsFiniteSet(S) /\ Cardinality(S) \in Nat
<1>1. Len(toks) \in Nat /\ S \subseteq 1..Len(toks)
  BY DEF AnchorsAt
<1>2. IsFiniteSet(1..Len(toks))
  BY <1>1, FS_Interval
<1> QED
  BY <1>1, <1>2, FS_Subset, FS_CardinalityType

(* What is required of a line is enough for lines with fewer anchors.      *)
LEMMA RequiredIsEnough ==
  ASSUME NEW toks \in Seq(Words), NEW k \in Nat, k <= Cardinality(AnchorsAt(toks)),
         NEW n \in Nat, n >= Required(toks)
  PROVE  n >= Min({MinRemainingAnchors, k})
<1> DEFINE a == Cardinality(AnchorsAt(toks))
           m == Max({1, a})
<1>1. a \in Nat
  BY AnchorsFinite
<1>2. m \in Nat /\ m >= a
  BY <1>1, LargerOf
<1>3. Required(toks) = Min({MinRemainingAnchors, m})
  BY DEF Required
<1>0. k <= a
  OBVIOUS
<1> HIDE DEF a, m
<1>4. MinRemainingAnchors \in Nat
  BY LimitsAssumption
<1>5. Min({MinRemainingAnchors, m}) \in {MinRemainingAnchors, m}
  BY <1>2, <1>4, LeastOf
<1>6. /\ Min({MinRemainingAnchors, k}) \in {MinRemainingAnchors, k}
      /\ Min({MinRemainingAnchors, k}) <= MinRemainingAnchors
      /\ Min({MinRemainingAnchors, k}) <= k
  <2>1. {MinRemainingAnchors, k} \subseteq Nat /\ {MinRemainingAnchors, k} # {}
    BY <1>4
  <2> QED
    BY <2>1, LeastOf
<1> QED
  BY <1>0, <1>1, <1>2, <1>3, <1>4, <1>5, <1>6

(* The anchors of a merged template are those the line shares.             *)
LEMMA AnchorsOfMerge ==
  ASSUME NEW c, NEW toks \in Seq(Words), clusters[c].template \in Seq(Words),
         Len(clusters[c].template) = Len(toks)
  PROVE  LET new == Merge(clusters[c].template, toks)
         IN  /\ AnchorsAt(new) = Shared(c, toks)
             /\ \A i \in Shared(c, toks) : new[i] = toks[i]
<1> DEFINE old == clusters[c].template
           new == Merge(old, toks)
<1>1. DOMAIN old = 1..Len(toks) /\ DOMAIN toks = 1..Len(toks)
  OBVIOUS
<1>2. new = [i \in 1..Len(toks) |-> IF old[i] = toks[i] THEN toks[i] ELSE None]
  BY <1>1 DEF Merge
<1>3. Shared(c, toks) = {i \in AnchorsAt(toks) : old[i] = toks[i]}
  BY DEF Shared
<1> HIDE DEF old, new
<1>4. AnchorsAt(new) = Shared(c, toks)
  BY <1>1, <1>2, <1>3, AnchorAssumption DEF AnchorsAt
<1>5. \A i \in Shared(c, toks) : new[i] = toks[i]
  BY <1>1, <1>2, <1>3 DEF AnchorsAt
<1> QED
  BY <1>4, <1>5 DEF new, old

(* One more entry for cluster c counts its anchors, and for no other.      *)
LEMMA CountsGrow ==
  ASSUME NEW lg \in Seq(EntryType), NEW e \in EntryType
  PROVE  /\ Cardinality(AnchorsAt(TokensOf[e.line])) \in Counts(Append(lg, e), e.id)
         /\ \A d : Counts(Append(lg, e), d) \subseteq Nat
         /\ \A d : d # e.id => Counts(Append(lg, e), d) = Counts(lg, d)
<1> DEFINE N == Len(lg)
           longer == Append(lg, e)
<1>1. N \in Nat /\ DOMAIN lg = 1..N
  OBVIOUS
<1>2. /\ DOMAIN longer = 1..(N+1)
      /\ \A i \in 1..N : longer[i] = lg[i]
      /\ longer[N+1] = e
      /\ longer \in Seq(EntryType)
  OBVIOUS
<1> HIDE DEF longer, N
<1>3. Cardinality(AnchorsAt(TokensOf[e.line])) \in Counts(longer, e.id)
  BY <1>1, <1>2 DEF Counts
<1>4. ASSUME NEW d PROVE Counts(longer, d) \subseteq Nat
  <2>1. \A i \in DOMAIN longer : longer[i].line \in Lines
    <3>1. \A i \in 1..N : lg[i] \in EntryType
      BY DEF N
    <3>2. \A i \in DOMAIN longer : longer[i] \in EntryType
      BY <1>1, <1>2, <3>1
    <3> QED
      BY <3>2 DEF EntryType
  <2>2. \A l \in Lines : Cardinality(AnchorsAt(TokensOf[l])) \in Nat
    BY LineTokens, AnchorsFinite
  <2> QED
    BY <2>1, <2>2 DEF Counts
<1>5. ASSUME NEW d, d # e.id PROVE Counts(longer, d) = Counts(lg, d)
  <2>1. {j \in DOMAIN longer : longer[j].id = d} = {j \in DOMAIN lg : lg[j].id = d}
    BY <1>1, <1>2, <1>5
  <2>2. \A j \in {j \in DOMAIN lg : lg[j].id = d} : longer[j] = lg[j]
    BY <1>1, <1>2
  <2> QED
    BY <2>1, <2>2 DEF Counts
<1> QED
  BY <1>3, <1>4, <1>5 DEF longer

LEMMA JoinStaysAnchored ==
  ASSUME GrouperInv, NEW l \in Lines, NEW c, Joined(l, c), Admits(c, TokensOf[l])
  PROVE  StaysAnchored(clusters'[c].template, Counts(log', c))
<1> DEFINE toks == TokensOf[l]
           new == Merge(clusters[c].template, toks)
<1>1. toks \in Seq(Words)
  BY LineTokens
<1>2. /\ clusters[c].template \in Seq(Words) /\ c \in Nat
      /\ clusters'[c].template = new /\ Len(clusters[c].template) = Len(toks)
  <2>1. clusters[c] \in ClusterType /\ c \in Nat
    BY DEF GrouperInv, ShapesOK, Joined
  <2> QED
    BY <2>1 DEF ClusterType, Joined
<1>3. /\ AnchorsAt(new) = Shared(c, toks)
      /\ \A i \in Shared(c, toks) : new[i] = toks[i]
  BY <1>1, <1>2, AnchorsOfMerge
<1>4. PICK u \in UpdateTypes : log' = Append(log, [line |-> l, id |-> c, update |-> u])
  BY DEF Joined, UpdateTypes
<1>5. Counts(log', c) \subseteq Nat /\ Cardinality(AnchorsAt(toks)) \in Counts(log', c)
  <2> DEFINE e == [line |-> l, id |-> c, update |-> u]
  <2>1. e \in EntryType /\ e.id = c /\ e.line = l /\ log \in Seq(EntryType)
    BY <1>2 DEF EntryType, GrouperInv, ShapesOK
  <2>2. log' = Append(log, e)
    BY <1>4
  <2> HIDE DEF e
  <2> QED
    BY <2>1, <2>2, CountsGrow
<1>6. /\ Cardinality(Shared(c, toks)) >= Required(toks)
      /\ CharsAt(toks, Shared(c, toks)) >= MinStaticChars
  BY DEF Admits, CharsAt
<1>7. Cardinality(Shared(c, toks)) \in Nat
  BY <1>1, AnchorsFinite DEF Shared
<1>8. Min(Counts(log', c)) \in Nat /\ Min(Counts(log', c)) <= Cardinality(AnchorsAt(toks))
  BY <1>5, LeastOf
<1> HIDE DEF toks, new
<1>9. Cardinality(AnchorsAt(new)) >= Min({MinRemainingAnchors, Min(Counts(log', c))})
  BY <1>1, <1>3, <1>6, <1>7, <1>8, RequiredIsEnough
<1>10. CharsAt(new, AnchorsAt(new)) = CharsAt(toks, Shared(c, toks))
  BY <1>3, SameChars
<1> QED
  BY <1>2, <1>6, <1>9, <1>10 DEF StaysAnchored

(* A step leaves the clusters it does not choose as they are.              *)
LEMMA OthersStayAnchored ==
  ASSUME GrouperInv, JoinedStayAnchored, NEW l \in Lines, NEW c \in Nat, Logged(l, c),
         NEW d \in DOMAIN clusters, d # c, clusters'[d] = clusters[d], clusters'[d].size > 1
  PROVE  StaysAnchored(clusters'[d].template, Counts(log', d))
<1>1. PICK u \in UpdateTypes : log' = Append(log, [line |-> l, id |-> c, update |-> u])
  BY DEF Logged
<1> DEFINE e == [line |-> l, id |-> c, update |-> u]
<1>2. e \in EntryType /\ e.id = c /\ log \in Seq(EntryType)
  BY DEF EntryType, GrouperInv, ShapesOK
<1>3. log' = Append(log, e)
  BY <1>1
<1> HIDE DEF e
<1>4. Counts(log', d) = Counts(log, d)
  BY <1>2, <1>3, CountsGrow
<1>5. StaysAnchored(clusters[d].template, Counts(log, d))
  BY AnchoredSays DEF AllStayAnchored
<1> QED
  BY <1>4, <1>5

LEMMA AnchoredNext ==
  ASSUME GrouperInv, JoinedStayAnchored, [Next]_vars
  PROVE  JoinedStayAnchored'
<1>0. JoinedStayAnchored' <=> AllStayAnchored'
  BY AnchoredSays, PTL
<1> SUFFICES ASSUME NEW d \in DOMAIN clusters', clusters'[d].size > 1
             PROVE  StaysAnchored(clusters'[d].template, Counts(log', d))
  BY <1>0 DEF AllStayAnchored
<1>1. CASE Next
  <2> DEFINE l == batch[Len(log) + 1]
  <2>1. l \in Lines
    BY <1>1, NextLine DEF Next, GrouperInv
  <2>2. Join(l) \/ Open(l)
    BY <1>1 DEF Next
  <2> HIDE DEF l
  <2>3. clusters \in Seq(ClusterType) /\ Len(clusters) \in Nat /\ DOMAIN clusters = 1..Len(clusters)
    BY DEF GrouperInv, ShapesOK
  <2>4. CASE Join(l)
    <3>1. PICK c \in Best(TokensOf[l]) : Joined(l, c)
      BY <2>4, JoinJoins
    <3>2. Admits(c, TokensOf[l]) /\ c \in Nat /\ Logged(l, c)
      BY <2>3, <3>1 DEF Best, Joined, Logged, UpdateTypes
    <3>3. CASE d = c
      BY <2>1, <3>1, <3>2, <3>3, JoinStaysAnchored
    <3>4. CASE d # c
      <4>1. d \in DOMAIN clusters /\ clusters'[d] = clusters[d]
        BY <3>1, <3>4 DEF Joined
      <4> QED
        BY <2>1, <3>2, <3>4, <4>1, OthersStayAnchored
    <3> QED
      BY <3>3, <3>4
  <2>5. CASE Open(l)
    <3> DEFINE c == Len(clusters) + 1
               kept == [template |-> TokensOf[l], size |-> 1]
    <3>1. clusters' = Append(clusters, kept) /\ Logged(l, c)
      BY <2>5 DEF Open, Logged, UpdateTypes
    <3>2. kept.size = 1 /\ c \in Nat /\ c \notin DOMAIN clusters
      BY <2>3
    <3>3. /\ DOMAIN clusters' = DOMAIN clusters \cup {c} /\ clusters'[c] = kept
          /\ \A k \in DOMAIN clusters : clusters'[k] = clusters[k]
      <4> HIDE DEF kept
      <4> QED
        BY <2>3, <3>1
    <3> HIDE DEF c, kept
    <3>4. d \in DOMAIN clusters /\ d # c /\ clusters'[d] = clusters[d]
      BY <3>2, <3>3
    <3> QED
      BY <2>1, <3>1, <3>2, <3>4, OthersStayAnchored
  <2> QED
    BY <2>2, <2>4, <2>5
<1>2. CASE UNCHANGED vars
  <2>1. clusters' = clusters /\ log' = log
    BY <1>2 DEF vars
  <2>2. Counts(log', d) = Counts(log, d)
    BY <2>1
  <2> QED
    BY <2>1, <2>2, AnchoredSays DEF AllStayAnchored
<1> QED
  BY <1>1, <1>2

(* "Weak anchor" merges are refused for good: however many lines joined    *)
(* it, a joined cluster keeps MinStaticChars characters of anchors, and    *)
(* MinRemainingAnchors of them or all those of its line with the fewest.   *)
THEOREM JoinedAnchored == Spec => []JoinedStayAnchored
<1>1. Init => JoinedStayAnchored
  BY DEF Init, JoinedStayAnchored
<1>2. GrouperInv /\ JoinedStayAnchored /\ [Next]_vars => JoinedStayAnchored'
  BY AnchoredNext
<1> QED
  BY <1>1, <1>2, InitInv, NextInv, PTL DEF Spec
-----------------------------------------------------------------------------
(* Equal neighbours are grouped.  The choice of a cluster, as a function   *)
(* of the batch b and the clusters cl.                                     *)

SharedBy(t, toks) == {i \in AnchorsAt(toks) : t[i] = toks[i]}

IdfIn(b, tok) ==
  Weight[Len(b)][Cardinality({i \in DOMAIN b :
                    \E j \in DOMAIN TokensOf[b[i]] : TokensOf[b[i]][j] = tok})]

WeightOn(b, S, toks) == MapThenSumSet(LAMBDA i : IdfIn(b, toks[i]), S)

AdmitsBy(len, shared, toks) ==
  /\ len = Len(toks)
  /\ Cardinality(AnchorsAt(toks)) > 0
  /\ Cardinality(shared) >= Min({MinSharedAnchors, Required(toks)})
  /\ SimNum * Cardinality(AnchorsAt(toks)) <= SimDen * Cardinality(shared)
  /\ Cardinality(shared) >= Required(toks)
  /\ CharsAt(toks, shared) >= MinStaticChars

(* c goes before d, weights w and numbers n of anchors being given.        *)
Precedes(w, n, c, d) == w[c] > w[d] \/ (w[c] = w[d] /\ (n[c] > n[d] \/ (n[c] = n[d] /\ c < d)))

Admitting(cl, toks) ==
  {c \in DOMAIN cl : AdmitsBy(Len(cl[c].template), SharedBy(cl[c].template, toks), toks)}

WeightsIn(b, cl, toks) == [c \in DOMAIN cl |-> WeightOn(b, SharedBy(cl[c].template, toks), toks)]

NumbersIn(cl, toks) == [c \in DOMAIN cl |-> Cardinality(SharedBy(cl[c].template, toks))]

BestIn(b, cl, toks) ==
  {c \in Admitting(cl, toks) : \A d \in Admitting(cl, toks) \ {c} :
     Precedes(WeightsIn(b, cl, toks), NumbersIn(cl, toks), c, d)}

LEMMA BestSays ==
  ASSUME NEW toks PROVE Best(toks) = BestIn(batch, clusters, toks)
<1>1. \A c : Shared(c, toks) = SharedBy(clusters[c].template, toks)
  BY DEF Shared, SharedBy
<1>2. \A c : MatchWeight(c, toks) = WeightOn(batch, SharedBy(clusters[c].template, toks), toks)
  BY <1>1 DEF MatchWeight, WeightOn, Idf, IdfIn
<1>3. \A c : Admits(c, toks)
               <=> AdmitsBy(Len(clusters[c].template), SharedBy(clusters[c].template, toks), toks)
  BY <1>1 DEF Admits, AdmitsBy, CharsAt
<1>4. {c \in DOMAIN clusters : Admits(c, toks)} = Admitting(clusters, toks)
  BY <1>3 DEF Admitting
<1>5. \A c, d \in DOMAIN clusters :
        Better(c, d, toks)
          <=> Precedes(WeightsIn(batch, clusters, toks), NumbersIn(clusters, toks), c, d)
  BY <1>1, <1>2 DEF Better, Precedes, WeightsIn, NumbersIn
<1>6. Admitting(clusters, toks) \subseteq DOMAIN clusters
  BY DEF Admitting
<1> QED
  BY <1>4, <1>5, <1>6 DEF Best, BestIn

(* The weight of a token that is in the batch, and of several of them.     *)
LEMMA IdfType ==
  ASSUME NEW b \in Seq(Lines), Len(b) <= MaxLines, NEW k \in DOMAIN b,
         NEW j \in DOMAIN TokensOf[b[k]]
  PROVE  IdfIn(b, TokensOf[b[k]][j]) \in Nat
<1> DEFINE n == Len(b)
           having == {i \in DOMAIN b : \E m \in DOMAIN TokensOf[b[i]] :
                        TokensOf[b[i]][m] = TokensOf[b[k]][j]}
<1>1. n \in Nat /\ DOMAIN b = 1..n /\ k \in 1..n
  OBVIOUS
<1>3. having \in SUBSET (1..n) /\ k \in having
  BY <1>1
<1> HIDE DEF having, n
<1>2. IsFiniteSet(1..n) /\ Cardinality(1..n) = n
  BY <1>1, FS_Interval
<1>4. IsFiniteSet(having) /\ Cardinality(having) \in Nat /\ Cardinality(having) <= n
  BY <1>2, <1>3, FS_Subset, FS_CardinalityType
<1>5. Cardinality(having) # 0
  BY <1>3, <1>4, FS_EmptySet
<1>6. Cardinality(having) \in 1..n /\ n \in 1..MaxLines
  BY <1>1, <1>4, <1>5, BatchAssumption DEF n
<1>7. Weight[n][Cardinality(having)] \in Nat
  BY <1>6, WeightAssumption
<1> QED
  BY <1>7 DEF IdfIn, having, n

LEMMA WeightType ==
  ASSUME NEW b, NEW S, IsFiniteSet(S), NEW toks, \A i \in S : IdfIn(b, toks[i]) \in Nat
  PROVE  WeightOn(b, S, toks) \in Nat
<1> DEFINE pick == [s \in SUBSET S |-> CHOOSE x \in s : TRUE]
           op == [p \in S \X Nat |-> IdfIn(b, toks[p[1]]) + p[2]]
           Sums(f) == [s \in SUBSET S |->
                         IF s = {} THEN 0
                         ELSE IdfIn(b, toks[CHOOSE x \in s : TRUE])
                                + f[s \ {CHOOSE x \in s : TRUE}]]
<1>0. \A s \in SUBSET S : pick[s] = (CHOOSE x \in s : TRUE)
  OBVIOUS
<1>1. \A s \in SUBSET S : s # {} => pick[s] \in s
  OBVIOUS
<1>2. \A x \in S, v \in Nat : op[<<x, v>>] = IdfIn(b, toks[x]) + v
  OBVIOUS
<1>4. WeightOn(b, S, toks) = (CHOOSE f : f = Sums(f))[S]
  BY DEF WeightOn, MapThenSumSet, MapThenFoldSet
<1>a. \A f : Sums(f) = [s \in SUBSET S |->
               IF s = {} THEN 0 ELSE IdfIn(b, toks[pick[s]]) + f[s \ {pick[s]}]]
  BY <1>0
<1> HIDE DEF pick, op, Sums
<1>3. \A x \in S, v \in Nat : op[<<x, v>>] \in Nat
  <2>1. \A i \in S, v \in Nat : IdfIn(b, toks[i]) + v \in Nat
    OBVIOUS
  <2> QED
    BY <1>2, <2>1
<1>5. \A f : /\ Sums(f) = [s \in SUBSET S |-> Sums(f)[s]]
             /\ Sums(f)[{}] = 0
             /\ \A s \in SUBSET S : s # {} =>
                  Sums(f)[s] = IdfIn(b, toks[pick[s]]) + f[s \ {pick[s]}]
  <2> SUFFICES ASSUME NEW f
               PROVE  /\ Sums(f) = [s \in SUBSET S |-> Sums(f)[s]]
                      /\ Sums(f)[{}] = 0
                      /\ \A s \in SUBSET S : s # {} =>
                           Sums(f)[s] = IdfIn(b, toks[pick[s]]) + f[s \ {pick[s]}]
    OBVIOUS
  <2>1. Sums(f) = [s \in SUBSET S |->
           IF s = {} THEN 0 ELSE IdfIn(b, toks[pick[s]]) + f[s \ {pick[s]}]]
    BY <1>a
  <2> QED
    BY <2>1
<1>6. PICK fold \in [SUBSET S -> Nat] :
        /\ fold[{}] = 0
        /\ \A s \in SUBSET S : s # {} => fold[s] = op[<<pick[s], fold[s \ {pick[s]}]>>]
        /\ \A f : FoldsOn(f, S, Nat, 0, pick, op) => f = fold
  <2>1. CanFold(S, Nat, 0, pick, op)
    BY <1>1, <1>3 DEF CanFold
  <2> QED
    BY <2>1, FoldsOneWay
<1>7. fold = Sums(fold)
  <2>1. ASSUME NEW s \in SUBSET S, s # {}
        PROVE  fold[s] = IdfIn(b, toks[pick[s]]) + fold[s \ {pick[s]}]
    <3>1. pick[s] \in S /\ s \ {pick[s]} \in SUBSET S
      BY <1>1, <2>1
    <3>2. fold[s \ {pick[s]}] \in Nat
      BY <1>6, <3>1
    <3> QED
      BY <1>2, <1>6, <2>1, <3>1, <3>2
  <2>2. \A s \in SUBSET S : fold[s] = Sums(fold)[s]
    BY <1>5, <1>6, <2>1
  <2>3. fold = [s \in SUBSET S |-> fold[s]]
    BY <1>6
  <2> QED
    BY <1>5, <2>2, <2>3
<1>8. ASSUME NEW f, f = Sums(f) PROVE f = fold
  <2>1. f = [s \in SUBSET S |-> f[s]] /\ f[{}] = 0
    BY <1>5, <1>8
  <2>2. ASSUME NEW s \in SUBSET S, s # {}, f[s \ {pick[s]}] \in Nat
        PROVE  f[s] = op[<<pick[s], f[s \ {pick[s]}]>>]
    BY <1>1, <1>2, <1>5, <1>8, <2>2
  <2> QED
    BY <1>6, <2>1, <2>2 DEF FoldsOn
<1>9. (CHOOSE f : f = Sums(f)) = fold
  BY <1>7, <1>8
<1>10. fold[S] \in Nat
  BY <1>6
<1> QED
  BY <1>4, <1>9, <1>10

(* Precedes is a strict order in which any two clusters compare, so that   *)
(* of finitely many clusters exactly one precedes the others.              *)
LEMMA PrecedesOrders ==
  ASSUME NEW A, A \subseteq Nat, NEW w \in [A -> Nat], NEW n \in [A -> Nat]
  PROVE  /\ \A a, b \in A : ~ (Precedes(w, n, a, b) /\ Precedes(w, n, b, a))
         /\ \A a, b \in A : a # b => Precedes(w, n, a, b) \/ Precedes(w, n, b, a)
         /\ \A a, b, c \in A :
              Precedes(w, n, a, b) /\ Precedes(w, n, b, c) => Precedes(w, n, a, c)
<1>1. \A a \in A : w[a] \in Nat /\ n[a] \in Nat /\ a \in Nat
  OBVIOUS
<1>2. ASSUME NEW a \in A, NEW b \in A
      PROVE  /\ ~ (Precedes(w, n, a, b) /\ Precedes(w, n, b, a))
             /\ a # b => Precedes(w, n, a, b) \/ Precedes(w, n, b, a)
  <2>1. /\ w[a] \in Nat /\ w[b] \in Nat /\ n[a] \in Nat /\ n[b] \in Nat
        /\ a \in Nat /\ b \in Nat
    BY <1>1
  <2> QED
    BY <2>1 DEF Precedes
<1>3. ASSUME NEW a \in A, NEW b \in A, NEW c \in A,
             Precedes(w, n, a, b), Precedes(w, n, b, c)
      PROVE  Precedes(w, n, a, c)
  <2>1. /\ w[a] \in Nat /\ w[b] \in Nat /\ w[c] \in Nat
        /\ n[a] \in Nat /\ n[b] \in Nat /\ n[c] \in Nat
        /\ a \in Nat /\ b \in Nat /\ c \in Nat
    BY <1>1
  <2> QED
    BY <1>3, <2>1 DEF Precedes
<1> QED
  BY <1>2, <1>3

LEMMA OnePrecedes ==
  ASSUME NEW N \in Nat, NEW A, A \subseteq 1..N, A # {},
         NEW w \in [1..N -> Nat], NEW n \in [1..N -> Nat]
  PROVE  \E c \in A : \A d \in A \ {c} : Precedes(w, n, c, d)
<1>0. /\ \A a, b \in A : a # b => Precedes(w, n, a, b) \/ Precedes(w, n, b, a)
      /\ \A a, b, c \in A : Precedes(w, n, a, b) /\ Precedes(w, n, b, c) => Precedes(w, n, a, c)
  <2>1. 1..N \subseteq Nat
    OBVIOUS
  <2> QED
    BY <2>1, PrecedesOrders
<1> DEFINE First(c, B) == c \in B /\ \A d \in B \ {c} : Precedes(w, n, c, d)
           T == {k \in Nat : A \cap (1..k) # {} => \E c : First(c, A \cap (1..k))}
<1>1. 0 \in T
  OBVIOUS
<1>2. ASSUME NEW k \in Nat, k \in T PROVE k + 1 \in T
  <2> DEFINE B == A \cap (1..k)
             C == A \cap (1..(k + 1))
  <2> SUFFICES ASSUME C # {} PROVE \E c : First(c, C)
    OBVIOUS
  <2>1. B \subseteq A /\ A \subseteq Nat
    OBVIOUS
  <2>2. CASE k + 1 \notin A
    <3>1. C = B
      BY <2>2
    <3> QED
      BY <1>2, <3>1
  <2>3. CASE k + 1 \in A
    <3>1. C = B \cup {k + 1}
      BY <2>3
    <3>2. CASE B = {}
      <4>1. First(k + 1, C)
        BY <3>1, <3>2
      <4> QED
        BY <4>1
    <3>3. CASE B # {}
      <4>1. PICK c : First(c, B)
        BY <1>2, <3>3
      <4>2. c \in A /\ c # k + 1
        BY <2>1, <4>1
      <4>3. Precedes(w, n, c, k + 1) \/ Precedes(w, n, k + 1, c)
        BY <1>0, <2>3, <4>2
      <4>4. CASE Precedes(w, n, c, k + 1)
        <5>1. First(c, C)
          BY <3>1, <4>1, <4>4
        <5> QED
          BY <5>1
      <4>5. CASE Precedes(w, n, k + 1, c)
        <5>1. ASSUME NEW d \in B PROVE Precedes(w, n, k + 1, d)
          <6>1. d \in A /\ (d = c \/ Precedes(w, n, c, d))
            BY <4>1
          <6> QED
            BY <1>0, <2>3, <4>2, <4>5, <6>1
        <5>2. First(k + 1, C)
          BY <3>1, <5>1
        <5> QED
          BY <5>2
      <4> QED
        BY <4>3, <4>4, <4>5
    <3> QED
      BY <3>2, <3>3
  <2> QED
    BY <2>2, <2>3
<1>3. N \in T
  <2> HIDE DEF T
  <2> QED
    BY <1>1, <1>2, StepByStep
<1>4. A \cap (1..N) = A
  OBVIOUS
<1> QED
  BY <1>3, <1>4

(* The choice among the clusters of a batch, for a line of it.             *)
LEMMA ChoiceTypes ==
  ASSUME NEW b \in Seq(Lines), Len(b) <= MaxLines, NEW k \in DOMAIN b,
         NEW cl \in Seq(ClusterType)
  PROVE  LET toks == TokensOf[b[k]]
         IN  /\ DOMAIN cl = 1..Len(cl) /\ Len(cl) \in Nat
             /\ WeightsIn(b, cl, toks) \in [1..Len(cl) -> Nat]
             /\ NumbersIn(cl, toks) \in [1..Len(cl) -> Nat]
             /\ Admitting(cl, toks) \subseteq 1..Len(cl)
<1> DEFINE toks == TokensOf[b[k]]
<1>1. DOMAIN cl = 1..Len(cl) /\ Len(cl) \in Nat
  OBVIOUS
<1>2. toks \in Seq(Words)
  BY LineTokens
<1>3. \A i \in DOMAIN toks : IdfIn(b, toks[i]) \in Nat
  BY IdfType
<1> HIDE DEF toks
<1>4. ASSUME NEW c \in 1..Len(cl)
      PROVE  /\ WeightOn(b, SharedBy(cl[c].template, toks), toks) \in Nat
             /\ Cardinality(SharedBy(cl[c].template, toks)) \in Nat
  <2> DEFINE S == SharedBy(cl[c].template, toks)
  <2>1. S \subseteq AnchorsAt(toks)
    BY DEF SharedBy
  <2>2. AnchorsAt(toks) \subseteq DOMAIN toks
    BY DEF AnchorsAt
  <2> HIDE DEF S
  <2>3. IsFiniteSet(S) /\ Cardinality(S) \in Nat
    BY <1>2, <2>1, AnchorsFinite
  <2>4. \A i \in S : IdfIn(b, toks[i]) \in Nat
    BY <1>3, <2>1, <2>2
  <2>5. WeightOn(b, S, toks) \in Nat
    BY <2>3, <2>4, WeightType
  <2> QED
    BY <2>3, <2>5 DEF S
<1>5. /\ WeightsIn(b, cl, toks) \in [1..Len(cl) -> Nat]
      /\ NumbersIn(cl, toks) \in [1..Len(cl) -> Nat]
  BY <1>1, <1>4 DEF WeightsIn, NumbersIn
<1>6. Admitting(cl, toks) \subseteq 1..Len(cl)
  BY <1>1 DEF Admitting
<1> QED
  BY <1>1, <1>5, <1>6 DEF toks

LEMMA ChoiceIsOne ==
  ASSUME NEW b \in Seq(Lines), Len(b) <= MaxLines, NEW k \in DOMAIN b,
         NEW cl \in Seq(ClusterType)
  PROVE  /\ \A c \in BestIn(b, cl, TokensOf[b[k]]) : BestIn(b, cl, TokensOf[b[k]]) = {c}
         /\ BestIn(b, cl, TokensOf[b[k]]) = {} => Admitting(cl, TokensOf[b[k]]) = {}
<1> DEFINE toks == TokensOf[b[k]]
           w == WeightsIn(b, cl, toks)
           n == NumbersIn(cl, toks)
           A == Admitting(cl, toks)
           N == Len(cl)
<1>1. /\ N \in Nat /\ A \subseteq 1..N
      /\ w \in [1..N -> Nat] /\ n \in [1..N -> Nat]
  BY ChoiceTypes
<1>2. BestIn(b, cl, toks) = {c \in A : \A d \in A \ {c} : Precedes(w, n, c, d)}
  BY DEF BestIn
<1> HIDE DEF toks, w, n, A, N
<1>3. \A c, d \in A : ~ (Precedes(w, n, c, d) /\ Precedes(w, n, d, c))
  <2>1. 1..N \subseteq Nat
    OBVIOUS
  <2> QED
    BY <1>1, <2>1, PrecedesOrders
<1>4. \A c \in BestIn(b, cl, toks) : BestIn(b, cl, toks) = {c}
  BY <1>2, <1>3
<1>5. BestIn(b, cl, toks) = {} => A = {}
  BY <1>1, <1>2, OnePrecedes
<1> QED
  BY <1>4, <1>5 DEF toks, A

(* A merge leaves what each cluster shares with the merged line, and so    *)
(* leaves the choice for such a line.                                      *)
LEMMA JoinKeepsChoice ==
  ASSUME NEW b, NEW cl \in Seq(ClusterType), NEW c \in DOMAIN cl, NEW toks \in Seq(Words),
         Len(cl[c].template) = Len(toks), NEW kept \in ClusterType,
         kept.template = Merge(cl[c].template, toks)
  PROVE  BestIn(b, [cl EXCEPT ![c] = kept], toks) = BestIn(b, cl, toks)
<1> DEFINE after == [cl EXCEPT ![c] = kept]
<1>1. cl[c].template \in Seq(Words)
  <2>1. cl[c] \in ClusterType
    OBVIOUS
  <2> QED
    BY <2>1 DEF ClusterType
<1>2. /\ DOMAIN after = DOMAIN cl /\ after[c] = kept
      /\ \A d \in DOMAIN cl : d # c => after[d] = cl[d]
  OBVIOUS
<1>3. Len(kept.template) = Len(toks)
  BY <1>1, MergeType
<1>4. SharedBy(kept.template, toks) = SharedBy(cl[c].template, toks)
  <2> DEFINE old == cl[c].template
             new == Merge(old, toks)
  <2>1. DOMAIN old = 1..Len(toks) /\ DOMAIN toks = 1..Len(toks)
    BY <1>1
  <2>2. \A i \in 1..Len(toks) : new[i] = IF old[i] = toks[i] THEN toks[i] ELSE None
    BY <2>1 DEF Merge
  <2> HIDE DEF old, new
  <2>3. \A i \in AnchorsAt(toks) : new[i] = toks[i] <=> old[i] = toks[i]
    BY <2>1, <2>2, AnchorAssumption DEF AnchorsAt
  <2>4. SharedBy(new, toks) = SharedBy(old, toks)
    BY <2>3 DEF SharedBy
  <2> QED
    BY <2>4 DEF new, old
<1> HIDE DEF after
<1>5. \A d \in DOMAIN cl :
        /\ SharedBy(after[d].template, toks) = SharedBy(cl[d].template, toks)
        /\ Len(after[d].template) = Len(toks) <=> Len(cl[d].template) = Len(toks)
  BY <1>2, <1>3, <1>4
<1>6. WeightsIn(b, after, toks) = WeightsIn(b, cl, toks)
      /\ NumbersIn(after, toks) = NumbersIn(cl, toks)
  BY <1>2, <1>5 DEF WeightsIn, NumbersIn
<1>7. \A d \in DOMAIN cl :
        AdmitsBy(Len(after[d].template), SharedBy(after[d].template, toks), toks)
          <=> AdmitsBy(Len(cl[d].template), SharedBy(cl[d].template, toks), toks)
  BY <1>5 DEF AdmitsBy
<1>8. Admitting(after, toks) = Admitting(cl, toks)
  BY <1>2, <1>7 DEF Admitting
<1> QED
  BY <1>6, <1>8 DEF BestIn, after

(* A line is chosen for by the cluster it opens, if it is not too weak and *)
(* no other admitted it.                                                   *)
StrongLine(toks) ==
  AnchorsAt(toks) # {} /\ CharsAt(toks, AnchorsAt(toks)) >= MinStaticChars

LEMMA OpenIsChosen ==
  ASSUME NEW b, NEW cl \in Seq(ClusterType), NEW toks \in Seq(Words), StrongLine(toks),
         Admitting(cl, toks) = {}
  PROVE  BestIn(b, Append(cl, [template |-> toks, size |-> 1]), toks) = {Len(cl) + 1}
<1> DEFINE kept == [template |-> toks, size |-> 1]
           after == Append(cl, kept)
           new == Len(cl) + 1
<1>1. kept.template = toks /\ DOMAIN cl = 1..Len(cl) /\ Len(cl) \in Nat
  OBVIOUS
<1> HIDE DEF kept
<1>2. /\ DOMAIN after = DOMAIN cl \cup {new} /\ after[new] = kept /\ new \notin DOMAIN cl
      /\ \A d \in DOMAIN cl : after[d] = cl[d]
  BY <1>1
<1> HIDE DEF after, new
<1>3. SharedBy(after[new].template, toks) = AnchorsAt(toks)
  BY <1>1, <1>2 DEF SharedBy, AnchorsAt
<1>4. AdmitsBy(Len(toks), AnchorsAt(toks), toks)
  <2> DEFINE a == Cardinality(AnchorsAt(toks))
             m == Max({1, a})
  <2>1. IsFiniteSet(AnchorsAt(toks)) /\ a \in Nat
    BY AnchorsFinite
  <2>2. a > 0
    BY <2>1, FS_EmptySet DEF StrongLine
  <2>3. m = a
    <3>1. \A x \in {1, a} : (\A y \in {1, a} : x >= y) <=> x = a
      BY <2>1, <2>2
    <3>2. m = CHOOSE x \in {1, a} : x = a
      <4> HIDE DEF a
      <4> QED
        BY <3>1 DEF Max
    <3> QED
      BY <3>2
  <2>4. Required(toks) = Min({MinRemainingAnchors, a})
    <3> HIDE DEF m, a
    <3> QED
      BY <2>3 DEF Required, a, m
  <2> HIDE DEF a, m
  <2>5. Required(toks) \in Nat /\ Required(toks) <= a
    <3>1. {MinRemainingAnchors, a} \subseteq Nat /\ {MinRemainingAnchors, a} # {}
      BY <2>1, LimitsAssumption
    <3> QED
      BY <2>4, <3>1, LeastOf
  <2>6. Min({MinSharedAnchors, Required(toks)}) <= a
    <3>1. /\ {MinSharedAnchors, Required(toks)} \subseteq Nat
          /\ {MinSharedAnchors, Required(toks)} # {}
      BY <2>5, LimitsAssumption
    <3>2. /\ Min({MinSharedAnchors, Required(toks)}) \in Nat
          /\ Min({MinSharedAnchors, Required(toks)}) <= Required(toks)
      BY <3>1, LeastOf
    <3> QED
      BY <2>1, <2>5, <3>2
  <2>7. SimNum * a <= SimDen * a
    BY <2>1, LimitsAssumption
  <2>8. /\ Cardinality(AnchorsAt(toks)) > 0
        /\ Cardinality(AnchorsAt(toks)) >= Min({MinSharedAnchors, Required(toks)})
        /\ SimNum * Cardinality(AnchorsAt(toks)) <= SimDen * Cardinality(AnchorsAt(toks))
        /\ Cardinality(AnchorsAt(toks)) >= Required(toks)
    <3>1. Min({MinSharedAnchors, Required(toks)}) \in Nat
      <4>1. /\ {MinSharedAnchors, Required(toks)} \subseteq Nat
            /\ {MinSharedAnchors, Required(toks)} # {}
        BY <2>5, LimitsAssumption
      <4> QED
        BY <4>1, LeastOf
    <3> QED
      BY <2>1, <2>2, <2>5, <2>6, <2>7, <3>1 DEF a
  <2> QED
    BY <2>8 DEF AdmitsBy, StrongLine
<1>5. \A d \in DOMAIN cl : d \notin Admitting(after, toks)
  BY <1>2 DEF Admitting
<1>6. new \in Admitting(after, toks)
  BY <1>1, <1>2, <1>3, <1>4 DEF Admitting
<1>7. Admitting(after, toks) = {new}
  BY <1>2, <1>5, <1>6 DEF Admitting
<1> QED
  BY <1>7 DEF BestIn, after, new, kept

(* The log is the batch so far; the next line would join the cluster of    *)
(* the last one if it were the same again.                                 *)
LogIsBatch == \A i \in DOMAIN log : log[i].line = batch[i]

LastWouldStay ==
  log # <<>> =>
    LET last == log[Len(log)]
    IN  StrongLine(TokensOf[last.line]) => BestIn(batch, clusters, TokensOf[last.line]) = {last.id}

NeighboursStay ==
  \A i \in 2..Len(log) :
    log[i].line = log[i - 1].line /\ StrongLine(TokensOf[log[i].line]) => log[i].id = log[i - 1].id

LEMMA NeighboursSay == EqualNeighboursGrouped <=> NeighboursStay
BY DEF EqualNeighboursGrouped, NeighboursStay, StrongLine, CharsAt

NeighbourInv == LogIsBatch /\ LastWouldStay /\ NeighboursStay

(* After a step the line of the step would be given to its cluster again.  *)
LEMMA JoinedWouldStay ==
  ASSUME GrouperInv, UNCHANGED batch, Len(log) < Len(batch), NEW l, l = batch[Len(log) + 1],
         NEW c \in Best(TokensOf[l]), Joined(l, c)
  PROVE  /\ BestIn(batch', clusters', TokensOf[l]) = {c}
         /\ BestIn(batch, clusters, TokensOf[l]) = {c}
<1> DEFINE k == Len(log) + 1
           toks == TokensOf[l]
           kept == [template |-> Merge(clusters[c].template, toks), size |-> clusters[c].size + 1]
<1>1. /\ batch \in Seq(Lines) /\ Len(batch) <= MaxLines /\ clusters \in Seq(ClusterType)
      /\ k \in DOMAIN batch /\ l \in Lines
  <2>1. /\ batch \in Seq(Lines) /\ Len(batch) \in Nat /\ Len(log) \in Nat
        /\ DOMAIN batch = 1..Len(batch)
    BY DEF GrouperInv, ShapesOK
  <2> QED
    BY <2>1, NextLine DEF GrouperInv, ShapesOK
<1>2. Best(toks) = BestIn(batch, clusters, toks)
  BY BestSays
<1>3. BestIn(batch, clusters, toks) = {c}
  <2>1. \A d \in BestIn(batch, clusters, TokensOf[batch[k]]) :
          BestIn(batch, clusters, TokensOf[batch[k]]) = {d}
    <3> HIDE DEF k
    <3> QED
      BY <1>1, ChoiceIsOne
  <2>2. c \in BestIn(batch, clusters, TokensOf[batch[k]]) /\ toks = TokensOf[batch[k]]
    BY <1>2
  <2> QED
    BY <2>1, <2>2
<1>4. /\ c \in DOMAIN clusters /\ Len(clusters[c].template) = Len(toks)
      /\ clusters' = [clusters EXCEPT ![c] = kept] /\ kept.template = Merge(clusters[c].template, toks)
  BY DEF Joined
<1>5. toks \in Seq(Words) /\ kept \in ClusterType
  <2>1. clusters[c] \in ClusterType
    BY <1>1, <1>4
  <2>2. toks \in Seq(Words)
    BY <1>1, LineTokens
  <2>3. clusters[c].template \in Seq(Words) /\ clusters[c].size + 1 \in Nat
    BY <2>1 DEF ClusterType
  <2>4. Merge(clusters[c].template, toks) \in Seq(Words)
    BY <1>4, <2>2, <2>3, MergeType
  <2> QED
    BY <2>2, <2>3, <2>4 DEF ClusterType
<1> HIDE DEF toks, kept, k
<1>6. BestIn(batch, clusters', toks) = BestIn(batch, clusters, toks)
  BY <1>1, <1>4, <1>5, JoinKeepsChoice
<1> QED
  BY <1>3, <1>6 DEF toks

LEMMA OpenedWouldStay ==
  ASSUME GrouperInv, UNCHANGED batch, Len(log) < Len(batch), NEW l, l = batch[Len(log) + 1],
         Open(l), StrongLine(TokensOf[l])
  PROVE  /\ BestIn(batch', clusters', TokensOf[l]) = {Len(clusters) + 1}
         /\ BestIn(batch, clusters, TokensOf[l]) = {}
<1> DEFINE k == Len(log) + 1
           toks == TokensOf[l]
<1>1. /\ batch \in Seq(Lines) /\ Len(batch) <= MaxLines /\ clusters \in Seq(ClusterType)
      /\ k \in DOMAIN batch /\ l \in Lines
  <2>1. /\ batch \in Seq(Lines) /\ Len(batch) \in Nat /\ Len(log) \in Nat
        /\ DOMAIN batch = 1..Len(batch)
    BY DEF GrouperInv, ShapesOK
  <2> QED
    BY <2>1, NextLine DEF GrouperInv, ShapesOK
<1>2. BestIn(batch, clusters, toks) = {}
  BY BestSays DEF Open
<1>3. Admitting(clusters, toks) = {}
  BY <1>1, <1>2, ChoiceIsOne
<1>4. toks \in Seq(Words)
  BY <1>1, LineTokens
<1>5. clusters' = Append(clusters, [template |-> toks, size |-> 1])
  BY DEF Open
<1> HIDE DEF toks, k
<1>6. BestIn(batch, clusters', toks) = {Len(clusters) + 1}
  BY <1>1, <1>3, <1>4, <1>5, OpenIsChosen DEF toks
<1> QED
  BY <1>2, <1>6 DEF toks

LEMMA NeighbourNext ==
  ASSUME GrouperInv, NeighbourInv, [Next]_vars
  PROVE  NeighbourInv'
<1>1. CASE Next
  <2> DEFINE N == Len(log)
             l == batch[N + 1]
  <2>1. /\ N \in Nat /\ DOMAIN log = 1..N /\ N < Len(batch) /\ UNCHANGED batch /\ l \in Lines
    BY <1>1, NextLine DEF GrouperInv, ShapesOK, Next
  <2>2. Join(l) \/ Open(l)
    BY <1>1 DEF Next
  <2>3. \E e : /\ log' = Append(log, e) /\ e.line = l
               /\ StrongLine(TokensOf[l]) =>
                    /\ BestIn(batch', clusters', TokensOf[l]) = {e.id}
                    /\ BestIn(batch, clusters, TokensOf[l]) \in {{}, {e.id}}
    <3>1. CASE Join(l)
      <4>1. PICK c \in Best(TokensOf[l]) : Joined(l, c)
        BY <3>1, JoinJoins
      <4>2. PICK u : log' = Append(log, [line |-> l, id |-> c, update |-> u])
        BY <4>1 DEF Joined
      <4>3. /\ BestIn(batch', clusters', TokensOf[l]) = {c}
            /\ BestIn(batch, clusters, TokensOf[l]) = {c}
        BY <2>1, <4>1, JoinedWouldStay
      <4> DEFINE e == [line |-> l, id |-> c, update |-> u]
      <4>4. log' = Append(log, e) /\ e.line = l /\ e.id = c
        BY <4>2
      <4> QED
        BY <4>3, <4>4
    <3>2. CASE Open(l)
      <4> DEFINE e == [line |-> l, id |-> Len(clusters) + 1, update |-> "cluster_created"]
      <4>1. log' = Append(log, e) /\ e.line = l /\ e.id = Len(clusters) + 1
        BY <3>2 DEF Open
      <4>2. StrongLine(TokensOf[l]) =>
              /\ BestIn(batch', clusters', TokensOf[l]) = {Len(clusters) + 1}
              /\ BestIn(batch, clusters, TokensOf[l]) = {}
        BY <2>1, <3>2, OpenedWouldStay
      <4> QED
        BY <4>1, <4>2
    <3> QED
      BY <2>2, <3>1, <3>2
  <2>4. PICK e : /\ log' = Append(log, e) /\ e.line = l
                 /\ StrongLine(TokensOf[l]) =>
                      /\ BestIn(batch', clusters', TokensOf[l]) = {e.id}
                      /\ BestIn(batch, clusters, TokensOf[l]) \in {{}, {e.id}}
    BY <2>3
  <2>0. l = batch[N + 1]
    OBVIOUS
  <2>5. /\ Len(log') = N + 1 /\ DOMAIN log' = 1..(N + 1) /\ log'[N + 1] = e
        /\ \A i \in 1..N : log'[i] = log[i]
    <3>1. log \in Seq(EntryType)
      BY DEF GrouperInv, ShapesOK
    <3> QED
      BY <2>4, <3>1
  <2> HIDE DEF N, l
  <2>6. LogIsBatch'
    <3>1. ASSUME NEW i \in 1..(N + 1) PROVE log'[i].line = batch[i]
      <4>1. CASE i = N + 1
        BY <2>0, <2>4, <2>5, <4>1
      <4>2. CASE i # N + 1
        <5>1. i \in 1..N
          BY <2>1, <4>2
        <5> QED
          BY <2>1, <2>5, <5>1 DEF NeighbourInv, LogIsBatch
      <4> QED
        BY <4>1, <4>2
    <3> QED
      BY <2>1, <2>5, <3>1 DEF LogIsBatch
  <2>7. LastWouldStay'
    BY <2>4, <2>5 DEF LastWouldStay
  <2>8. NeighboursStay'
    <3> SUFFICES ASSUME NEW i \in 2..(N + 1), log'[i].line = log'[i - 1].line,
                        StrongLine(TokensOf[log'[i].line])
                 PROVE  log'[i].id = log'[i - 1].id
      BY <2>5 DEF NeighboursStay
    <3>1. CASE i = N + 1
      <4>1. N >= 1 /\ log # <<>> /\ log'[i] = e /\ log'[i - 1] = log[N]
        BY <2>1, <2>5, <3>1
      <4>2. log[N].line = l /\ StrongLine(TokensOf[l])
        BY <2>4, <4>1
      <4>3. BestIn(batch, clusters, TokensOf[l]) = {log[N].id}
        BY <4>1, <4>2 DEF NeighbourInv, LastWouldStay, N
      <4> QED
        BY <2>4, <4>1, <4>2, <4>3
    <3>2. CASE i # N + 1
      <4>1. i \in 2..N /\ i \in 1..N /\ i - 1 \in 1..N
        BY <2>1, <3>2
      <4> QED
        BY <2>5, <4>1 DEF NeighbourInv, NeighboursStay, N
    <3> QED
      BY <3>1, <3>2
  <2> QED
    BY <2>6, <2>7, <2>8 DEF NeighbourInv
<1>2. CASE UNCHANGED vars
  <2>1. batch' = batch /\ clusters' = clusters /\ log' = log
    BY <1>2 DEF vars
  <2>2. LogIsBatch'
    BY <2>1 DEF NeighbourInv, LogIsBatch
  <2>3. LastWouldStay'
    BY <2>1 DEF NeighbourInv, LastWouldStay
  <2>4. NeighboursStay'
    BY <2>1 DEF NeighbourInv, NeighboursStay
  <2> QED
    BY <2>2, <2>3, <2>4 DEF NeighbourInv
<1> QED
  BY <1>1, <1>2

(* A line that repeats the one before it gets into the same group, unless  *)
(* its anchors are too weak for any: joining a cluster, or opening one,    *)
(* does not make another the better choice for the same line.              *)
THEOREM NeighboursGrouped == Spec => []EqualNeighboursGrouped
<1>1. Init => NeighbourInv
  BY DEF Init, NeighbourInv, LogIsBatch, LastWouldStay, NeighboursStay
<1>2. GrouperInv /\ NeighbourInv /\ [Next]_vars => NeighbourInv'
  BY NeighbourNext
<1>3. NeighbourInv => EqualNeighboursGrouped
  BY NeighboursSay DEF NeighbourInv
<1> QED
  BY <1>1, <1>2, <1>3, InitInv, NextInv, PTL DEF Spec
=============================================================================
