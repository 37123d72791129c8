--------------------------- MODULE TemplateMiner ---------------------------
(***************************************************************************)
(* What an incremental template miner promises, with no word on how it     *)
(* finds a cluster: every line is assigned to one cluster of lines with    *)
(* equally many tokens, and what the miner reports of a live cluster is a  *)
(* function of the lines assigned to it: their number and their least      *)
(* general template.  A miner with a bounded store may forget a cluster    *)
(* when it creates another; an identifier is never used again.             *)
(***************************************************************************)
EXTENDS Similarity

CONSTANTS Lines,          \* the lines a caller may submit
          TokensOf,       \* [Lines -> sequences of tokens], after masking
          MaxCalls        \* bound on the number of lines submitted

VARIABLES log,            \* sequence of [line, id, update], one per call
          live            \* id -> [template, size] of the clusters kept

minerVars == <<log, live>>

Assigned(lg, c) == {i \in DOMAIN lg : lg[i].id = c}

Contents(lg, c) == {TokensOf[lg[i].line] : i \in Assigned(lg, c)}

Report(lg, c) == [template |-> LeastGeneral(Contents(lg, c)),
                  size     |-> Cardinality(Assigned(lg, c))]

MinerInit == log = <<>> /\ live = <<>>

(* The line joins a live cluster; the answer says whether that changed the *)
(* template.                                                               *)
Join(l, c) ==
  /\ c \in DOMAIN live
  /\ \A m \in Contents(log, c) : Len(m) = Len(TokensOf[l])
  /\ \E u \in {"cluster_template_changed", "none"} :
       /\ log' = Append(log, [line |-> l, id |-> c, update |-> u])
       /\ live' = [live EXCEPT ![c] = Report(log', c)]
       /\ (u = "none") <=> (live'[c].template = live[c].template)

(* The line opens a cluster under an identifier no line had before; at     *)
(* most one other cluster is forgotten.                                    *)
Open(l, c) ==
  /\ Assigned(log, c) = {}
  /\ log' = Append(log, [line |-> l, id |-> c, update |-> "cluster_created"])
  /\ \E forgotten \in SUBSET DOMAIN live :
       /\ Cardinality(forgotten) <= 1
       /\ live' = [d \in (DOMAIN live \ forgotten) \cup {c} |->
                     IF d = c THEN Report(log', c) ELSE live[d]]

MinerNext ==
  /\ Len(log) < MaxCalls
  /\ \E l \in Lines : \E c \in 1..MaxCalls : Join(l, c) \/ Open(l, c)

MinerSpec == MinerInit /\ [][MinerNext]_minerVars
=============================================================================
