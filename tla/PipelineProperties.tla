------------------------- MODULE PipelineProperties -------------------------
(***************************************************************************)
(* What the concurrent pipeline promises its callers.                      *)
(***************************************************************************)
EXTENDS ConcurrentDrain

EventType == [caller : Callers, num : 1..CallsEach, line : Lines]

(* Shapes of the pipeline's state; the channel never holds more than its   *)
(* capacity, slots promised to senders included.                           *)
PipelineTypeOK ==
  /\ pc \in [Callers -> {"idle", "sending", "admitted", "waiting", "failed"}]
  /\ \A c \in Callers : call[c].num \in 0..CallsEach
  /\ channel \in Seq(EventType) /\ sent \subseteq EventType
  /\ applied \in Seq(EventType) /\ lost \subseteq EventType
  /\ updater \in {"recv", "apply", "reply", "stopped", "panicked"}
  /\ event \in EventType \cup {None}
  /\ handle \in {"open", "shutdown", "closed", "failed", "dropped"}
  /\ FreeSlots >= 0

(* Every event that entered the channel is in exactly one place: still in  *)
(* the channel, in the updater's hands, applied, or lost with an updater   *)
(* that panicked; applied once, and the engine's log has exactly the       *)
(* applied lines.  No line is lost otherwise or ingested twice, abandoned  *)
(* calls included.                                                         *)
ExactlyOnce ==
  LET places == channel \o (IF updater = "apply" THEN <<event>> ELSE <<>>) \o applied
  IN  /\ Len(places) + Cardinality(lost) = Cardinality(sent)
      /\ ToSet(places) \cup lost = sent
      /\ lost # {} => updater = "panicked"
      /\ [i \in DOMAIN applied |-> applied[i].line] = [i \in DOMAIN log |-> log[i].line]

(* What a completed call returned is what the engine answered to this very *)
(* call: its cluster id and update type, the size of the cluster after it  *)
(* and not after a later line, a template that covers its line.            *)
AnswersAreOwn ==
  \A c \in Callers : answer[c] # None =>
    \E i \in DOMAIN applied :
      /\ applied[i].caller = c /\ applied[i].num = answer[c].num
      /\ LET r == answer[c].result
         IN  /\ log[i].id = r.id /\ log[i].update = r.update
             /\ r.size = Cardinality({j \in 1..i : log[j].id = r.id})
             /\ \A p \in DOMAIN r.template :
                  r.template[p] \in {ParamStr, MaskedTokens[applied[i].line][p]}

(* The lines of one caller are applied in the order of its calls, also     *)
(* when it abandons a call and makes the next.                             *)
ProgramOrder ==
  \A i, j \in DOMAIN applied :
    i < j /\ applied[i].caller = applied[j].caller => applied[i].num < applied[j].num

(* The expects of add_log_message fail only because the updater panicked:  *)
(* as long as it did not, a caller finds the channel open, and the reply   *)
(* sender of a waiting call is in the channel, in the updater's hands, or  *)
(* has been used.                                                          *)
ExpectsHold == \A c \in Callers : pc[c] = "failed" => updater = "panicked"

(* When the updater ends, after shutdown or after the pipeline was just    *)
(* dropped, everything that was sent has been applied; shutdown returns    *)
(* only then.                                                              *)
ShutdownDrains ==
  /\ updater = "stopped" => ToSet(applied) = sent
  /\ handle = "closed" => updater = "stopped"

(* The call got its slot before the updater panicked and used it after:    *)
(* its event, reply sender included, sits in a channel nobody reads.       *)
Stranded(c) == updater = "panicked" /\ call[c] \in ToSet(channel)

(* Every call ends, also when the updater panics: it returns, its caller   *)
(* drops it or an expect fails.  A stranded one is the only exception.     *)
CallsEnd == \A c \in Callers : c \in InFlight ~> c \notin InFlight \/ Stranded(c)

(* Abandoned or not, and with the pipeline dropped or not, what was sent   *)
(* is applied unless the updater panics.                                   *)
SentIsApplied ==
  \A e \in EventType : e \in sent ~> e \in ToSet(applied) \/ updater = "panicked"

(* shutdown ends: it returns, or panics if the updater did.                *)
ShutdownEnds == handle = "shutdown" ~> handle \in {"closed", "failed"}
=============================================================================
