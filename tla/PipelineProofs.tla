---------------------------- MODULE PipelineProofs ----------------------------
(***************************************************************************)
(* Machine-checked proofs about the concurrent pipeline, for every number  *)
(* of callers and calls, every channel capacity and every engine.          *)
(***************************************************************************)
EXTENDS PipelineProperties, DataLemmas

USE DEF InFlight

(* The event the updater has received and not applied.                     *)
Held == IF updater = "apply" THEN <<event>> ELSE <<>>

(* The events in the order in which they were sent.                        *)
Pipe == (applied \o Held) \o channel

Ordered(s) ==
  \A i, j \in DOMAIN s : i < j /\ s[i].caller = s[j].caller => s[i].num < s[j].num

(* Callers: a queued one waits once, and the pipeline outlives the calls   *)
(* that borrow it.                                                         *)
CallerInv ==
  /\ pc \in [Callers -> {"idle", "sending", "admitted", "waiting", "failed"}]
  /\ call \in [Callers -> [caller : Callers, num : 0..CallsEach, line : Lines \cup {None}]]
  /\ \A c \in Callers : call[c].caller = c
  /\ \A c \in InFlight : call[c] \in EventType
  /\ waiters \in Seq(Callers) /\ Once(waiters)
  /\ ToSet(waiters) = {c \in Callers : pc[c] = "sending"}
  /\ handle \in {"open", "shutdown", "closed", "failed", "dropped"}
  /\ handle # "open" => InFlight = {}

UpdaterInv ==
  /\ updater \in {"recv", "apply", "reply", "stopped", "panicked"}
  /\ IF updater \in {"apply", "reply"} THEN event \in EventType ELSE event = None
  /\ updater = "stopped" => handle # "open" /\ channel = <<>>
  /\ handle = "closed" => updater = "stopped"

(* A sent event is one of an earlier call, or of this one if it is sent.   *)
Earlier(e) ==
  /\ e.num <= call[e.caller].num
  /\ pc[e.caller] \in {"sending", "admitted"} => e.num < call[e.caller].num

(* The way of the events, from the channel to the engine or to their loss. *)
FlowInv ==
  /\ channel \in Seq(EventType) /\ applied \in Seq(EventType)
  /\ sent \subseteq EventType /\ IsFiniteSet(sent)
  /\ Ordered(Pipe)
  /\ ToSet(Pipe) \cup lost = sent /\ ToSet(Pipe) \cap lost = {}
  /\ lost # {} => updater = "panicked"
  /\ \A e \in sent : Earlier(e)

LogInv ==
  /\ log \in Seq(ToSet(log))
  /\ Len(log) = Len(applied)
  /\ \A i \in 1..Len(applied) : log[i].line = applied[i].line

Admitted == {c \in Callers : pc[c] = "admitted"}

SlotInv == Len(channel) + Cardinality(Admitted) <= ChannelCapacity

(* Where the reply sender of a waiting call is.                            *)
ExpectInv ==
  /\ \A c \in Callers : pc[c] = "waiting" /\ updater # "panicked" =>
       \/ inbox[c] # <<>>
       \/ call[c] \in ToSet(channel)
       \/ updater \in {"apply", "reply"} /\ event = call[c]
  /\ DOMAIN inbox = Callers
  /\ ExpectsHold

(* The inductive invariant.                                                *)
PipelineInv == CallerInv /\ UpdaterInv /\ FlowInv /\ LogInv /\ SlotInv /\ ExpectInv

-----------------------------------------------------------------------------
(* Sequences of events.                                                    *)

(* Events in their callers' order are all different.                       *)
LEMMA OrderedOnce ==
  ASSUME NEW s \in Seq(EventType), Ordered(s)
  PROVE  Once(s)
<1>1. DOMAIN s = 1..Len(s) /\ Len(s) \in Nat /\ \A i \in DOMAIN s : s[i].num \in Nat
  <2>1. \A i \in DOMAIN s : s[i] \in EventType
    OBVIOUS
  <2> QED
    BY <2>1, PipelineAssumption DEF EventType
<1> QED
  BY <1>1 DEF Ordered, Once

(* A queue in front of another.                                            *)
LEMMA ConcatHolds ==
  ASSUME NEW S, NEW s \in Seq(S), NEW t \in Seq(S)
  PROVE  /\ s \o t \in Seq(S) /\ Len(s \o t) = Len(s) + Len(t)
         /\ ToSet(s \o t) = ToSet(s) \cup ToSet(t)
         /\ \A i \in DOMAIN s : i \in DOMAIN (s \o t) /\ (s \o t)[i] = s[i]
         /\ Once(s \o t) => ToSet(s) \cap ToSet(t) = {}
<1>1. /\ Len(s) \in Nat /\ Len(t) \in Nat
      /\ DOMAIN s = 1..Len(s) /\ DOMAIN t = 1..Len(t)
      /\ s \o t \in Seq(S) /\ Len(s \o t) = Len(s) + Len(t)
      /\ DOMAIN (s \o t) = 1..(Len(s) + Len(t))
      /\ \A i \in 1..Len(s) : i \in DOMAIN (s \o t) /\ (s \o t)[i] = s[i]
  BY ConcatProperties
<1>2. \A i \in 1..Len(t) : Len(s) + i \in DOMAIN (s \o t) /\ (s \o t)[Len(s) + i] = t[i]
  <2> TAKE i \in 1..Len(t)
  <2>1. Len(s) + i \in 1..(Len(s) + Len(t)) /\ ~(Len(s) + i <= Len(s)) /\ (Len(s) + i) - Len(s) = i
    BY <1>1
  <2>2. \A k \in 1..(Len(s) + Len(t)) :
          (s \o t)[k] = IF k <= Len(s) THEN s[k] ELSE t[k - Len(s)]
    BY ConcatProperties
  <2> QED
    BY <1>1, <2>1, <2>2
<1>3. \A k \in DOMAIN (s \o t) : k \in 1..Len(s) \/ \E i \in 1..Len(t) : k = Len(s) + i
  <2> TAKE k \in DOMAIN (s \o t)
  <2>1. CASE k <= Len(s)
    BY <1>1, <2>1
  <2>2. CASE ~(k <= Len(s))
    <3>1. k - Len(s) \in 1..Len(t) /\ k = Len(s) + (k - Len(s))
      BY <1>1, <2>2
    <3> QED
      BY <3>1
  <2> QED
    BY <2>1, <2>2
<1>4. ToSet(s \o t) = ToSet(s) \cup ToSet(t)
  <2>1. ToSet(s \o t) \subseteq ToSet(s) \cup ToSet(t)
    BY <1>1, <1>2, <1>3 DEF ToSet
  <2>2. ToSet(s) \cup ToSet(t) \subseteq ToSet(s \o t)
    BY <1>1, <1>2 DEF ToSet
  <2> QED
    BY <2>1, <2>2
<1>5. ASSUME Once(s \o t), NEW x \in ToSet(s), x \in ToSet(t) PROVE FALSE
  <2>1. PICK i \in 1..Len(s) : s[i] = x
    BY <1>1 DEF ToSet
  <2>2. PICK j \in 1..Len(t) : t[j] = x
    BY <1>1, <1>5 DEF ToSet
  <2>3. i = Len(s) + j
    BY <1>1, <1>2, <1>5, <2>1, <2>2 DEF Once
  <2> QED
    BY <1>1, <2>3
<1> QED
  BY <1>1, <1>4, <1>5

(* What comes first is in order by itself.                                 *)
LEMMA FrontOrdered ==
  ASSUME NEW s \in Seq(EventType), NEW t \in Seq(EventType), Ordered(s \o t)
  PROVE  Ordered(s)
BY ConcatHolds DEF Ordered

(* An event later than those of its caller goes behind.                    *)
LEMMA AppendOrdered ==
  ASSUME NEW s \in Seq(EventType), Ordered(s), NEW e \in EventType,
         \A d \in ToSet(s) : d.caller = e.caller => d.num < e.num
  PROVE  Ordered(Append(s, e))
<1>1. /\ DOMAIN s = 1..Len(s) /\ Len(s) \in Nat
      /\ DOMAIN Append(s, e) = 1..(Len(s) + 1)
      /\ \A i \in 1..Len(s) : Append(s, e)[i] = s[i] /\ s[i] \in ToSet(s)
      /\ Append(s, e)[Len(s) + 1] = e
  BY DEF ToSet
<1>2. \A i, j \in 1..(Len(s) + 1) : i < j => i \in 1..Len(s) /\ (j \in 1..Len(s) \/ j = Len(s) + 1)
  BY <1>1
<1> QED
  BY <1>1, <1>2 DEF Ordered

(* What is in the pipe.                                                    *)
LEMMA PipeHolds ==
  ASSUME FlowInv, UpdaterInv
  PROVE  /\ Held \in Seq(EventType) /\ applied \o Held \in Seq(EventType)
         /\ Held \o channel \in Seq(EventType)
         /\ Pipe \in Seq(EventType) /\ Once(Pipe)
         /\ Pipe = applied \o (Held \o channel)
         /\ ToSet(Held) = IF updater = "apply" THEN {event} ELSE {}
         /\ ToSet(Pipe) = (ToSet(applied) \cup ToSet(Held)) \cup ToSet(channel)
         /\ ToSet(Held \o channel) = ToSet(Held) \cup ToSet(channel)
         /\ ToSet(applied) \cap ToSet(Held \o channel) = {}
         /\ Len(Pipe) = Len(applied) + Len(Held) + Len(channel)
<1>1. Held \in Seq(EventType) /\ ToSet(Held) = IF updater = "apply" THEN {event} ELSE {}
  <2>1. CASE updater = "apply"
    BY <2>1 DEF UpdaterInv, Held, ToSet
  <2>2. CASE updater # "apply"
    BY <2>2 DEF Held, ToSet
  <2> QED
    BY <2>1, <2>2
<1>2. channel \in Seq(EventType) /\ applied \in Seq(EventType)
  BY DEF FlowInv
<1>3. /\ applied \o Held \in Seq(EventType) /\ Len(applied \o Held) = Len(applied) + Len(Held)
      /\ ToSet(applied \o Held) = ToSet(applied) \cup ToSet(Held)
  BY <1>1, <1>2, ConcatHolds
<1>4. /\ Pipe \in Seq(EventType) /\ Len(Pipe) = Len(applied \o Held) + Len(channel)
      /\ ToSet(Pipe) = ToSet(applied \o Held) \cup ToSet(channel)
  BY <1>2, <1>3, ConcatHolds DEF Pipe
<1>5. Held \o channel \in Seq(EventType) /\ ToSet(Held \o channel) = ToSet(Held) \cup ToSet(channel)
  BY <1>1, <1>2, ConcatHolds
<1>6. Pipe = applied \o (Held \o channel)
  BY <1>1, <1>2, ConcatAssociative DEF Pipe
<1>7. Once(Pipe)
  BY <1>4, OrderedOnce DEF FlowInv
<1>8. ToSet(applied) \cap ToSet(Held \o channel) = {}
  BY <1>2, <1>5, <1>6, <1>7, ConcatHolds
<1> QED
  BY <1>1, <1>3, <1>4, <1>5, <1>6, <1>7, <1>8

LEMMA InitPipelineInv == Init => PipelineInv
<1> SUFFICES ASSUME Init PROVE PipelineInv
  OBVIOUS
<1>1. /\ \A c \in Callers : pc[c] = "idle"
      /\ pc = [c \in Callers |-> "idle"]
      /\ call = [c \in Callers |-> [caller |-> c, num |-> 0, line |-> None]]
      /\ waiters = <<>> /\ channel = <<>> /\ applied = <<>> /\ sent = {} /\ lost = {}
      /\ updater = "recv" /\ event = None /\ handle = "open"
      /\ inbox = [c \in Callers |-> <<>>]
  BY DEF Init
<1>2. ToSet(<<>>) = {} /\ Once(<<>>) /\ Ordered(<<>>)
  <2>1. DOMAIN <<>> = {}
    OBVIOUS
  <2> QED
    BY <2>1 DEF ToSet, Once, Ordered
<1>3. CallerInv
  <2>1. \A c \in Callers : 0 \in 0..CallsEach /\ None \in Lines \cup {None}
    BY PipelineAssumption
  <2> HIDE DEF EventType
  <2>2. waiters \in Seq(Callers) /\ Once(waiters) /\ ToSet(waiters) = {}
    BY <1>1, <1>2
  <2>3. call \in [Callers -> [caller : Callers, num : 0..CallsEach, line : Lines \cup {None}]]
    BY <1>1, <2>1
  <2> QED
    BY <1>1, <2>2, <2>3 DEF CallerInv
<1>4. UpdaterInv
  BY <1>1 DEF UpdaterInv
<1>5. FlowInv
  <2>1. Held = <<>> /\ Pipe = <<>>
    BY <1>1 DEF Held, Pipe
  <2> QED
    BY <1>1, <1>2, <2>1, FS_EmptySet DEF FlowInv
<1>6. LogInv
  <2>1. log = <<>>
    BY DEF Init, Engine!Init
  <2> QED
    BY <1>1, <2>1 DEF LogInv
<1>7. SlotInv
  <2>1. Admitted = {}
    BY <1>1 DEF Admitted
  <2> QED
    BY <1>1, <2>1, FS_EmptySet, PipelineAssumption DEF SlotInv
<1>8. ExpectInv
  BY <1>1 DEF ExpectInv, ExpectsHold
<1> QED
  BY <1>3, <1>4, <1>5, <1>6, <1>7, <1>8 DEF PipelineInv

-----------------------------------------------------------------------------
(* Callers.                                                                *)

LEMMA LeaveQueueHolds ==
  ASSUME CallerInv, NEW c \in Callers, LeaveQueue(c)
  PROVE  /\ waiters' \in Seq(Callers) /\ Once(waiters')
         /\ ToSet(waiters') = {d \in Callers : pc[d] = "sending"} \ {c}
<1>1. CASE pc[c] = "sending"
  <2>1. PICK i \in DOMAIN waiters : waiters[i] = c /\ waiters' = RemoveAt(waiters, i)
    BY <1>1 DEF LeaveQueue
  <2> QED
    BY <2>1, RemoveAtHolds DEF CallerInv
<1>2. CASE pc[c] # "sending"
  BY <1>2 DEF LeaveQueue, CallerInv
<1> QED
  BY <1>1, <1>2

LEMMA NextCallerInv ==
  ASSUME CallerInv, Next
  PROVE  CallerInv'
<1>1. ASSUME NEW c \in Callers, NEW l \in Lines, Call(c, l)
      PROVE  CallerInv'
  <2> DEFINE e == [caller |-> c, num |-> call[c].num + 1, line |-> l]
  <2>1. /\ handle = "open" /\ handle' = handle /\ pc[c] = "idle"
        /\ pc' = [pc EXCEPT ![c] = "sending"]
        /\ call' = [call EXCEPT ![c] = e]
        /\ waiters' = Append(waiters, c)
    BY <1>1 DEF Call, CallerInv
  <2>2. e \in EventType /\ e \in [caller : Callers, num : 0..CallsEach, line : Lines \cup {None}]
    BY <1>1, PipelineAssumption DEF Call, CallerInv, EventType
  <2>3. e.caller = c
    OBVIOUS
  <2> HIDE DEF e
  <2>4. /\ waiters' \in Seq(Callers) /\ Once(waiters')
        /\ ToSet(waiters') = ToSet(waiters) \cup {c}
    <3>1. c \notin ToSet(waiters)
      BY <2>1 DEF CallerInv
    <3> QED
      BY <2>1, <3>1, AppendHolds DEF CallerInv
  <2>5. ToSet(waiters') = {d \in Callers : pc'[d] = "sending"}
    BY <2>1, <2>4 DEF CallerInv
  <2> QED
    BY <2>1, <2>2, <2>3, <2>4, <2>5 DEF CallerInv
<1>2. CASE Admit
  <2>1. /\ waiters # <<>> /\ waiters' = Tail(waiters) /\ call' = call /\ handle' = handle
        /\ pc' = [pc EXCEPT ![Head(waiters)] = "admitted"]
    BY <1>2 DEF Admit
  <2>2. /\ waiters' \in Seq(Callers) /\ Once(waiters') /\ Head(waiters) \in ToSet(waiters)
        /\ ToSet(waiters') = ToSet(waiters) \ {Head(waiters)}
    BY <2>1, TailHolds DEF CallerInv
  <2>3. ToSet(waiters') = {d \in Callers : pc'[d] = "sending"}
    BY <2>1, <2>2 DEF CallerInv
  <2>4. InFlight' = InFlight
    BY <2>1, <2>2 DEF CallerInv
  <2> QED
    BY <2>1, <2>2, <2>3, <2>4 DEF CallerInv
<1>3. ASSUME NEW c \in Callers, Send(c) \/ Return(c)
      PROVE  CallerInv'
  <2>1. /\ pc[c] \in {"admitted", "waiting"} /\ pc' \in {[pc EXCEPT ![c] = s] : s \in {"waiting", "idle"}}
        /\ call' = call /\ waiters' = waiters /\ handle' = handle
    BY <1>3 DEF Send, Return
  <2> QED
    BY <2>1 DEF CallerInv
<1>4. ASSUME NEW c \in Callers, Fail(c) \/ Cancel(c)
      PROVE  CallerInv'
  <2>1. PICK s \in {"failed", "idle"} : pc' = [pc EXCEPT ![c] = s]
    BY <1>4 DEF Fail, Cancel
  <2>2. /\ call' = call /\ handle' = handle
        /\ waiters' \in Seq(Callers) /\ Once(waiters')
        /\ ToSet(waiters') = {d \in Callers : pc[d] = "sending"} \ {c}
    BY <1>4, LeaveQueueHolds DEF Fail, Cancel
  <2>3. /\ ToSet(waiters') = {d \in Callers : pc'[d] = "sending"}
        /\ InFlight' \subseteq InFlight
        /\ pc' \in [Callers -> {"idle", "sending", "admitted", "waiting", "failed"}]
    BY <2>1, <2>2 DEF CallerInv
  <2> QED
    BY <2>2, <2>3 DEF CallerInv
<1>5. CASE UNCHANGED callVars /\ (handle' = handle \/ InFlight = {})
          /\ handle' \in {handle, "shutdown", "closed", "failed", "dropped"}
  BY <1>5 DEF callVars, CallerInv
<1>6. CASE Shutdown \/ ShutdownReturns \/ Drop
  <2>1. UNCHANGED callVars
    BY <1>6 DEF Shutdown, ShutdownReturns, Drop, DropSender
  <2>2. InFlight = {}
    BY <1>6 DEF Shutdown, ShutdownReturns, Drop, DropSender, CallerInv
  <2>3. handle' \in {handle, "shutdown", "closed", "failed", "dropped"}
    BY <1>6 DEF Shutdown, ShutdownReturns, Drop
  <2> QED
    BY <1>5, <2>1, <2>2, <2>3
<1>7. CASE Receive \/ Apply \/ Panic \/ Reply \/ Stop \/ Closed
  BY <1>5, <1>7 DEF Receive, Apply, Panic, Reply, Stop, Closed, vars, callVars
<1> QED
  BY <1>1, <1>2, <1>3, <1>4, <1>6, <1>7 DEF Next

-----------------------------------------------------------------------------
(* The updater.                                                            *)

LEMMA NextUpdaterInv ==
  ASSUME PipelineInv, Next
  PROVE  UpdaterInv'
<1>1. ASSUME NEW c \in Callers, Send(c)
      PROVE  UpdaterInv'
  BY <1>1 DEF Send, PipelineInv, CallerInv, UpdaterInv
<1>2. CASE Receive
  <2>1. Head(channel) \in EventType
    BY <1>2 DEF Receive, PipelineInv, FlowInv
  <2> QED
    BY <1>2, <2>1 DEF Receive, PipelineInv, UpdaterInv
<1>3. CASE Apply \/ Panic \/ Reply \/ Stop
  BY <1>3 DEF Apply, Panic, Reply, Stop, PipelineInv, UpdaterInv
<1>4. CASE Shutdown \/ ShutdownReturns \/ Drop
  BY <1>4 DEF Shutdown, ShutdownReturns, Drop, DropSender, PipelineInv, UpdaterInv
<1>5. CASE UNCHANGED <<updater, event, channel, handle>>
  BY <1>5 DEF PipelineInv, UpdaterInv
<1>6. CASE Admit \/ Closed \/ (\E c \in Callers : Return(c) \/ Fail(c) \/ Cancel(c) \/ \E l \in Lines : Call(c, l))
  BY <1>5, <1>6 DEF Admit, Closed, vars, Return, Fail, Cancel, Call
<1> QED
  BY <1>1, <1>2, <1>3, <1>4, <1>6 DEF Next

-----------------------------------------------------------------------------
(* The channel's slots.                                                    *)

LEMMA AdmittedFinite ==
  IsFiniteSet(Admitted) /\ Cardinality(Admitted) \in Nat
<1>1. IsFiniteSet(Admitted)
  BY PipelineAssumption, FS_Subset DEF Admitted
<1> QED
  BY <1>1, FS_CardinalityType

LEMMA NextSlotInv ==
  ASSUME PipelineInv, Next
  PROVE  SlotInv'
<1> DEFINE k == Cardinality(Admitted)
<1>1. k \in Nat /\ Len(channel) \in Nat /\ ChannelCapacity \in Nat /\ Len(channel) + k <= ChannelCapacity
  BY AdmittedFinite, PipelineAssumption DEF PipelineInv, FlowInv, SlotInv
<1>2. ASSUME NEW n \in Nat, Len(channel') = n, NEW m \in Nat, Cardinality(Admitted') = m,
             n + m <= Len(channel) + k
      PROVE  SlotInv'
  BY <1>1, <1>2 DEF SlotInv
<1> HIDE DEF k
<1>3. ASSUME Admitted' \subseteq Admitted, channel' \in {channel, <<>>} \/ (channel # <<>> /\ channel' = Tail(channel))
      PROVE  SlotInv'
  <2>1. Cardinality(Admitted') \in Nat /\ Cardinality(Admitted') <= k
    BY <1>3, AdmittedFinite, FS_Subset, FS_CardinalityType DEF k
  <2>2. Len(channel') \in Nat /\ Len(channel') <= Len(channel)
    BY <1>3 DEF PipelineInv, FlowInv
  <2> QED
    BY <1>1, <1>2, <2>1, <2>2
<1>4. ASSUME NEW c \in Callers, Send(c)
      PROVE  SlotInv'
  <2>1. c \in Admitted /\ Admitted' = Admitted \ {c}
    BY <1>4 DEF Send, Admitted, PipelineInv, CallerInv
  <2>2. Cardinality(Admitted') = k - 1
    BY <2>1, AdmittedFinite, FS_RemoveElement DEF k
  <2>3. Cardinality(Admitted') \in Nat
    BY <2>1, AdmittedFinite, FS_RemoveElement, FS_CardinalityType
  <2>4. Len(channel') = Len(channel) + 1
    BY <1>4 DEF Send, PipelineInv, FlowInv
  <2> QED
    BY <1>1, <1>2, <2>2, <2>3, <2>4
<1>5. CASE Admit
  <2>1. Head(waiters) \in Callers /\ pc[Head(waiters)] = "sending"
    BY <1>5, TailHolds DEF Admit, PipelineInv, CallerInv
  <2>2. Admitted' = Admitted \cup {Head(waiters)} /\ Head(waiters) \notin Admitted
    BY <1>5, <2>1 DEF Admit, Admitted, PipelineInv, CallerInv
  <2>3. Cardinality(Admitted') = k + 1
    BY <2>2, AdmittedFinite, FS_AddElement DEF k
  <2>4. channel' = channel /\ ChannelCapacity - Len(channel) - k > 0
    BY <1>5 DEF Admit, FreeSlots, Admitted, k
  <2> QED
    BY <1>1, <2>3, <2>4 DEF SlotInv
<1>6. ASSUME NEW c \in Callers, Return(c) \/ Fail(c) \/ Cancel(c) \/ \E l \in Lines : Call(c, l)
      PROVE  SlotInv'
  <2>1. Admitted' \subseteq Admitted /\ channel' = channel
    BY <1>6 DEF Return, Fail, Cancel, Call, Admitted, PipelineInv, CallerInv
  <2> QED
    BY <1>3, <2>1
<1>7. CASE \/ Receive \/ Apply \/ Panic \/ Reply \/ Stop
           \/ Shutdown \/ ShutdownReturns \/ Drop \/ Closed
  <2>1. pc' = pc
    BY <1>7 DEF Receive, Apply, Panic, Reply, Stop, Shutdown, ShutdownReturns, Drop, DropSender,
                Closed, vars, callVars
  <2>2. channel' \in {channel, <<>>} \/ (channel # <<>> /\ channel' = Tail(channel))
    BY <1>7 DEF Receive, Apply, Panic, Reply, Stop, Shutdown, ShutdownReturns, Drop, DropSender,
                Closed, vars
  <2>3. Admitted' = Admitted
    BY <2>1 DEF Admitted
  <2> QED
    BY <1>3, <2>2, <2>3
<1> QED
  BY <1>4, <1>5, <1>6, <1>7 DEF Next

-----------------------------------------------------------------------------
(* The way of the events.                                                  *)

LEMMA ConcatAppend ==
  ASSUME NEW S, NEW s \in Seq(S), NEW t \in Seq(S), NEW e \in S
  PROVE  s \o Append(t, e) = Append(s \o t, e)
<1>1. <<e>> \in Seq(S) /\ s \o t \in Seq(S)
  BY ConcatProperties
<1>2. Append(t, e) = t \o <<e>> /\ Append(s \o t, e) = (s \o t) \o <<e>>
  BY <1>1, AppendIsConcat
<1> QED
  BY <1>1, <1>2, ConcatAssociative

(* A non-empty channel is its first event and the others.                  *)
LEMMA HeadThenTail ==
  ASSUME NEW S, NEW s \in Seq(S), s # <<>>
  PROVE  Head(s) \in S /\ Tail(s) \in Seq(S) /\ s = <<Head(s)>> \o Tail(s)
<1> DEFINE h == <<Head(s)>>
           r == Tail(s)
<1>1. /\ Head(s) \in S /\ h \in Seq(S) /\ Len(h) = 1 /\ h[1] = s[1]
      /\ r \in Seq(S) /\ Len(r) = Len(s) - 1 /\ Len(s) \in Nat \ {0}
      /\ \A i \in 1..(Len(s) - 1) : r[i] = s[i + 1]
  OBVIOUS
<1> HIDE DEF h, r
<1>2. /\ h \o r \in Seq(S) /\ Len(h \o r) = Len(s)
      /\ \A i \in 1..Len(s) : (h \o r)[i] = IF i <= 1 THEN h[i] ELSE r[i - 1]
  <2>1. /\ h \o r \in Seq(S) /\ Len(h \o r) = Len(h) + Len(r)
        /\ \A i \in 1..(Len(h) + Len(r)) :
             (h \o r)[i] = IF i <= Len(h) THEN h[i] ELSE r[i - Len(h)]
    BY <1>1, ConcatProperties
  <2>2. Len(h) + Len(r) = Len(s)
    BY <1>1
  <2> QED
    BY <1>1, <2>1, <2>2
<1>3. ASSUME NEW i \in 1..Len(s) PROVE s[i] = (h \o r)[i]
  <2>1. CASE i = 1
    BY <1>1, <1>2, <2>1
  <2>2. CASE i # 1
    <3>1. i - 1 \in 1..(Len(s) - 1) /\ (i - 1) + 1 = i /\ ~(i <= 1)
      BY <1>1, <2>2
    <3>2. r[i - 1] = s[i]
      BY <1>1, <3>1
    <3> QED
      BY <1>2, <3>1, <3>2
  <2> QED
    BY <2>1, <2>2
<1>4. s = h \o r
  BY <1>2, <1>3, SeqEqual
<1> QED
  BY <1>1, <1>4 DEF h, r

(* Steps that move no event; the calls may be others.                      *)
LEMMA UnmovedFlowInv ==
  ASSUME FlowInv, UNCHANGED <<channel, applied, sent, lost>>, Held' = Held,
         updater = "panicked" => updater' = "panicked",
         \A e \in EventType : Earlier(e) => Earlier(e)'
  PROVE  FlowInv'
<1>1. Pipe' = Pipe
  BY DEF Pipe
<1> QED
  BY <1>1 DEF FlowInv

(* Steps that move an event on.                                            *)
LEMMA MovedFlowInv ==
  ASSUME PipelineInv, UNCHANGED <<pc, call, sent, lost>>, Pipe' = Pipe,
         channel' \in Seq(EventType), applied' \in Seq(EventType),
         updater # "panicked"
  PROVE  FlowInv'
<1>1. lost = {}
  BY DEF PipelineInv, FlowInv
<1>2. \A e \in EventType : Earlier(e) => Earlier(e)'
  BY DEF Earlier
<1> QED
  BY <1>1, <1>2 DEF PipelineInv, FlowInv

(* Steps that destroy what is not applied.                                 *)
LEMMA LostFlowInv ==
  ASSUME PipelineInv, UNCHANGED <<pc, call, sent, applied>>, channel' = <<>>,
         updater' = "panicked", lost' = lost \cup ToSet(Held \o channel)
  PROVE  FlowInv'
<1>1. /\ Held \o channel \in Seq(EventType)
      /\ Pipe = applied \o (Held \o channel)
      /\ ToSet(Pipe) = ToSet(applied) \cup ToSet(Held \o channel)
      /\ ToSet(applied) \cap ToSet(Held \o channel) = {}
      /\ applied \in Seq(EventType)
  BY PipeHolds DEF PipelineInv, FlowInv
<1>2. Pipe' = applied
  <2>1. Held' = <<>> /\ applied \o <<>> = applied
    BY <1>1, ConcatEmptySeq DEF Held
  <2> QED
    BY <2>1 DEF Pipe
<1>3. Ordered(applied)
  BY <1>1, FrontOrdered DEF PipelineInv, FlowInv
<1>4. ToSet(applied) \cup lost' = sent /\ ToSet(applied) \cap lost' = {}
  BY <1>1 DEF PipelineInv, FlowInv
<1>5. \A e \in EventType : Earlier(e) => Earlier(e)'
  BY DEF Earlier
<1> QED
  BY <1>1, <1>2, <1>3, <1>4, <1>5 DEF PipelineInv, FlowInv

LEMMA SendFlowInv ==
  ASSUME PipelineInv, NEW c \in Callers, Send(c)
  PROVE  FlowInv'
<1> DEFINE e == call[c]
<1>1. /\ e \in EventType /\ e.caller = c /\ pc[c] = "admitted" /\ pc' = [pc EXCEPT ![c] = "waiting"]
      /\ channel' = Append(channel, e) /\ sent' = sent \cup {e}
      /\ UNCHANGED <<call, updater, event, applied, lost>>
  BY DEF Send, PipelineInv, CallerInv
<1>2. /\ e.num \in Nat /\ call[c] = e
      /\ \A d \in Callers : call[d].num \in Nat
      /\ \A d \in EventType : d.num \in Nat /\ d.caller \in Callers
  BY <1>1, PipelineAssumption DEF PipelineInv, CallerInv, EventType
<1> HIDE DEF e
<1>3. \A d \in sent : d.caller = c => d.num < e.num
  BY <1>1, <1>2 DEF PipelineInv, FlowInv, Earlier
<1>4. e \notin sent
  BY <1>1, <1>2, <1>3
<1>5. Held' = Held /\ applied \o Held \in Seq(EventType) /\ Pipe \in Seq(EventType)
  BY <1>1, PipeHolds DEF PipelineInv, Held
<1>6. Pipe' = Append(Pipe, e)
  BY <1>1, <1>5, ConcatAppend DEF PipelineInv, FlowInv, Pipe
<1>7. Ordered(Pipe')
  BY <1>1, <1>3, <1>5, <1>6, AppendOrdered DEF PipelineInv, FlowInv
<1>8. ToSet(Pipe') = ToSet(Pipe) \cup {e} /\ channel' \in Seq(EventType)
  BY <1>1, <1>5, <1>6, AppendHolds DEF PipelineInv, FlowInv
<1>9. ToSet(Pipe') \cup lost' = sent' /\ ToSet(Pipe') \cap lost' = {}
  BY <1>1, <1>4, <1>8 DEF PipelineInv, FlowInv
<1>10. \A d \in sent' : Earlier(d)'
  <2>1. \A d \in EventType : d = e => Earlier(d)'
    BY <1>1, <1>2 DEF Earlier, PipelineInv, CallerInv, e
  <2>2. \A d \in sent : Earlier(d)'
    BY <1>1, <1>2 DEF Earlier, PipelineInv, CallerInv, FlowInv
  <2> QED
    BY <1>1, <2>1, <2>2
<1>11. IsFiniteSet(sent') /\ sent' \subseteq EventType
  BY <1>1, FS_AddElement DEF PipelineInv, FlowInv
<1> QED
  BY <1>1, <1>7, <1>8, <1>9, <1>10, <1>11 DEF PipelineInv, FlowInv

LEMMA NextFlowInv ==
  ASSUME PipelineInv, Next
  PROVE  FlowInv'
<1>1. \A e \in EventType, c \in Callers :
        e.num \in Nat /\ e.caller \in Callers /\ call[c].num \in Nat
  BY PipelineAssumption DEF PipelineInv, CallerInv, EventType
<1>2. ASSUME NEW c \in Callers, NEW l \in Lines, Call(c, l)
      PROVE  FlowInv'
  <2>1. /\ UNCHANGED <<channel, applied, sent, lost, updater, event>>
        /\ pc' = [pc EXCEPT ![c] = "sending"]
        /\ call' = [call EXCEPT ![c] = [caller |-> c, num |-> call[c].num + 1, line |-> l]]
    BY <1>2 DEF Call, PipelineInv, CallerInv
  <2>2. \A e \in EventType : Earlier(e) => Earlier(e)'
    BY <1>1, <2>1 DEF Earlier, PipelineInv, CallerInv
  <2> QED
    BY <2>1, <2>2, UnmovedFlowInv DEF PipelineInv, Held
<1>3. CASE Admit
  <2>1. Head(waiters) \in Callers /\ pc[Head(waiters)] = "sending"
    BY <1>3, TailHolds DEF Admit, PipelineInv, CallerInv
  <2>2. \A e \in EventType : Earlier(e) => Earlier(e)'
    BY <1>1, <1>3, <2>1 DEF Admit, Earlier, PipelineInv, CallerInv
  <2> QED
    BY <1>3, <2>2, UnmovedFlowInv DEF Admit, PipelineInv, Held
<1>4. ASSUME NEW c \in Callers, Return(c) \/ Fail(c) \/ Cancel(c)
      PROVE  FlowInv'
  <2>1. PICK s \in {"idle", "failed"} : pc' = [pc EXCEPT ![c] = s]
    BY <1>4 DEF Return, Fail, Cancel
  <2>2. UNCHANGED <<call, channel, applied, sent, lost, updater, event>>
    BY <1>4 DEF Return, Fail, Cancel
  <2>3. \A e \in EventType : Earlier(e) => Earlier(e)'
    BY <1>1, <2>1, <2>2 DEF Earlier, PipelineInv, CallerInv
  <2> QED
    BY <2>2, <2>3, UnmovedFlowInv DEF PipelineInv, Held
<1>5. CASE Receive
  <2>1. /\ channel # <<>> /\ channel' = Tail(channel) /\ applied' = applied
        /\ Held = <<>> /\ Held' = <<Head(channel)>>
    BY <1>5 DEF Receive, Held
  <2>2. channel \in Seq(EventType) /\ applied \in Seq(EventType)
    BY DEF PipelineInv, FlowInv
  <2>3. /\ Tail(channel) \in Seq(EventType) /\ <<Head(channel)>> \in Seq(EventType)
        /\ channel = <<Head(channel)>> \o Tail(channel)
    BY <2>1, <2>2, HeadThenTail
  <2>4. Pipe' = Pipe
    <3>1. Pipe' = applied \o (<<Head(channel)>> \o Tail(channel))
      BY <2>1, <2>2, <2>3, ConcatAssociative DEF Pipe
    <3>2. Pipe = applied \o channel
      BY <2>1, <2>2, ConcatEmptySeq DEF Pipe
    <3> QED
      BY <3>1, <3>2, <2>3
  <2> QED
    BY <1>5, <2>1, <2>2, <2>3, <2>4, MovedFlowInv DEF Receive, callVars
<1>6. CASE Apply
  <2>1. /\ channel' = channel /\ applied' = Append(applied, event) /\ event \in EventType
        /\ Held = <<event>> /\ Held' = <<>>
    BY <1>6 DEF Apply, Held, PipelineInv, UpdaterInv
  <2>2. channel \in Seq(EventType) /\ applied \in Seq(EventType) /\ applied' \in Seq(EventType)
    BY <2>1 DEF PipelineInv, FlowInv
  <2>3. applied' = applied \o <<event>> /\ applied' \o <<>> = applied'
    BY <2>1, <2>2, AppendIsConcat, ConcatEmptySeq
  <2>4. Pipe' = Pipe
    BY <2>1, <2>3 DEF Pipe
  <2> QED
    BY <1>6, <2>1, <2>2, <2>4, MovedFlowInv DEF Apply, callVars
<1>7. CASE Panic
  <2>1. ToSet(Held \o channel) = {event} \cup ToSet(channel)
    BY <1>7, PipeHolds DEF Panic, PipelineInv
  <2>2. lost = {}
    BY <1>7 DEF Panic, PipelineInv, FlowInv
  <2> QED
    BY <1>7, <2>1, <2>2, LostFlowInv DEF Panic, callVars
<1>8. CASE Shutdown \/ Drop
  <2>1. UNCHANGED <<pc, call, sent, applied, updater, event>>
    BY <1>8 DEF Shutdown, Drop, DropSender, callVars
  <2>2. CASE updater = "panicked"
    <3>1. ToSet(Held \o channel) = ToSet(channel)
      BY <2>2, PipeHolds DEF PipelineInv
    <3> QED
      BY <1>8, <2>1, <2>2, <3>1, LostFlowInv DEF Shutdown, Drop, DropSender
  <2>3. CASE updater # "panicked"
    <3>1. UNCHANGED <<channel, lost>>
      BY <1>8, <2>3 DEF Shutdown, Drop, DropSender
    <3> QED
      BY <2>1, <3>1, UnmovedFlowInv DEF PipelineInv, Held, Earlier
  <2> QED
    BY <2>2, <2>3
<1>9. CASE Reply \/ Stop \/ ShutdownReturns \/ Closed
  <2>1. UNCHANGED <<pc, call, channel, sent, applied, lost>>
    BY <1>9 DEF Reply, Stop, ShutdownReturns, Closed, vars, callVars
  <2>2. Held' = Held /\ (updater = "panicked" => updater' = "panicked")
    BY <1>9 DEF Reply, Stop, ShutdownReturns, Closed, vars, Held
  <2> QED
    BY <2>1, <2>2, UnmovedFlowInv DEF PipelineInv, Earlier
<1> QED
  BY <1>2, <1>3, <1>4, <1>5, <1>6, <1>7, <1>8, <1>9, SendFlowInv DEF Next

(* Every applied event is one entry of the engine's log.                   *)
LEMMA NextLogInv ==
  ASSUME PipelineInv, Next
  PROVE  LogInv'
<1>1. CASE Apply
  <2>1. \E e : log' = Append(log, e) /\ e.line = event.line
    <3>1. Engine!UpdateCluster(event.line) \/ Engine!CreateCluster(event.line)
      BY <1>1 DEF Apply, Engine!AddLogMessage
    <3>2. CASE Engine!UpdateCluster(event.line)
      BY <3>2 DEF Engine!UpdateCluster, Engine!Record
    <3>3. CASE Engine!CreateCluster(event.line)
      BY <3>3 DEF Engine!CreateCluster, Engine!Record
    <3> QED
      BY <3>1, <3>2, <3>3
  <2>2. PICK e : log' = Append(log, e) /\ e.line = event.line
    BY <2>1
  <2> DEFINE S == ToSet(log) \cup {e}
  <2>3. log \in Seq(S) /\ e \in S
    <3>1. log \in Seq(ToSet(log)) /\ ToSet(log) \subseteq S
      BY DEF PipelineInv, LogInv
    <3> HIDE DEF S
    <3>2. log \in Seq(S)
      BY <3>1, SeqMonotonic
    <3> QED
      BY <3>2 DEF S
  <2>4. ToSet(log') = S
    BY <2>2, <2>3, AppendHolds
  <2>5. /\ applied \in Seq(EventType) /\ event \in EventType /\ applied' = Append(applied, event)
        /\ Len(log) = Len(applied) /\ \A i \in 1..Len(applied) : log[i].line = applied[i].line
    BY <1>1 DEF Apply, PipelineInv, FlowInv, LogInv, UpdaterInv
  <2> HIDE DEF S
  <2>6. /\ Len(log') = Len(log) + 1 /\ Len(log) \in Nat /\ log' \in Seq(S)
        /\ \A i \in 1..Len(log) : log'[i] = log[i]
        /\ log'[Len(log) + 1] = e
    BY <2>2, <2>3
  <2>7. /\ Len(applied') = Len(applied) + 1
        /\ \A i \in 1..Len(applied) : applied'[i] = applied[i]
        /\ applied'[Len(applied) + 1] = event
    BY <2>5
  <2> QED
    BY <2>2, <2>4, <2>5, <2>6, <2>7 DEF LogInv
<1>2. CASE UNCHANGED <<log, applied>>
  BY <1>2 DEF PipelineInv, LogInv
<1>3. CASE ~Apply
  <2>1. UNCHANGED <<log, applied>>
    BY <1>3 DEF Next, Call, Send, Return, Fail, Cancel, Admit, Receive, Panic, Reply, Stop,
                Shutdown, ShutdownReturns, Drop, DropSender, Closed, vars, engineVars
  <2> QED
    BY <1>2, <2>1
<1> QED
  BY <1>1, <1>3

-----------------------------------------------------------------------------
(* The expects.                                                            *)

LEMMA NextExpectInv ==
  ASSUME PipelineInv, Next
  PROVE  ExpectInv'
<1> USE DEF ExpectInv, ExpectsHold
<1>1. /\ \A c \in Callers : call[c].caller = c
      /\ DOMAIN pc = Callers /\ DOMAIN call = Callers
      /\ channel \in Seq(EventType)
  BY DEF PipelineInv, CallerInv, FlowInv
<1>2. ASSUME NEW c \in Callers, NEW l \in Lines, Call(c, l)
      PROVE  ExpectInv'
  BY <1>1, <1>2 DEF Call, PipelineInv
<1>3. CASE Admit
  <2>1. Head(waiters) \in Callers
    BY <1>3, TailHolds DEF Admit, PipelineInv, CallerInv
  <2> QED
    BY <1>1, <1>3, <2>1 DEF Admit, PipelineInv
<1>4. ASSUME NEW c \in Callers, Send(c)
      PROVE  ExpectInv'
  <2>1. call[c] \in EventType
    BY <1>4 DEF Send, PipelineInv, CallerInv
  <2>2. ToSet(channel') = ToSet(channel) \cup {call[c]}
    BY <1>1, <1>4, <2>1, AppendHolds DEF Send
  <2>3. /\ pc' = [pc EXCEPT ![c] = "waiting"]
        /\ UNCHANGED <<call, inbox, updater, event>>
    BY <1>4 DEF Send
  <2> QED
    BY <1>1, <2>2, <2>3 DEF PipelineInv
<1>5. ASSUME NEW c \in Callers, Return(c) \/ Cancel(c)
      PROVE  ExpectInv'
  <2>1. /\ pc' = [pc EXCEPT ![c] = "idle"] /\ inbox' = [inbox EXCEPT ![c] = <<>>]
        /\ UNCHANGED <<call, channel, updater, event>>
    BY <1>5 DEF Return, Cancel
  <2> QED
    BY <1>1, <2>1 DEF PipelineInv
<1>6. ASSUME NEW c \in Callers, Fail(c)
      PROVE  ExpectInv'
  <2>1. updater = "panicked"
    BY <1>6 DEF Fail, ReplySenderDropped, PipelineInv, CallerInv, UpdaterInv
  <2>2. updater' = updater /\ inbox' = inbox
    BY <1>6 DEF Fail
  <2> QED
    BY <2>1, <2>2 DEF PipelineInv
<1>7. CASE Receive
  <2>1. /\ updater = "recv" /\ updater' = "apply" /\ event' = Head(channel)
        /\ channel # <<>> /\ channel' = Tail(channel)
        /\ UNCHANGED <<pc, call, inbox>>
    BY <1>7 DEF Receive, callVars
  <2>2. ToSet(channel) = {Head(channel)} \cup ToSet(Tail(channel))
    <3> DEFINE h == <<Head(channel)>>
               r == Tail(channel)
    <3>1. h \in Seq(EventType) /\ r \in Seq(EventType) /\ channel = h \o r
      BY <1>1, <2>1, HeadThenTail
    <3>2. ToSet(h) = {Head(channel)}
      BY DEF ToSet
    <3> HIDE DEF h, r
    <3>3. ToSet(h \o r) = ToSet(h) \cup ToSet(r)
      BY <3>1, ConcatHolds
    <3> QED
      BY <3>1, <3>2, <3>3 DEF r
  <2> QED
    BY <2>1, <2>2 DEF PipelineInv
<1>8. CASE Apply
  BY <1>8 DEF Apply, callVars, PipelineInv
<1>9. CASE Panic
  BY <1>9 DEF Panic, callVars, PipelineInv
<1>10. CASE Reply
  <2>1. /\ updater = "reply" /\ updater' = "recv" /\ UNCHANGED <<pc, call, channel>>
        /\ inbox' = IF Listening(event) THEN [inbox EXCEPT ![event.caller] = <<result>>] ELSE inbox
    BY <1>10 DEF Reply, callVars
  <2>2. \A c \in Callers : pc[c] = "waiting" /\ event = call[c] => inbox'[c] # <<>>
    <3> SUFFICES ASSUME NEW c \in Callers, pc[c] = "waiting", event = call[c]
                 PROVE  inbox'[c] # <<>>
      OBVIOUS
    <3>1. event.caller = c
      BY <1>1
    <3>2. Listening(event)
      BY <3>1 DEF Listening
    <3>3. inbox'[c] = <<result>>
      BY <2>1, <3>1, <3>2 DEF PipelineInv
    <3> QED
      BY <3>3
  <2>3. \A c \in Callers : inbox[c] # <<>> => inbox'[c] # <<>>
    BY <2>1 DEF PipelineInv
  <2>4. DOMAIN inbox' = Callers
    BY <2>1 DEF PipelineInv
  <2> QED
    BY <2>1, <2>2, <2>3, <2>4 DEF PipelineInv
<1>11. CASE Stop
  BY <1>11 DEF Stop, callVars, PipelineInv
<1>12. CASE Shutdown \/ Drop
  <2>1. InFlight = {} /\ UNCHANGED <<pc, inbox, updater>>
    BY <1>12 DEF Shutdown, Drop, DropSender, callVars
  <2> QED
    BY <2>1 DEF PipelineInv
<1>13. CASE ShutdownReturns \/ Closed
  <2>1. UNCHANGED <<pc, call, inbox, channel, updater, event>>
    BY <1>13 DEF ShutdownReturns, Closed, vars, callVars
  <2> QED
    BY <2>1 DEF PipelineInv
<1> QED
  BY <1>2, <1>3, <1>4, <1>5, <1>6, <1>7, <1>8, <1>9, <1>10, <1>11, <1>12, <1>13 DEF Next

-----------------------------------------------------------------------------
LEMMA NextPipelineInv == PipelineInv /\ [Next]_vars => PipelineInv'
<1> SUFFICES ASSUME PipelineInv, [Next]_vars PROVE PipelineInv'
  OBVIOUS
<1>1. CASE Next
  <2>1. CallerInv'
    BY <1>1, NextCallerInv DEF PipelineInv
  <2> QED
    BY <1>1, <2>1, NextUpdaterInv, NextFlowInv, NextLogInv, NextSlotInv, NextExpectInv DEF PipelineInv
<1>2. CASE UNCHANGED vars
  <2>1. CallerInv' /\ UpdaterInv' /\ LogInv' /\ ExpectInv'
    BY <1>2 DEF vars, engineVars, PipelineInv, CallerInv, UpdaterInv, LogInv, ExpectInv, ExpectsHold
  <2>2. FlowInv'
    BY <1>2, UnmovedFlowInv DEF vars, PipelineInv, Held, Earlier
  <2>3. SlotInv'
    BY <1>2 DEF vars, PipelineInv, SlotInv, Admitted
  <2> QED
    BY <2>1, <2>2, <2>3 DEF PipelineInv
<1> QED
  BY <1>1, <1>2

(* The channel never holds more than its capacity, with the slots promised *)
(* to senders that have not used them, whatever calls are dropped.         *)
THEOREM PipelineTyping == Spec => []PipelineTypeOK
<1>1. PipelineInv => PipelineTypeOK
  <2> SUFFICES ASSUME PipelineInv PROVE PipelineTypeOK
    OBVIOUS
  <2>1. FreeSlots >= 0
    <3>1. /\ Cardinality(Admitted) \in Nat /\ Len(channel) \in Nat /\ ChannelCapacity \in Nat
          /\ Len(channel) + Cardinality(Admitted) <= ChannelCapacity
      BY AdmittedFinite, PipelineAssumption DEF PipelineInv, FlowInv, SlotInv
    <3> QED
      BY <3>1 DEF FreeSlots, Admitted
  <2>2. \A c \in Callers : call[c].num \in 0..CallsEach
    BY DEF PipelineInv, CallerInv
  <2>3. lost \subseteq EventType
    BY DEF PipelineInv, FlowInv
  <2> QED
    BY <2>1, <2>2, <2>3 DEF PipelineInv, CallerInv, UpdaterInv, FlowInv, PipelineTypeOK
<1> QED
  BY <1>1, InitPipelineInv, NextPipelineInv, PTL DEF Spec

(* No sent event is lost or applied twice, except that a panic of the      *)
(* engine destroys what is in the channel.                                 *)
THEOREM AppliedExactlyOnce == Spec => []ExactlyOnce
<1>1. PipelineInv => ExactlyOnce
  <2> SUFFICES ASSUME PipelineInv PROVE ExactlyOnce
    OBVIOUS
  <2> DEFINE places == channel \o Held \o applied
  <2>1. /\ channel \in Seq(EventType) /\ Held \in Seq(EventType) /\ applied \in Seq(EventType)
        /\ Pipe \in Seq(EventType) /\ Once(Pipe)
        /\ ToSet(Pipe) = (ToSet(applied) \cup ToSet(Held)) \cup ToSet(channel)
        /\ Len(Pipe) = Len(applied) + Len(Held) + Len(channel)
    BY PipeHolds DEF PipelineInv, FlowInv
  <2>2. /\ channel \o Held \in Seq(EventType)
        /\ Len(channel \o Held) = Len(channel) + Len(Held)
        /\ ToSet(channel \o Held) = ToSet(channel) \cup ToSet(Held)
    BY <2>1, ConcatHolds
  <2>3. /\ Len(places) = Len(channel \o Held) + Len(applied)
        /\ ToSet(places) = ToSet(channel \o Held) \cup ToSet(applied)
    BY <2>1, <2>2, ConcatHolds
  <2>4. Len(places) = Len(Pipe) /\ ToSet(places) = ToSet(Pipe)
    <3>1. Len(channel) \in Nat /\ Len(Held) \in Nat /\ Len(applied) \in Nat
      BY <2>1
    <3> QED
      BY <2>1, <2>2, <2>3, <3>1
  <2>5. IsFiniteSet(ToSet(Pipe)) /\ Cardinality(ToSet(Pipe)) = Len(Pipe)
    BY <2>1, OnceCounts
  <2>6. Len(places) + Cardinality(lost) = Cardinality(sent)
    <3>1. lost \subseteq sent /\ IsFiniteSet(sent) /\ sent = ToSet(Pipe) \cup lost /\ ToSet(Pipe) \cap lost = {}
      BY DEF PipelineInv, FlowInv
    <3>2. IsFiniteSet(lost) /\ Cardinality(lost) \in Nat /\ Len(Pipe) \in Nat
      BY <2>1, <3>1, FS_Subset, FS_CardinalityType
    <3>3. Cardinality(sent) = Cardinality(ToSet(Pipe)) + Cardinality(lost) - Cardinality(ToSet(Pipe) \cap lost)
      BY <2>5, <3>1, <3>2, FS_Union
    <3>4. Cardinality(sent) = Len(Pipe) + Cardinality(lost) - 0
      BY <2>5, <3>1, <3>3, FS_EmptySet
    <3> HIDE DEF places
    <3> QED
      BY <2>4, <3>2, <3>4
  <2>7. [i \in DOMAIN applied |-> applied[i].line] = [i \in DOMAIN log |-> log[i].line]
    <3>1. DOMAIN applied = 1..Len(applied) /\ DOMAIN log = 1..Len(log)
      BY <2>1 DEF PipelineInv, LogInv
    <3> QED
      BY <3>1 DEF PipelineInv, LogInv
  <2> QED
    BY <2>4, <2>6, <2>7 DEF ExactlyOnce, Held, PipelineInv, FlowInv
<1> QED
  BY <1>1, InitPipelineInv, NextPipelineInv, PTL DEF Spec

(* However its calls are abandoned, a caller's lines are applied in order. *)
THEOREM CallsInOrder == Spec => []ProgramOrder
<1>1. PipelineInv => ProgramOrder
  <2> SUFFICES ASSUME PipelineInv PROVE ProgramOrder
    OBVIOUS
  <2>1. Ordered(applied)
    BY PipeHolds, FrontOrdered DEF PipelineInv, FlowInv
  <2> QED
    BY <2>1 DEF Ordered, ProgramOrder
<1> QED
  BY <1>1, InitPipelineInv, NextPipelineInv, PTL DEF Spec

(* The expects of add_log_message fail only after a panic of the engine.   *)
THEOREM ExpectsNeverFail == Spec => []ExpectsHold
<1>1. PipelineInv => ExpectsHold
  BY DEF PipelineInv, ExpectInv
<1> QED
  BY <1>1, InitPipelineInv, NextPipelineInv, PTL DEF Spec

(* The updater ends by itself only with an empty channel.                  *)
THEOREM DrainedAtEnd == Spec => []ShutdownDrains
<1>1. PipelineInv => ShutdownDrains
  <2> SUFFICES ASSUME PipelineInv PROVE ShutdownDrains
    OBVIOUS
  <2>1. ASSUME updater = "stopped" PROVE ToSet(applied) = sent
    <3>1. channel = <<>> /\ lost = {}
      BY <2>1 DEF PipelineInv, UpdaterInv, FlowInv
    <3>2. ToSet(channel) = {} /\ ToSet(Held) = {}
      BY <2>1, <3>1, PipeHolds DEF ToSet, PipelineInv
    <3> QED
      BY <3>1, <3>2, PipeHolds DEF PipelineInv, FlowInv
  <2> QED
    BY <2>1 DEF ShutdownDrains, PipelineInv, UpdaterInv
<1> QED
  BY <1>1, InitPipelineInv, NextPipelineInv, PTL DEF Spec

-----------------------------------------------------------------------------
(* The answers.  The engine's invariant and lemmas are those of            *)
(* DrainProofs, about the engine inside the updater.                       *)

EngineProofs == INSTANCE DrainProofs

EngineInv == EngineProofs!TypeOK /\ EngineProofs!MinerInv

(* The lines assigned to a cluster by the first i calls.                   *)
SizeAfter(lg, i, id) == Cardinality({j \in 1..i : lg[j].id = id})

(* r is the engine's answer to call n of caller c.                         *)
Answers(c, n, r) ==
  \E i \in DOMAIN applied :
    /\ applied[i].caller = c /\ applied[i].num = n
    /\ log[i].id = r.id /\ log[i].update = r.update
    /\ r.size = SizeAfter(log, i, r.id)
    /\ \A p \in DOMAIN r.template :
         r.template[p] \in {ParamStr, MaskedTokens[applied[i].line][p]}

(* An answer belongs to the call it is given to from the engine to the     *)
(* caller: in the updater's hands, in the oneshot channel, returned.       *)
AnswerInv ==
  /\ updater = "reply" => Answers(event.caller, event.num, result)
  /\ \A c \in Callers : inbox[c] # <<>> => Answers(c, call[c].num, Head(inbox[c]))
  /\ \A c \in Callers : answer[c] # None => Answers(c, answer[c].num, answer[c].result)

(* The engine of the pipeline and that of the proofs are the same.         *)
LEMMA SameEngine ==
  ASSUME NEW l
  PROVE  EngineProofs!AddLogMessage(l) <=> Engine!AddLogMessage(l)
BY DEF EngineProofs!SearchLeaves, Engine!SearchLeaves, EngineProofs!Children,
       Engine!Children, EngineProofs!Keys, Engine!Keys, EngineProofs!RouteLen,
       Engine!RouteLen, EngineProofs!Descends, Engine!Descends, EngineProofs!AddLogMessage,
       Engine!AddLogMessage, EngineProofs!UpdateCluster, Engine!UpdateCluster,
       EngineProofs!Chosen, Engine!Chosen, EngineProofs!TreeSearch, Engine!TreeSearch,
       EngineProofs!FastMatch, Engine!FastMatch, EngineProofs!Best, Engine!Best,
       EngineProofs!Better, Engine!Better, EngineProofs!Score, Engine!Score,
       EngineProofs!SimTokens, Engine!SimTokens, EngineProofs!Matches, Engine!Matches,
       EngineProofs!Params, Engine!Params, EngineProofs!ParamCount, Engine!ParamCount,
       EngineProofs!GoodEnough, Engine!GoodEnough, EngineProofs!Reaches, Engine!Reaches,
       EngineProofs!CreateTemplate, Engine!CreateTemplate, EngineProofs!Promote,
       Engine!Promote, EngineProofs!Record, Engine!Record, EngineProofs!CreateCluster,
       Engine!CreateCluster, EngineProofs!Live, Engine!Live, EngineProofs!StoreNew,
       Engine!StoreNew, EngineProofs!Evicted, Engine!Evicted,
       EngineProofs!AddSeqToPrefixTree, Engine!AddSeqToPrefixTree, EngineProofs!LeafIds,
       Engine!LeafIds, EngineProofs!InsertPath, Engine!InsertPath, EngineProofs!InsertKey,
       Engine!InsertKey, EngineProofs!HasRoom, Engine!HasRoom, EngineProofs!Paths,
       Engine!Paths, EngineProofs!InsertPanics, Engine!InsertPanics, EngineProofs!Stuck,
       Engine!Stuck, EngineProofs!Cardinality, Engine!Cardinality

(* What the engine does to a line, as the pipeline sees it.                *)
LEMMA EngineStep ==
  ASSUME EngineInv, NEW l \in Lines, Engine!AddLogMessage(l)
  PROVE  /\ EngineInv'
         /\ Len(log') = Len(log) + 1
         /\ \A i \in 1..Len(log) : log'[i] = log[i]
         /\ LET c == log'[Len(log')].id
            IN  /\ idToCluster'[c].size = Cardinality({j \in 1..Len(log') : log'[j].id = c})
                /\ \A p \in DOMAIN idToCluster'[c].template :
                     idToCluster'[c].template[p] \in {ParamStr, MaskedTokens[l][p]}
<1>1. EngineProofs!AddLogMessage(l)
  BY SameEngine
<1>2. \A S : EngineProofs!Cardinality(S) = Cardinality(S)
  BY DEF EngineProofs!Cardinality, Cardinality
<1> QED
  BY <1>1, <1>2, EngineAssumption, EngineProofs!LatestEntry DEF EngineInv

LEMMA InitEngineInv == Init => EngineInv
BY EngineAssumption, EngineProofs!InitTypeOK, EngineProofs!InitMinerInv
   DEF Init, EngineInv, Engine!Init, EngineProofs!Init

LEMMA NextEngineInv ==
  ASSUME PipelineInv, EngineInv, [Next]_vars
  PROVE  EngineInv'
<1>1. CASE Apply
  <2>1. event.line \in Lines /\ Engine!AddLogMessage(event.line)
    BY <1>1 DEF Apply, PipelineInv, UpdaterInv, EventType
  <2> QED
    BY <2>1, EngineStep
<1>2. CASE UNCHANGED engineVars
  BY <1>2 DEF engineVars, EngineInv, EngineProofs!TypeOK, EngineProofs!MinerInv,
              EngineProofs!ListedLengths, EngineProofs!RecencyDistinct,
              EngineProofs!ReportsExact, EngineProofs!Live
<1>3. CASE ~Apply
  <2>1. UNCHANGED engineVars
    BY <1>3 DEF Next, Call, Send, Return, Fail, Cancel, Admit, Receive, Panic, Reply, Stop,
                Shutdown, ShutdownReturns, Drop, DropSender, Closed, vars, engineVars
  <2> QED
    BY <1>2, <2>1
<1> QED
  BY <1>1, <1>3

(* An answer stays right when more lines are applied.                      *)
LEMMA AnswerStays ==
  ASSUME PipelineInv, NEW c, NEW n, NEW r, Answers(c, n, r),
         \A i \in 1..Len(applied) : /\ i \in DOMAIN applied' /\ applied'[i] = applied[i]
                                   /\ log'[i] = log[i]
  PROVE  Answers(c, n, r)'
<1>1. Len(applied) \in Nat /\ DOMAIN applied = 1..Len(applied)
  BY DEF PipelineInv, FlowInv
<1>2. PICK i \in 1..Len(applied) :
        /\ applied[i].caller = c /\ applied[i].num = n
        /\ log[i].id = r.id /\ log[i].update = r.update
        /\ r.size = SizeAfter(log, i, r.id)
        /\ \A p \in DOMAIN r.template :
             r.template[p] \in {ParamStr, MaskedTokens[applied[i].line][p]}
  BY <1>1 DEF Answers
<1>3. {j \in 1..i : log'[j].id = r.id} = {j \in 1..i : log[j].id = r.id}
  BY <1>1
<1>4. /\ i \in DOMAIN applied' /\ applied'[i] = applied[i] /\ log'[i] = log[i]
      /\ r.size = SizeAfter(log', i, r.id)
  BY <1>2, <1>3 DEF SizeAfter
<1>5. \A p \in DOMAIN r.template :
        r.template[p] \in {ParamStr, MaskedTokens[applied'[i].line][p]}
  BY <1>2, <1>4
<1> QED
  BY <1>2, <1>4, <1>5 DEF Answers

LEMMA NextAnswerInv ==
  ASSUME PipelineInv, EngineInv, AnswerInv, [Next]_vars
  PROVE  AnswerInv'
<1> USE DEF AnswerInv
<1>1. /\ \A c \in Callers : call[c].caller = c
      /\ DOMAIN call = Callers /\ DOMAIN inbox = Callers
      /\ applied \in Seq(EventType) /\ Len(log) = Len(applied) /\ Len(applied) \in Nat
      /\ DOMAIN applied = 1..Len(applied)
  BY DEF PipelineInv, CallerInv, ExpectInv, FlowInv, LogInv
<1>2. UNCHANGED <<applied, log>> => \A c, n, r : Answers(c, n, r)' <=> Answers(c, n, r)
  BY DEF Answers
<1>3. ASSUME NEW c \in Callers,
             \/ \E l \in Lines : Call(c, l)
             \/ Send(c) \/ Fail(c) \/ Cancel(c)
      PROVE  AnswerInv'
  BY <1>1, <1>2, <1>3 DEF Call, Send, Fail, Cancel, engineVars
<1>4. ASSUME NEW c \in Callers, Return(c)
      PROVE  AnswerInv'
  BY <1>1, <1>2, <1>4 DEF Return, engineVars
<1>5. CASE Apply
  <2>1. event \in EventType /\ applied' = Append(applied, event) /\ event' = event
    BY <1>5 DEF Apply, PipelineInv, UpdaterInv
  <2>2. /\ DOMAIN applied' = 1..(Len(applied) + 1)
        /\ \A i \in 1..Len(applied) : applied'[i] = applied[i]
        /\ applied'[Len(applied) + 1] = event
    BY <1>1, <2>1
  <2>3. /\ Len(log') = Len(log) + 1
        /\ \A i \in 1..Len(log) : log'[i] = log[i]
        /\ LET c == log'[Len(log')].id
           IN  /\ idToCluster'[c].size = Cardinality({j \in 1..Len(log') : log'[j].id = c})
               /\ \A p \in DOMAIN idToCluster'[c].template :
                    idToCluster'[c].template[p] \in {ParamStr, MaskedTokens[event.line][p]}
    <3>1. event.line \in Lines /\ Engine!AddLogMessage(event.line)
      BY <1>5, <2>1 DEF Apply, EventType
    <3> QED
      BY <3>1, EngineStep
  <2>4. \A c, n, r : Answers(c, n, r) => Answers(c, n, r)'
    BY <1>1, <2>2, <2>3, AnswerStays
  <2>5. Answers(event.caller, event.num, result)'
    <3> DEFINE k == Len(applied) + 1
               e == log'[k]
               r == ResultOf(e)
    <3>1. k \in DOMAIN applied' /\ applied'[k] = event /\ Len(log') = k
      BY <1>1, <2>2, <2>3
    <3>2. result' = r
      BY <1>5, <3>1 DEF Apply
    <3>3. r.id = e.id /\ r.update = e.update /\ r.size = idToCluster'[e.id].size
          /\ r.template = idToCluster'[e.id].template
      BY DEF ResultOf
    <3>4. /\ r.size = SizeAfter(log', k, r.id)
          /\ \A p \in DOMAIN r.template :
               r.template[p] \in {ParamStr, MaskedTokens[applied'[k].line][p]}
      <4> HIDE DEF r
      <4> QED
        BY <2>3, <3>1, <3>3 DEF SizeAfter
    <3> HIDE DEF r, k
    <3> QED
      BY <2>1, <3>1, <3>2, <3>3, <3>4 DEF Answers, e
  <2>6. UNCHANGED <<call, inbox, answer>>
    BY <1>5 DEF Apply, callVars
  <2> QED
    BY <2>4, <2>5, <2>6
<1>6. CASE Reply
  <2>1. /\ updater = "reply" /\ updater' = "recv"
        /\ UNCHANGED <<call, answer, applied, log>>
        /\ inbox' = IF Listening(event) THEN [inbox EXCEPT ![event.caller] = <<result>>] ELSE inbox
    BY <1>6 DEF Reply, callVars, engineVars
  <2>2. ASSUME NEW c \in Callers, inbox'[c] # <<>>
        PROVE  Answers(c, call[c].num, Head(inbox'[c]))
    <3>1. CASE Listening(event) /\ event.caller = c
      <4>1. call[c] = event /\ inbox'[c] = <<result>>
        BY <1>1, <2>1, <3>1 DEF Listening
      <4> QED
        BY <2>1, <3>1, <4>1
    <3>2. CASE ~(Listening(event) /\ event.caller = c)
      <4>1. inbox'[c] = inbox[c]
        BY <1>1, <2>1, <3>2
      <4> QED
        BY <2>2, <4>1
    <3> QED
      BY <3>1, <3>2
  <2> QED
    BY <1>2, <2>1, <2>2
<1>7. CASE Admit \/ Receive \/ Panic \/ Stop \/ Shutdown \/ ShutdownReturns \/ Drop \/ Closed \/ UNCHANGED vars
  <2>1. UNCHANGED <<call, inbox, answer, applied, log>> /\ (updater' = "reply" => UNCHANGED <<updater, event, result>>)
    BY <1>7 DEF Admit, Receive, Panic, Stop, Shutdown, ShutdownReturns, Drop, DropSender, Closed,
                vars, callVars, engineVars
  <2> QED
    BY <1>2, <2>1
<1> QED
  BY <1>3, <1>4, <1>5, <1>6, <1>7 DEF Next

(* What a call returns is what the engine answered to this very call,      *)
(* whatever calls are dropped and repeated meanwhile: the size of its      *)
(* cluster then, under a template that covers its line.                    *)
THEOREM AnswersBelong == Spec => []AnswersAreOwn
<1>1. Init => PipelineInv /\ EngineInv /\ AnswerInv
  <2>1. Init => AnswerInv
    BY DEF Init, AnswerInv
  <2> QED
    BY <2>1, InitPipelineInv, InitEngineInv
<1>2. PipelineInv /\ EngineInv /\ AnswerInv /\ [Next]_vars => (PipelineInv /\ EngineInv /\ AnswerInv)'
  BY NextPipelineInv, NextEngineInv, NextAnswerInv
<1>3. AnswerInv => AnswersAreOwn
  BY DEF AnswerInv, Answers, SizeAfter, AnswersAreOwn
<1> QED
  BY <1>1, <1>2, <1>3, PTL DEF Spec
=============================================================================
