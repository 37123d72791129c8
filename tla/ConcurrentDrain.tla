--------------------------- MODULE ConcurrentDrain ---------------------------
(***************************************************************************)
(* The pipeline of drain3_rust/src/pipeline.rs: caller tasks tokenise and  *)
(* send events through a bounded tokio channel to one updater task, which  *)
(* owns the engine and answers each event through a oneshot channel.       *)
(*                                                                         *)
(* A call's future may be dropped at any await: before it got a slot of    *)
(* the channel nothing was sent; once the event is in the channel the      *)
(* updater applies it and finds the receiver gone.  shutdown consumes the  *)
(* pipeline, as does dropping it without, so either starts only when no    *)
(* call borrows it.                                                        *)
(*                                                                         *)
(* A line that makes the engine panic kills the updater task: its receiver *)
(* is dropped, with the events then in the channel, and the expects of     *)
(* add_log_message and shutdown panic in their callers.                    *)
(***************************************************************************)
EXTENDS Naturals, Sequences, FiniteSets, SequencesExt

CONSTANTS Callers,          \* caller tasks
          CallsEach,        \* bound on the calls of each
          ChannelCapacity,  \* bound of the mpsc channel
          None              \* no event, no answer

(* The engine's parameters. *)
CONSTANTS ParamStr, Lines, Tokens, RawTokens, MaskedTokens, NumericTokens,
          SimNum, SimDen, MaxNodeDepth, MaxChildren, MaxClusters, NoLimit, MaxCalls

ASSUME PipelineAssumption ==
  /\ IsFiniteSet(Callers) /\ CallsEach \in Nat /\ ChannelCapacity \in Nat \ {0}
  /\ MaxCalls >= CallsEach * Cardinality(Callers)

(* The engine's own assumptions.                                           *)
ASSUME EngineAssumption ==
  /\ RawTokens \in [Lines -> Seq(Tokens)] /\ MaskedTokens \in [Lines -> Seq(Tokens)]
  /\ SimNum \in Nat /\ SimDen \in Nat \ {0} /\ SimNum <= SimDen
  /\ MaxNodeDepth \in Nat \ {0} /\ MaxChildren \in Nat
  /\ NoLimit \notin Nat /\ MaxClusters \in (Nat \ {0}) \cup {NoLimit}
  /\ MaxCalls \in Nat

VARIABLES
  pc,           \* caller -> "idle", "sending", "admitted", "waiting", or "failed"
  call,         \* caller -> its last event [caller, num, line]
  waiters,      \* callers queued for a slot of the channel, in order
  channel,      \* events in the channel, in order
  updater,      \* "recv", "apply", "reply", "stopped" or "panicked"
  event,        \* the event the updater holds
  result,       \* the answer the updater is about to send
  inbox,        \* caller -> what is in the oneshot channel of its call, <<>> or one answer
  answer,       \* caller -> what its last completed call returned: [num, result]
  handle,       \* "open", "shutdown" (awaiting the updater), then "closed" or
                \* "failed"; or "dropped"
  sent,         \* history: the events put in the channel
  applied,      \* history: the events the updater applied, in order
  lost          \* history: the events destroyed unapplied

VARIABLES idToCluster, recency, tree, clustersCounter, log    \* the engine

Engine == INSTANCE Drain

engineVars == <<idToCluster, recency, tree, clustersCounter, log>>
callVars == <<pc, call, waiters>>
vars == <<pc, call, waiters, channel, updater, event, result, inbox, answer, handle,
          sent, applied, lost, engineVars>>

Init ==
  /\ pc = [c \in Callers |-> "idle"]
  /\ call = [c \in Callers |-> [caller |-> c, num |-> 0, line |-> None]]
  /\ waiters = <<>>
  /\ channel = <<>>
  /\ updater = "recv" /\ event = None /\ result = None
  /\ inbox = [c \in Callers |-> <<>>]
  /\ answer = [c \in Callers |-> None]
  /\ handle = "open"
  /\ sent = {} /\ applied = <<>> /\ lost = {}
  /\ Engine!Init

InFlight == {c \in Callers : pc[c] \in {"sending", "admitted", "waiting"}}

(* Mutant of FreeSlots: slots promised to senders are not counted.         *)
FreeSlotsUnpromised == ChannelCapacity - Len(channel)

(* Slots neither taken by an event nor promised to an admitted sender.     *)
FreeSlots ==
  ChannelCapacity - Len(channel) - Cardinality({c \in Callers : pc[c] = "admitted"})

-----------------------------------------------------------------------------
(* Callers.                                                                *)

(* add_log_message up to its first await: the event is built and queues    *)
(* for a slot of the channel.                                              *)
Call(c, l) ==
  /\ handle = "open"
  /\ pc[c] = "idle" /\ call[c].num < CallsEach
  /\ pc' = [pc EXCEPT ![c] = "sending"]
  /\ call' = [call EXCEPT ![c] = [caller |-> c, num |-> @.num + 1, line |-> l]]
  /\ inbox' = [inbox EXCEPT ![c] = <<>>]
  /\ waiters' = Append(waiters, c)
  /\ UNCHANGED <<channel, updater, event, result, answer, handle, sent, applied, lost, engineVars>>

(* The channel's semaphore serves senders in order.                        *)
Admit ==
  /\ waiters # <<>> /\ FreeSlots > 0 /\ updater \notin {"stopped", "panicked"}
  /\ pc' = [pc EXCEPT ![Head(waiters)] = "admitted"]
  /\ waiters' = Tail(waiters)
  /\ UNCHANGED <<call, channel, updater, event, result, inbox, answer, handle, sent, applied, lost, engineVars>>

(* Mutant of Send: the event is put in front of the others.                *)
SendFirst(c) ==
  /\ pc[c] = "admitted"
  /\ pc' = [pc EXCEPT ![c] = "waiting"]
  /\ channel' = <<call[c]>> \o channel
  /\ sent' = sent \cup {call[c]}
  /\ UNCHANGED <<call, waiters, updater, event, result, inbox, answer, handle, applied, lost, engineVars>>

(* send completes; admitted senders do so in any order, and one that has   *)
(* its slot puts its event in the channel although the receiver is gone.   *)
Send(c) ==
  /\ pc[c] = "admitted"
  /\ pc' = [pc EXCEPT ![c] = "waiting"]
  /\ channel' = Append(channel, call[c])
  /\ sent' = sent \cup {call[c]}
  /\ UNCHANGED <<call, waiters, updater, event, result, inbox, answer, handle, applied, lost, engineVars>>

(* rx.await completes.                                                     *)
Return(c) ==
  /\ pc[c] = "waiting" /\ inbox[c] # <<>>
  /\ pc' = [pc EXCEPT ![c] = "idle"]
  /\ answer' = [answer EXCEPT ![c] = [num |-> call[c].num, result |-> Head(inbox[c])]]
  /\ inbox' = [inbox EXCEPT ![c] = <<>>]
  /\ UNCHANGED <<call, waiters, channel, updater, event, result, handle, sent, applied, lost, engineVars>>

(* The future of a call that is still queued gives up its place.           *)
LeaveQueue(c) ==
  IF pc[c] = "sending"
    THEN \E i \in DOMAIN waiters : waiters[i] = c /\ waiters' = RemoveAt(waiters, i)
    ELSE UNCHANGED waiters

(* The expects of add_log_message.  "updater task has stopped": a caller   *)
(* without a slot finds the channel closed.  "updater dropped reply        *)
(* sender": its event was destroyed.                                       *)
ReplySenderDropped(c) ==
  inbox[c] = <<>> /\ call[c] \notin ToSet(channel) \cup {event}

Fail(c) ==
  /\ \/ pc[c] = "sending" /\ updater \in {"stopped", "panicked"}
     \/ pc[c] = "waiting" /\ ReplySenderDropped(c)
  /\ pc' = [pc EXCEPT ![c] = "failed"]
  /\ LeaveQueue(c)
  /\ UNCHANGED <<call, channel, updater, event, result, inbox, answer, handle, sent, applied, lost, engineVars>>

(* Mutant of Cancel: the abandoned event is withdrawn from the channel.    *)
CancelWithdraws(c) ==
  /\ c \in InFlight
  /\ pc' = [pc EXCEPT ![c] = "idle"]
  /\ LeaveQueue(c)
  /\ channel' = SelectSeq(channel, LAMBDA e : e # call[c])
  /\ inbox' = [inbox EXCEPT ![c] = <<>>]
  /\ UNCHANGED <<call, updater, event, result, answer, handle, sent, applied, lost, engineVars>>

(* The call's future is dropped: its place in the queue or its slot is     *)
(* given up; an event in the channel stays there.                          *)
Cancel(c) ==
  /\ c \in InFlight
  /\ pc' = [pc EXCEPT ![c] = "idle"]
  /\ LeaveQueue(c)
  /\ inbox' = [inbox EXCEPT ![c] = <<>>]
  /\ UNCHANGED <<call, channel, updater, event, result, answer, handle, sent, applied, lost, engineVars>>

-----------------------------------------------------------------------------
(* The updater task.                                                       *)

(* recv().await takes the next event and frees its slot.                   *)
Receive ==
  /\ updater = "recv" /\ channel # <<>>
  /\ event' = Head(channel)
  /\ channel' = Tail(channel)
  /\ updater' = "apply"
  /\ UNCHANGED <<callVars, result, inbox, answer, handle, sent, applied, lost, engineVars>>

(* The DrainResult of the entry just logged: the updated cluster's clone.  *)
ResultOf(entry) ==
  [id |-> entry.id, update |-> entry.update,
   size |-> idToCluster'[entry.id].size, template |-> idToCluster'[entry.id].template]

(* add_log_message_from_tokens on the engine.                              *)
Apply ==
  /\ updater = "apply"
  /\ Engine!AddLogMessage(event.line)
  /\ result' = ResultOf(log'[Len(log')])
  /\ applied' = Append(applied, event)
  /\ updater' = "reply"
  /\ UNCHANGED <<callVars, channel, event, inbox, answer, handle, sent, lost>>

(* Mutant of Panic: the event that caused it is kept, reply sender         *)
(* included.                                                               *)
PanicKeepsEvent ==
  /\ updater = "apply"
  /\ Engine!Chosen(event.line) = {} /\ Engine!InsertPanics(MaskedTokens[event.line])
  /\ updater' = "panicked" /\ event' = event
  /\ lost' = {event} \cup ToSet(channel) /\ channel' = <<>>
  /\ UNCHANGED <<callVars, result, inbox, answer, handle, sent, applied, engineVars>>

(* The engine panics: the task unwinds, its receiver is dropped and        *)
(* empties the channel.                                                    *)
Panic ==
  /\ updater = "apply"
  /\ Engine!Chosen(event.line) = {} /\ Engine!InsertPanics(MaskedTokens[event.line])
  /\ updater' = "panicked" /\ event' = None
  /\ lost' = {event} \cup ToSet(channel) /\ channel' = <<>>
  /\ UNCHANGED <<callVars, result, inbox, answer, handle, sent, applied, engineVars>>

(* Mutant of Listening: any call of the event's caller will do.            *)
ListeningAnyCall(e) == pc[e.caller] = "waiting"

(* The receiver of the event's oneshot channel still waits for it.         *)
Listening(e) == pc[e.caller] = "waiting" /\ call[e.caller] = e

(* Mutant of Reply: a line that changes no template is not answered.       *)
ReplyOnChange ==
  /\ updater = "reply"
  /\ inbox' = IF Listening(event) /\ result.update # "none"
              THEN [inbox EXCEPT ![event.caller] = <<result>>] ELSE inbox
  /\ updater' = "recv" /\ event' = None /\ result' = None
  /\ UNCHANGED <<callVars, channel, answer, handle, sent, applied, lost, engineVars>>

(* The answer is sent; if the receiver is gone it is discarded.            *)
Reply ==
  /\ updater = "reply"
  /\ inbox' = IF Listening(event) THEN [inbox EXCEPT ![event.caller] = <<result>>] ELSE inbox
  /\ updater' = "recv" /\ event' = None /\ result' = None
  /\ UNCHANGED <<callVars, channel, answer, handle, sent, applied, lost, engineVars>>

(* Mutant of Stop: the updater ends without emptying the channel.          *)
StopEarly ==
  /\ updater = "recv" /\ handle = "shutdown"
  /\ updater' = "stopped"
  /\ UNCHANGED <<callVars, channel, event, result, inbox, answer, handle, sent, applied, lost, engineVars>>

(* Mutant of Stop: shutdown awaits the updater with the sender undropped.  *)
StopAfterReturn ==
  /\ updater = "recv" /\ channel = <<>> /\ handle = "closed"
  /\ updater' = "stopped"
  /\ UNCHANGED <<callVars, channel, event, result, inbox, answer, handle, sent, applied, lost, engineVars>>

(* recv returns None: the sender was dropped and the channel is empty.     *)
Stop ==
  /\ updater = "recv" /\ channel = <<>> /\ handle \in {"shutdown", "dropped"}
  /\ updater' = "stopped"
  /\ UNCHANGED <<callVars, channel, event, result, inbox, answer, handle, sent, applied, lost, engineVars>>

-----------------------------------------------------------------------------
(* The end of the pipeline.  With the last sender the channel goes, and    *)
(* what is in it if nobody receives any more.                              *)
DropSender(borrowed) ==
  /\ handle = "open" /\ borrowed = {}
  /\ IF updater = "panicked"
       THEN lost' = lost \cup ToSet(channel) /\ channel' = <<>>
       ELSE UNCHANGED <<lost, channel>>
  /\ UNCHANGED <<callVars, updater, event, result, inbox, answer, sent, applied, engineVars>>

(* shutdown drops the sender ...                                           *)
Shutdown == DropSender(InFlight) /\ handle' = "shutdown"

(* ... and returns once the updater task has ended, or panics with         *)
(* "updater task panicked".                                                *)
ShutdownReturns ==
  /\ handle = "shutdown" /\ updater \in {"stopped", "panicked"}
  /\ handle' = IF updater = "stopped" THEN "closed" ELSE "failed"
  /\ UNCHANGED <<callVars, channel, updater, event, result, inbox, answer, sent, applied, lost, engineVars>>

(* The pipeline is dropped without shutdown; its updater is detached.      *)
Drop == DropSender(InFlight) /\ handle' = "dropped"

(* The pipeline is gone: nothing is left to happen.                        *)
Closed ==
  /\ handle \in {"closed", "failed"} \/ (handle = "dropped" /\ updater \in {"stopped", "panicked"})
  /\ UNCHANGED vars

Next ==
  \/ \E c \in Callers :
       \/ \E l \in Lines : Call(c, l)
       \/ Send(c) \/ Return(c) \/ Fail(c) \/ Cancel(c)
  \/ Admit \/ Receive \/ Apply \/ Panic \/ Reply \/ Stop
  \/ Shutdown \/ ShutdownReturns \/ Drop \/ Closed

Spec == Init /\ [][Next]_vars

(* The runtime polls every woken task: the updater, a sender that has a    *)
(* slot, a receiver that has its answer, either if the channel is closed.  *)
(* Nobody has to call, cancel, shut down or drop.                          *)
Fairness ==
  /\ WF_vars(Receive) /\ WF_vars(Apply \/ Panic) /\ WF_vars(Reply) /\ WF_vars(Stop)
  /\ WF_vars(Admit) /\ WF_vars(ShutdownReturns)
  /\ \A c \in Callers : WF_vars(Send(c)) /\ WF_vars(Return(c)) /\ WF_vars(Fail(c))

FairSpec == Spec /\ Fairness
=============================================================================
