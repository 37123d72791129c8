----------------------------- MODULE ServerProofs -----------------------------
(***************************************************************************)
(* Machine-checked proofs about the server: the session store, for every   *)
(* number of clients, sessions and requests and every TTL, and the         *)
(* one-shot template service, for every number of clients, permits, pool   *)
(* threads and requests.                                                   *)
(***************************************************************************)
EXTENDS SessionStore, TemplateService, DataLemmas

-----------------------------------------------------------------------------
(* The session store.                                                      *)

USE DEF Live, Readers

Batch == [client : Clients, num : Nat]

Queued == {c \in Clients : pc[c] = "queued"} \cup (IF sweeping THEN {Sweeper} ELSE {})

(* Who waits for the lock waits once.                                      *)
QueueInv ==
  /\ pc \in [Clients -> {"idle", "queued", "reading"}] /\ sweeping \in BOOLEAN
  /\ queue \in Seq(Clients \cup {Sweeper}) /\ Once(queue) /\ ToSet(queue) = Queued

(* The clocks, and that of the sweeper behind them.                        *)
ClockInv ==
  /\ Live \subseteq Sessions
  /\ age \in [Live -> 0..TTL] /\ unused \in [Live -> 0..TTL]
  /\ sweeping => since \in [Live -> 0..TTL] /\ \A s \in Live : since[s] <= age[s]

(* Requests under way; the session of a reader is live.                    *)
RequestInv ==
  /\ ingests \in Nat /\ DOMAIN req = Clients
  /\ \A c \in Clients : pc[c] # "idle" =>
       /\ req[c].session \in Sessions
       /\ req[c].kind = "ingest" => req[c].num \in 1..ingests
  /\ \A c \in Readers : req[c].session \in Live

(* A batch is older than the one its client waits to ingest.               *)
Behind(b) ==
  /\ b.num <= ingests
  /\ \A c \in Clients :
       pc[c] = "queued" /\ req[c].kind = "ingest" /\ b.client = c => b.num < req[c].num

(* What is acknowledged to a session, and what AckedIsStored says of it.   *)
AckedTo(a, s) == {e.batch : e \in {x \in a : x.session = s}}

Holds(a, s, batches) ==
  /\ AckedTo(a, s) = ToSet(batches)
  /\ \A i, j \in DOMAIN batches :
       i < j /\ batches[i].client = batches[j].client => batches[i].num < batches[j].num

StoreInv ==
  /\ index \in [Live -> Seq(Batch)]
  /\ acked \subseteq [session : Sessions, batch : Batch]
  /\ \A s \in Live : \A b \in ToSet(index[s]) : Behind(b)
  /\ AckedIsStored

(* The inductive invariant.                                                *)
SessionInv == QueueInv /\ ClockInv /\ RequestInv /\ StoreInv

LEMMA InvTypes == ASSUME SessionInv PROVE SessionTypeOK
<1>1. Cardinality(ToSet(queue)) = Len(queue)
  BY OnceCounts DEF SessionInv, QueueInv
<1> QED
  BY <1>1 DEF SessionInv, QueueInv, ClockInv, SessionTypeOK, Queued

LEMMA InitSessionInv == Init => SessionInv
<1> SUFFICES ASSUME Init PROVE SessionInv
  OBVIOUS
<1>1. Live = {} /\ DOMAIN age = {} /\ DOMAIN unused = {}
  BY DEF Init, NoSession
<1>2. QueueInv
  <2>1. /\ pc = [c \in Clients |-> "idle"] /\ sweeping = FALSE /\ queue = <<>>
    BY DEF Init
  <2>2. DOMAIN queue = {}
    BY <2>1
  <2>3. Once(queue) /\ ToSet(queue) = {}
    BY <2>2 DEF Once, ToSet
  <2>4. Queued = {}
    BY <2>1 DEF Queued
  <2>5. queue \in Seq(Clients \cup {Sweeper}) /\ pc \in [Clients -> {"idle", "queued", "reading"}]
    BY <2>1
  <2> QED
    BY <2>1, <2>3, <2>4, <2>5 DEF QueueInv
<1>3. ClockInv
  BY <1>1 DEF Init, ClockInv, NoSession
<1>4. RequestInv
  BY DEF Init, RequestInv
<1>5. StoreInv
  <2>1. index \in [Live -> Seq(Batch)]
    BY <1>1 DEF Init, NoSession
  <2>2. AckedIsStored
    BY <1>1 DEF Init, AckedIsStored, ToSet
  <2> QED
    BY <1>1, <2>1, <2>2 DEF Init, StoreInv
<1> QED
  BY <1>2, <1>3, <1>4, <1>5 DEF SessionInv

-----------------------------------------------------------------------------
(* The lock's queue.                                                       *)

LEMMA EnqueueQueueInv ==
  ASSUME QueueInv, NEW c \in Clients, NEW r, Enqueue(c, r)
  PROVE  QueueInv'
<1>1. c \notin ToSet(queue)
  BY SessionAssumption DEF QueueInv, Queued, Enqueue
<1>2. /\ queue' \in Seq(Clients \cup {Sweeper}) /\ Once(queue')
      /\ ToSet(queue') = ToSet(queue) \cup {c}
  BY <1>1, AppendHolds DEF QueueInv, Enqueue
<1>3. sweeping' = sweeping /\ pc' = [pc EXCEPT ![c] = "queued"]
  BY DEF Enqueue
<1>4. ToSet(queue') = Queued'
  BY <1>2, <1>3 DEF QueueInv, Queued
<1> QED
  BY <1>2, <1>3, <1>4 DEF QueueInv

LEMMA DisconnectQueueInv ==
  ASSUME QueueInv, NEW c \in Clients, Disconnect(c)
  PROVE  QueueInv'
<1>1. PICK i \in DOMAIN queue : queue[i] = c /\ queue' = RemoveAt(queue, i)
  BY DEF Disconnect
<1>2. /\ queue' \in Seq(Clients \cup {Sweeper}) /\ Once(queue')
      /\ ToSet(queue') = ToSet(queue) \ {c}
  BY <1>1, RemoveAtHolds DEF QueueInv
<1>3. sweeping' = sweeping /\ pc' = [pc EXCEPT ![c] = "idle"]
  BY DEF Disconnect
<1>4. ToSet(queue') = Queued'
  BY <1>2, <1>3, SessionAssumption DEF QueueInv, Queued
<1> QED
  BY <1>2, <1>3, <1>4 DEF QueueInv

(* The first waiter, a client, gets the lock.                              *)
LEMMA ServeQueueInv ==
  ASSUME QueueInv, NEW c \in Clients, NEW state \in {"idle", "reading"},
         queue # <<>>, Head(queue) = c, queue' = Tail(queue),
         pc' = [pc EXCEPT ![c] = state], sweeping' = sweeping
  PROVE  QueueInv'
<1>1. /\ queue' \in Seq(Clients \cup {Sweeper}) /\ Once(queue')
      /\ ToSet(queue') = ToSet(queue) \ {c}
  BY TailHolds DEF QueueInv
<1>2. ToSet(queue') = Queued'
  BY <1>1, SessionAssumption DEF QueueInv, Queued
<1> QED
  BY <1>1, <1>2 DEF QueueInv

LEMMA SweepTickQueueInv ==
  ASSUME QueueInv, SweepTick
  PROVE  QueueInv'
<1>1. Sweeper \notin ToSet(queue)
  BY SessionAssumption DEF QueueInv, Queued, SweepTick
<1>2. /\ queue' \in Seq(Clients \cup {Sweeper}) /\ Once(queue')
      /\ ToSet(queue') = ToSet(queue) \cup {Sweeper}
  BY <1>1, AppendHolds DEF QueueInv, SweepTick
<1>3. ToSet(queue') = Queued'
  BY <1>2 DEF QueueInv, Queued, SweepTick
<1> QED
  BY <1>2, <1>3 DEF QueueInv, SweepTick

LEMMA SweepQueueInv ==
  ASSUME QueueInv, Sweep
  PROVE  QueueInv'
<1>1. /\ queue' \in Seq(Clients \cup {Sweeper}) /\ Once(queue')
      /\ ToSet(queue') = ToSet(queue) \ {Sweeper}
  BY TailHolds DEF QueueInv, Sweep, CanWrite
<1>2. ToSet(queue') = Queued'
  BY <1>1, SessionAssumption DEF QueueInv, Queued, Sweep
<1> QED
  BY <1>1, <1>2 DEF QueueInv, Sweep

LEMMA NextQueueInv ==
  ASSUME QueueInv, Next
  PROVE  QueueInv'
<1>1. ASSUME NEW c \in Clients, NEW s \in Sessions, RequestIngest(c, s) \/ RequestTemplates(c, s)
      PROVE  QueueInv'
  BY <1>1, EnqueueQueueInv DEF RequestIngest, RequestTemplates
<1>2. ASSUME NEW c \in Clients, ServeIngest(c) \/ ServeTemplates(c)
      PROVE  QueueInv'
  <2>1. PICK state \in {"idle", "reading"} : pc' = [pc EXCEPT ![c] = state]
    BY <1>2 DEF ServeIngest, ServeTemplates
  <2> QED
    BY <1>2, <2>1, ServeQueueInv DEF ServeIngest, ServeTemplates, CanWrite
<1>3. ASSUME NEW c \in Clients, AnswerTemplates(c)
      PROVE  QueueInv'
  BY <1>3 DEF AnswerTemplates, QueueInv, Queued
<1>4. CASE Tick
  BY <1>4 DEF Tick, QueueInv, Queued
<1> QED
  BY <1>1, <1>2, <1>3, <1>4, DisconnectQueueInv, SweepTickQueueInv, SweepQueueInv DEF Next

-----------------------------------------------------------------------------
(* Clocks and requests.                                                    *)

LEMMA NextClockInv ==
  ASSUME SessionInv, Next
  PROVE  ClockInv'
<1> USE SessionAssumption
<1>1. CASE UNCHANGED <<index, age, unused, sweeping, since>>
  BY <1>1 DEF SessionInv, ClockInv
<1>2. ASSUME NEW c \in Clients, ServeIngest(c)
      PROVE  ClockInv'
  <2> DEFINE s == req[c].session
  <2>1. s \in Sessions
    BY <1>2 DEF SessionInv, RequestInv, ServeIngest
  <2>2. /\ DOMAIN index' = Live \cup {s} /\ sweeping' = sweeping
        /\ age' = [t \in DOMAIN age \cup {s} |-> IF t = s THEN 0 ELSE age[t]]
        /\ unused' = [t \in DOMAIN unused \cup {s} |-> IF t = s THEN 0 ELSE unused[t]]
        /\ sweeping => since' = [t \in DOMAIN since \cup {s} |-> IF t = s THEN 0 ELSE since[t]]
    BY <1>2 DEF ServeIngest, Push, Touch, With
  <2> HIDE DEF s
  <2> QED
    BY <2>1, <2>2 DEF SessionInv, ClockInv
<1>3. ASSUME NEW c \in Clients, ServeTemplates(c)
      PROVE  ClockInv'
  <2>1. UNCHANGED <<index, age, sweeping, since>>
    BY <1>3 DEF ServeTemplates
  <2>2. unused' \in [Live -> 0..TTL]
    BY <1>3 DEF SessionInv, ClockInv, ServeTemplates
  <2> QED
    BY <2>1, <2>2 DEF SessionInv, ClockInv
<1>4. CASE SweepTick
  BY <1>4 DEF SessionInv, ClockInv, SweepTick
<1>5. CASE Sweep
  BY <1>5 DEF SessionInv, ClockInv, Sweep
<1>6. CASE Tick
  <2>1. index' = index /\ sweeping' = sweeping /\ since' = since
    BY <1>6 DEF Tick
  <2>2. \A f \in [Live -> 0..TTL] :
          /\ Older(f) \in [Live -> 0..TTL]
          /\ \A s \in Live : f[s] <= Older(f)[s]
    BY DEF Older
  <2>3. age' \in [Live -> 0..TTL] /\ unused' \in [Live -> 0..TTL]
    BY <1>6, <2>2 DEF Tick, SessionInv, ClockInv
  <2>4. sweeping => \A s \in Live : since[s] <= age'[s]
    BY <1>6, <2>2, <2>3 DEF Tick, SessionInv, ClockInv
  <2> QED
    BY <2>1, <2>3, <2>4 DEF SessionInv, ClockInv
<1> QED
  BY <1>1, <1>2, <1>3, <1>4, <1>5, <1>6
     DEF Next, RequestIngest, RequestTemplates, Enqueue, Disconnect, AnswerTemplates

(* A write, an ingest or a sweep, happens while nobody reads.              *)
LEMMA NextRequestInv ==
  ASSUME SessionInv, Next
  PROVE  RequestInv'
<1>1. ASSUME NEW c \in Clients, NEW s \in Sessions, RequestIngest(c, s)
      PROVE  RequestInv'
  <2>1. /\ ingests' = ingests + 1 /\ index' = index /\ pc[c] = "idle"
        /\ pc' = [pc EXCEPT ![c] = "queued"]
        /\ req' = [req EXCEPT ![c] = [kind |-> "ingest", session |-> s, num |-> ingests + 1]]
    BY <1>1 DEF RequestIngest, Enqueue
  <2> QED
    BY <2>1 DEF SessionInv, RequestInv, QueueInv
<1>2. ASSUME NEW c \in Clients, NEW s \in Sessions, RequestTemplates(c, s)
      PROVE  RequestInv'
  <2>1. /\ ingests' = ingests /\ index' = index /\ pc[c] = "idle"
        /\ pc' = [pc EXCEPT ![c] = "queued"]
        /\ req' = [req EXCEPT ![c] = [kind |-> "templates", session |-> s]]
    BY <1>2 DEF RequestTemplates, Enqueue
  <2> QED
    BY <2>1 DEF SessionInv, RequestInv, QueueInv
<1>3. ASSUME NEW c \in Clients, Disconnect(c) \/ AnswerTemplates(c)
      PROVE  RequestInv'
  BY <1>3 DEF SessionInv, RequestInv, QueueInv, Disconnect, AnswerTemplates
<1>4. ASSUME NEW c \in Clients, ServeIngest(c)
      PROVE  RequestInv'
  BY <1>4 DEF SessionInv, RequestInv, QueueInv, ServeIngest, CanWrite
<1>5. ASSUME NEW c \in Clients, ServeTemplates(c)
      PROVE  RequestInv'
  BY <1>5 DEF SessionInv, RequestInv, QueueInv, ServeTemplates
<1>6. CASE SweepTick \/ Tick
  BY <1>6 DEF SessionInv, RequestInv, SweepTick, Tick
<1>7. CASE Sweep
  BY <1>7 DEF SessionInv, RequestInv, Sweep, CanWrite
<1> QED
  BY <1>1, <1>2, <1>3, <1>4, <1>5, <1>6, <1>7 DEF Next

-----------------------------------------------------------------------------
(* What is stored.                                                         *)

(* Steps that write no session; the requests may be others.                *)
LEMMA UnchangedStoreInv ==
  ASSUME SessionInv, UNCHANGED <<index, acked>>,
         \A b \in Batch : Behind(b) => Behind(b)'
  PROVE  StoreInv'
<1>1. \A s \in Live : \A b \in ToSet(index[s]) : b \in Batch
  BY DEF SessionInv, StoreInv, ToSet
<1>2. AckedIsStored'
  BY DEF SessionInv, StoreInv, AckedIsStored
<1> QED
  BY <1>1, <1>2 DEF SessionInv, StoreInv

LEMMA HoldsAll ==
  AckedIsStored <=> \A s \in Sessions : Holds(acked, s, IF s \in Live THEN index[s] ELSE <<>>)
BY DEF AckedIsStored, Holds, AckedTo

LEMMA ServeIngestStoreInv ==
  ASSUME SessionInv, NEW c \in Clients, ServeIngest(c)
  PROVE  StoreInv'
<1> DEFINE s == req[c].session
           b == [client |-> c, num |-> req[c].num]
           old == IF s \in Live THEN index[s] ELSE <<>>
<1>1. /\ s \in Sessions /\ b \in Batch /\ req[c].num \in 1..ingests /\ ingests \in Nat
      /\ req[c].kind = "ingest" /\ pc[c] = "queued"
  BY DEF SessionInv, RequestInv, ServeIngest, Batch
<1>2. /\ index' = [t \in Live \cup {s} |-> IF t = s THEN Append(old, b) ELSE index[t]]
      /\ acked' = acked \cup {[session |-> s, batch |-> b]}
      /\ req' = req /\ ingests' = ingests /\ pc' = [pc EXCEPT ![c] = "idle"]
  BY DEF ServeIngest, Push, With
<1>3. old \in Seq(Batch)
  BY DEF SessionInv, StoreInv
<1>4. \A d \in ToSet(old) : d \in Batch /\ Behind(d)
  BY <1>3 DEF SessionInv, StoreInv, ToSet
<1>5. /\ \A t \in Sessions : t # s => AckedTo(acked', t) = AckedTo(acked, t)
      /\ AckedTo(acked', s) = AckedTo(acked, s) \cup {b}
  <2> HIDE DEF s, b, old
  <2> DEFINE e == [session |-> s, batch |-> b]
  <2>1. acked' = acked \cup {e} /\ e.session = s /\ e.batch = b
    BY <1>2
  <2> HIDE DEF e
  <2>2. ASSUME NEW t \in Sessions, t # s PROVE AckedTo(acked', t) = AckedTo(acked, t)
    <3>1. {x \in acked' : x.session = t} = {x \in acked : x.session = t}
      BY <2>1, <2>2
    <3> QED
      BY <3>1 DEF AckedTo
  <2>3. AckedTo(acked', s) = AckedTo(acked, s) \cup {b}
    <3>1. {x \in acked' : x.session = s} = {x \in acked : x.session = s} \cup {e}
      BY <2>1
    <3> QED
      BY <3>1, <2>1 DEF AckedTo
  <2> QED
    BY <2>2, <2>3
<1> HIDE DEF s, old
<1>6. /\ Append(old, b) \in Seq(Batch)
      /\ ToSet(Append(old, b)) = ToSet(old) \cup {b}
      /\ Len(old) \in Nat /\ DOMAIN old = 1..Len(old)
      /\ DOMAIN Append(old, b) = 1..(Len(old) + 1)
      /\ \A i \in 1..Len(old) : Append(old, b)[i] = old[i] /\ old[i] \in ToSet(old)
      /\ Append(old, b)[Len(old) + 1] = b
  BY <1>1, <1>3, AppendHolds DEF ToSet
<1>7. /\ DOMAIN index' = Live \cup {s} /\ index'[s] = Append(old, b)
      /\ \A t \in Live : t # s => index'[t] = index[t]
  BY <1>2
<1>8. index' \in [Live' -> Seq(Batch)] /\ acked' \subseteq [session : Sessions, batch : Batch]
  BY <1>1, <1>2, <1>6 DEF SessionInv, StoreInv
<1>9. \A d \in Batch : Behind(d) => Behind(d)'
  BY <1>2 DEF SessionInv, QueueInv, Behind
<1>10. \A d \in Batch : d = b => Behind(d)'
  BY <1>1, <1>2 DEF SessionInv, QueueInv, Behind
<1>11. \A t \in Live' : \A d \in ToSet(index'[t]) : Behind(d)'
  <2>1. ASSUME NEW t \in Live, t # s, NEW d \in ToSet(index[t]) PROVE d \in Batch /\ Behind(d)
    BY <2>1 DEF SessionInv, StoreInv, ToSet
  <2>2. ASSUME NEW t \in Live', t # s, NEW d \in ToSet(index'[t]) PROVE Behind(d)'
    <3>1. t \in Live /\ d \in ToSet(index[t])
      BY <2>2, <1>7
    <3> QED
      BY <3>1, <2>1, <2>2, <1>9
  <2>3. ASSUME NEW d \in ToSet(index'[s]) PROVE Behind(d)'
    <3>1. d \in ToSet(old) \/ d = b
      BY <2>3, <1>6, <1>7
    <3>2. CASE d \in ToSet(old)
      BY <3>2, <1>4, <1>9
    <3>3. CASE d = b
      BY <3>3, <1>1, <1>10
    <3> QED
      BY <3>1, <3>2, <3>3
  <2> QED
    BY <2>2, <2>3
<1>12. \A i, j \in DOMAIN Append(old, b) :
         i < j /\ Append(old, b)[i].client = Append(old, b)[j].client
           => Append(old, b)[i].num < Append(old, b)[j].num
  <2>1. \A i, j \in DOMAIN old :
          i < j /\ old[i].client = old[j].client => old[i].num < old[j].num
    BY <1>1 DEF SessionInv, StoreInv, AckedIsStored, old, s
  <2>2. \A i \in DOMAIN old : old[i].client = c => old[i].num < b.num
    BY <1>1, <1>4, <1>6 DEF Behind
  <2> QED
    BY <2>1, <2>2, <1>6
<1>13. AckedIsStored'
  <2>1. ASSUME NEW t \in Sessions, t # s
        PROVE  Holds(acked', t, IF t \in Live' THEN index'[t] ELSE <<>>)
    <3>1. (IF t \in Live' THEN index'[t] ELSE <<>>) = (IF t \in Live THEN index[t] ELSE <<>>)
      BY <2>1, <1>7
    <3>2. Holds(acked, t, IF t \in Live THEN index[t] ELSE <<>>)
      BY HoldsAll DEF SessionInv, StoreInv
    <3> QED
      BY <2>1, <3>1, <3>2, <1>5 DEF Holds
  <2>2. Holds(acked', s, IF s \in Live' THEN index'[s] ELSE <<>>)
    <3>1. AckedTo(acked, s) = ToSet(old)
      BY <1>1, HoldsAll DEF SessionInv, StoreInv, Holds, old, s
    <3>2. (IF s \in Live' THEN index'[s] ELSE <<>>) = Append(old, b)
      BY <1>7
    <3>3. Holds(acked', s, Append(old, b))
      BY <3>1, <1>5, <1>6, <1>12 DEF Holds
    <3> QED
      BY <3>2, <3>3
  <2>3. \A t \in Sessions : Holds(acked', t, IF t \in Live' THEN index'[t] ELSE <<>>)
    BY <2>1, <2>2
  <2> QED
    BY <2>3 DEF Holds, AckedTo, AckedIsStored
<1> QED
  BY <1>8, <1>11, <1>13 DEF StoreInv

LEMMA SweepStoreInv ==
  ASSUME SessionInv, Sweep
  PROVE  StoreInv'
<1> DEFINE kept == Live \ Expired
<1>1. /\ index' = [s \in kept |-> index[s]] /\ acked' = {a \in acked : a.session \in kept}
      /\ UNCHANGED <<pc, req, ingests>>
  BY DEF Sweep
<1> HIDE DEF kept
<1>2. kept \subseteq Live
  BY DEF kept
<1>3. index' \in [Live' -> Seq(Batch)] /\ acked' \subseteq [session : Sessions, batch : Batch]
  BY <1>1, <1>2 DEF SessionInv, StoreInv
<1>4. \A s \in Live' : \A b \in ToSet(index'[s]) : Behind(b)'
  BY <1>1, <1>2 DEF SessionInv, StoreInv, Behind
<1>5. ASSUME NEW t \in Sessions
      PROVE  LET batches == IF t \in Live' THEN index'[t] ELSE <<>>
             IN  /\ {a.batch : a \in {e \in acked' : e.session = t}} = ToSet(batches)
                 /\ \A i, j \in DOMAIN batches :
                      i < j /\ batches[i].client = batches[j].client
                        => batches[i].num < batches[j].num
  <2>1. CASE t \in kept
    <3>1. {e \in acked' : e.session = t} = {e \in acked : e.session = t}
      BY <1>1, <2>1
    <3>2. t \in Live /\ t \in Live' /\ index'[t] = index[t]
      BY <1>1, <1>2, <2>1
    <3> QED
      BY <3>1, <3>2 DEF SessionInv, StoreInv, AckedIsStored
  <2>2. CASE t \notin kept
    <3>1. {e \in acked' : e.session = t} = {} /\ t \notin Live'
      BY <1>1, <2>2
    <3> QED
      BY <3>1 DEF ToSet
  <2> QED
    BY <2>1, <2>2
<1>6. AckedIsStored'
  BY <1>5 DEF AckedIsStored
<1> QED
  BY <1>3, <1>4, <1>6 DEF StoreInv

LEMMA NextStoreInv ==
  ASSUME SessionInv, Next
  PROVE  StoreInv'
<1>1. ASSUME NEW c \in Clients, NEW s \in Sessions, RequestIngest(c, s)
      PROVE  StoreInv'
  <2>1. /\ ingests' = ingests + 1 /\ UNCHANGED <<index, acked>>
        /\ pc' = [pc EXCEPT ![c] = "queued"]
        /\ req' = [req EXCEPT ![c] = [kind |-> "ingest", session |-> s, num |-> ingests + 1]]
    BY <1>1 DEF RequestIngest, Enqueue
  <2>2. \A b \in Batch : Behind(b) => Behind(b)'
    BY <2>1 DEF SessionInv, QueueInv, RequestInv, Behind, Batch
  <2> QED
    BY <2>1, <2>2, UnchangedStoreInv
<1>2. ASSUME NEW c \in Clients, NEW s \in Sessions, RequestTemplates(c, s)
      PROVE  StoreInv'
  <2>1. /\ ingests' = ingests /\ UNCHANGED <<index, acked>>
        /\ pc' = [pc EXCEPT ![c] = "queued"]
        /\ req' = [req EXCEPT ![c] = [kind |-> "templates", session |-> s]]
    BY <1>2 DEF RequestTemplates, Enqueue
  <2>2. \A b \in Batch : Behind(b) => Behind(b)'
    BY <2>1 DEF SessionInv, QueueInv, RequestInv, Behind, Batch
  <2> QED
    BY <2>1, <2>2, UnchangedStoreInv
<1>3. ASSUME NEW c \in Clients, Disconnect(c) \/ ServeTemplates(c) \/ AnswerTemplates(c)
      PROVE  StoreInv'
  <2>1. /\ UNCHANGED <<index, acked, req, ingests>>
        /\ \E state \in {"idle", "reading"} : pc' = [pc EXCEPT ![c] = state]
    BY <1>3 DEF Disconnect, ServeTemplates, AnswerTemplates
  <2>2. \A b \in Batch : Behind(b) => Behind(b)'
    BY <2>1 DEF SessionInv, QueueInv, Behind
  <2> QED
    BY <2>1, <2>2, UnchangedStoreInv
<1>4. CASE SweepTick \/ Tick
  <2>1. UNCHANGED <<index, acked, req, ingests, pc>>
    BY <1>4 DEF SweepTick, Tick
  <2>2. \A b \in Batch : Behind(b) => Behind(b)'
    BY <2>1 DEF Behind
  <2> QED
    BY <2>1, <2>2, UnchangedStoreInv
<1> QED
  BY <1>1, <1>2, <1>3, <1>4, ServeIngestStoreInv, SweepStoreInv DEF Next

-----------------------------------------------------------------------------
LEMMA NextSessionInv == SessionInv /\ [Next]_vars => SessionInv'
<1> SUFFICES ASSUME SessionInv, [Next]_vars PROVE SessionInv'
  OBVIOUS
<1>1. CASE Next
  BY <1>1, NextQueueInv, NextClockInv, NextRequestInv, NextStoreInv DEF SessionInv
<1>2. CASE UNCHANGED vars
  <2>1. QueueInv' /\ ClockInv' /\ RequestInv'
    BY <1>2 DEF vars, SessionInv, QueueInv, Queued, ClockInv, RequestInv
  <2>2. \A b \in Batch : Behind(b) => Behind(b)'
    BY <1>2 DEF vars, Behind
  <2>3. StoreInv'
    BY <1>2, <2>2, UnchangedStoreInv DEF vars
  <2> QED
    BY <2>1, <2>3 DEF SessionInv
<1> QED
  BY <1>1, <1>2

(* Requests, clocks and the lock's queue keep their shapes: whoever waits  *)
(* for the RwLock waits once.                                              *)
THEOREM SessionTyping == Spec => []SessionTypeOK
<1>1. Init => SessionInv
  BY InitSessionInv
<1>2. SessionInv /\ [Next]_vars => SessionInv'
  BY NextSessionInv
<1>3. SessionInv => SessionTypeOK
  BY InvTypes
<1> QED
  BY <1>1, <1>2, <1>3, PTL DEF Spec

(* The ingest handler loses and repeats nothing: a session holds the       *)
(* batches acknowledged to it since it was last evicted, each client's in  *)
(* order.                                                                  *)
THEOREM AckedStored == Spec => []AckedIsStored
<1>1. Init => SessionInv
  BY InitSessionInv
<1>2. SessionInv /\ [Next]_vars => SessionInv'
  BY NextSessionInv
<1>3. SessionInv => AckedIsStored
  BY DEF SessionInv, StoreInv
<1> QED
  BY <1>1, <1>2, <1>3, PTL DEF Spec

(* The sweeper's early `now` never makes a session look older than it is.  *)
THEOREM ExpiredOnly == Spec => OnlyExpiredEvicted
<1>1. Init => SessionInv
  BY InitSessionInv
<1>2. SessionInv /\ [Next]_vars => SessionInv'
  BY NextSessionInv
<1>3. SessionInv /\ [Next]_vars =>
        [\A s \in Live : s \notin DOMAIN index' => age[s] >= TTL]_vars
  <2> SUFFICES ASSUME SessionInv, Next, NEW s \in Live, s \notin DOMAIN index'
               PROVE  age[s] >= TTL
    OBVIOUS
  <2>1. Sweep
    BY DEF Next, RequestIngest, RequestTemplates, Enqueue, Disconnect, ServeIngest, Push, With,
           ServeTemplates, AnswerTemplates, SweepTick, Tick
  <2>2. since[s] >= TTL /\ since[s] <= age[s] /\ since[s] \in 0..TTL /\ age[s] \in 0..TTL
    BY <2>1 DEF Sweep, Expired, SessionInv, ClockInv
  <2> QED
    BY <2>2, SessionAssumption
<1> QED
  BY <1>1, <1>2, <1>3, PTL DEF Spec, OnlyExpiredEvicted

(* The templates handler, which holds the read lock while it computes,     *)
(* sees no ingest and no sweep.                                            *)
THEOREM OneStateRead == Spec => ReadersSeeOneState
<1>1. Init => SessionInv
  BY InitSessionInv
<1>2. SessionInv /\ [Next]_vars => SessionInv'
  BY NextSessionInv
<1>3. SessionInv /\ [Next]_vars =>
        [\A c \in Readers :
           LET s == req[c].session
           IN  s \in DOMAIN index' \cap Live /\ index'[s] = index[s]]_vars
  <2> SUFFICES ASSUME SessionInv, Next, NEW c \in Readers
               PROVE  req[c].session \in DOMAIN index' \cap Live
                      /\ index'[req[c].session] = index[req[c].session]
    OBVIOUS
  <2>1. req[c].session \in Live
    BY DEF SessionInv, RequestInv
  <2>2. index' = index
    BY DEF Next, RequestIngest, RequestTemplates, Enqueue, Disconnect, ServeIngest, CanWrite,
           ServeTemplates, AnswerTemplates, SweepTick, Sweep, Tick
  <2> QED
    BY <2>1, <2>2
<1> QED
  BY <1>1, <1>2, <1>3, PTL DEF Spec, ReadersSeeOneState

-----------------------------------------------------------------------------
(* The one-shot template service.                                          *)

USE DEF Jobs, Awaiting, Finished

(* No job waits for a thread twice.                                        *)
PendingOnce == pending \in Seq(Nat) /\ Once(pending)

(* The inductive invariant.  That permits stay within their number needs   *)
(* to know who holds the others, and that needs to know which jobs there   *)
(* are: each is waiting or running, once.                                  *)
ServiceInv == ServiceTypeOK /\ PermitsHeldByJobs /\ PendingOnce

(* Appending to a function over 1..n, which is a sequence.                 *)
LEMMA AppendToFunction ==
  ASSUME NEW n \in Nat, NEW S, NEW f \in [1..n -> S], NEW e \in S
  PROVE  /\ Append(f, e) \in [1..(n + 1) -> S]
         /\ \A i \in 1..n : Append(f, e)[i] = f[i]
         /\ Append(f, e)[n + 1] = e
<1>1. f \in Seq(S) /\ Len(f) = n
  OBVIOUS
<1>2. /\ Append(f, e) \in Seq(S) /\ Len(Append(f, e)) = n + 1
      /\ \A i \in 1..n : Append(f, e)[i] = f[i]
      /\ Append(f, e)[n + 1] = e
  BY <1>1
<1> QED
  BY <1>2, LenProperties

(* The jobs there are can be counted.                                      *)
LEMMA JobsFinite ==
  ASSUME ServiceTypeOK
  PROVE  /\ IsFiniteSet(Jobs) /\ Cardinality(Jobs) \in Nat
         /\ IsFiniteSet(running) /\ Cardinality(running) \in Nat
<1>1. spawned \in Nat /\ Jobs \subseteq 1..spawned
  BY ServiceAssumption DEF ServiceTypeOK
<1>2. IsFiniteSet(1..spawned)
  BY <1>1, FS_Interval
<1>3. IsFiniteSet(Jobs)
  BY <1>1, <1>2, FS_Subset
<1>4. IsFiniteSet(running)
  BY <1>3, FS_Subset
<1> QED
  BY <1>3, <1>4, FS_CardinalityType

LEMMA InitServiceInv == ServiceInit => ServiceInv
<1> SUFFICES ASSUME ServiceInit PROVE ServiceInv
  OBVIOUS
<1>1. Jobs = {} /\ Awaiting = {}
  BY DEF ServiceInit, ToSet
<1>2. Cardinality(Jobs) = 0 /\ Cardinality(running) = 0
  BY <1>1, FS_EmptySet DEF ServiceInit
<1>3. outcome \in [1..spawned -> {"none", "done", "panicked"}]
  BY DEF ServiceInit
<1>4. ServiceTypeOK
  BY <1>1, <1>2, <1>3, ServiceAssumption DEF ServiceInit, ServiceTypeOK
<1>5. PendingOnce
  BY DEF ServiceInit, PendingOnce, Once
<1> QED
  BY <1>2, <1>4, <1>5, ServiceAssumption DEF ServiceInit, ServiceInv, PermitsHeldByJobs

(* A new job: one permit less, one job more.                               *)
LEMMA AcceptServiceInv ==
  ASSUME ServiceInv, NEW c \in Requesters, Accept(c)
  PROVE  ServiceInv'
<1> DEFINE j == spawned + 1
<1>1. /\ spawned \in Nat /\ j \in Nat /\ spawned' = j /\ pending \in Seq(Nat)
      /\ j \notin Jobs /\ Jobs \subseteq 1..spawned /\ permits \in Nat
      /\ permits > 0 /\ permits' = permits - 1
  BY ServiceAssumption DEF ServiceInv, ServiceTypeOK, PendingOnce, Accept
<1>2. /\ outcome' \in [1..j -> {"none", "done", "panicked"}]
      /\ \A i \in 1..spawned : outcome'[i] = outcome[i]
      /\ outcome'[j] = "none"
  <2> DEFINE S == {"none", "done", "panicked"}
  <2>1. outcome \in [1..spawned -> S] /\ "none" \in S /\ outcome' = Append(outcome, "none")
    BY DEF ServiceInv, ServiceTypeOK, Accept
  <2>2. spawned \in Nat
    BY <1>1
  <2> HIDE DEF S
  <2>3. ASSUME NEW n \in Nat, n = spawned
        PROVE  /\ Append(outcome, "none") \in [1..(n + 1) -> S]
               /\ \A i \in 1..n : Append(outcome, "none")[i] = outcome[i]
               /\ Append(outcome, "none")[n + 1] = "none"
    <3> DEFINE o == outcome
               e == "none"
    <3>1. n \in Nat /\ o \in [1..n -> S] /\ e \in S
      BY <2>1, <2>3
    <3> HIDE DEF o, e
    <3>2. /\ Append(o, e) \in [1..(n + 1) -> S]
          /\ \A i \in 1..n : Append(o, e)[i] = o[i]
          /\ Append(o, e)[n + 1] = e
      BY ONLY <3>1, AppendToFunction
    <3> QED
      BY <3>2 DEF o, e
  <2> QED
    BY <2>1, <2>2, <2>3 DEF S
<1>3. ToSet(pending') = ToSet(pending) \cup {j} /\ running' = running
  BY <1>1, AppendHolds DEF Accept
<1>4. Jobs' = Jobs \cup {j}
  BY <1>3
<1>5. Cardinality(Jobs') = Cardinality(Jobs) + 1
  BY <1>1, <1>4, JobsFinite, FS_AddElement DEF ServiceInv
<1>6. PermitsHeldByJobs'
  BY <1>1, <1>5, JobsFinite DEF ServiceInv, PermitsHeldByJobs
<1>7. Jobs' = {i \in 1..spawned' : ~Finished(i)'}
  <2>1. Jobs = {i \in 1..spawned : ~Finished(i)}
    BY DEF ServiceInv, ServiceTypeOK
  <2>2. 1..spawned' = 1..spawned \cup {j}
    BY <1>1
  <2> QED
    BY <1>2, <1>4, <2>1, <2>2
<1>8. handle' \in [Requesters -> 0..spawned'] /\ late' \subseteq Awaiting'
  BY <1>1 DEF ServiceInv, ServiceTypeOK, Accept
<1>9. \A d, e \in Awaiting' : handle'[d] = handle'[e] => d = e
  BY <1>1 DEF ServiceInv, ServiceTypeOK, Accept
<1>10. running' \cap ToSet(pending') = {} /\ Cardinality(running') <= Threads
  BY <1>1, <1>3 DEF ServiceInv, ServiceTypeOK
<1>11. spawned' \in 0..MaxRequests /\ permits' \in 0..MaxInflight
  BY <1>1, ServiceAssumption DEF ServiceInv, ServiceTypeOK, Accept
<1>12. PendingOnce'
  BY <1>1, AppendHolds DEF ServiceInv, ServiceTypeOK, PendingOnce, Accept
<1> QED
  BY <1>1, <1>2, <1>6, <1>7, <1>8, <1>9, <1>10, <1>11, <1>12 DEF ServiceInv, ServiceTypeOK

(* A pool thread takes a job: the jobs are the same.                       *)
LEMMA StartServiceInv ==
  ASSUME ServiceInv, Start
  PROVE  ServiceInv'
<1> DEFINE j == Head(pending)
<1>1. /\ j \in ToSet(pending) /\ ToSet(pending') = ToSet(pending) \ {j}
      /\ running' = running \cup {j} /\ PendingOnce'
  BY TailHolds, HeadTailProperties DEF ServiceInv, PendingOnce, Start
<1>2. Jobs' = Jobs
  BY <1>1
<1>3. Cardinality(running') <= Threads
  <2>1. IsFiniteSet(running) /\ Cardinality(running) \in Nat
    BY JobsFinite DEF ServiceInv
  <2>2. Cardinality(running \cup {j}) <= Cardinality(running) + 1
    <3> HIDE DEF j
    <3> QED
      BY <2>1, FS_AddElement
  <2>3. Cardinality(running \cup {j}) \in Nat
    BY <2>1, FS_AddElement, FS_CardinalityType
  <2> QED
    BY <1>1, <2>1, <2>2, <2>3, ServiceAssumption DEF Start
<1>4. running' \cap ToSet(pending') = {}
  BY <1>1 DEF ServiceInv, ServiceTypeOK
<1>5. UNCHANGED <<handle, late, permits, spawned, outcome>>
  BY DEF Start
<1>6. ServiceTypeOK'
  BY <1>2, <1>3, <1>4, <1>5 DEF ServiceInv, ServiceTypeOK
<1>7. PermitsHeldByJobs'
  BY <1>2, <1>5 DEF ServiceInv, PermitsHeldByJobs
<1> QED
  BY <1>1, <1>6, <1>7 DEF ServiceInv

(* A job ends: its permit comes back, whoever awaits it.                   *)
LEMMA FinishServiceInv ==
  ASSUME ServiceInv, NEW j \in running, Finish(j)
  PROVE  ServiceInv'
<1>1. /\ running' = running \ {j} /\ pending' = pending /\ spawned' = spawned
      /\ handle' = handle /\ late' = late /\ permits' = permits + 1
  BY DEF Finish
<1>2. j \in 1..spawned /\ j \in Jobs /\ j \notin ToSet(pending)
  BY DEF ServiceInv, ServiceTypeOK
<1>3. PICK o \in {"done", "panicked"} : outcome' = [outcome EXCEPT ![j] = o]
  BY DEF Finish
<1>4. /\ outcome' \in [1..spawned -> {"none", "done", "panicked"}]
      /\ outcome'[j] # "none"
      /\ \A i \in 1..spawned : i # j => outcome'[i] = outcome[i]
  BY <1>2, <1>3 DEF ServiceInv, ServiceTypeOK
<1>5. Jobs' = Jobs \ {j}
  BY <1>1, <1>2
<1>6. Cardinality(Jobs') = Cardinality(Jobs) - 1
  BY <1>2, <1>5, JobsFinite, FS_RemoveElement DEF ServiceInv
<1>7. PermitsHeldByJobs'
  BY <1>1, <1>6, JobsFinite, ServiceAssumption DEF ServiceInv, ServiceTypeOK, PermitsHeldByJobs
<1>8. Cardinality(Jobs') \in Nat /\ Cardinality(running') <= Threads
  <2>1. /\ IsFiniteSet(Jobs) /\ IsFiniteSet(running)
        /\ Cardinality(running) \in Nat /\ Cardinality(running) <= Threads
    BY JobsFinite DEF ServiceInv, ServiceTypeOK
  <2>2. IsFiniteSet(Jobs') /\ IsFiniteSet(running')
    <3> HIDE DEF Jobs
    <3> QED
      BY <1>1, <1>5, <2>1, FS_RemoveElement
  <2>3. Cardinality(running') = Cardinality(running) - 1
    BY <1>1, <2>1, FS_RemoveElement
  <2>4. Cardinality(Jobs') \in Nat /\ Cardinality(running') \in Nat
    <3> HIDE DEF Jobs
    <3> QED
      BY <2>2, FS_CardinalityType
  <2> QED
    BY <2>1, <2>3, <2>4, ServiceAssumption
<1>9. permits' \in 0..MaxInflight
  BY <1>1, <1>7, <1>8, ServiceAssumption DEF ServiceInv, ServiceTypeOK, PermitsHeldByJobs
<1>10. Jobs' = {i \in 1..spawned' : ~Finished(i)'}
  <2>1. Jobs = {i \in 1..spawned : ~Finished(i)}
    BY DEF ServiceInv, ServiceTypeOK
  <2> QED
    BY <1>1, <1>4, <1>5, <2>1
<1>11. ServiceTypeOK'
  BY <1>1, <1>4, <1>8, <1>9, <1>10 DEF ServiceInv, ServiceTypeOK
<1>12. PendingOnce'
  BY <1>1 DEF ServiceInv, PendingOnce
<1> QED
  BY <1>7, <1>11, <1>12 DEF ServiceInv

(* A timer fires, or a handler ends, however it does: jobs and permits     *)
(* stay as they are.                                                       *)
LEMMA HandlerServiceInv ==
  ASSUME ServiceInv, NEW c \in Requesters,
         Elapse(c) \/ Answer(c) \/ TimeOut(c) \/ DropHandler(c)
  PROVE  ServiceInv'
<1>1. UNCHANGED <<permits, spawned, pending, running, outcome>>
  BY DEF Elapse, Answer, TimeOut, DropHandler
<1>2. \/ handle' = handle /\ late' = late \cup {c} /\ c \in Awaiting
      \/ handle' = [handle EXCEPT ![c] = 0] /\ late' = late \ {c}
  BY DEF Elapse, Answer, TimeOut, DropHandler
<1>3. /\ handle' \in [Requesters -> 0..spawned] /\ late' \subseteq Awaiting'
      /\ \A d, e \in Awaiting' : handle'[d] = handle'[e] => d = e
  <2>1. 0 \in 0..spawned
    BY ServiceAssumption DEF ServiceInv, ServiceTypeOK
  <2> QED
    BY <1>2, <2>1 DEF ServiceInv, ServiceTypeOK
<1>4. ServiceTypeOK'
  BY <1>1, <1>3 DEF ServiceInv, ServiceTypeOK
<1> QED
  BY <1>1, <1>4 DEF ServiceInv, PermitsHeldByJobs, PendingOnce

LEMMA NextServiceInv == ServiceInv /\ [ServiceNext]_serviceVars => ServiceInv'
<1> SUFFICES ASSUME ServiceInv, [ServiceNext]_serviceVars PROVE ServiceInv'
  OBVIOUS
<1>1. CASE ServiceNext
  BY <1>1, AcceptServiceInv, StartServiceInv, FinishServiceInv, HandlerServiceInv DEF ServiceNext
<1>2. CASE UNCHANGED serviceVars
  BY <1>2 DEF serviceVars, ServiceInv, ServiceTypeOK, PermitsHeldByJobs, PendingOnce
<1> QED
  BY <1>1, <1>2

(* Handlers, pool and outcomes keep their shapes: the pool is within its   *)
(* threads, no two handlers await one job, and every job that has not      *)
(* ended is waiting for a thread or running, not both.                     *)
THEOREM ServiceTyping == ServiceSpec => []ServiceTypeOK
<1>1. ServiceInit => ServiceInv
  BY InitServiceInv
<1>2. ServiceInv /\ [ServiceNext]_serviceVars => ServiceInv'
  BY NextServiceInv
<1>3. ServiceInv => ServiceTypeOK
  BY DEF ServiceInv
<1> QED
  BY <1>1, <1>2, <1>3, PTL DEF ServiceSpec

(* template_slots in routes.rs: a permit is available or held by exactly   *)
(* one job that has not ended, whatever becomes of the handlers.           *)
THEOREM PermitsAccounted == ServiceSpec => []PermitsHeldByJobs
<1>1. ServiceInit => ServiceInv
  BY InitServiceInv
<1>2. ServiceInv /\ [ServiceNext]_serviceVars => ServiceInv'
  BY NextServiceInv
<1>3. ServiceInv => PermitsHeldByJobs
  BY DEF ServiceInv
<1> QED
  BY <1>1, <1>2, <1>3, PTL DEF ServiceSpec
=============================================================================
