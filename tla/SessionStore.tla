---------------------------- MODULE SessionStore ----------------------------
(***************************************************************************)
(* The sessions of examples/server: the ingest and templates handlers      *)
(* (routes.rs), the TTL sweeper (main.rs), and the tokio RwLock they share *)
(* (session.rs), which serves its waiters in order.                        *)
(*                                                                         *)
(* Time is counted in sweep intervals.  Instants matter by differences     *)
(* only: age[s] is the time since last_touch and since[s] is what the      *)
(* sweeper's earlier `now` makes of it, now.duration_since(last_touch),    *)
(* zero for a touch after `now`.  Both stop counting at TTL.  A batch is   *)
(* the lines of one ingest request; a request stands for the handler's     *)
(* future, which is dropped when its client disconnects.                   *)
(***************************************************************************)
EXTENDS Naturals, Sequences, FiniteSets, SequencesExt

CONSTANTS Clients,      \* clients, one request at a time each
          Sessions,     \* session ids
          TTL,          \* SESSION_TTL in sweep intervals
          MaxIngests,   \* bound on the ingest requests
          Sweeper       \* the sweeper task, as a waiter of the lock

ASSUME SessionAssumption ==
  /\ TTL \in Nat \ {0} /\ MaxIngests \in Nat
  /\ Sweeper \notin Clients

VARIABLES
  pc,        \* client -> "idle", "queued" or "reading" (holds the read lock)
  req,       \* client -> its request: [kind, session, num]
  ingests,   \* number of ingest requests made
  queue,     \* waiters of the RwLock, in order
  index,     \* live session -> its batches, in order
  age,       \* live session -> time since last_touch
  due,       \* the sweeper's interval has a tick to deliver
  sweeping,  \* the sweeper has taken `now` and waits for the lock
  since,     \* live session -> now.duration_since(last_touch), while sweeping
  acked,     \* history: [session, client, num] acknowledged, not evicted since
  unused     \* history: live session -> time since a request last used it

vars == <<pc, req, ingests, queue, index, age, due, sweeping, since, acked, unused>>

Live == DOMAIN index
Readers == {c \in Clients : pc[c] = "reading"}
NoSession == [s \in {} |-> 0]
Older(f) == [s \in DOMAIN f |-> IF f[s] < TTL THEN f[s] + 1 ELSE TTL]

Init ==
  /\ pc = [c \in Clients |-> "idle"]
  /\ req = [c \in Clients |-> [kind |-> "none"]]
  /\ ingests = 0
  /\ queue = <<>>
  /\ index = NoSession /\ age = NoSession /\ unused = NoSession
  /\ due = TRUE /\ sweeping = FALSE /\ since = NoSession
  /\ acked = {}

-----------------------------------------------------------------------------
(* Requests, up to the handler's await of the lock.  A request that the    *)
(* handler refuses before (4xx) touches nothing.                           *)

Enqueue(c, r) ==
  /\ pc[c] = "idle"
  /\ pc' = [pc EXCEPT ![c] = "queued"]
  /\ req' = [req EXCEPT ![c] = r]
  /\ queue' = Append(queue, c)
  /\ UNCHANGED <<index, age, due, sweeping, since, acked, unused>>

RequestIngest(c, s) ==
  /\ ingests < MaxIngests
  /\ ingests' = ingests + 1
  /\ Enqueue(c, [kind |-> "ingest", session |-> s, num |-> ingests'])

RequestTemplates(c, s) ==
  /\ Enqueue(c, [kind |-> "templates", session |-> s])
  /\ UNCHANGED ingests

(* Mutant: the dropped future keeps its place among the lock's waiters.    *)
DisconnectInPlace(c) ==
  /\ pc[c] = "queued"
  /\ pc' = [pc EXCEPT ![c] = "idle"]
  /\ UNCHANGED <<req, ingests, queue, index, age, due, sweeping, since, acked, unused>>

(* The client goes away; its handler's future is dropped at the await.     *)
Disconnect(c) ==
  /\ pc[c] = "queued"
  /\ pc' = [pc EXCEPT ![c] = "idle"]
  /\ \E i \in DOMAIN queue : queue[i] = c /\ queue' = RemoveAt(queue, i)
  /\ UNCHANGED <<req, ingests, index, age, due, sweeping, since, acked, unused>>

-----------------------------------------------------------------------------
(* Handlers, from the lock on.  Ingest has no await under the write lock:  *)
(* it creates the session if there is none, pushes every line, touches the *)
(* session and answers.  The answer may be lost.                           *)

(* Mutant: a writer does not wait for the readers.                         *)
CanWriteUnderReaders(w) == queue # <<>> /\ Head(queue) = w

CanWrite(w) == queue # <<>> /\ Head(queue) = w /\ Readers = {}

With(f, s, v) == [t \in DOMAIN f \cup {s} |-> IF t = s THEN v ELSE f[t]]

(* Mutant: every ingest starts the session afresh.                         *)
PushIntoFresh(s, batch) == index' = With(index, s, <<batch>>)

Push(s, batch) ==
  index' = With(index, s, Append(IF s \in Live THEN index[s] ELSE <<>>, batch))

(* Mutant: the sweeper decided on the entries it saw when it took `now`.   *)
TouchAfterDecision(s) ==
  /\ age' = With(age, s, 0)
  /\ since' = IF sweeping /\ s \notin DOMAIN since THEN With(since, s, 0) ELSE since

(* last_touch = Instant::now().                                            *)
Touch(s) ==
  /\ age' = With(age, s, 0)
  /\ since' = IF sweeping THEN With(since, s, 0) ELSE since

ServeIngest(c) ==
  /\ pc[c] = "queued" /\ req[c].kind = "ingest" /\ CanWrite(c)
  /\ LET s == req[c].session
         batch == [client |-> c, num |-> req[c].num]
     IN  /\ Push(s, batch)
         /\ Touch(s)
         /\ unused' = With(unused, s, 0)
         /\ acked' = acked \cup {[session |-> s, batch |-> batch]}
  /\ pc' = [pc EXCEPT ![c] = "idle"]
  /\ queue' = Tail(queue)
  /\ UNCHANGED <<req, ingests, due, sweeping>>

(* Mutant: templates waits for its session to appear.                      *)
ServeTemplatesOnceLive(c) ==
  /\ pc[c] = "queued" /\ req[c].kind = "templates"
  /\ queue # <<>> /\ Head(queue) = c
  /\ req[c].session \in Live
  /\ pc' = [pc EXCEPT ![c] = "reading"]
  /\ queue' = Tail(queue)
  /\ unused' = [unused EXCEPT ![req[c].session] = 0]
  /\ UNCHANGED <<req, ingests, index, age, due, sweeping, since, acked>>

(* Templates answers 404 at once, or computes under the read lock, which   *)
(* takes time and cannot be abandoned: the computation does not await.     *)
ServeTemplates(c) ==
  /\ pc[c] = "queued" /\ req[c].kind = "templates"
  /\ queue # <<>> /\ Head(queue) = c
  /\ pc' = [pc EXCEPT ![c] = IF req[c].session \in Live THEN "reading" ELSE "idle"]
  /\ queue' = Tail(queue)
  /\ unused' = IF req[c].session \in Live THEN [unused EXCEPT ![req[c].session] = 0] ELSE unused
  /\ UNCHANGED <<req, ingests, index, age, due, sweeping, since, acked>>

AnswerTemplates(c) ==
  /\ pc[c] = "reading"
  /\ pc' = [pc EXCEPT ![c] = "idle"]
  /\ UNCHANGED <<req, ingests, queue, index, age, due, sweeping, since, acked, unused>>

-----------------------------------------------------------------------------
(* The sweeper: a tick of its interval, `now`, then the write lock.        *)

(* Mutant: the sweeper tries the lock and skips its turn when it is busy.  *)
SweepTickIfFree ==
  /\ due /\ ~sweeping
  /\ queue = <<>> /\ Readers = {}
  /\ due' = FALSE /\ sweeping' = TRUE
  /\ since' = age
  /\ queue' = <<Sweeper>>
  /\ UNCHANGED <<pc, req, ingests, index, age, acked, unused>>

SweepTick ==
  /\ due /\ ~sweeping
  /\ due' = FALSE /\ sweeping' = TRUE
  /\ since' = age
  /\ queue' = Append(queue, Sweeper)
  /\ UNCHANGED <<pc, req, ingests, index, age, acked, unused>>

Expired == {s \in Live : since[s] >= TTL}

(* retain under the write lock.                                            *)
Sweep ==
  /\ sweeping /\ CanWrite(Sweeper)
  /\ LET kept == Live \ Expired
     IN  /\ index' = [s \in kept |-> index[s]]
         /\ age' = [s \in kept |-> age[s]]
         /\ unused' = [s \in kept |-> unused[s]]
         /\ acked' = {a \in acked : a.session \in kept}
  /\ sweeping' = FALSE /\ since' = NoSession
  /\ queue' = Tail(queue)
  /\ UNCHANGED <<pc, req, ingests, due>>

(* One sweep interval passes.  A tick missed meanwhile is skipped          *)
(* (MissedTickBehavior::Skip): one tick is due, not two.                   *)
Tick ==
  /\ age' = Older(age) /\ unused' = Older(unused)
  /\ due' = TRUE
  /\ UNCHANGED <<pc, req, ingests, queue, index, sweeping, since, acked>>

-----------------------------------------------------------------------------
Next ==
  \/ \E c \in Clients :
       \/ \E s \in Sessions : RequestIngest(c, s) \/ RequestTemplates(c, s)
       \/ Disconnect(c) \/ ServeIngest(c) \/ ServeTemplates(c) \/ AnswerTemplates(c)
  \/ SweepTick \/ Sweep \/ Tick

Spec == Init /\ [][Next]_vars

(* Time passes, the runtime polls the sweeper and whoever the lock wakes,  *)
(* and the grouping of a finite session ends.  No client has to do         *)
(* anything.                                                               *)
Fairness ==
  /\ WF_vars(Tick) /\ WF_vars(SweepTick) /\ WF_vars(Sweep)
  /\ \A c \in Clients :
       WF_vars(ServeIngest(c)) /\ WF_vars(ServeTemplates(c)) /\ WF_vars(AnswerTemplates(c))

FairSpec == Spec /\ Fairness

-----------------------------------------------------------------------------
(* Properties.                                                             *)

(* Shapes of the state.                                                    *)
SessionTypeOK ==
  /\ pc \in [Clients -> {"idle", "queued", "reading"}]
  /\ Live \subseteq Sessions
  /\ age \in [Live -> 0..TTL] /\ unused \in [Live -> 0..TTL]
  /\ sweeping => since \in [Live -> 0..TTL]
  /\ Cardinality(ToSet(queue)) = Len(queue)
  /\ ToSet(queue) = {c \in Clients : pc[c] = "queued"}
                      \cup (IF sweeping THEN {Sweeper} ELSE {})

(* The sweeper evicts no session that was touched within the TTL before    *)
(* the eviction, although it takes `now` before it waits for the lock and  *)
(* sessions are touched and created while it waits.                        *)
OnlyExpiredEvicted == [][\A s \in Live : s \notin DOMAIN index' => age[s] >= TTL]_vars

(* A request computes from one state of its session: while it does, the    *)
(* session is not evicted and no batch enters it, although the index is    *)
(* not copied and ingests and sweeps go on arriving.                       *)
ReadersSeeOneState ==
  [][\A c \in Readers :
       LET s == req[c].session
       IN  s \in DOMAIN index' \cap Live /\ index'[s] = index[s]]_vars

(* What a session holds is every batch acknowledged to it since its last   *)
(* eviction, once each, those of one client in the order it sent them.     *)
AckedIsStored ==
  \A s \in Sessions :
    LET batches == IF s \in Live THEN index[s] ELSE <<>>
    IN  /\ {a.batch : a \in {b \in acked : b.session = s}} = ToSet(batches)
        /\ \A i, j \in DOMAIN batches :
             i < j /\ batches[i].client = batches[j].client
               => batches[i].num < batches[j].num

(* Every request ends, behind any number of readers and sweeps.            *)
RequestsEnd == \A c \in Clients : pc[c] # "idle" ~> pc[c] = "idle"

(* A session nobody ingests into is evicted in the end, however often its  *)
(* templates are read: readers cannot keep the sweeper from the lock.      *)
SessionsExpire == \A s \in Sessions : <>[](s \notin Live)

(* "sessions idle longer than SESSION_TTL are evicted" (session.rs:5):     *)
(* a session in use is not.  ServeTemplates uses it and does not touch it. *)
OnlyIdleEvicted == [][\A s \in Live : s \notin DOMAIN index' => unused[s] >= TTL]_vars
=============================================================================
