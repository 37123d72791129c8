--------------------------- MODULE TemplateService ---------------------------
(***************************************************************************)
(* POST /v1/template (template_oneshot in routes.rs): a request that       *)
(* parses takes a permit of the template_slots semaphore or is refused,    *)
(* hands the permit with its lines to a job on tokio's blocking pool, and  *)
(* awaits the job's join handle under a timeout.  The job outlives the     *)
(* handler that times out or is dropped, and keeps the permit.             *)
(***************************************************************************)
EXTENDS Naturals, Sequences, FiniteSets, SequencesExt

CONSTANTS Requesters,   \* clients, one request at a time each
          MaxInflight,  \* permits of template_slots
          Threads,      \* threads of the blocking pool
          MaxRequests   \* bound on the requests that get a permit

ASSUME ServiceAssumption ==
  MaxInflight \in Nat \ {0} /\ Threads \in Nat \ {0} /\ MaxRequests \in Nat

VARIABLES
  handle,    \* client -> the job its handler awaits, 0 for none
  late,      \* clients whose handler's timer has fired
  permits,   \* available permits
  spawned,   \* jobs spawned so far; a job is its number
  pending,   \* jobs that wait for a pool thread, in order
  running,   \* jobs on a pool thread
  outcome    \* job -> "none" until it ends, then "done" or "panicked"

serviceVars == <<handle, late, permits, spawned, pending, running, outcome>>

Jobs == ToSet(pending) \cup running
Awaiting == {c \in Requesters : handle[c] # 0}

ServiceInit ==
  /\ handle = [c \in Requesters |-> 0] /\ late = {}
  /\ permits = MaxInflight
  /\ spawned = 0 /\ pending = <<>> /\ running = {}
  /\ outcome = <<>>

-----------------------------------------------------------------------------
(* Requests.                                                               *)

(* The body and the query parse, try_acquire_owned gets a permit, and the  *)
(* permit moves into the job.  A request that does not parse (400, 413)    *)
(* returns before it asks for a permit, and one that gets none (429)       *)
(* returns at once: neither changes anything.                              *)
Accept(c) ==
  /\ c \notin Awaiting
  /\ permits > 0 /\ spawned < MaxRequests
  /\ permits' = permits - 1
  /\ spawned' = spawned + 1
  /\ pending' = Append(pending, spawned')
  /\ outcome' = Append(outcome, "none")
  /\ handle' = [handle EXCEPT ![c] = spawned']
  /\ UNCHANGED <<late, running>>

-----------------------------------------------------------------------------
(* The blocking pool.                                                      *)

Finished(j) == outcome[j] # "none"

(* Mutant: a thread for every job.                                         *)
StartAtOnce ==
  /\ pending # <<>>
  /\ running' = running \cup {Head(pending)}
  /\ pending' = Tail(pending)
  /\ UNCHANGED <<handle, late, permits, spawned, outcome>>

Start ==
  /\ pending # <<>> /\ Cardinality(running) < Threads
  /\ running' = running \cup {Head(pending)}
  /\ pending' = Tail(pending)
  /\ UNCHANGED <<handle, late, permits, spawned, outcome>>

(* Mutant: a job that panics does not drop its permit.                     *)
FinishLeaking(j) ==
  /\ j \in running
  /\ running' = running \ {j}
  /\ \E o \in {"done", "panicked"} :
       /\ outcome' = [outcome EXCEPT ![j] = o]
       /\ permits' = IF o = "done" THEN permits + 1 ELSE permits
  /\ UNCHANGED <<handle, late, spawned, pending>>

(* The closure returns or unwinds; either way its permit is dropped, then  *)
(* the join handle is ready.                                               *)
Finish(j) ==
  /\ j \in running
  /\ running' = running \ {j}
  /\ \E o \in {"done", "panicked"} : outcome' = [outcome EXCEPT ![j] = o]
  /\ permits' = permits + 1
  /\ UNCHANGED <<handle, late, spawned, pending>>

-----------------------------------------------------------------------------
(* The handler's await.  The timeout polls the join handle first: a result *)
(* that is ready wins over a timer that fired.                             *)

Elapse(c) ==
  /\ c \in Awaiting \ late
  /\ late' = late \cup {c}
  /\ UNCHANGED <<handle, permits, spawned, pending, running, outcome>>

(* Mutant: an answer for a job that succeeds only.                         *)
AnswerDone(c) ==
  /\ c \in Awaiting /\ outcome[handle[c]] = "done"
  /\ handle' = [handle EXCEPT ![c] = 0]
  /\ late' = late \ {c}
  /\ UNCHANGED <<permits, spawned, pending, running, outcome>>

(* 200, or 500 "template worker failed".                                   *)
Answer(c) ==
  /\ c \in Awaiting /\ Finished(handle[c])
  /\ handle' = [handle EXCEPT ![c] = 0]
  /\ late' = late \ {c}
  /\ UNCHANGED <<permits, spawned, pending, running, outcome>>

(* Mutant: the handler owns the permit, and drops it with the answer.      *)
TimeOutReleasing(c) ==
  /\ c \in Awaiting \cap late /\ ~Finished(handle[c])
  /\ handle' = [handle EXCEPT ![c] = 0]
  /\ late' = late \ {c}
  /\ permits' = permits + 1
  /\ UNCHANGED <<spawned, pending, running, outcome>>

(* 503 "template timed out".                                               *)
TimeOut(c) ==
  /\ c \in Awaiting \cap late /\ ~Finished(handle[c])
  /\ handle' = [handle EXCEPT ![c] = 0]
  /\ late' = late \ {c}
  /\ UNCHANGED <<permits, spawned, pending, running, outcome>>

(* The client goes away and the handler's future is dropped, with the join *)
(* handle: the job is detached.                                            *)
DropHandler(c) ==
  /\ c \in Awaiting
  /\ handle' = [handle EXCEPT ![c] = 0]
  /\ late' = late \ {c}
  /\ UNCHANGED <<permits, spawned, pending, running, outcome>>

-----------------------------------------------------------------------------
ServiceNext ==
  \/ \E c \in Requesters :
       \/ Accept(c)
       \/ Elapse(c) \/ Answer(c) \/ TimeOut(c) \/ DropHandler(c)
  \/ Start
  \/ \E j \in running : Finish(j)

ServiceSpec == ServiceInit /\ [][ServiceNext]_serviceVars

(* Timers fire, handlers that can go on are polled, the pool runs its jobs *)
(* and the templating of a finite body ends.                               *)
ServiceFairness ==
  /\ \A c \in Requesters : WF_serviceVars(Elapse(c)) /\ WF_serviceVars(Answer(c) \/ TimeOut(c))
  /\ WF_serviceVars(Start)
  /\ \A j \in 1..MaxRequests : WF_serviceVars(Finish(j))

FairServiceSpec == ServiceSpec /\ ServiceFairness

-----------------------------------------------------------------------------
(* Properties.                                                             *)

(* Shapes of the state; the pool is within its threads, and no two         *)
(* handlers await one job.                                                 *)
ServiceTypeOK ==
  /\ handle \in [Requesters -> 0..spawned] /\ late \subseteq Awaiting
  /\ permits \in 0..MaxInflight /\ spawned \in 0..MaxRequests
  /\ outcome \in [1..spawned -> {"none", "done", "panicked"}]
  /\ Jobs = {j \in 1..spawned : ~Finished(j)}
  /\ Cardinality(running) <= Threads /\ running \cap ToSet(pending) = {}
  /\ \A c, d \in Awaiting : handle[c] = handle[d] => c = d

(* Permits are neither lost nor released twice: those not available are    *)
(* held one each by the jobs that have not ended, whatever became of the   *)
(* requests that spawned them (timed out, disconnected, failed).           *)
PermitsHeldByJobs == permits + Cardinality(Jobs) = MaxInflight

(* Every request the service accepts is answered, also when its job        *)
(* panics or still waits for a pool thread when the time is up.            *)
RequestsAnswered == \A c \in Requesters : c \in Awaiting ~> c \notin Awaiting

(* When requests stop coming, every permit comes back, those of the        *)
(* requests nobody waits for any more included.                            *)
PermitsReturn == <>[](permits = MaxInflight)
=============================================================================
