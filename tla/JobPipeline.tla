---------------------------- MODULE JobPipeline ----------------------------
(***************************************************************************)
(* The life of a ranking request: POST /rank creates a job row and         *)
(* enqueues a message, the QueueWorker loop hands the message to a task    *)
(* under a semaphore, and JobManager._handle runs it against the database, *)
(* the result cache and the ranker, retrying or giving up on failure.      *)
(* Every asyncio suspension point that follows a state change is a step    *)
(* boundary; the process may be stopped or may crash between any two.      *)
(***************************************************************************)
EXTENDS Integers, FiniteSets

CONSTANTS Jobs,         \* the requests submitted; one row and one message each
          Live,         \* those that carry their own `candidates`
          KeyOf,        \* the cache key of each request (_request_hash)
          NoJob,        \* "no ranking"
          MaxAttempts,  \* Message.max_attempts
          Concurrency,  \* the permits of QueueWorker._sem
          MaxStops,     \* bound: how often the process stops or crashes
          LostAck       \* may a commit land and still raise in the caller?

ASSUME JobsAssumption == Live \subseteq Jobs /\ NoJob \notin Jobs
ASSUME LimitsAssumption == /\ MaxAttempts \in Nat \ {0}
                           /\ Concurrency \in Nat \ {0}
                           /\ MaxStops \in Nat
ASSUME LostAckAssumption == LostAck \in BOOLEAN

VARIABLES
  row,       \* JobRun.status of each job in the database, "absent" before it exists
  batches,   \* how many times save_results was committed for each job
  served,    \* whose ranking the saved results are
  req,       \* the POST /rank request of each job
  pq,        \* InMemoryQueue._pq: entries [seq, msg]
  seq,       \* InMemoryQueue._seq
  dlq,       \* InMemoryQueue.dlq
  hand,      \* the message _loop holds while it waits for a permit
  tasks,     \* QueueWorker._inflight
  permits,   \* the value of QueueWorker._sem
  cache,     \* the ranking stored under each cache key
  announced, \* terminal events published to the SSE channels
  phase,     \* the process: "up", "draining" (stop() called) or "down"
  stops,     \* how often it has stopped or crashed
  lost       \* jobs whose message, or whose request, perished with a process

database == <<row, batches, served>>
queue    == <<pq, seq, dlq>>
worker   == <<hand, tasks, permits>>
process  == <<phase, stops, lost>>
vars     == <<database, req, queue, worker, cache, announced, process>>

Keys     == {KeyOf[j] : j \in Jobs}
Terminal == {"succeeded", "failed"}

Message == [job : Jobs, attempts : Nat]
Entry   == [seq : Nat, msg : Message]
Steps   == {"check", "mark", "lookup", "rank", "store", "persist", "give_up", "done"}
Task    == [msg : Message, pc : Steps, result : Jobs \cup {NoJob}]

\* Interactive samples are enqueued at priority 3, full-pool jobs at 5; lower is served first.
Priority(j) == IF j \in Live THEN 3 ELSE 5

\* A message is being carried to an outcome: it waits, is in hand, is being processed, or is dead.
Queued(j)       == \E e \in pq : e.msg.job = j
Held(j)         == \E m \in hand : m.job = j
Working(j)      == \E t \in tasks : t.msg.job = j /\ t.pc # "done"
DeadLettered(j) == \E m \in dlq : m.job = j
Carried(j)      == Queued(j) \/ Held(j) \/ Working(j) \/ DeadLettered(j)

-----------------------------------------------------------------------------
(* Transactions. session_scope commits or rolls back; the commit may also   *)
(* land and its acknowledgement be lost, so that the caller sees an error.  *)

Outcomes    == {"committed", "rolled_back"} \cup (IF LostAck THEN {"unacknowledged"} ELSE {})
Lands(o)    == o # "rolled_back"
Returns(o)  == o = "committed"

(* The queue and the task's control. *)

Put(m) ==
    /\ seq' = seq + 1
    /\ pq' = pq \cup {[seq |-> seq + 1, msg |-> m]}

Goto(t, step, result) ==
    tasks' = (tasks \ {t}) \cup {[t EXCEPT !.pc = step, !.result = result]}

\* Mutant of Retry: the early return after dead-lettering is missing.
RetryFallsThrough(t) ==
    LET m == [t.msg EXCEPT !.attempts = @ + 1]
    IN  /\ Goto(t, "done", NoJob)
        /\ dlq' = IF m.attempts >= MaxAttempts THEN dlq \cup {m} ELSE dlq
        /\ m.attempts <= MaxAttempts
        /\ Put(m)

\* Mutant of Retry: `>` for `>=` in the attempts test.
RetryOffByOne(t) ==
    LET m == [t.msg EXCEPT !.attempts = @ + 1]
    IN  /\ Goto(t, "done", NoJob)
        /\ IF m.attempts > MaxAttempts
           THEN dlq' = dlq \cup {m} /\ UNCHANGED <<pq, seq>>
           ELSE Put(m) /\ UNCHANGED dlq

\* InMemoryQueue.retry, called by _process when the handler raised.
Retry(t) ==
    LET m == [t.msg EXCEPT !.attempts = @ + 1]
    IN  /\ Goto(t, "done", NoJob)
        /\ \/ /\ m.attempts >= MaxAttempts
              /\ dlq' = dlq \cup {m}
              /\ UNCHANGED <<pq, seq>>
           \/ /\ m.attempts < MaxAttempts
              /\ Put(m)
              /\ UNCHANGED dlq

\* An exception inside _execute: the last attempt gives up, an earlier one is retried.
Raise(t) ==
    \/ /\ t.msg.attempts + 1 >= MaxAttempts
       /\ Goto(t, "give_up", NoJob)
       /\ UNCHANGED queue
    \/ /\ t.msg.attempts + 1 < MaxAttempts
       /\ Retry(t)

-----------------------------------------------------------------------------
Init ==
    /\ row = [j \in Jobs |-> "absent"]
    /\ batches = [j \in Jobs |-> 0]
    /\ served = [j \in Jobs |-> NoJob]
    /\ req = [j \in Jobs |-> "none"]
    /\ pq = {} /\ seq = 0 /\ dlq = {}
    /\ hand = {} /\ tasks = {} /\ permits = Concurrency
    /\ cache = [k \in Keys |-> NoJob]
    /\ announced = [j \in Jobs |-> {}]
    /\ phase = "up" /\ stops = 0 /\ lost = {}

(* The request: create the row and commit it, then enqueue. *)

Submit(j) ==
    /\ phase = "up" /\ req[j] = "none"
    /\ \E o \in Outcomes :
         /\ row' = IF Lands(o) THEN [row EXCEPT ![j] = "queued"] ELSE row
         /\ req' = [req EXCEPT ![j] = IF Returns(o) THEN "committed" ELSE "closed"]
         /\ lost' = IF Lands(o) /\ ~Returns(o) THEN lost \cup {j} ELSE lost
    /\ UNCHANGED <<batches, served, queue, worker, cache, announced, phase, stops>>

Enqueue(j) ==
    /\ phase = "up" /\ req[j] = "committed"
    /\ Put([job |-> j, attempts |-> 0])
    /\ req' = [req EXCEPT ![j] = "closed"]
    /\ UNCHANGED <<database, dlq, worker, cache, announced, process>>

(* QueueWorker._loop *)

Before(e, f) ==
    \/ Priority(e.msg.job) < Priority(f.msg.job)
    \/ Priority(e.msg.job) = Priority(f.msg.job) /\ e.seq <= f.seq

Dequeue ==
    /\ phase = "up" /\ hand = {}
    /\ \E e \in pq :
         /\ \A f \in pq : Before(e, f)
         /\ pq' = pq \ {e}
         /\ hand' = {e.msg}
    /\ UNCHANGED <<database, req, seq, dlq, tasks, permits, cache, announced, process>>

\* Mutant of StartTask: the loop does not wait for the semaphore.
StartTaskUnbounded ==
    /\ phase = "up" /\ hand # {}
    /\ tasks' = tasks \cup {[msg |-> m, pc |-> "check", result |-> NoJob] : m \in hand}
    /\ hand' = {}
    /\ permits' = permits - 1
    /\ UNCHANGED <<database, req, queue, cache, announced, process>>

StartTask ==
    /\ phase = "up" /\ permits > 0
    /\ \E m \in hand :
         tasks' = tasks \cup {[msg |-> m, pc |-> "check", result |-> NoJob]}
    /\ hand' = {}
    /\ permits' = permits - 1
    /\ UNCHANGED <<database, req, queue, cache, announced, process>>

(* JobManager._handle, _execute, _persist and mark_failed *)

\* Mutant of Check: a database error while reading the row is swallowed.
CheckSwallows(t) ==
    /\ t.pc = "check"
    /\ \/ Goto(t, "done", NoJob)
       \/ row[t.msg.job] \notin Terminal /\ Goto(t, "mark", NoJob)
    /\ UNCHANGED <<database, req, queue, hand, permits, cache, announced, process>>

\* Mutant of Check: the consumer does not skip a finished job.
CheckNeverSkips(t) ==
    /\ t.pc = "check"
    /\ \/ Goto(t, "mark", NoJob) /\ UNCHANGED queue
       \/ Retry(t)
    /\ UNCHANGED <<database, req, hand, permits, cache, announced, process>>

\* A finished job is skipped; a database error here is outside _handle's try.
Check(t) ==
    /\ t.pc = "check"
    /\ \/ /\ row[t.msg.job] \in Terminal
          /\ Goto(t, "done", NoJob)
          /\ UNCHANGED queue
       \/ /\ row[t.msg.job] \notin Terminal
          /\ Goto(t, "mark", NoJob)
          /\ UNCHANGED queue
       \/ Retry(t)
    /\ UNCHANGED <<database, req, hand, permits, cache, announced, process>>

MarkRunning(t) ==
    /\ t.pc = "mark"
    /\ \E o \in Outcomes :
         /\ row' = IF Lands(o) THEN [row EXCEPT ![t.msg.job] = "running"] ELSE row
         /\ IF Returns(o) THEN Goto(t, "lookup", NoJob) /\ UNCHANGED queue ELSE Raise(t)
    /\ UNCHANGED <<batches, served, req, hand, permits, cache, announced, process>>

Lookup(t) ==
    LET hit == IF t.msg.job \in Live THEN NoJob ELSE cache[KeyOf[t.msg.job]]
    IN  /\ t.pc = "lookup"
        /\ \/ /\ IF hit # NoJob THEN Goto(t, "persist", hit) ELSE Goto(t, "rank", NoJob)
              /\ UNCHANGED queue
           \/ t.msg.job \notin Live /\ Raise(t)      \* the cache backend failed
        /\ UNCHANGED <<database, req, hand, permits, cache, announced, process>>

\* Mutant of Rank: a live ranking is cached too.
RankCachesLive(t) ==
    /\ t.pc = "rank"
    /\ Goto(t, "store", t.msg.job)
    /\ UNCHANGED <<database, req, queue, hand, permits, cache, announced, process>>

Rank(t) ==
    /\ t.pc = "rank"
    /\ \/ /\ Goto(t, IF t.msg.job \in Live THEN "persist" ELSE "store", t.msg.job)
          /\ UNCHANGED queue
       \/ Raise(t)
    /\ UNCHANGED <<database, req, hand, permits, cache, announced, process>>

Store(t) ==
    /\ t.pc = "store"
    /\ \E o \in Outcomes :
         /\ cache' = IF Lands(o) THEN [cache EXCEPT ![KeyOf[t.msg.job]] = t.result] ELSE cache
         /\ IF Returns(o) THEN Goto(t, "persist", t.result) /\ UNCHANGED queue ELSE Raise(t)
    /\ UNCHANGED <<database, req, hand, permits, announced, process>>

\* Mutant of Persist: "completed" is published before the transaction commits.
PersistAnnouncesFirst(t) ==
    LET j == t.msg.job
    IN  /\ t.pc = "persist"
        /\ announced' = [announced EXCEPT ![j] = @ \cup {"completed"}]
        /\ \/ /\ row' = [row EXCEPT ![j] = "succeeded"]
              /\ batches' = [batches EXCEPT ![j] = @ + 1]
              /\ served' = [served EXCEPT ![j] = t.result]
              /\ Goto(t, "done", NoJob)
              /\ UNCHANGED queue
           \/ Raise(t) /\ UNCHANGED database
        /\ UNCHANGED <<req, hand, permits, cache, process>>

\* Mutant of Persist: mark_done commits in a transaction of its own.
PersistNotAtomic(t) ==
    LET j == t.msg.job
    IN  /\ t.pc = "persist"
        /\ row' = [row EXCEPT ![j] = "succeeded"]
        /\ \/ /\ batches' = [batches EXCEPT ![j] = @ + 1]
              /\ served' = [served EXCEPT ![j] = t.result]
              /\ announced' = [announced EXCEPT ![j] = @ \cup {"completed"}]
              /\ Goto(t, "done", NoJob)
              /\ UNCHANGED queue
           \/ Raise(t) /\ UNCHANGED <<batches, served, announced>>
        /\ UNCHANGED <<req, hand, permits, cache, process>>

\* One transaction: mark_done, save_results and the audit entry; then publish.
Persist(t) ==
    LET j == t.msg.job
    IN  /\ t.pc = "persist"
        /\ \E o \in Outcomes :
             /\ IF Lands(o)
                THEN /\ row' = [row EXCEPT ![j] = "succeeded"]
                     /\ batches' = [batches EXCEPT ![j] = @ + 1]
                     /\ served' = [served EXCEPT ![j] = t.result]
                ELSE UNCHANGED database
             /\ IF Returns(o)
                THEN /\ announced' = [announced EXCEPT ![j] = @ \cup {"completed"}]
                     /\ Goto(t, "done", NoJob)
                     /\ UNCHANGED queue
                ELSE /\ Raise(t)
                     /\ UNCHANGED announced
        /\ UNCHANGED <<req, hand, permits, cache, process>>

\* Mutant of MarkFailed: "failed" is published before the row is written.
MarkFailedAnnouncesFirst(t) ==
    LET j == t.msg.job
    IN  /\ t.pc = "give_up"
        /\ announced' = [announced EXCEPT ![j] = @ \cup {"failed"}]
        /\ \/ /\ row' = [row EXCEPT ![j] = "failed"]
              /\ Goto(t, "done", NoJob)
              /\ UNCHANGED queue
           \/ Retry(t) /\ UNCHANGED row
        /\ UNCHANGED <<batches, served, req, hand, permits, cache, process>>

\* mark_failed on the last attempt; its own failure goes back to _process.
MarkFailed(t) ==
    LET j == t.msg.job
    IN  /\ t.pc = "give_up"
        /\ \E o \in Outcomes :
             /\ row' = IF Lands(o) THEN [row EXCEPT ![j] = "failed"] ELSE row
             /\ IF Returns(o)
                THEN /\ announced' = [announced EXCEPT ![j] = @ \cup {"failed"}]
                     /\ Goto(t, "done", NoJob)
                     /\ UNCHANGED queue
                ELSE /\ Retry(t)
                     /\ UNCHANGED announced
        /\ UNCHANGED <<batches, served, req, hand, permits, cache, process>>

\* Mutant of TaskDone: the done callback forgets the permit.
TaskDoneLeaks(t) ==
    /\ t.pc = "done"
    /\ tasks' = tasks \ {t}
    /\ UNCHANGED <<database, req, queue, hand, permits, cache, announced, process>>

\* The done callback: drop the task and release its permit.
TaskDone(t) ==
    /\ t.pc = "done"
    /\ tasks' = tasks \ {t}
    /\ permits' = permits + 1
    /\ UNCHANGED <<database, req, queue, hand, cache, announced, process>>

TaskStep(t) ==
    \/ Check(t) \/ MarkRunning(t) \/ Lookup(t) \/ Rank(t)
    \/ Store(t) \/ Persist(t) \/ MarkFailed(t) \/ TaskDone(t)

(* A cached ranking expires or is evicted. *)
Expire(k) ==
    /\ cache[k] # NoJob
    /\ cache' = [cache EXCEPT ![k] = NoJob]
    /\ UNCHANGED <<database, req, queue, worker, announced, process>>

(* The process. What lived only in its memory is gone; the cache survives in *)
(* Redis and perishes with the in-memory fallback.                           *)

\* JobManager.stop: the loop is cancelled with the message it holds. The server
\* has finished its requests before it calls this.
Stop ==
    /\ phase = "up" /\ stops < MaxStops
    /\ \A j \in Jobs : req[j] # "committed"
    /\ phase' = "draining"
    /\ stops' = stops + 1
    /\ lost' = lost \cup {m.job : m \in hand}
    /\ hand' = {}
    /\ UNCHANGED <<database, req, queue, tasks, permits, cache, announced>>

Halt ==
    /\ phase' = "down"
    /\ lost' = lost \cup {j \in Jobs : Carried(j) \/ req[j] = "committed"}
    /\ req' = [j \in Jobs |-> IF req[j] = "committed" THEN "closed" ELSE req[j]]
    /\ pq' = {} /\ seq' = 0 /\ dlq' = {}
    /\ hand' = {} /\ tasks' = {} /\ permits' = Concurrency
    /\ cache' \in {cache, [k \in Keys |-> NoJob]}
    /\ UNCHANGED <<database, announced>>

\* stop() returns once the in-flight tasks are gathered, and the process exits.
Exit ==
    /\ phase = "draining" /\ tasks = {}
    /\ Halt
    /\ UNCHANGED stops

Crash ==
    /\ phase \in {"up", "draining"} /\ stops < MaxStops
    /\ Halt
    /\ stops' = stops + 1

\* lifespan startup: a fresh JobManager over the same database; no row is looked at.
Restart ==
    /\ phase = "down"
    /\ phase' = "up"
    /\ UNCHANGED <<database, req, queue, worker, cache, announced, stops, lost>>

\* Every request has been answered and there is no work: the server waits.
Idle ==
    /\ phase = "up" /\ pq = {} /\ hand = {} /\ tasks = {}
    /\ \A j \in Jobs : req[j] = "closed"
    /\ UNCHANGED vars

Next ==
    \/ \E j \in Jobs : Submit(j) \/ Enqueue(j)
    \/ Dequeue \/ StartTask
    \/ \E t \in tasks : TaskStep(t)
    \/ \E k \in Keys : Expire(k)
    \/ Stop \/ Exit \/ Crash \/ Restart \/ Idle

Spec == Init /\ [][Next]_vars

\* The event loop runs every ready coroutine and the process manager restarts
\* the service; nothing obliges a client to submit, a cache entry to expire or
\* the process to stop.
Fairness ==
    /\ \A j \in Jobs : /\ WF_vars(Enqueue(j))
                       /\ WF_vars(\E t \in tasks : t.msg.job = j /\ TaskStep(t))
    /\ WF_vars(Dequeue) /\ WF_vars(StartTask) /\ WF_vars(Exit) /\ WF_vars(Restart)

FairSpec == Spec /\ Fairness

-----------------------------------------------------------------------------
(* Properties *)

\* Every variable keeps its shape, and no row, message or task belongs to an unknown job.
TypeOK ==
    /\ row \in [Jobs -> {"absent", "queued", "running"} \cup Terminal]
    /\ batches \in [Jobs -> Nat]
    /\ served \in [Jobs -> Jobs \cup {NoJob}]
    /\ req \in [Jobs -> {"none", "committed", "closed"}]
    /\ pq \subseteq Entry /\ seq \in Nat
    /\ dlq \subseteq Message
    /\ hand \subseteq Message /\ \A m, n \in hand : m = n
    /\ tasks \subseteq Task
    /\ permits \in Nat
    /\ cache \in [Keys -> Jobs \cup {NoJob}]
    /\ announced \in [Jobs -> SUBSET {"completed", "failed"}]
    /\ phase \in {"up", "draining", "down"}
    /\ stops \in Nat
    /\ lost \subseteq Jobs

\* The in-memory queue never duplicates: a job's message is in at most one
\* place, so two tasks never work on one job at the same time, retries,
\* priority and shutdown notwithstanding.
OneCopy ==
    \A j \in Jobs :
      /\ \A e, f \in pq : e.msg.job = j /\ f.msg.job = j => e = f
      /\ \A t, u \in tasks :
           /\ t.msg.job = j /\ t.pc # "done"
           /\ u.msg.job = j /\ u.pc # "done"
           => t = u
      /\ \A m, n \in dlq : m.job = j /\ n.job = j => m = n
      /\ Queued(j) => ~Held(j) /\ ~Working(j) /\ ~DeadLettered(j)
      /\ Held(j) => ~Working(j) /\ ~DeadLettered(j)
      /\ Working(j) => ~DeadLettered(j)
      /\ req[j] # "closed" => ~Carried(j)

\* A job the database still calls unfinished is on its way to an outcome: its
\* request is about to enqueue it, its message is carried, or it perished with
\* a process. No error path of the handler silently drops a message.
NothingDropped ==
    \A j \in Jobs :
      row[j] \in {"queued", "running"} => req[j] = "committed" \/ Carried(j) \/ j \in lost

\* The consumer is idempotent: retries, even after a commit whose
\* acknowledgement was lost, save one batch of results per job; a job that
\* reads as succeeded has its batch, and a failed one has none unless such an
\* acknowledgement was lost.
SavedOnce ==
    \A j \in Jobs :
      /\ batches[j] <= 1
      /\ row[j] = "succeeded" => batches[j] = 1
      /\ batches[j] = 1 => row[j] \in Terminal
      /\ ~LostAck /\ row[j] = "failed" => batches[j] = 0

\* A request is answered with its own ranking or, if neither carries its own
\* candidates, with one cached under the same key. A live request shares its
\* key with pool requests; only the two `candidates is None` tests separate them.
ServedOwnRequest ==
    \A j \in Jobs :
      /\ batches[j] > 0 => served[j] # NoJob
      /\ served[j] \notin {NoJob, j} =>
           /\ j \notin Live /\ served[j] \notin Live
           /\ KeyOf[served[j]] = KeyOf[j]

\* What the SSE stream announced is what the database says from then on, and
\* no job is announced both completed and failed.
AnnouncementsHold ==
    \A j \in Jobs :
      /\ "completed" \in announced[j] => row[j] = "succeeded"
      /\ "failed" \in announced[j] => row[j] = "failed"

\* No path through _process leaks a permit or releases one twice: the permits
\* in use are the tasks in flight, so Concurrency bounds them.
PermitsConserved == permits + Cardinality(tasks) = Concurrency

\* A message is dead-lettered exactly when its attempts are used up, and only
\* for a job the database does not call finished (mark_failed itself failed);
\* one that waits still has an attempt left.
DeadLettersAreUnfinished ==
    /\ \A m \in dlq : m.attempts = MaxAttempts /\ (~LostAck => row[m.job] \notin Terminal)
    /\ \A e \in pq : e.msg.attempts < MaxAttempts
    /\ \A m \in hand : m.attempts < MaxAttempts

(* What makes the invariants above inductive. *)

\* A task that passed the duplicate test is the only one that writes its job's
\* row, so the row stays unfinished until that task finishes it; without lost
\* acknowledgements no copy of a message outlives the end of its job.
WorkIsUnfinished ==
    /\ \A t \in tasks :
         t.pc \in {"mark", "lookup", "rank", "store", "persist"} => row[t.msg.job] \notin Terminal
    /\ ~LostAck => \A j \in Jobs : Carried(j) => row[j] \notin Terminal

\* A row exists only once its request committed, and nothing touches it before
\* the message is enqueued; a client is told of an end
\* only when nothing of the job is left in the process.
RequestsPrecedeRows ==
    \A j \in Jobs : /\ req[j] = "none" => row[j] = "absent"
                    /\ req[j] = "committed" => row[j] = "queued"
AnnouncedIsOver ==
    \A j \in Jobs : announced[j] # {} => req[j] = "closed" /\ ~Carried(j)

\* Whose ranking a task or a cache entry holds.
MayServe(k, j) == k # NoJob /\ (k # j => j \notin Live /\ k \notin Live /\ KeyOf[k] = KeyOf[j])

RankingsAreOwn ==
    /\ \A t \in tasks : t.pc = "store" => t.msg.job \notin Live /\ t.result = t.msg.job
    /\ \A t \in tasks : t.pc = "persist" => MayServe(t.result, t.msg.job)
    /\ \A k \in Keys : cache[k] # NoJob => cache[k] \notin Live /\ KeyOf[cache[k]] = k

\* A task at work has an attempt left, and one that gives up is at its last.
AttemptsLeft ==
    \A t \in tasks :
      /\ t.pc # "done" => t.msg.attempts < MaxAttempts
      /\ t.pc = "give_up" => t.msg.attempts + 1 = MaxAttempts

Inductive ==
    /\ TypeOK /\ OneCopy /\ NothingDropped /\ SavedOnce /\ ServedOwnRequest
    /\ AnnouncementsHold /\ DeadLettersAreUnfinished
    /\ WorkIsUnfinished /\ RequestsPrecedeRows /\ AnnouncedIsOver
    /\ RankingsAreOwn /\ AttemptsLeft

\* Once a terminal event was published, no later step of a retry, a duplicate
\* or a new process touches the job's row, results or announcement.
KeepsAnnounced ==
    \A j \in Jobs : announced[j] # {} =>
      /\ row'[j] = row[j] /\ batches'[j] = batches[j]
      /\ served'[j] = served[j] /\ announced'[j] = announced[j]

AnnouncedIsFinal == [][KeepsAnnounced]_vars

\* While the process runs, every accepted job is finished, failed or
\* dead-lettered in the end: tasks and the loop never wait on each other.
EveryJobSettles ==
    \A j \in Jobs :
      row[j] # "absent" ~> row[j] \in Terminal \/ DeadLettered(j) \/ j \in lost

\* The detailed pipeline keeps the client's view of a job (JobLifecycle): one
\* finish, results and "succeeded" in one step, nothing after abandonment.
Lifecycle == INSTANCE JobLifecycle WITH
                 status <- row,
                 results <- batches,
                 abandoned <- lost \cup {m.job : m \in dlq}

ImplementsLifecycle == Lifecycle!Spec

\* SYSTEM_DESIGN.md: a poison message is "dead-lettered (and the job marked
\* failed)". Checked without restarts, which empty the in-memory DLQ.
FailedIsDeadLettered ==
    \A j \in Jobs : row[j] = "failed" => DeadLettered(j)
=============================================================================
