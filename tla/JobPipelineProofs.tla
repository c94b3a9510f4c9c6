------------------------- MODULE JobPipelineProofs -------------------------
(***************************************************************************)
(* Proofs about JobPipeline for every set of jobs and every limit: its       *)
(* invariants, that it conserves its permits, and that it implements         *)
(* JobLifecycle.                                                            *)
(***************************************************************************)
EXTENDS JobPipeline, FiniteSetTheorems, TLAPS

USE JobsAssumption, LimitsAssumption, LostAckAssumption

\* A task that moves on is still a task.
LEMMA GotoType ==
    ASSUME tasks \subseteq Task, NEW t \in tasks, NEW step \in Steps,
           NEW result \in Jobs \cup {NoJob}, Goto(t, step, result)
    PROVE  tasks' \subseteq Task
<1>1. [t EXCEPT !.pc = step, !.result = result] \in Task
  BY DEF Task
<1>2. QED
  BY <1>1 DEF Goto

\* Enqueueing a message keeps the queue's types.
LEMMA PutType ==
    ASSUME pq \subseteq Entry, seq \in Nat, NEW m \in Message, Put(m)
    PROVE  pq' \subseteq Entry /\ seq' \in Nat
BY DEF Put, Entry

\* retry() moves a well-formed message to the queue or to the dead letters.
LEMMA RetryType ==
    ASSUME TypeOK, NEW t \in tasks, Retry(t)
    PROVE  tasks' \subseteq Task /\ pq' \subseteq Entry /\ seq' \in Nat /\ dlq' \subseteq Message
<1> DEFINE m == [t.msg EXCEPT !.attempts = @ + 1]
<1>1. m \in Message /\ "done" \in Steps
  BY DEF TypeOK, Task, Message, Steps
<1>2. tasks' \subseteq Task
  BY GotoType, <1>1 DEF Retry, TypeOK
<1>3. CASE dlq' = dlq \cup {m} /\ UNCHANGED <<pq, seq>>
  BY <1>1, <1>2, <1>3 DEF TypeOK
<1>4. CASE Put(m) /\ UNCHANGED dlq
  BY <1>1, <1>2, <1>4, PutType DEF TypeOK
<1>5. QED
  BY <1>3, <1>4 DEF Retry

\* An exception in the handler ends in giving up or in a retry, both well-typed.
LEMMA RaiseType ==
    ASSUME TypeOK, NEW t \in tasks, Raise(t)
    PROVE  tasks' \subseteq Task /\ pq' \subseteq Entry /\ seq' \in Nat /\ dlq' \subseteq Message
<1>1. CASE Goto(t, "give_up", NoJob) /\ UNCHANGED queue
  <2>1. "give_up" \in Steps
    BY DEF Steps
  <2>2. QED
    BY <1>1, <2>1, GotoType DEF TypeOK, queue
<1>2. CASE Retry(t)
  BY <1>2, RetryType
<1>3. QED
  BY <1>1, <1>2 DEF Raise

\* A fresh process over an empty database is well-typed.
LEMMA TypeInit == Init => TypeOK
BY DEF Init, TypeOK, Terminal

\* Every step of the pipeline keeps the types.
LEMMA TypeStep == TypeOK /\ [Next]_vars => TypeOK'
<1> SUFFICES ASSUME TypeOK, [Next]_vars PROVE TypeOK'
  OBVIOUS
<1>1. ASSUME NEW j \in Jobs, Submit(j) PROVE TypeOK'
  BY <1>1 DEF TypeOK, Submit, queue, worker, Terminal
<1>2. ASSUME NEW j \in Jobs, Enqueue(j) PROVE TypeOK'
  <2>1. [job |-> j, attempts |-> 0] \in Message
    BY DEF Message
  <2>2. QED
    BY <1>2, <2>1, PutType DEF TypeOK, Enqueue, database, worker, process, Terminal
<1>3. CASE Dequeue
  BY <1>3 DEF TypeOK, Dequeue, Entry, database, process, Terminal
<1>4. CASE StartTask
  BY <1>4 DEF TypeOK, StartTask, Task, Steps, database, queue, process, Terminal
<1>5. ASSUME NEW t \in tasks, TaskStep(t) PROVE TypeOK'
  <2> DEFINE j == t.msg.job
  <2>1. t \in Task /\ j \in Jobs /\ t.msg \in Message
    BY DEF TypeOK, Task, Message
  <2>2. "mark" \in Steps /\ "lookup" \in Steps /\ "rank" \in Steps /\ "store" \in Steps
        /\ "persist" \in Steps /\ "done" \in Steps
    BY DEF Steps
  <2>3. KeyOf[j] \in Keys
    BY <2>1 DEF Keys
  <2>4. CASE Check(t)
    <3>1. tasks' \subseteq Task /\ pq' \subseteq Entry /\ seq' \in Nat /\ dlq' \subseteq Message
      BY <2>2, <2>4, GotoType, RetryType DEF Check, TypeOK, queue
    <3>2. QED
      BY <2>4, <3>1 DEF Check, TypeOK, database, process
  <2>5. CASE MarkRunning(t)
    <3>1. tasks' \subseteq Task /\ pq' \subseteq Entry /\ seq' \in Nat /\ dlq' \subseteq Message
      BY <2>2, <2>5, GotoType, RaiseType DEF MarkRunning, TypeOK, queue
    <3>2. QED
      BY <2>1, <2>5, <3>1 DEF MarkRunning, TypeOK, process
  <2>6. CASE Lookup(t)
    <3>1. tasks' \subseteq Task /\ pq' \subseteq Entry /\ seq' \in Nat /\ dlq' \subseteq Message
      <4>1. CASE Raise(t)
        BY <4>1, RaiseType
      <4>2. CASE Goto(t, "persist", cache[KeyOf[j]]) /\ UNCHANGED queue
        <5>1. cache[KeyOf[j]] \in Jobs \cup {NoJob}
          BY <2>3 DEF TypeOK
        <5>2. QED
          BY <4>2, <5>1, <2>2, GotoType DEF TypeOK, queue
      <4>3. CASE Goto(t, "rank", NoJob) /\ UNCHANGED queue
        BY <4>3, <2>2, GotoType DEF TypeOK, queue
      <4>4. QED
        BY <2>6, <4>1, <4>2, <4>3 DEF Lookup
    <3>2. QED
      BY <2>6, <3>1 DEF Lookup, TypeOK, database, process
  <2>7. CASE Rank(t)
    <3>1. tasks' \subseteq Task /\ pq' \subseteq Entry /\ seq' \in Nat /\ dlq' \subseteq Message
      BY <2>1, <2>2, <2>7, GotoType, RaiseType DEF Rank, TypeOK, queue
    <3>2. QED
      BY <2>7, <3>1 DEF Rank, TypeOK, database, process
  <2>8. CASE Store(t)
    <3>1. t.result \in Jobs \cup {NoJob}
      BY <2>1 DEF Task
    <3>2. tasks' \subseteq Task /\ pq' \subseteq Entry /\ seq' \in Nat /\ dlq' \subseteq Message
      BY <2>2, <2>8, <3>1, GotoType, RaiseType DEF Store, TypeOK, queue
    <3>3. cache' \in [Keys -> Jobs \cup {NoJob}]
      BY <2>3, <2>8, <3>1 DEF Store, TypeOK
    <3>4. QED
      BY <2>8, <3>2, <3>3 DEF Store, TypeOK, database, process
  <2>9. CASE Persist(t)
    <3>1. t.result \in Jobs \cup {NoJob}
      BY <2>1 DEF Task
    <3>2. tasks' \subseteq Task /\ pq' \subseteq Entry /\ seq' \in Nat /\ dlq' \subseteq Message
      BY <2>2, <2>9, GotoType, RaiseType DEF Persist, TypeOK, queue
    <3>3. /\ row' \in [Jobs -> {"absent", "queued", "running"} \cup Terminal]
          /\ batches' \in [Jobs -> Nat]
          /\ served' \in [Jobs -> Jobs \cup {NoJob}]
      BY <2>1, <2>9, <3>1 DEF Persist, TypeOK, database, Terminal
    <3>4. announced' \in [Jobs -> SUBSET {"completed", "failed"}]
      BY <2>1, <2>9 DEF Persist, TypeOK
    <3>5. QED
      BY <2>9, <3>2, <3>3, <3>4 DEF Persist, TypeOK, process
  <2>10. CASE MarkFailed(t)
    <3>1. tasks' \subseteq Task /\ pq' \subseteq Entry /\ seq' \in Nat /\ dlq' \subseteq Message
      BY <2>2, <2>10, GotoType, RetryType DEF MarkFailed, TypeOK, queue
    <3>2. /\ row' \in [Jobs -> {"absent", "queued", "running"} \cup Terminal]
          /\ announced' \in [Jobs -> SUBSET {"completed", "failed"}]
      BY <2>1, <2>10 DEF MarkFailed, TypeOK, Terminal
    <3>3. QED
      BY <2>10, <3>1, <3>2 DEF MarkFailed, TypeOK, process
  <2>11. CASE TaskDone(t)
    BY <2>11 DEF TaskDone, TypeOK, database, queue, process
  <2>12. QED
    BY <1>5, <2>4, <2>5, <2>6, <2>7, <2>8, <2>9, <2>10, <2>11 DEF TaskStep
<1>6. ASSUME NEW k \in Keys, Expire(k) PROVE TypeOK'
  BY <1>6 DEF TypeOK, Expire, database, queue, worker, process, Terminal
<1>7. CASE Stop
  BY <1>7 DEF TypeOK, Stop, Message, database, queue, Terminal
<1>8. ASSUME Halt, stops' \in Nat PROVE TypeOK'
  BY <1>8 DEF TypeOK, Halt, database, Terminal
<1>9. CASE Exit
  BY <1>9, <1>8 DEF Exit, TypeOK
<1>10. CASE Crash
  BY <1>10, <1>8 DEF Crash, TypeOK
<1>11. CASE Restart
  BY <1>11 DEF TypeOK, Restart, database, queue, worker, Terminal
<1>12. CASE UNCHANGED vars
  BY <1>12 DEF TypeOK, vars, database, queue, worker, process
<1>13. QED
  BY <1>1, <1>2, <1>3, <1>4, <1>5, <1>6, <1>7, <1>9, <1>10, <1>11, <1>12 DEF Next, Idle

\* Every variable keeps its type, whatever is submitted, fails, stops or crashes.
THEOREM TypeCorrect == Spec => []TypeOK
BY TypeInit, TypeStep, PTL DEF Spec

-----------------------------------------------------------------------------
(* One copy of every message. A step of a task at work moves its message    *)
(* within the task, drops it or hands it back to the queue.                  *)

Advances(t) == /\ \E step \in Steps \ {"done"}, result \in Jobs \cup {NoJob} : Goto(t, step, result)
               /\ UNCHANGED queue
Settles(t)  == Goto(t, "done", NoJob) /\ UNCHANGED queue
AtWork(t)   == t \in tasks /\ t.pc # "done"

\* A step of a working task leaves the hand, the requests and the process alone,
\* and either advances the task, ends it, or hands its message to retry().
LEMMA TaskMoves ==
    ASSUME TypeOK, NEW t \in tasks, TaskStep(t), t.pc # "done"
    PROVE  /\ UNCHANGED <<hand, req, phase, lost>>
           /\ Advances(t) \/ Settles(t) \/ Retry(t)
<1> DEFINE j == t.msg.job
<1>1. t \in Task /\ j \in Jobs
  BY DEF TypeOK, Task, Message
<1>2. KeyOf[j] \in Keys
  BY <1>1 DEF Keys
<1>3. /\ t.result \in Jobs \cup {NoJob}
      /\ cache[KeyOf[j]] \in Jobs \cup {NoJob}
  BY <1>1, <1>2 DEF Task, TypeOK
<1>4. \A step \in {"mark", "lookup", "rank", "store", "persist", "give_up"} :
         step \in Steps \ {"done"}
  BY DEF Steps
<1>5. Raise(t) => Advances(t) \/ Retry(t)
  BY <1>4 DEF Raise, Advances
<1>6. CASE Check(t)
  BY <1>4, <1>6 DEF Check, Advances, Settles, process
<1>7. CASE MarkRunning(t)
  BY <1>4, <1>5, <1>7 DEF MarkRunning, Advances, process
<1>8. CASE Lookup(t)
  BY <1>3, <1>4, <1>5, <1>8 DEF Lookup, Advances, process
<1>9. CASE Rank(t)
  BY <1>1, <1>4, <1>5, <1>9 DEF Rank, Advances, process
<1>10. CASE Store(t)
  BY <1>3, <1>4, <1>5, <1>10 DEF Store, Advances, process
<1>11. CASE Persist(t)
  BY <1>4, <1>5, <1>11 DEF Persist, Advances, Settles, process
<1>12. CASE MarkFailed(t)
  BY <1>4, <1>5, <1>12 DEF MarkFailed, Advances, Settles, process
<1>13. QED
  BY <1>6, <1>7, <1>8, <1>9, <1>10, <1>11, <1>12 DEF TaskStep, TaskDone

\* What such a step does to the places a message can be in.
LEMMA AdvanceMoves ==
    ASSUME TypeOK, NEW t \in tasks, t.pc # "done", Advances(t)
    PROVE  /\ UNCHANGED <<pq, dlq>>
           /\ \A u \in tasks' : u.pc # "done" =>
                 \/ u.msg = t.msg /\ u \notin tasks \ {t}
                 \/ u \in tasks
           /\ \A j \in Jobs : Working(j)' <=> Working(j)
<1>1. PICK step \in Steps \ {"done"}, result \in Jobs \cup {NoJob} : Goto(t, step, result)
  BY DEF Advances
<1> DEFINE v == [t EXCEPT !.pc = step, !.result = result]
<1>2. v.pc = step /\ v.msg = t.msg /\ tasks' = (tasks \ {t}) \cup {v}
  BY <1>1 DEF Goto, TypeOK, Task
<1>3. QED
  BY <1>2 DEF Advances, queue, Working

\* A task that ends takes its job, and no other, out of the working ones.
LEMMA LeaveMoves ==
    ASSUME TypeOK, OneCopy, NEW t \in tasks, t.pc # "done", Goto(t, "done", NoJob)
    PROVE  /\ \A u \in tasks' : u.pc # "done" => u \in tasks /\ u # t
           /\ \A j \in Jobs : Working(j)' <=> Working(j) /\ j # t.msg.job
<1> DEFINE v == [t EXCEPT !.pc = "done", !.result = NoJob]
<1>1. v.pc = "done" /\ v.msg = t.msg /\ tasks' = (tasks \ {t}) \cup {v}
  BY DEF Goto, TypeOK, Task
<1>2. t.msg.job \in Jobs
  BY DEF TypeOK, Task, Message
<1>3. \A u \in tasks : u.pc # "done" /\ u.msg.job = t.msg.job => u = t
  BY <1>2 DEF OneCopy
<1>4. QED
  BY <1>1, <1>3 DEF Working

\* retry() puts one message, of the same job, into the queue or the dead letters.
LEMMA RetryMoves ==
    ASSUME TypeOK, NEW t \in tasks, Retry(t)
    PROVE  \E m \in Message :
             /\ m.job = t.msg.job /\ m.attempts = t.msg.attempts + 1
             /\ \/ /\ m.attempts >= MaxAttempts
                   /\ dlq' = dlq \cup {m} /\ pq' = pq
                \/ /\ m.attempts < MaxAttempts
                   /\ dlq' = dlq
                   /\ \E e \in Entry : e.msg = m /\ pq' = pq \cup {e}
<1> DEFINE m == [t.msg EXCEPT !.attempts = @ + 1]
<1>1. m \in Message /\ m.job = t.msg.job /\ m.attempts = t.msg.attempts + 1
  BY DEF TypeOK, Task, Message
<1> DEFINE e == [seq |-> seq + 1, msg |-> m]
<1>2. e \in Entry /\ e.msg = m
  BY <1>1 DEF TypeOK, Entry
<1>3. CASE dlq' = dlq \cup {m} /\ UNCHANGED <<pq, seq>> /\ m.attempts >= MaxAttempts
  BY <1>1, <1>3
<1>4. CASE Put(m) /\ UNCHANGED dlq /\ m.attempts < MaxAttempts
  BY <1>1, <1>2, <1>4 DEF Put
<1>5. QED
  BY <1>3, <1>4 DEF Retry

\* The three together, as the place of each job's message.
LEMMA CarriedMoves ==
    ASSUME TypeOK, OneCopy, NEW t \in tasks, t.pc # "done", TaskStep(t), NEW j \in Jobs
    PROVE  /\ j # t.msg.job => /\ Queued(j)' <=> Queued(j)
                               /\ Held(j)' <=> Held(j)
                               /\ Working(j)' <=> Working(j)
                               /\ DeadLettered(j)' <=> DeadLettered(j)
           /\ j = t.msg.job => /\ Working(j) /\ ~Held(j)' /\ ~Queued(j) /\ ~DeadLettered(j)
                               /\ Advances(t) => Working(j)' /\ ~Queued(j)' /\ ~DeadLettered(j)'
                               /\ Settles(t)  => ~Carried(j)'
                               /\ Retry(t)    => /\ ~Working(j)'
                                                 /\ ~(Queued(j)' /\ DeadLettered(j)')
                                                 /\ Queued(j)' \/ DeadLettered(j)'
<1>1. UNCHANGED <<hand, req>> /\ (Advances(t) \/ Settles(t) \/ Retry(t))
  BY TaskMoves
<1>2. Held(j)' <=> Held(j)
  BY <1>1 DEF Held
<1>3. j = t.msg.job => Working(j) /\ ~Queued(j) /\ ~Held(j) /\ ~DeadLettered(j)
  <2>1. j = t.msg.job => Working(j)
    BY DEF Working
  <2>2. QED
    BY <2>1 DEF OneCopy
<1>4. CASE Advances(t)
  <2>1. Queued(j)' <=> Queued(j)
    BY <1>4, AdvanceMoves DEF Queued
  <2>2. DeadLettered(j)' <=> DeadLettered(j)
    BY <1>4, AdvanceMoves DEF DeadLettered
  <2>3. ~Settles(t) /\ ~Retry(t)
    <3>1. PICK step \in Steps \ {"done"}, result \in Jobs \cup {NoJob} : Goto(t, step, result)
      BY <1>4 DEF Advances
    <3>2. [t EXCEPT !.pc = step, !.result = result] \in tasks'
      BY <3>1 DEF Goto
    <3>3. [t EXCEPT !.pc = step, !.result = result].pc # "done"
          /\ [t EXCEPT !.pc = step, !.result = result].msg = t.msg
      BY DEF TypeOK, Task
    <3>4. ASSUME Goto(t, "done", NoJob) PROVE FALSE
      <4>1. t.msg.job \in Jobs
        BY DEF TypeOK, Task, Message
      <4>2. ~Working(t.msg.job)'
        BY <3>4, <4>1, LeaveMoves
      <4>3. QED
        BY <3>2, <3>3, <4>2 DEF Working
    <3>5. QED
      BY <3>4 DEF Settles, Retry
  <2>4. QED
    BY <1>2, <1>3, <1>4, <2>1, <2>2, <2>3, AdvanceMoves
<1>5. CASE Settles(t)
  <2>1. Goto(t, "done", NoJob)
    BY <1>5 DEF Settles
  <2>2. Working(j)' <=> Working(j) /\ j # t.msg.job
    BY <2>1, LeaveMoves
  <2>3. Queued(j)' <=> Queued(j)
    BY <1>5 DEF Settles, queue, Queued
  <2>4. DeadLettered(j)' <=> DeadLettered(j)
    BY <1>5 DEF Settles, queue, DeadLettered
  <2>5. ~Advances(t) /\ (j = t.msg.job => ~Retry(t))
    <3>1. ~Advances(t)
      <4> SUFFICES ASSUME Advances(t) PROVE FALSE
        OBVIOUS
      <4>1. t.msg.job \in Jobs
        BY DEF TypeOK, Task, Message
      <4>2. Working(t.msg.job)
        BY DEF Working
      <4>3. Working(t.msg.job)'
        BY <4>1, <4>2, AdvanceMoves
      <4>4. ~Working(t.msg.job)'
        BY <2>1, <4>1, LeaveMoves
      <4>5. QED
        BY <4>3, <4>4
    <3>2. ASSUME j = t.msg.job, Retry(t) PROVE FALSE
      <4>1. PICK m \in Message :
             /\ m.job = t.msg.job /\ m.attempts = t.msg.attempts + 1
             /\ \/ dlq' = dlq \cup {m}
                \/ \E e \in Entry : e.msg = m /\ pq' = pq \cup {e}
        BY <3>2, RetryMoves
      <4>2. Queued(j)' \/ DeadLettered(j)'
        <5>1. CASE dlq' = dlq \cup {m}
          BY <3>2, <4>1, <5>1 DEF DeadLettered
        <5>2. CASE \E e \in Entry : e.msg = m /\ pq' = pq \cup {e}
          BY <3>2, <4>1, <5>2 DEF Queued
        <5>3. QED
          BY <4>1, <5>1, <5>2
      <4>3. QED
        BY <4>2, <2>3, <2>4, <1>3, <3>2
    <3>3. QED
      BY <3>1, <3>2
  <2>6. j = t.msg.job => ~Carried(j)'
    BY <1>2, <1>3, <2>2, <2>3, <2>4 DEF Carried
  <2>7. QED
    BY <1>2, <1>3, <2>2, <2>3, <2>4, <2>5, <2>6
<1>6. CASE Retry(t) /\ ~Advances(t) /\ ~Settles(t)
  <2>1. Goto(t, "done", NoJob)
    BY <1>6 DEF Retry
  <2>2. Working(j)' <=> Working(j) /\ j # t.msg.job
    BY <2>1, LeaveMoves
  <2>3. PICK m \in Message :
             /\ m.job = t.msg.job
             /\ \/ dlq' = dlq \cup {m} /\ pq' = pq
                \/ dlq' = dlq /\ \E e \in Entry : e.msg = m /\ pq' = pq \cup {e}
    BY <1>6, RetryMoves
  <2>4. CASE dlq' = dlq \cup {m} /\ pq' = pq
    <3>1. Queued(j)' <=> Queued(j)
      BY <2>4 DEF Queued
    <3>2. DeadLettered(j)' <=> DeadLettered(j) \/ j = t.msg.job
      BY <2>3, <2>4 DEF DeadLettered
    <3>3. QED
      BY <1>2, <1>3, <1>6, <2>2, <3>1, <3>2
  <2>5. CASE dlq' = dlq /\ \E e \in Entry : e.msg = m /\ pq' = pq \cup {e}
    <3>1. DeadLettered(j)' <=> DeadLettered(j)
      BY <2>5 DEF DeadLettered
    <3>2. Queued(j)' <=> Queued(j) \/ j = t.msg.job
      BY <2>3, <2>5 DEF Queued
    <3>3. QED
      BY <1>2, <1>3, <1>6, <2>2, <3>1, <3>2
  <2>6. QED
    BY <2>3, <2>4, <2>5
<1>7. QED
  BY <1>1, <1>4, <1>5, <1>6

\* No step of a task duplicates a message.
LEMMA OneCopyTask ==
    ASSUME TypeOK, OneCopy, NEW t \in tasks, t.pc # "done", TaskStep(t)
    PROVE  OneCopy'
<1> DEFINE j0 == t.msg.job
<1> SUFFICES ASSUME NEW j \in Jobs
             PROVE  /\ \A e, f \in pq' : e.msg.job = j /\ f.msg.job = j => e = f
                    /\ \A u, v \in tasks' :
                         u.msg.job = j /\ u.pc # "done" /\ v.msg.job = j /\ v.pc # "done" => u = v
                    /\ \A m, n \in dlq' : m.job = j /\ n.job = j => m = n
                    /\ Queued(j)' => ~Held(j)' /\ ~Working(j)' /\ ~DeadLettered(j)'
                    /\ Held(j)' => ~Working(j)' /\ ~DeadLettered(j)'
                    /\ Working(j)' => ~DeadLettered(j)'
                    /\ req'[j] # "closed" => ~Carried(j)'
  BY DEF OneCopy
<1>1. UNCHANGED <<hand, req>> /\ (Advances(t) \/ Settles(t) \/ Retry(t))
  BY TaskMoves
<1>2. \A e, f \in pq : e.msg.job = j /\ f.msg.job = j => e = f
  BY DEF OneCopy
<1>3. \A m, n \in dlq : m.job = j /\ n.job = j => m = n
  BY DEF OneCopy
<1>4. \A u, v \in tasks : u.msg.job = j /\ u.pc # "done" /\ v.msg.job = j /\ v.pc # "done" => u = v
  BY DEF OneCopy
<1>5. /\ Queued(j) => ~Held(j) /\ ~Working(j) /\ ~DeadLettered(j)
      /\ Held(j) => ~Working(j) /\ ~DeadLettered(j)
      /\ Working(j) => ~DeadLettered(j)
      /\ req[j] # "closed" => ~Carried(j)
  BY DEF OneCopy
<1>6. /\ Queued(j)' => ~Held(j)' /\ ~Working(j)' /\ ~DeadLettered(j)'
      /\ Held(j)' => ~Working(j)' /\ ~DeadLettered(j)'
      /\ Working(j)' => ~DeadLettered(j)'
      /\ req'[j] # "closed" => ~Carried(j)'
  BY <1>1, <1>5, CarriedMoves DEF Carried
<1>7. \A e, f \in pq' : e.msg.job = j /\ f.msg.job = j => e = f
  <2>1. CASE Advances(t) \/ Settles(t)
    BY <1>2, <2>1 DEF Advances, Settles, queue
  <2>2. CASE Retry(t)
    <3>1. PICK m \in Message :
             /\ m.job = t.msg.job
             /\ \/ pq' = pq
                \/ \E e \in Entry : e.msg = m /\ pq' = pq \cup {e}
      BY <2>2, RetryMoves
    <3>2. j = j0 => \A e \in pq : e.msg.job # j
      <4>1. j = j0 => ~Queued(j)
        BY CarriedMoves
      <4>2. QED
        BY <4>1 DEF Queued
    <3>3. QED
      BY <1>2, <3>1, <3>2
  <2>3. QED
    BY <1>1, <2>1, <2>2
<1>8. \A m, n \in dlq' : m.job = j /\ n.job = j => m = n
  <2>1. CASE Advances(t) \/ Settles(t)
    BY <1>3, <2>1 DEF Advances, Settles, queue
  <2>2. CASE Retry(t)
    <3>1. PICK m \in Message :
             /\ m.job = t.msg.job
             /\ dlq' = dlq \/ dlq' = dlq \cup {m}
      BY <2>2, RetryMoves
    <3>2. j = j0 => \A n \in dlq : n.job # j
      <4>1. j = j0 => ~DeadLettered(j)
        BY CarriedMoves
      <4>2. QED
        BY <4>1 DEF DeadLettered
    <3>3. QED
      BY <1>3, <3>1, <3>2
  <2>3. QED
    BY <1>1, <2>1, <2>2
<1>9. \A u, v \in tasks' : u.msg.job = j /\ u.pc # "done" /\ v.msg.job = j /\ v.pc # "done" => u = v
  <2>1. CASE Advances(t)
    <3>1. PICK step \in Steps \ {"done"}, result \in Jobs \cup {NoJob} : Goto(t, step, result)
      BY <2>1 DEF Advances
    <3> DEFINE w == [t EXCEPT !.pc = step, !.result = result]
    <3>2. w.msg = t.msg /\ tasks' = (tasks \ {t}) \cup {w}
      BY <3>1 DEF Goto, TypeOK, Task
    <3>3. j = j0 => \A u \in tasks \ {t} : ~(u.msg.job = j /\ u.pc # "done")
      BY <1>4
    <3>4. QED
      BY <1>4, <3>2, <3>3
  <2>2. CASE Settles(t) \/ Retry(t)
    <3>1. \A u \in tasks' : u.pc # "done" => u \in tasks
      BY <2>2, LeaveMoves DEF Settles, Retry
    <3>2. QED
      BY <1>4, <3>1
  <2>3. QED
    BY <1>1, <2>1, <2>2
<1>10. QED
  BY <1>6, <1>7, <1>8, <1>9

\* No step of the pipeline duplicates a message, shutdown and restart included.
LEMMA OneCopyStep == TypeOK /\ OneCopy /\ [Next]_vars => OneCopy'
<1> SUFFICES ASSUME TypeOK, OneCopy, [Next]_vars PROVE OneCopy'
  OBVIOUS
<1> USE DEF OneCopy, Carried, Queued, Held, Working, DeadLettered
<1>1. ASSUME NEW j \in Jobs, Submit(j) PROVE OneCopy'
  BY <1>1 DEF Submit, queue, worker, TypeOK
<1>2. ASSUME NEW j \in Jobs, Enqueue(j) PROVE OneCopy'
  <2> DEFINE e == [seq |-> seq + 1, msg |-> [job |-> j, attempts |-> 0]]
  <2>1. /\ pq' = pq \cup {e} /\ e.msg.job = j
        /\ UNCHANGED <<dlq, hand, tasks>>
        /\ req' = [req EXCEPT ![j] = "closed"]
    BY <1>2 DEF Enqueue, Put, worker
  <2>2. ~Carried(j)
    BY <1>2 DEF Enqueue
  <2> HIDE DEF e
  <2>3. QED
    BY <2>1, <2>2 DEF TypeOK
<1>3. CASE Dequeue
  BY <1>3 DEF Dequeue
<1>4. CASE StartTask
  <2>1. PICK m \in hand : tasks' = tasks \cup {[msg |-> m, pc |-> "check", result |-> NoJob]}
    BY <1>4 DEF StartTask
  <2> DEFINE w == [msg |-> m, pc |-> "check", result |-> NoJob]
  <2>2. w.msg = m /\ w.pc = "check" /\ tasks' = tasks \cup {w}
    BY <2>1
  <2> HIDE DEF w
  <2>3. m.job \in Jobs /\ \A u \in tasks : u.pc # "done" => u.msg.job # m.job
    BY DEF TypeOK, Message
  <2>4. QED
    BY <1>4, <2>2, <2>3 DEF StartTask, queue
<1>5. ASSUME NEW t \in tasks, TaskStep(t) PROVE OneCopy'
  <2>1. CASE t.pc # "done"
    BY <1>5, <2>1, OneCopyTask
  <2>2. CASE t.pc = "done"
    <3>1. TaskDone(t)
      BY <1>5, <2>2 DEF TaskStep, Check, MarkRunning, Lookup, Rank, Store, Persist, MarkFailed
    <3>2. QED
      BY <3>1 DEF TaskDone, queue
  <2>3. QED
    BY <2>1, <2>2
<1>6. ASSUME NEW k \in Keys, Expire(k) PROVE OneCopy'
  BY <1>6 DEF Expire, queue, worker
<1>7. CASE Stop
  BY <1>7 DEF Stop, queue
<1>8. CASE Halt
  BY <1>8 DEF Halt
<1>9. CASE Restart
  BY <1>9 DEF Restart, queue, worker
<1>10. CASE UNCHANGED vars
  BY <1>10 DEF vars, queue, worker
<1>11. QED
  BY <1>1, <1>2, <1>3, <1>4, <1>5, <1>6, <1>7, <1>8, <1>9, <1>10 DEF Next, Idle, Exit, Crash

\* Two tasks never work on one job, and a message is never in two places.
THEOREM NeverDuplicated == Spec => []OneCopy
<1>1. Init => OneCopy
  BY DEF Init, OneCopy, Carried, Queued, Held, Working, DeadLettered
<1>2. QED
  BY <1>1, OneCopyStep, TypeCorrect, PTL DEF Spec

-----------------------------------------------------------------------------
(* What is saved and announced. A step of a task touches the rows of its own *)
(* job only, and by OneCopy no other task at work has that job.              *)

Midway(t) == t.pc \in {"mark", "lookup", "rank", "store", "persist"}
OthersKept(t) ==
    \A j \in Jobs : j # t.msg.job =>
      /\ row'[j] = row[j] /\ batches'[j] = batches[j]
      /\ served'[j] = served[j] /\ announced'[j] = announced[j]

\* A task writes the row, the results and the events of its own job only.
LEMMA TaskKeepsOthers ==
    ASSUME TypeOK, NEW t \in tasks, TaskStep(t)
    PROVE  OthersKept(t)
<1> USE DEF TypeOK, OthersKept, database
<1>1. CASE Check(t)
  BY <1>1 DEF Check
<1>2. CASE MarkRunning(t)
  BY <1>2 DEF MarkRunning
<1>3. CASE Lookup(t) \/ Rank(t) \/ Store(t) \/ TaskDone(t)
  BY <1>3 DEF Lookup, Rank, Store, TaskDone
<1>4. CASE Persist(t)
  BY <1>4 DEF Persist
<1>5. CASE MarkFailed(t)
  BY <1>5 DEF MarkFailed
<1>6. QED
  BY <1>1, <1>2, <1>3, <1>4, <1>5 DEF TaskStep

\* After a task moved, it is its job's only task at work, and where it moved to.
LEMMA GotoMoves ==
    ASSUME TypeOK, OneCopy, NEW t \in tasks, t.pc # "done",
           NEW step \in Steps, NEW result \in Jobs \cup {NoJob}, Goto(t, step, result)
    PROVE  \A u \in tasks' :
             /\ u.msg.job # t.msg.job => u \in tasks
             /\ u.msg.job = t.msg.job /\ u.pc # "done" =>
                  u.pc = step /\ u.result = result /\ u.msg = t.msg
<1> DEFINE w == [t EXCEPT !.pc = step, !.result = result]
<1>1. w.msg = t.msg /\ w.pc = step /\ w.result = result /\ tasks' = (tasks \ {t}) \cup {w}
  BY DEF Goto, TypeOK, Task
<1>2. t.msg.job \in Jobs
  BY DEF TypeOK, Task, Message
<1>3. \A u \in tasks : u.pc # "done" /\ u.msg.job = t.msg.job => u = t
  BY <1>2 DEF OneCopy
<1>4. QED
  BY <1>1, <1>3

\* A step that leaves the database alone, and where the task goes: on, only if
\* it was midway or has just found the row unfinished; out, only if it found
\* the row finished; or back to the queue.
Quiet(t) ==
    /\ UNCHANGED <<row, batches, served, announced>>
    /\ \/ Settles(t) /\ row[t.msg.job] \in Terminal
       \/ Retry(t)
       \/ \E step \in Steps \ {"done"}, result \in Jobs \cup {NoJob} :
            /\ Goto(t, step, result) /\ UNCHANGED queue
            /\ Midway(t) \/ row[t.msg.job] \notin Terminal

\* mark_running landed.
Marks(t) ==
    /\ Midway(t)
    /\ row' = [row EXCEPT ![t.msg.job] = "running"]
    /\ UNCHANGED <<batches, served, announced>>
    /\ Advances(t) \/ Retry(t)

\* The result transaction landed, acknowledged or not.
Saves(t) ==
    LET j == t.msg.job
    IN  /\ t.pc = "persist"
        /\ row' = [row EXCEPT ![j] = "succeeded"]
        /\ batches' = [batches EXCEPT ![j] = @ + 1]
        /\ served' = [served EXCEPT ![j] = t.result]
        /\ \/ Settles(t) /\ announced' = [announced EXCEPT ![j] = @ \cup {"completed"}]
           \/ LostAck /\ UNCHANGED announced /\ (Retry(t) \/ (Goto(t, "give_up", NoJob) /\ UNCHANGED queue))

\* mark_failed landed, acknowledged or not.
Fails(t) ==
    LET j == t.msg.job
    IN  /\ t.pc = "give_up"
        /\ row' = [row EXCEPT ![j] = "failed"]
        /\ UNCHANGED <<batches, served>>
        /\ \/ Settles(t) /\ announced' = [announced EXCEPT ![j] = @ \cup {"failed"}]
           \/ LostAck /\ UNCHANGED announced /\ Retry(t)

\* What a step of a working task does to the database: one of the four cases above.
LEMMA TaskEffect ==
    ASSUME TypeOK, NEW t \in tasks, t.pc # "done", TaskStep(t)
    PROVE  Quiet(t) \/ Marks(t) \/ Saves(t) \/ Fails(t)
<1> DEFINE j == t.msg.job
<1>1. t \in Task /\ j \in Jobs
  BY DEF TypeOK, Task, Message
<1>2. KeyOf[j] \in Keys
  BY <1>1 DEF Keys
<1>3. t.result \in Jobs \cup {NoJob} /\ cache[KeyOf[j]] \in Jobs \cup {NoJob}
  BY <1>1, <1>2 DEF Task, TypeOK
<1>4. \A step \in {"mark", "lookup", "rank", "store", "persist", "give_up"} : step \in Steps \ {"done"}
  BY DEF Steps
<1>5. Outcomes = {"committed", "rolled_back"} \/ (LostAck /\ Outcomes = {"committed", "rolled_back", "unacknowledged"})
  BY DEF Outcomes
<1>6. ASSUME UNCHANGED <<row, batches, served, announced>>, Raise(t), Midway(t) PROVE Quiet(t)
  BY <1>4, <1>6 DEF Raise, Quiet
<1>7. CASE Check(t)
  BY <1>4, <1>7 DEF Check, Quiet, Settles, database
<1>8. CASE MarkRunning(t)
  <2>1. Midway(t)
    BY <1>8 DEF MarkRunning, Midway
  <2>2. PICK o \in Outcomes :
          /\ row' = IF Lands(o) THEN [row EXCEPT ![j] = "running"] ELSE row
          /\ IF Returns(o) THEN Goto(t, "lookup", NoJob) /\ UNCHANGED queue ELSE Raise(t)
    BY <1>8 DEF MarkRunning
  <2>3. UNCHANGED <<batches, served, announced>>
    BY <1>8 DEF MarkRunning
  <2>4. (Goto(t, "lookup", NoJob) /\ UNCHANGED queue) \/ Raise(t) => Advances(t) \/ Retry(t)
    BY <1>4 DEF Raise, Advances
  <2>5. CASE Lands(o)
    BY <2>1, <2>2, <2>3, <2>4, <2>5 DEF Marks
  <2>6. CASE ~Lands(o)
    BY <1>6, <2>1, <2>2, <2>3, <2>6 DEF Lands, Returns
  <2>7. QED
    BY <2>5, <2>6
<1>9. CASE Lookup(t)
  <2>1. Midway(t) /\ UNCHANGED <<row, batches, served, announced>>
    BY <1>9 DEF Lookup, Midway, database
  <2>2. CASE Raise(t)
    BY <1>6, <2>1, <2>2
  <2>3. CASE Goto(t, "persist", cache[KeyOf[j]]) /\ UNCHANGED queue
    BY <1>3, <1>4, <2>1, <2>3 DEF Quiet
  <2>4. CASE Goto(t, "rank", NoJob) /\ UNCHANGED queue
    BY <1>4, <2>1, <2>4 DEF Quiet
  <2>5. QED
    BY <1>9, <2>2, <2>3, <2>4 DEF Lookup
<1>10. CASE Rank(t)
  <2>1. Midway(t) /\ UNCHANGED <<row, batches, served, announced>>
    BY <1>10 DEF Rank, Midway, database
  <2>2. QED
    BY <1>1, <1>4, <1>6, <1>10, <2>1 DEF Rank, Quiet
<1>11. CASE Store(t)
  <2>1. Midway(t) /\ UNCHANGED <<row, batches, served, announced>>
    BY <1>11 DEF Store, Midway, database
  <2>2. QED
    BY <1>3, <1>4, <1>6, <1>11, <2>1 DEF Store, Quiet
<1>12. CASE Persist(t)
  <2>1. Midway(t) /\ t.pc = "persist"
    BY <1>12 DEF Persist, Midway
  <2>2. PICK o \in Outcomes :
             /\ IF Lands(o)
                THEN /\ row' = [row EXCEPT ![j] = "succeeded"]
                     /\ batches' = [batches EXCEPT ![j] = @ + 1]
                     /\ served' = [served EXCEPT ![j] = t.result]
                ELSE UNCHANGED database
             /\ IF Returns(o)
                THEN /\ announced' = [announced EXCEPT ![j] = @ \cup {"completed"}]
                     /\ Goto(t, "done", NoJob)
                     /\ UNCHANGED queue
                ELSE /\ Raise(t)
                     /\ UNCHANGED announced
    BY <1>12 DEF Persist
  <2>3. CASE o = "committed"
    BY <2>1, <2>2, <2>3 DEF Saves, Settles, Lands, Returns
  <2>4. CASE o = "rolled_back"
    BY <1>6, <2>1, <2>2, <2>4 DEF Lands, Returns, database
  <2>5. CASE LostAck /\ o = "unacknowledged"
    BY <2>1, <2>2, <2>5 DEF Saves, Lands, Returns, Raise
  <2>6. QED
    BY <1>5, <2>3, <2>4, <2>5
<1>13. CASE MarkFailed(t)
  <2>1. t.pc = "give_up" /\ UNCHANGED <<batches, served>>
    BY <1>13 DEF MarkFailed
  <2>2. PICK o \in Outcomes :
             /\ row' = IF Lands(o) THEN [row EXCEPT ![j] = "failed"] ELSE row
             /\ IF Returns(o)
                THEN /\ announced' = [announced EXCEPT ![j] = @ \cup {"failed"}]
                     /\ Goto(t, "done", NoJob)
                     /\ UNCHANGED queue
                ELSE /\ Retry(t)
                     /\ UNCHANGED announced
    BY <1>13 DEF MarkFailed
  <2>3. CASE o = "committed"
    BY <2>1, <2>2, <2>3 DEF Fails, Settles, Lands, Returns
  <2>4. CASE o = "rolled_back"
    BY <2>1, <2>2, <2>4 DEF Quiet, Lands, Returns
  <2>5. CASE LostAck /\ o = "unacknowledged"
    BY <2>1, <2>2, <2>5 DEF Fails, Lands, Returns
  <2>6. QED
    BY <1>5, <2>3, <2>4, <2>5
<1>14. QED
  BY <1>7, <1>8, <1>9, <1>10, <1>11, <1>12, <1>13 DEF TaskStep, TaskDone

\* No row precedes its request's commit, and none changes before the enqueue.
LEMMA RowsStep ==
    TypeOK /\ OneCopy /\ RequestsPrecedeRows /\ [Next]_vars => RequestsPrecedeRows'
<1> SUFFICES ASSUME TypeOK, OneCopy, RequestsPrecedeRows, [Next]_vars PROVE RequestsPrecedeRows'
  OBVIOUS
<1> USE DEF RequestsPrecedeRows
<1>1. ASSUME NEW j \in Jobs, Submit(j) PROVE RequestsPrecedeRows'
  BY <1>1 DEF Submit, TypeOK, Lands, Returns
<1>2. ASSUME NEW j \in Jobs, Enqueue(j) PROVE RequestsPrecedeRows'
  BY <1>2 DEF Enqueue, TypeOK, database
<1>3. CASE Dequeue \/ StartTask \/ Stop \/ Restart \/ \E k \in Keys : Expire(k)
  BY <1>3 DEF Dequeue, StartTask, Stop, Restart, Expire, database
<1>4. ASSUME NEW t \in tasks, TaskStep(t) PROVE RequestsPrecedeRows'
  <2>1. CASE t.pc = "done"
    BY <1>4, <2>1 DEF TaskStep, Check, MarkRunning, Lookup, Rank, Store, Persist, MarkFailed,
                      TaskDone, database
  <2>2. CASE t.pc # "done"
    <3>1. UNCHANGED req /\ OthersKept(t)
      BY <1>4, <2>2, TaskMoves, TaskKeepsOthers
    <3>2. Carried(t.msg.job)
      BY <2>2 DEF Carried, Working
    <3>3. t.msg.job \in Jobs /\ req[t.msg.job] = "closed"
      BY <3>2 DEF TypeOK, Task, Message, OneCopy
    <3>4. QED
      BY <3>1, <3>3 DEF OthersKept
  <2>3. QED
    BY <2>1, <2>2
<1>5. CASE Halt
  BY <1>5 DEF Halt, TypeOK, database
<1>6. CASE UNCHANGED vars
  BY <1>6 DEF vars, database
<1>7. QED
  BY <1>1, <1>2, <1>3, <1>4, <1>5, <1>6 DEF Next, Idle, Exit, Crash

\* A task past the duplicate test keeps working on an unfinished row.
LEMMA WorkStep ==
    TypeOK /\ OneCopy /\ RequestsPrecedeRows /\ WorkIsUnfinished /\ [Next]_vars => WorkIsUnfinished'
<1> SUFFICES ASSUME TypeOK, OneCopy, RequestsPrecedeRows, WorkIsUnfinished, [Next]_vars
             PROVE  WorkIsUnfinished'
  OBVIOUS
<1>1. ASSUME NEW j \in Jobs, Submit(j) PROVE WorkIsUnfinished'
  <2>1. UNCHANGED <<pq, hand, tasks, dlq>> /\ \A i \in Jobs : row'[i] \in Terminal => row[i] \in Terminal
    BY <1>1 DEF Submit, queue, worker, TypeOK, Terminal
  <2>2. \A t \in tasks : t.msg.job \in Jobs
    BY DEF TypeOK, Task, Message
  <2>3. QED
    BY <2>1, <2>2 DEF WorkIsUnfinished, Carried, Queued, Held, Working, DeadLettered
<1>2. ASSUME NEW j \in Jobs, Enqueue(j) PROVE WorkIsUnfinished'
  <2> DEFINE e == [seq |-> seq + 1, msg |-> [job |-> j, attempts |-> 0]]
  <2>1. /\ pq' = pq \cup {e} /\ e.msg.job = j
        /\ UNCHANGED <<dlq, hand, tasks, row>>
        /\ row[j] \notin Terminal
    BY <1>2 DEF Enqueue, Put, worker, database, RequestsPrecedeRows, Terminal
  <2> HIDE DEF e
  <2>2. QED
    BY <2>1 DEF WorkIsUnfinished, Carried, Queued, Held, Working, DeadLettered
<1>3. CASE Dequeue
  BY <1>3 DEF Dequeue, database, WorkIsUnfinished, Carried, Queued, Held, Working, DeadLettered
<1>4. CASE StartTask
  <2>1. PICK m \in hand : tasks' = tasks \cup {[msg |-> m, pc |-> "check", result |-> NoJob]}
    BY <1>4 DEF StartTask
  <2> DEFINE w == [msg |-> m, pc |-> "check", result |-> NoJob]
  <2>2. w.msg = m /\ w.pc = "check" /\ tasks' = tasks \cup {w}
    BY <2>1
  <2> HIDE DEF w
  <2>3. UNCHANGED <<row, pq, dlq>>
    BY <1>4 DEF StartTask, database, queue
  <2>4. \A u \in tasks' : u.pc \in {"mark", "lookup", "rank", "store", "persist"} => u \in tasks
    BY <2>2
  <2>5. \A i \in Jobs : Carried(i)' => Carried(i)
    BY <1>4, <2>2, <2>3 DEF StartTask, Carried, Queued, Held, Working, DeadLettered
  <2>6. QED
    BY <2>3, <2>4, <2>5 DEF WorkIsUnfinished
<1>5. ASSUME NEW t \in tasks, TaskStep(t) PROVE WorkIsUnfinished'
  <2>1. CASE t.pc = "done"
    <3>1. TaskDone(t)
      BY <1>5, <2>1 DEF TaskStep, Check, MarkRunning, Lookup, Rank, Store, Persist, MarkFailed
    <3>2. QED
      BY <3>1 DEF TaskDone, database, queue, WorkIsUnfinished, Carried, Queued, Held, Working, DeadLettered
  <2>2. CASE t.pc # "done"
    <3> DEFINE j == t.msg.job
    <3>1. t \in Task /\ j \in Jobs /\ "done" \in Steps /\ OthersKept(t)
      BY <1>5, TaskKeepsOthers DEF TypeOK, Task, Message, Steps
    <3>2. Quiet(t) \/ Marks(t) \/ Saves(t) \/ Fails(t)
      BY <1>5, <2>2, TaskEffect
    <3>3. PICK step \in Steps, result \in Jobs \cup {NoJob} : Goto(t, step, result)
      BY <3>1, <3>2 DEF Quiet, Marks, Saves, Fails, Advances, Settles, Retry, Steps
    <3>4. \A u \in tasks' :
             /\ u.msg.job # j => u \in tasks
             /\ u.msg.job = j /\ u.pc # "done" => u.pc = step
      BY <2>2, <3>3, GotoMoves
    <3>5. Midway(t) => row[j] \notin Terminal
      BY DEF Midway, WorkIsUnfinished
    <3>6. ASSUME NEW u \in tasks', u.pc \in {"mark", "lookup", "rank", "store", "persist"}
          PROVE  row'[u.msg.job] \notin Terminal
      <4>1. u.msg.job \in Jobs
        <5>1. tasks' \subseteq Task
          BY TypeStep DEF TypeOK
        <5>2. QED
          BY <5>1 DEF Task, Message
      <4>2. CASE u.msg.job # j
        BY <3>1, <3>4, <3>6, <4>1, <4>2 DEF OthersKept, WorkIsUnfinished
      <4>3. CASE u.msg.job = j
        <5>1. Working(j)' /\ u.pc # "done"
          BY <3>6, <4>3 DEF Working
        <5>2. ~Settles(t) /\ ~Retry(t)
          BY <1>5, <2>2, <3>1, <5>1, CarriedMoves DEF Carried
        <5>3. CASE Quiet(t)
          BY <3>5, <4>3, <5>2, <5>3 DEF Quiet
        <5>4. CASE Marks(t)
          BY <3>1, <4>3, <5>4 DEF Marks, TypeOK, Terminal
        <5>5. CASE Saves(t)
          <6>1. Goto(t, "give_up", NoJob)
            BY <5>2, <5>5 DEF Saves
          <6>2. u.pc = "give_up"
            BY <2>2, <4>3, <5>1, <6>1, GotoMoves DEF Steps
          <6>3. QED
            BY <3>6, <6>2
        <5>6. CASE Fails(t)
          BY <5>2, <5>6 DEF Fails
        <5>7. QED
          BY <3>2, <5>3, <5>4, <5>5, <5>6
      <4>4. QED
        BY <4>2, <4>3
    <3>7. ASSUME ~LostAck, NEW i \in Jobs, Carried(i)' PROVE row'[i] \notin Terminal
      <4>1. CASE i # j
        <5>1. Carried(i)
          BY <1>5, <2>2, <3>7, <4>1, CarriedMoves DEF Carried
        <5>2. QED
          BY <3>1, <3>7, <4>1, <5>1 DEF OthersKept, WorkIsUnfinished
      <4>2. CASE i = j
        <5>1. row[j] \notin Terminal
          BY <2>2, <3>1, <3>7 DEF WorkIsUnfinished, Carried, Working
        <5>2. ~Settles(t)
          BY <1>5, <2>2, <3>7, <4>2, CarriedMoves
        <5>3. QED
          BY <3>1, <3>2, <3>7, <4>2, <5>1, <5>2 DEF Quiet, Marks, Saves, Fails, TypeOK, Terminal
      <4>3. QED
        BY <4>1, <4>2
    <3>8. QED
      BY <3>6, <3>7 DEF WorkIsUnfinished
  <2>3. QED
    BY <2>1, <2>2
<1>6. ASSUME NEW k \in Keys, Expire(k) PROVE WorkIsUnfinished'
  BY <1>6 DEF Expire, database, queue, worker, WorkIsUnfinished, Carried, Queued, Held, Working, DeadLettered
<1>7. CASE Stop
  BY <1>7 DEF Stop, database, queue, WorkIsUnfinished, Carried, Queued, Held, Working, DeadLettered
<1>8. CASE Halt
  BY <1>8 DEF Halt, WorkIsUnfinished, Carried, Queued, Held, Working, DeadLettered
<1>9. CASE Restart
  BY <1>9 DEF Restart, database, queue, worker, WorkIsUnfinished, Carried, Queued, Held, Working, DeadLettered
<1>10. CASE UNCHANGED vars
  BY <1>10 DEF vars, database, queue, worker, WorkIsUnfinished, Carried, Queued, Held, Working, DeadLettered
<1>11. QED
  BY <1>1, <1>2, <1>3, <1>4, <1>5, <1>6, <1>7, <1>8, <1>9, <1>10 DEF Next, Idle, Exit, Crash

\* No step saves a second batch or separates a batch from its status.
LEMMA SavedStep ==
    /\ TypeOK /\ OneCopy /\ RequestsPrecedeRows /\ WorkIsUnfinished
    /\ SavedOnce /\ [Next]_vars
    => SavedOnce'
<1> SUFFICES ASSUME TypeOK, OneCopy, RequestsPrecedeRows, WorkIsUnfinished, SavedOnce, [Next]_vars
             PROVE  SavedOnce'
  OBVIOUS
<1>1. ASSUME NEW j \in Jobs, Submit(j) PROVE SavedOnce'
  <2>1. row[j] = "absent" /\ batches[j] = 0
    BY <1>1 DEF Submit, RequestsPrecedeRows, SavedOnce, Terminal, TypeOK
  <2>2. QED
    BY <1>1, <2>1 DEF Submit, SavedOnce, Terminal, TypeOK
<1>2. ASSUME NEW t \in tasks, TaskStep(t) PROVE SavedOnce'
  <2>1. CASE t.pc = "done"
    BY <1>2, <2>1 DEF TaskStep, Check, MarkRunning, Lookup, Rank, Store, Persist, MarkFailed,
                      TaskDone, database, SavedOnce
  <2>2. CASE t.pc # "done"
    <3> DEFINE j == t.msg.job
    <3>1. j \in Jobs /\ OthersKept(t)
      BY <1>2, TaskKeepsOthers DEF TypeOK, Task, Message
    <3>2. Midway(t) => row[j] \notin Terminal /\ batches[j] = 0
      BY <3>1 DEF Midway, WorkIsUnfinished, SavedOnce, TypeOK
    <3>3. ~LostAck => row[j] \notin Terminal /\ batches[j] = 0
      <4>1. Carried(j)
        BY <2>2 DEF Carried, Working
      <4>2. QED
        BY <3>1, <4>1 DEF WorkIsUnfinished, SavedOnce, TypeOK
    <3> SUFFICES ASSUME NEW i \in Jobs
                 PROVE  /\ batches'[i] <= 1
                        /\ row'[i] = "succeeded" => batches'[i] = 1
                        /\ batches'[i] = 1 => row'[i] \in Terminal
                        /\ ~LostAck /\ row'[i] = "failed" => batches'[i] = 0
      BY DEF SavedOnce
    <3>4. CASE i # j
      BY <3>1, <3>4 DEF OthersKept, SavedOnce
    <3>5. CASE i = j
      <4>1. CASE Quiet(t)
        BY <4>1 DEF Quiet, SavedOnce
      <4>2. CASE Marks(t)
        BY <3>1, <3>2, <3>5, <4>2 DEF Marks, TypeOK
      <4>3. CASE Saves(t)
        <5>1. Midway(t)
          BY <4>3 DEF Saves, Midway
        <5>2. QED
          BY <3>1, <3>2, <3>5, <4>3, <5>1 DEF Saves, TypeOK, Terminal
      <4>4. CASE Fails(t)
        BY <3>1, <3>3, <3>5, <4>4 DEF Fails, TypeOK, SavedOnce, Terminal
      <4>5. QED
        BY <1>2, <2>2, <4>1, <4>2, <4>3, <4>4, TaskEffect
    <3>6. QED
      BY <3>4, <3>5
  <2>3. QED
    BY <2>1, <2>2
<1>3. CASE UNCHANGED database
  BY <1>3 DEF database, SavedOnce
<1>4. QED
  BY <1>1, <1>2, <1>3 DEF Next, Enqueue, Dequeue, StartTask, Expire, Stop, Exit, Crash, Halt,
                         Restart, Idle, vars

\* A terminal event leaves nothing of its job in the process.
LEMMA OverStep ==
    TypeOK /\ OneCopy /\ AnnouncedIsOver /\ [Next]_vars => AnnouncedIsOver'
<1> SUFFICES ASSUME TypeOK, OneCopy, AnnouncedIsOver, [Next]_vars PROVE AnnouncedIsOver'
  OBVIOUS
<1> DEFINE Places == <<pq, hand, tasks, dlq>>
<1>1. ASSUME NEW j \in Jobs, Submit(j) PROVE AnnouncedIsOver'
  BY <1>1 DEF Submit, queue, worker, AnnouncedIsOver, TypeOK, Carried, Queued, Held, Working, DeadLettered
<1>2. ASSUME NEW j \in Jobs, Enqueue(j) PROVE AnnouncedIsOver'
  <2> DEFINE e == [seq |-> seq + 1, msg |-> [job |-> j, attempts |-> 0]]
  <2>1. /\ pq' = pq \cup {e} /\ e.msg.job = j
        /\ UNCHANGED <<dlq, hand, tasks, announced>>
        /\ req' = [req EXCEPT ![j] = "closed"]
        /\ announced[j] = {}
    BY <1>2 DEF Enqueue, Put, worker, AnnouncedIsOver
  <2> HIDE DEF e
  <2>2. QED
    BY <2>1 DEF AnnouncedIsOver, TypeOK, Carried, Queued, Held, Working, DeadLettered
<1>3. CASE Dequeue
  BY <1>3 DEF Dequeue, AnnouncedIsOver, Carried, Queued, Held, Working, DeadLettered
<1>4. CASE StartTask
  <2>1. PICK m \in hand : tasks' = tasks \cup {[msg |-> m, pc |-> "check", result |-> NoJob]}
    BY <1>4 DEF StartTask
  <2> DEFINE w == [msg |-> m, pc |-> "check", result |-> NoJob]
  <2>2. w.msg = m /\ w.pc = "check" /\ tasks' = tasks \cup {w}
    BY <2>1
  <2> HIDE DEF w
  <2>3. \A i \in Jobs : Carried(i)' => Carried(i)
    BY <1>4, <2>2 DEF StartTask, queue, Carried, Queued, Held, Working, DeadLettered
  <2>4. QED
    BY <1>4, <2>3 DEF StartTask, AnnouncedIsOver
<1>5. ASSUME NEW t \in tasks, TaskStep(t) PROVE AnnouncedIsOver'
  <2>1. CASE t.pc = "done"
    BY <1>5, <2>1 DEF TaskStep, Check, MarkRunning, Lookup, Rank, Store, Persist, MarkFailed,
                      TaskDone, queue, AnnouncedIsOver, Carried, Queued, Held, Working, DeadLettered
  <2>2. CASE t.pc # "done"
    <3> DEFINE j == t.msg.job
    <3>1. j \in Jobs /\ UNCHANGED req /\ OthersKept(t)
      BY <1>5, <2>2, TaskMoves, TaskKeepsOthers DEF TypeOK, Task, Message
    <3>2. Carried(j)
      BY <2>2 DEF Carried, Working
    <3>3. req[j] = "closed" /\ announced[j] = {}
      BY <3>1, <3>2 DEF OneCopy, AnnouncedIsOver
    <3>4. announced'[j] = {} \/ Settles(t)
      BY <1>5, <2>2, <3>3, TaskEffect DEF Quiet, Marks, Saves, Fails
    <3>5. ASSUME NEW i \in Jobs, announced'[i] # {} PROVE req'[i] = "closed" /\ ~Carried(i)'
      <4>1. CASE i = j
        BY <1>5, <2>2, <3>1, <3>3, <3>4, <3>5, <4>1, CarriedMoves
      <4>2. CASE i # j
        BY <1>5, <2>2, <3>1, <3>5, <4>2, CarriedMoves DEF OthersKept, AnnouncedIsOver, Carried
      <4>3. QED
        BY <4>1, <4>2
    <3>6. QED
      BY <3>5 DEF AnnouncedIsOver
  <2>3. QED
    BY <2>1, <2>2
<1>6. CASE Stop
  BY <1>6 DEF Stop, queue, AnnouncedIsOver, Carried, Queued, Held, Working, DeadLettered
<1>7. CASE Halt
  BY <1>7 DEF Halt, AnnouncedIsOver, TypeOK, Carried, Queued, Held, Working, DeadLettered
<1>8. CASE UNCHANGED <<Places, req, announced>>
  BY <1>8 DEF AnnouncedIsOver, Carried, Queued, Held, Working, DeadLettered
<1>9. QED
  BY <1>1, <1>2, <1>3, <1>4, <1>5, <1>6, <1>7, <1>8
     DEF Next, Expire, Restart, Idle, Exit, Crash, vars, queue, worker

\* An announced status is never overwritten.
LEMMA HoldStep ==
    TypeOK /\ OneCopy /\ AnnouncedIsOver /\ RequestsPrecedeRows /\ AnnouncementsHold /\ [Next]_vars
    => AnnouncementsHold'
<1> SUFFICES ASSUME TypeOK, OneCopy, AnnouncedIsOver, RequestsPrecedeRows, AnnouncementsHold, [Next]_vars
             PROVE  AnnouncementsHold'
  OBVIOUS
<1>1. ASSUME NEW j \in Jobs, Submit(j) PROVE AnnouncementsHold'
  <2>1. announced[j] = {}
    BY <1>1 DEF Submit, AnnouncedIsOver
  <2>2. QED
    BY <1>1, <2>1 DEF Submit, AnnouncementsHold, TypeOK
<1>2. ASSUME NEW t \in tasks, TaskStep(t) PROVE AnnouncementsHold'
  <2>1. CASE t.pc = "done"
    BY <1>2, <2>1 DEF TaskStep, Check, MarkRunning, Lookup, Rank, Store, Persist, MarkFailed,
                      TaskDone, database, AnnouncementsHold
  <2>2. CASE t.pc # "done"
    <3> DEFINE j == t.msg.job
    <3>1. j \in Jobs /\ OthersKept(t)
      BY <1>2, TaskKeepsOthers DEF TypeOK, Task, Message
    <3>2. announced[j] = {}
      <4>1. Carried(j)
        BY <2>2 DEF Carried, Working
      <4>2. QED
        BY <3>1, <4>1 DEF AnnouncedIsOver
    <3>3. ASSUME NEW i \in Jobs
          PROVE  /\ "completed" \in announced'[i] => row'[i] = "succeeded"
                 /\ "failed" \in announced'[i] => row'[i] = "failed"
      <4>1. CASE i # j
        BY <3>1, <4>1 DEF OthersKept, AnnouncementsHold
      <4>2. CASE i = j
        <5>1. Quiet(t) \/ Marks(t) \/ Saves(t) \/ Fails(t)
          BY <1>2, <2>2, TaskEffect
        <5>2. QED
          BY <3>1, <3>2, <4>2, <5>1 DEF Quiet, Marks, Saves, Fails, TypeOK
      <4>3. QED
        BY <4>1, <4>2
    <3>4. QED
      BY <3>3 DEF AnnouncementsHold
  <2>3. QED
    BY <2>1, <2>2
<1>3. CASE UNCHANGED <<row, announced>>
  BY <1>3 DEF AnnouncementsHold
<1>4. QED
  BY <1>1, <1>2, <1>3 DEF Next, Enqueue, Dequeue, StartTask, Expire, Stop, Exit, Crash, Halt,
                         Restart, Idle, vars, database

\* No step drops the message of an unfinished job while the process lives.
LEMMA DroppedStep ==
    TypeOK /\ OneCopy /\ WorkIsUnfinished /\ NothingDropped /\ [Next]_vars => NothingDropped'
<1> SUFFICES ASSUME TypeOK, OneCopy, WorkIsUnfinished, NothingDropped, [Next]_vars
             PROVE  NothingDropped'
  OBVIOUS
<1>1. ASSUME NEW j \in Jobs, Submit(j) PROVE NothingDropped'
  <2>1. \A i \in Jobs : Carried(i)' <=> Carried(i)
    BY <1>1 DEF Submit, queue, worker, Carried, Queued, Held, Working, DeadLettered
  <2>2. QED
    BY <1>1, <2>1 DEF Submit, NothingDropped, TypeOK
<1>2. ASSUME NEW j \in Jobs, Enqueue(j) PROVE NothingDropped'
  <2> DEFINE e == [seq |-> seq + 1, msg |-> [job |-> j, attempts |-> 0]]
  <2>1. /\ pq' = pq \cup {e} /\ e.msg.job = j
        /\ UNCHANGED <<dlq, hand, tasks, row, lost>>
        /\ req' = [req EXCEPT ![j] = "closed"]
    BY <1>2 DEF Enqueue, Put, worker, database, process
  <2> HIDE DEF e
  <2>2. QED
    BY <2>1 DEF NothingDropped, TypeOK, Carried, Queued, Held, Working, DeadLettered
<1>3. CASE Dequeue
  <2>1. PICK e \in pq : pq' = pq \ {e} /\ hand' = {e.msg}
    BY <1>3 DEF Dequeue
  <2>2. \A i \in Jobs : Carried(i) => Carried(i)'
    BY <1>3, <2>1 DEF Dequeue, Carried, Queued, Held, Working, DeadLettered
  <2>3. QED
    BY <1>3, <2>2 DEF Dequeue, database, process, NothingDropped
<1>4. CASE StartTask
  <2>1. PICK m \in hand : tasks' = tasks \cup {[msg |-> m, pc |-> "check", result |-> NoJob]}
    BY <1>4 DEF StartTask
  <2> DEFINE w == [msg |-> m, pc |-> "check", result |-> NoJob]
  <2>2. w.msg = m /\ w.pc = "check" /\ tasks' = tasks \cup {w}
    BY <2>1
  <2> HIDE DEF w
  <2>3. \A i \in Jobs : Held(i) => i = m.job
    BY DEF Held, TypeOK
  <2>4. \A i \in Jobs : Carried(i) => Carried(i)'
    BY <1>4, <2>2, <2>3 DEF StartTask, queue, Carried, Queued, Held, Working, DeadLettered
  <2>5. QED
    BY <1>4, <2>4 DEF StartTask, database, process, NothingDropped
<1>5. ASSUME NEW t \in tasks, TaskStep(t) PROVE NothingDropped'
  <2>1. CASE t.pc = "done"
    BY <1>5, <2>1 DEF TaskStep, Check, MarkRunning, Lookup, Rank, Store, Persist, MarkFailed,
                      TaskDone, database, queue, process,
                      NothingDropped, Carried, Queued, Held, Working, DeadLettered
  <2>2. CASE t.pc # "done"
    <3> DEFINE j == t.msg.job
    <3>1. j \in Jobs /\ OthersKept(t) /\ UNCHANGED <<req, lost>>
      BY <1>5, <2>2, TaskMoves, TaskKeepsOthers DEF TypeOK, Task, Message
    <3>2. \A i \in Jobs : i # j => (Carried(i)' <=> Carried(i))
      BY <1>5, <2>2, CarriedMoves DEF Carried
    <3>3. Carried(j)' \/ row'[j] \in Terminal
      <4>1. Advances(t) \/ Retry(t) => Carried(j)'
        BY <1>5, <2>2, <3>1, CarriedMoves DEF Carried
      <4>2. Settles(t) => row'[j] \in Terminal
        <5>1. Quiet(t) \/ Marks(t) \/ Saves(t) \/ Fails(t)
          BY <1>5, <2>2, TaskEffect
        <5>2. Settles(t) => ~Advances(t) /\ ~Retry(t)
          BY <1>5, <2>2, <3>1, CarriedMoves DEF Carried
        <5>3. CASE Quiet(t)
          BY <5>2, <5>3 DEF Quiet, Advances
        <5>4. CASE Marks(t)
          BY <5>2, <5>4 DEF Marks
        <5>5. CASE Saves(t) \/ Fails(t)
          BY <3>1, <5>5 DEF Saves, Fails, TypeOK, Terminal
        <5>6. QED
          BY <5>1, <5>3, <5>4, <5>5
      <4>3. QED
        BY <1>5, <2>2, <4>1, <4>2, TaskMoves
    <3>4. QED
      BY <3>1, <3>2, <3>3 DEF OthersKept, NothingDropped, Terminal
  <2>3. QED
    BY <2>1, <2>2
<1>6. CASE Stop
  <2>1. \A i \in Jobs : Carried(i) => Carried(i)' \/ i \in lost'
    BY <1>6 DEF Stop, queue, Carried, Queued, Held, Working, DeadLettered
  <2>2. QED
    BY <1>6, <2>1 DEF Stop, database, NothingDropped
<1>7. CASE Halt
  BY <1>7 DEF Halt, database, NothingDropped
<1>8. CASE Restart \/ UNCHANGED vars \/ \E k \in Keys : Expire(k)
  <2>1. UNCHANGED <<row, req, pq, hand, tasks, dlq, lost>>
    BY <1>8 DEF Restart, Expire, vars, database, queue, worker, process
  <2>2. QED
    BY <2>1 DEF NothingDropped, Carried, Queued, Held, Working, DeadLettered
<1>9. QED
  BY <1>1, <1>2, <1>3, <1>4, <1>5, <1>6, <1>7, <1>8 DEF Next, Idle, Exit, Crash

-----------------------------------------------------------------------------
(* The invariant they make together, and what follows from it. *)

\* The inductive strengthening: no part is inductive alone. SavedOnce needs that a
\* task past the duplicate test finds its row unfinished (WorkIsUnfinished), which
\* needs that it is the job's only one (OneCopy).
Safe ==
    /\ TypeOK /\ OneCopy /\ RequestsPrecedeRows /\ WorkIsUnfinished
    /\ SavedOnce /\ AnnouncedIsOver /\ AnnouncementsHold /\ NothingDropped

\* The inductive invariant holds throughout.
THEOREM AlwaysSafe == Spec => []Safe
<1>1. Init => Safe
  BY TypeInit DEF Init, Safe, OneCopy, RequestsPrecedeRows, WorkIsUnfinished, SavedOnce,
                  AnnouncedIsOver, AnnouncementsHold, NothingDropped, Terminal,
                  Carried, Queued, Held, Working, DeadLettered
<1>2. Safe /\ [Next]_vars => Safe'
  BY TypeStep, OneCopyStep, RowsStep, WorkStep, SavedStep, OverStep, HoldStep, DroppedStep DEF Safe
<1>3. QED
  BY <1>1, <1>2, PTL DEF Spec

\* Results are saved at most once per job, and with the status that says so.
THEOREM ResultsSavedOnce == Spec => []SavedOnce
<1>1. Safe => SavedOnce
  BY DEF Safe
<1>2. QED
  BY <1>1, AlwaysSafe, PTL

\* No error path and no retry loses a job while the process lives.
THEOREM NeverDropped == Spec => []NothingDropped
<1>1. Safe => NothingDropped
  BY DEF Safe
<1>2. QED
  BY <1>1, AlwaysSafe, PTL

\* A published terminal event agrees with the database from then on.
THEOREM AnnouncedIsTrue == Spec => []AnnouncementsHold
<1>1. Safe => AnnouncementsHold
  BY DEF Safe
<1>2. QED
  BY <1>1, AlwaysSafe, PTL

\* Nothing of a job changes after its terminal event.
THEOREM AnnouncedStays == Spec => AnnouncedIsFinal
<1>1. Safe /\ [Next]_vars => KeepsAnnounced
  <2> SUFFICES ASSUME Safe, [Next]_vars, NEW j \in Jobs, announced[j] # {}
               PROVE  /\ row'[j] = row[j] /\ batches'[j] = batches[j]
                      /\ served'[j] = served[j] /\ announced'[j] = announced[j]
    BY DEF KeepsAnnounced
  <2>1. TypeOK /\ req[j] = "closed" /\ ~Carried(j)
    BY DEF Safe, AnnouncedIsOver
  <2>2. ASSUME NEW i \in Jobs, Submit(i)
        PROVE  UNCHANGED <<batches, served, announced>> /\ row'[j] = row[j]
    BY <2>1, <2>2 DEF Submit, TypeOK
  <2>3. ASSUME NEW t \in tasks, TaskStep(t)
        PROVE  /\ row'[j] = row[j] /\ batches'[j] = batches[j]
               /\ served'[j] = served[j] /\ announced'[j] = announced[j]
    <3>1. CASE t.pc = "done"
      BY <2>3, <3>1 DEF TaskStep, Check, MarkRunning, Lookup, Rank, Store, Persist, MarkFailed,
                        TaskDone, database
    <3>2. CASE t.pc # "done"
      <4>1. t.msg.job # j
        BY <2>1, <3>2 DEF Carried, Working
      <4>2. QED
        BY <2>1, <2>3, <4>1, TaskKeepsOthers DEF OthersKept
    <3>3. QED
      BY <3>1, <3>2
  <2>4. CASE UNCHANGED <<database, announced>>
    BY <2>4 DEF database
  <2>5. QED
    BY <2>2, <2>3, <2>4 DEF Next, Enqueue, Dequeue, StartTask, Expire, Stop, Exit, Crash, Halt,
                            Restart, Idle, vars
<1>2. QED
  BY <1>1, AlwaysSafe, PTL DEF Spec, AnnouncedIsFinal

-----------------------------------------------------------------------------
(* Whose ranking a job is answered with, and which messages are dead. *)

\* A task after Goto is one of the others or the one that moved.
LEMMA GotoTasks ==
    ASSUME TypeOK, NEW t \in tasks, NEW step, NEW result, Goto(t, step, result)
    PROVE  \A u \in tasks' : u \in tasks \/ (u.msg = t.msg /\ u.pc = step /\ u.result = result)
BY DEF Goto, TypeOK, Task

\* A raising step leaves no ranking in its task, and gives up at the last attempt only.
LEMMA RaiseTasks ==
    ASSUME TypeOK, NEW t \in tasks, Raise(t)
    PROVE  \A u \in tasks' :
             \/ u \in tasks
             \/ /\ u.msg = t.msg /\ u.pc \in {"give_up", "done"}
                /\ u.pc = "give_up" => t.msg.attempts + 1 >= MaxAttempts
<1>1. CASE t.msg.attempts + 1 >= MaxAttempts /\ Goto(t, "give_up", NoJob)
  BY <1>1, GotoTasks
<1>2. CASE Retry(t)
  BY <1>2, GotoTasks DEF Retry
<1> QED BY <1>1, <1>2 DEF Raise

-----------------------------------------------------------------------------
(* Rankings. *)

\* No part is inductive alone: what is saved was held by a task, and what a task
\* holds was ranked for its own request or found under its own key.
RankingsInvariant == TypeOK /\ RankingsAreOwn /\ ServedOwnRequest

\* A task that moves keeps all rankings in the tasks own, if the one it takes along is.
LEMMA TasksStayOwn ==
    ASSUME RankingsInvariant, NEW t \in tasks, t.msg.job \in Jobs,
           UNCHANGED <<cache, batches, served>>,
           \A u \in tasks' :
             \/ u \in tasks
             \/ /\ u.msg = t.msg
                /\ u.pc = "store" => t.msg.job \notin Live /\ u.result = t.msg.job
                /\ u.pc = "persist" => MayServe(u.result, t.msg.job)
    PROVE  RankingsAreOwn' /\ ServedOwnRequest'
BY DEF RankingsInvariant, RankingsAreOwn, ServedOwnRequest, MayServe

\* Each step of a task passes on only what it may serve.
LEMMA RankingsTask ==
    ASSUME RankingsInvariant, NEW t \in tasks, TaskStep(t)
    PROVE  RankingsAreOwn' /\ ServedOwnRequest'
<1> DEFINE j == t.msg.job
<1>1. TypeOK /\ t \in Task /\ j \in Jobs /\ KeyOf[j] \in Keys
  BY DEF RankingsInvariant, TypeOK, Task, Message, Keys
<1>2. CASE Check(t)
  <2>1. \A u \in tasks' : u \in tasks \/ (u.msg = t.msg /\ u.pc \in {"done", "mark"})
    BY <1>1, <1>2, GotoTasks DEF Check, Retry
  <2> QED BY <1>1, <1>2, <2>1, TasksStayOwn DEF Check, database
<1>3. CASE MarkRunning(t)
  <2>1. \A u \in tasks' : u \in tasks \/ (u.msg = t.msg /\ u.pc \in {"lookup", "give_up", "done"})
    BY <1>1, <1>3, GotoTasks, RaiseTasks DEF MarkRunning
  <2> QED BY <1>1, <1>3, <2>1, TasksStayOwn DEF MarkRunning
<1>4. CASE Lookup(t)
  <2>1. \A u \in tasks' :
          \/ u \in tasks
          \/ /\ u.msg = t.msg
             /\ \/ u.pc \in {"rank", "give_up", "done"}
                \/ /\ u.pc = "persist" /\ u.result = cache[KeyOf[j]]
                   /\ j \notin Live /\ cache[KeyOf[j]] # NoJob
    BY <1>1, <1>4, GotoTasks, RaiseTasks DEF Lookup
  <2>2. j \notin Live /\ cache[KeyOf[j]] # NoJob => MayServe(cache[KeyOf[j]], j)
    BY <1>1 DEF RankingsInvariant, RankingsAreOwn, MayServe
  <2> QED BY <1>1, <1>4, <2>1, <2>2, TasksStayOwn DEF Lookup, database
<1>5. CASE Rank(t)
  <2>1. \A u \in tasks' :
          \/ u \in tasks
          \/ /\ u.msg = t.msg
             /\ \/ u.pc \in {"give_up", "done"}
                \/ u.pc = (IF j \in Live THEN "persist" ELSE "store") /\ u.result = j
    BY <1>1, <1>5, GotoTasks, RaiseTasks DEF Rank
  <2>2. MayServe(j, j)
    BY <1>1, JobsAssumption DEF MayServe
  <2> QED BY <1>1, <1>5, <2>1, <2>2, TasksStayOwn DEF Rank, database
<1>6. CASE Store(t)
  <2>1. j \notin Live /\ t.result = j /\ MayServe(j, j)
    BY <1>1, <1>6, JobsAssumption DEF Store, RankingsInvariant, RankingsAreOwn, MayServe
  <2>2. \A u \in tasks' :
          u \in tasks \/ (u.msg = t.msg /\ (u.pc \in {"give_up", "done"} \/ (u.pc = "persist" /\ u.result = j)))
    BY <1>1, <1>6, <2>1, GotoTasks, RaiseTasks DEF Store
  <2>3. \A k \in Keys : cache'[k] # NoJob => cache'[k] \notin Live /\ KeyOf[cache'[k]] = k
    BY <1>1, <1>6, <2>1 DEF Store, RankingsInvariant, RankingsAreOwn, TypeOK
  <2> QED BY <1>6, <2>1, <2>2, <2>3 DEF Store, database, RankingsInvariant, RankingsAreOwn,
                                        ServedOwnRequest, MayServe
<1>7. CASE Persist(t)
  <2>1. MayServe(t.result, j)
    BY <1>7 DEF Persist, RankingsInvariant, RankingsAreOwn
  <2>2. \A u \in tasks' : u \in tasks \/ (u.msg = t.msg /\ u.pc \in {"give_up", "done"})
    BY <1>1, <1>7, GotoTasks, RaiseTasks DEF Persist
  <2>3. RankingsAreOwn'
    BY <1>7, <2>2 DEF Persist, RankingsInvariant, RankingsAreOwn, MayServe
  <2>4. ServedOwnRequest'
    <3>1. CASE UNCHANGED database
      BY <3>1 DEF database, RankingsInvariant, ServedOwnRequest
    <3>2. CASE batches' = [batches EXCEPT ![j] = @ + 1] /\ served' = [served EXCEPT ![j] = t.result]
      BY <1>1, <2>1, <3>2 DEF RankingsInvariant, ServedOwnRequest, TypeOK, MayServe
    <3> QED BY <1>7, <3>1, <3>2 DEF Persist
  <2> QED BY <2>3, <2>4
<1>8. CASE MarkFailed(t)
  <2>1. \A u \in tasks' : u \in tasks \/ (u.msg = t.msg /\ u.pc = "done")
    BY <1>1, <1>8, GotoTasks DEF MarkFailed, Retry
  <2> QED BY <1>1, <1>8, <2>1, TasksStayOwn DEF MarkFailed
<1>9. CASE TaskDone(t)
  BY <1>9 DEF TaskDone, database, RankingsInvariant, RankingsAreOwn, ServedOwnRequest
<1> QED BY <1>2, <1>3, <1>4, <1>5, <1>6, <1>7, <1>8, <1>9 DEF TaskStep

\* So does every other step, which serves nobody.
LEMMA RankingsStep == RankingsInvariant /\ [Next]_vars => RankingsInvariant'
<1> SUFFICES ASSUME RankingsInvariant, [Next]_vars PROVE RankingsAreOwn' /\ ServedOwnRequest'
  BY TypeStep DEF RankingsInvariant
<1> USE DEF RankingsInvariant, RankingsAreOwn, ServedOwnRequest
<1>1. ASSUME NEW j \in Jobs, Submit(j) PROVE RankingsAreOwn' /\ ServedOwnRequest'
  BY <1>1 DEF Submit, worker
<1>2. ASSUME NEW t \in tasks, TaskStep(t) PROVE RankingsAreOwn' /\ ServedOwnRequest'
  BY <1>2, RankingsTask
<1>3. CASE StartTask
  BY <1>3 DEF StartTask, database
<1>4. ASSUME NEW k \in Keys, Expire(k) PROVE RankingsAreOwn' /\ ServedOwnRequest'
  BY <1>4 DEF Expire, database, worker, TypeOK
<1>5. CASE Halt
  BY <1>5 DEF Halt, database
<1>6. CASE UNCHANGED <<database, tasks, cache>>
  BY <1>6 DEF database
<1> QED BY <1>1, <1>2, <1>3, <1>4, <1>5, <1>6
        DEF Next, Enqueue, Dequeue, Stop, Exit, Crash, Restart, Idle, vars, worker

\* A request is answered with its own ranking, or a pool request with one cached
\* for a pool request under the same key; never a live one with another's.
THEOREM AnsweredWithOwn == Spec => []ServedOwnRequest
<1>1. Init => RankingsInvariant
  BY TypeInit DEF Init, RankingsInvariant, RankingsAreOwn, ServedOwnRequest
<1>2. RankingsInvariant => ServedOwnRequest
  BY DEF RankingsInvariant
<1> QED BY <1>1, <1>2, RankingsStep, PTL DEF Spec

-----------------------------------------------------------------------------
(* Attempts. *)

\* The attempts of a message, wherever it is.
AttemptsCounted ==
    /\ \A m \in dlq : m.attempts = MaxAttempts
    /\ \A e \in pq : e.msg.attempts < MaxAttempts
    /\ \A m \in hand : m.attempts < MaxAttempts

AttemptsInvariant == TypeOK /\ AttemptsLeft /\ AttemptsCounted

\* A step of a task at work gives up only at the last attempt.
LEMMA GivesUpLast ==
    ASSUME TypeOK, NEW t \in tasks, t.pc # "done", TaskStep(t)
    PROVE  \A u \in tasks' :
             \/ u \in tasks
             \/ u.msg = t.msg /\ (u.pc = "give_up" => t.msg.attempts + 1 >= MaxAttempts)
<1>1. CASE Check(t)
  BY <1>1, GotoTasks DEF Check, Retry
<1>2. CASE MarkRunning(t)
  BY <1>2, GotoTasks, RaiseTasks DEF MarkRunning
<1>3. CASE Lookup(t)
  BY <1>3, GotoTasks, RaiseTasks DEF Lookup
<1>4. CASE Rank(t)
  BY <1>4, GotoTasks, RaiseTasks DEF Rank
<1>5. CASE Store(t)
  BY <1>5, GotoTasks, RaiseTasks DEF Store
<1>6. CASE Persist(t)
  BY <1>6, GotoTasks, RaiseTasks DEF Persist
<1>7. CASE MarkFailed(t)
  BY <1>7, GotoTasks DEF MarkFailed, Retry
<1> QED BY <1>1, <1>2, <1>3, <1>4, <1>5, <1>6, <1>7 DEF TaskStep, TaskDone

\* Every step counts an attempt where it must.
LEMMA AttemptsStep == AttemptsInvariant /\ [Next]_vars => AttemptsInvariant'
<1> SUFFICES ASSUME AttemptsInvariant, [Next]_vars PROVE AttemptsLeft' /\ AttemptsCounted'
  BY TypeStep DEF AttemptsInvariant
<1> USE DEF AttemptsInvariant, AttemptsLeft, AttemptsCounted
<1>1. ASSUME NEW j \in Jobs, Enqueue(j) PROVE AttemptsLeft' /\ AttemptsCounted'
  BY <1>1, LimitsAssumption DEF Enqueue, Put, worker
<1>2. CASE Dequeue
  BY <1>2 DEF Dequeue
<1>3. CASE StartTask
  BY <1>3 DEF StartTask, queue
<1>4. ASSUME NEW t \in tasks, TaskStep(t) PROVE AttemptsLeft' /\ AttemptsCounted'
  <2>1. CASE t.pc = "done"
    BY <1>4, <2>1 DEF TaskStep, Check, MarkRunning, Lookup, Rank, Store, Persist, MarkFailed,
                      TaskDone, queue
  <2>2. CASE t.pc # "done"
    <3>1. t.msg.attempts \in Nat /\ t.msg.attempts < MaxAttempts
      BY <2>2 DEF TypeOK, Task, Message
    <3>2. AttemptsLeft'
      BY <1>4, <2>2, <3>1, GivesUpLast, LimitsAssumption
    <3>3. UNCHANGED hand /\ (UNCHANGED queue \/ Retry(t))
      BY <1>4, <2>2, TaskMoves DEF Advances, Settles
    <3>4. AttemptsCounted'
      <4>1. CASE UNCHANGED queue
        BY <3>3, <4>1 DEF queue
      <4>2. CASE Retry(t)
        BY <3>1, <3>3, <4>2, RetryMoves, LimitsAssumption
      <4> QED BY <3>3, <4>1, <4>2
    <3> QED BY <3>2, <3>4
  <2> QED BY <2>1, <2>2
<1>5. CASE Stop
  BY <1>5 DEF Stop, queue
<1>6. CASE Halt
  BY <1>6 DEF Halt
<1>7. CASE UNCHANGED <<pq, dlq, hand, tasks>>
  BY <1>7
<1> QED BY <1>1, <1>2, <1>3, <1>4, <1>5, <1>6, <1>7
        DEF Next, Submit, Expire, Exit, Crash, Restart, Idle, vars, queue, worker

\* Exactly the messages whose attempts are used up are dead-lettered, and, without
\* lost acknowledgements, only those of jobs the database calls unfinished.
THEOREM DeadLettersStayUnfinished == Spec => []DeadLettersAreUnfinished
<1>1. Init => AttemptsInvariant
  BY TypeInit DEF Init, AttemptsInvariant, AttemptsLeft, AttemptsCounted
<1>2. Safe /\ AttemptsInvariant => DeadLettersAreUnfinished
  BY DEF Safe, TypeOK, Message, WorkIsUnfinished, Carried, DeadLettered,
         AttemptsInvariant, AttemptsCounted, DeadLettersAreUnfinished
<1> QED BY <1>1, <1>2, AttemptsStep, AlwaysSafe, PTL DEF Spec

(* Permits, and the refinement of JobLifecycle *)

\* A task that has ended stays in the set of tasks until its callback has run. A message of its job
\* that is still about was put back by it, with a higher count of attempts.
EndedAreOlder ==
    \A t \in tasks : t.pc = "done" =>
      /\ req[t.msg.job] = "closed"
      /\ \A u \in tasks : u.pc # "done" /\ u.msg.job = t.msg.job => t.msg.attempts < u.msg.attempts
      /\ \A e \in pq : e.msg.job = t.msg.job => t.msg.attempts < e.msg.attempts
      /\ \A m \in hand : m.job = t.msg.job => t.msg.attempts < m.attempts

\* A task at work leaves the permits alone.
LEMMA PermitsKept ==
    ASSUME NEW t \in tasks, t.pc # "done", TaskStep(t) PROVE UNCHANGED permits
BY DEF TaskStep, Check, MarkRunning, Lookup, Rank, Store, Persist, MarkFailed, TaskDone

\* Where the task of a step ends up: in its place stands one with its message that was not there.
LEMMA TaskReplaced ==
    ASSUME TypeOK, OneCopy, EndedAreOlder, NEW t \in tasks, t.pc # "done", TaskStep(t)
    PROVE  \E v \in Task : /\ v.msg = t.msg /\ v \notin tasks \ {t}
                           /\ tasks' = (tasks \ {t}) \cup {v}
                           /\ v.pc = "done" <=> ~Advances(t)
<1> DEFINE j == t.msg.job
<1>1. t \in Task /\ j \in Jobs /\ t.msg.attempts \in Nat
  BY DEF TypeOK, Task, Message
<1>2. \A u \in tasks : u.pc # "done" /\ u.msg.job = j => u = t
  BY <1>1 DEF OneCopy
<1>3. \A u \in tasks : u.msg = t.msg /\ u # t => FALSE
  BY <1>1, <1>2 DEF EndedAreOlder
<1>4. CASE Advances(t)
  <2>1. PICK step \in Steps \ {"done"}, result \in Jobs \cup {NoJob} : Goto(t, step, result)
    BY <1>4 DEF Advances
  <2> DEFINE v == [t EXCEPT !.pc = step, !.result = result]
  <2>2. v \in Task /\ v.msg = t.msg /\ v.pc # "done" /\ tasks' = (tasks \ {t}) \cup {v}
    BY <1>1, <2>1 DEF Goto, Task
  <2> QED BY <1>3, <1>4, <2>2
<1>5. CASE ~Advances(t)
  <2>1. Goto(t, "done", NoJob)
    BY <1>5, TaskMoves DEF Settles, Retry
  <2> DEFINE v == [t EXCEPT !.pc = "done", !.result = NoJob]
  <2>2. v \in Task /\ v.msg = t.msg /\ v.pc = "done" /\ tasks' = (tasks \ {t}) \cup {v}
    BY <1>1, <2>1 DEF Goto, Task, Steps
  <2> QED BY <1>3, <1>5, <2>2
<1> QED BY <1>4, <1>5

\* Every step keeps ended tasks older than what is left of their jobs.
LEMMA EndedStep == TypeOK /\ OneCopy /\ EndedAreOlder /\ [Next]_vars => EndedAreOlder'
<1> SUFFICES ASSUME TypeOK, OneCopy, EndedAreOlder, [Next]_vars PROVE EndedAreOlder'
  OBVIOUS
<1>1. ASSUME NEW j \in Jobs, Submit(j) PROVE EndedAreOlder'
  <2>1. \A t \in tasks : t.pc = "done" => t.msg.job # j
    BY <1>1 DEF Submit, EndedAreOlder
  <2> QED BY <1>1, <2>1 DEF Submit, queue, worker, EndedAreOlder, TypeOK
<1>2. ASSUME NEW j \in Jobs, Enqueue(j) PROVE EndedAreOlder'
  <2> DEFINE e == [seq |-> seq + 1, msg |-> [job |-> j, attempts |-> 0]]
  <2>1. \A t \in tasks : t.pc = "done" => t.msg.job # j
    BY <1>2 DEF Enqueue, EndedAreOlder
  <2>2. /\ pq' = pq \cup {e} /\ e.msg.job = j /\ UNCHANGED <<hand, tasks>>
        /\ req' = [req EXCEPT ![j] = "closed"]
    BY <1>2 DEF Enqueue, Put, worker
  <2> HIDE DEF e
  <2> QED BY <2>1, <2>2 DEF EndedAreOlder, TypeOK
<1>3. CASE Dequeue
  BY <1>3 DEF Dequeue, EndedAreOlder
<1>4. CASE StartTask
  <2>1. PICK m \in hand : tasks' = tasks \cup {[msg |-> m, pc |-> "check", result |-> NoJob]}
    BY <1>4 DEF StartTask
  <2> DEFINE w == [msg |-> m, pc |-> "check", result |-> NoJob]
  <2>2. w.msg = m /\ w.pc = "check" /\ tasks' = tasks \cup {w}
    BY <2>1
  <2> HIDE DEF w
  <2> QED BY <1>4, <2>2 DEF StartTask, queue, EndedAreOlder
<1>5. ASSUME NEW t \in tasks, TaskStep(t) PROVE EndedAreOlder'
  <2>1. CASE t.pc = "done"
    BY <1>5, <2>1 DEF TaskStep, Check, MarkRunning, Lookup, Rank, Store, Persist, MarkFailed,
                      TaskDone, queue, EndedAreOlder
  <2>2. CASE t.pc # "done"
    <3> DEFINE j == t.msg.job
    <3>1. UNCHANGED <<hand, req>> /\ (Advances(t) \/ Settles(t) \/ Retry(t))
      BY <1>5, <2>2, TaskMoves
    <3>2. /\ j \in Jobs /\ t.msg.attempts \in Nat /\ req[j] = "closed"
          /\ ~Queued(j) /\ ~Held(j)
          /\ \A u \in tasks : u.pc # "done" /\ u.msg.job = j => u = t
      <4>1. j \in Jobs /\ t.msg.attempts \in Nat
        BY DEF TypeOK, Task, Message
      <4>2. Working(j)
        BY <2>2 DEF Working
      <4> QED BY <4>1, <4>2, <2>2 DEF OneCopy, Carried
    <3>3. PICK v \in Task : /\ v.msg = t.msg /\ tasks' = (tasks \ {t}) \cup {v}
                            /\ v.pc = "done" <=> ~Advances(t)
      BY <1>5, <2>2, TaskReplaced
    <3>4. CASE Advances(t)
      BY <2>2, <3>1, <3>2, <3>3, <3>4 DEF Advances, queue, EndedAreOlder
    <3>5. CASE ~Advances(t)
      <4>1. pq' = pq \/ \E e \in Entry : /\ e.msg.job = j /\ e.msg.attempts = t.msg.attempts + 1
                                        /\ pq' = pq \cup {e}
        BY <3>1, <3>5, RetryMoves DEF Settles, queue
      <4>2. \A u \in tasks' : u.pc # "done" => u \in tasks /\ u.msg.job # j
        BY <3>2, <3>3, <3>5
      <4>3. \A e \in pq' : e \in pq \/ (e.msg.job = j /\ e.msg.attempts = t.msg.attempts + 1)
        BY <4>1
      <4>4. \A m \in hand : m.job # j
        BY <3>2 DEF Held
      <4>5. \A e \in pq : e.msg.job # j
        BY <3>2 DEF Queued
      <4> SUFFICES ASSUME NEW d \in tasks', d.pc = "done"
                   PROVE  /\ req'[d.msg.job] = "closed"
                          /\ \A u \in tasks' : u.pc # "done" /\ u.msg.job = d.msg.job
                                                 => d.msg.attempts < u.msg.attempts
                          /\ \A e \in pq' : e.msg.job = d.msg.job => d.msg.attempts < e.msg.attempts
                          /\ \A m \in hand' : m.job = d.msg.job => d.msg.attempts < m.attempts
        BY DEF EndedAreOlder
      <4>6. CASE d.msg.job # j
        BY <3>1, <3>3, <4>2, <4>3, <4>6 DEF EndedAreOlder
      <4>7. CASE d.msg.job = j
        <5>1. d.msg.attempts <= t.msg.attempts
          BY <2>2, <3>2, <3>3, <4>7 DEF EndedAreOlder, TypeOK, Task, Message
        <5>2. d.msg.attempts \in Nat
          BY <3>3 DEF TypeOK, Task, Message
        <5> QED BY <3>1, <3>2, <4>2, <4>3, <4>4, <4>5, <4>7, <5>1, <5>2
      <4> QED BY <4>6, <4>7
    <3> QED BY <3>4, <3>5
  <2> QED BY <2>1, <2>2
<1>6. CASE Stop
  BY <1>6 DEF Stop, queue, EndedAreOlder
<1>7. CASE Halt
  BY <1>7 DEF Halt, EndedAreOlder
<1>8. CASE UNCHANGED <<req, pq, hand, tasks>>
  BY <1>8 DEF EndedAreOlder
<1> QED BY <1>1, <1>2, <1>3, <1>4, <1>5, <1>6, <1>7, <1>8
        DEF Next, Expire, Restart, Idle, Exit, Crash, vars, queue, worker

-----------------------------------------------------------------------------
(* Permits. *)

\* The permits count the tasks only if no step makes two tasks one, hence the ended ones.
PermitsInvariant ==
    TypeOK /\ OneCopy /\ EndedAreOlder /\ IsFiniteSet(tasks) /\ PermitsConserved

\* Every step takes a permit with the task it starts and gives it back with the one it drops.
LEMMA PermitsStep == PermitsInvariant /\ [Next]_vars => PermitsInvariant'
<1> SUFFICES ASSUME TypeOK, OneCopy, EndedAreOlder, IsFiniteSet(tasks), PermitsConserved, [Next]_vars
             PROVE  IsFiniteSet(tasks)' /\ PermitsConserved'
  BY TypeStep, OneCopyStep, EndedStep DEF PermitsInvariant
<1>1. permits \in Nat /\ Cardinality(tasks) \in Nat /\ Concurrency \in Nat
  BY FS_CardinalityType, LimitsAssumption DEF TypeOK
<1>2. CASE StartTask
  <2>1. PICK m \in hand : tasks' = tasks \cup {[msg |-> m, pc |-> "check", result |-> NoJob]}
    BY <1>2 DEF StartTask
  <2> DEFINE w == [msg |-> m, pc |-> "check", result |-> NoJob]
  <2>2. w.msg = m /\ w.pc = "check" /\ tasks' = tasks \cup {w}
    BY <2>1
  <2> HIDE DEF w
  <2>3. w \notin tasks
    BY <2>2 DEF OneCopy, TypeOK, Message, Held, Working
  <2>4. IsFiniteSet(tasks)' /\ Cardinality(tasks') = Cardinality(tasks) + 1
    BY <2>2, <2>3, FS_AddElement
  <2> QED BY <1>1, <1>2, <2>4 DEF StartTask, PermitsConserved
<1>3. ASSUME NEW t \in tasks, TaskStep(t) PROVE IsFiniteSet(tasks)' /\ PermitsConserved'
  <2>1. IsFiniteSet(tasks \ {t}) /\ Cardinality(tasks \ {t}) = Cardinality(tasks) - 1
    BY FS_RemoveElement
  <2>2. CASE t.pc = "done"
    <3>1. tasks' = tasks \ {t} /\ permits' = permits + 1
      BY <1>3, <2>2 DEF TaskStep, Check, MarkRunning, Lookup, Rank, Store, Persist, MarkFailed, TaskDone
    <3> QED BY <1>1, <2>1, <3>1 DEF PermitsConserved
  <2>3. CASE t.pc # "done"
    <3>1. PICK v \in Task : v \notin tasks \ {t} /\ tasks' = (tasks \ {t}) \cup {v}
      BY <1>3, <2>3, TaskReplaced
    <3>2. IsFiniteSet(tasks)' /\ Cardinality(tasks') = Cardinality(tasks \ {t}) + 1
      BY <2>1, <3>1, FS_AddElement
    <3> QED BY <1>1, <1>3, <2>1, <2>3, <3>2, PermitsKept DEF PermitsConserved
  <2> QED BY <2>2, <2>3
<1>4. CASE Halt
  BY <1>1, <1>4, FS_EmptySet DEF Halt, PermitsConserved
<1>5. CASE UNCHANGED <<tasks, permits>>
  BY <1>5 DEF PermitsConserved
<1> QED BY <1>2, <1>3, <1>4, <1>5
        DEF Next, Submit, Enqueue, Dequeue, Expire, Stop, Restart, Idle, Exit, Crash, vars, worker

\* No path through the worker leaks a permit or releases one twice.
THEOREM PermitsAlwaysConserved == Spec => []PermitsConserved
<1>1. Init => PermitsInvariant
  <2> SUFFICES ASSUME Init PROVE PermitsInvariant
    OBVIOUS
  <2>1. tasks = {} /\ permits = Concurrency /\ Concurrency \in Nat
    BY LimitsAssumption DEF Init
  <2>2. IsFiniteSet(tasks) /\ PermitsConserved
    BY <2>1, FS_EmptySet DEF PermitsConserved
  <2>3. OneCopy
    BY DEF Init, OneCopy, Carried, Queued, Held, Working, DeadLettered
  <2> QED BY <2>1, <2>2, <2>3, TypeInit DEF EndedAreOlder, PermitsInvariant
<1>2. PermitsInvariant => PermitsConserved
  BY DEF PermitsInvariant
<1> QED BY <1>1, <1>2, PermitsStep, PTL DEF Spec
-----------------------------------------------------------------------------
(* The refinement of JobLifecycle while every commit is acknowledged: after a *)
(* lost acknowledgement mark_failed may overwrite "succeeded".                *)

\* What lifts Safe to the refinement: a message that is carried has a row, a task past mark_running
\* finds it running, and nothing is left of a job whose message perished.
CarriedHaveRows == \A j \in Jobs : Carried(j) => row[j] # "absent"
RunningAtWork ==
    \A t \in tasks : t.pc \in {"lookup", "rank", "store", "persist"} => row[t.msg.job] = "running"
LostAreGone == \A j \in lost : req[j] = "closed" /\ ~Carried(j)

Traceable == CarriedHaveRows /\ RunningAtWork /\ LostAreGone

Gone == lost \cup {m.job : m \in dlq}

\* A task at work is the only trace of its job.
LEMMA OnlyTrace ==
    ASSUME Safe, Traceable, NEW t \in tasks, t.pc # "done"
    PROVE  /\ t.msg.job \in Jobs /\ row[t.msg.job] # "absent" /\ t.msg.job \notin Gone
           /\ ~LostAck => row[t.msg.job] \in {"queued", "running"} /\ batches[t.msg.job] = 0
           /\ \A u \in tasks : u.pc # "done" /\ u.msg.job = t.msg.job => u = t
<1> DEFINE j == t.msg.job
<1>1. TypeOK /\ j \in Jobs
  BY DEF Safe, TypeOK, Task, Message
<1>2. Working(j) /\ Carried(j)
  BY DEF Working, Carried
<1>3. j \notin Gone
  BY <1>1, <1>2 DEF Gone, Traceable, LostAreGone, Safe, OneCopy, DeadLettered
<1>4. ~LostAck => row[j] \in {"queued", "running"} /\ batches[j] = 0
  BY <1>1, <1>2 DEF Safe, WorkIsUnfinished, SavedOnce, TypeOK, Terminal, Traceable, CarriedHaveRows
<1> QED BY <1>1, <1>2, <1>3, <1>4 DEF Safe, OneCopy, Traceable, CarriedHaveRows

\* How a task's step moves its own job: the row never goes back to "absent", a task that gets past
\* mark_running has set the row, and nothing is lost.
LEMMA TaskTraces ==
    ASSUME TypeOK, NEW t \in tasks, t.pc # "done", TaskStep(t)
    PROVE  /\ row' = row \/ \E s \in {"running"} \cup Terminal : row' = [row EXCEPT ![t.msg.job] = s]
           /\ UNCHANGED lost
           /\ \A u \in tasks' : u.pc \in {"lookup", "rank", "store", "persist"} =>
                 \/ u \in tasks /\ u # t
                 \/ /\ u.msg = t.msg
                    /\ t.pc \in {"lookup", "rank", "store", "persist"} => row' = row
                    /\ t.pc \in {"lookup", "rank", "store", "persist"} \/ row' = [row EXCEPT ![t.msg.job] = "running"]
<1> DEFINE Midst == {"lookup", "rank", "store", "persist"}
<1>1. ASSUME NEW step, NEW result, Goto(t, step, result)
      PROVE  \A u \in tasks' : (u \in tasks /\ u # t) \/ (u.msg = t.msg /\ u.pc = step)
  BY <1>1 DEF Goto, TypeOK, Task
<1>2. Retry(t) => \A u \in tasks' : (u \in tasks /\ u # t) \/ u.pc = "done"
  BY <1>1 DEF Retry
<1>3. Raise(t) => \A u \in tasks' : (u \in tasks /\ u # t) \/ u.pc \in {"give_up", "done"}
  BY <1>1, <1>2 DEF Raise
<1>4. CASE Check(t)
  BY <1>1, <1>2, <1>4 DEF Check, database, process
<1>5. CASE MarkRunning(t)
  BY <1>1, <1>3, <1>5 DEF MarkRunning, process, Lands, Returns
<1>6. CASE Lookup(t)
  BY <1>1, <1>3, <1>6 DEF Lookup, database, process
<1>7. CASE Rank(t)
  BY <1>1, <1>3, <1>7 DEF Rank, database, process
<1>8. CASE Store(t)
  BY <1>1, <1>3, <1>8 DEF Store, database, process
<1>9. CASE Persist(t)
  BY <1>1, <1>3, <1>9 DEF Persist, database, process, Terminal
<1>10. CASE MarkFailed(t)
  BY <1>1, <1>2, <1>10 DEF MarkFailed, process, Terminal
<1> QED BY <1>4, <1>5, <1>6, <1>7, <1>8, <1>9, <1>10 DEF TaskStep, TaskDone

\* Every step keeps jobs traceable.
LEMMA TraceableStep == Safe /\ Traceable /\ [Next]_vars => Traceable'
<1> SUFFICES ASSUME Safe, Traceable, [Next]_vars PROVE Traceable'
  OBVIOUS
<1> USE DEF Traceable
<1>0. TypeOK /\ OneCopy
  BY DEF Safe
<1>1. ASSUME NEW j \in Jobs, Submit(j) PROVE Traceable'
  <2>1. \A i \in Jobs : Carried(i)' <=> Carried(i)
    BY <1>1 DEF Submit, queue, worker, Carried, Queued, Held, Working, DeadLettered
  <2>2. ~Carried(j) /\ req[j] = "none" /\ j \notin lost
    BY <1>0, <1>1 DEF Submit, OneCopy, LostAreGone
  <2>3. CarriedHaveRows'
    BY <1>0, <1>1, <2>1 DEF Submit, CarriedHaveRows, TypeOK
  <2>4. RunningAtWork'
    <3>1. \A t \in tasks : t.pc # "done" => t.msg.job # j
      BY <2>2 DEF Carried, Working
    <3> QED BY <1>0, <1>1, <3>1 DEF Submit, worker, RunningAtWork, TypeOK, Task, Message
  <2>5. LostAreGone'
    BY <1>0, <1>1, <2>1, <2>2 DEF Submit, LostAreGone, TypeOK
  <2> QED BY <2>3, <2>4, <2>5
<1>2. ASSUME NEW j \in Jobs, Enqueue(j) PROVE Traceable'
  <2> DEFINE e == [seq |-> seq + 1, msg |-> [job |-> j, attempts |-> 0]]
  <2>1. /\ pq' = pq \cup {e} /\ e.msg.job = j /\ req[j] = "committed"
        /\ UNCHANGED <<row, dlq, hand, tasks, lost>> /\ req' = [req EXCEPT ![j] = "closed"]
    BY <1>2 DEF Enqueue, Put, worker, database, process
  <2> HIDE DEF e
  <2>2. \A i \in Jobs : Carried(i)' => i = j \/ Carried(i)
    BY <2>1 DEF Carried, Queued, Held, Working, DeadLettered
  <2>3. row[j] = "queued" /\ j \notin lost
    BY <2>1 DEF Safe, RequestsPrecedeRows, LostAreGone
  <2> QED BY <1>0, <2>1, <2>2, <2>3 DEF CarriedHaveRows, RunningAtWork, LostAreGone, TypeOK
<1>3. CASE Dequeue
  <2>1. \A i \in Jobs : Carried(i)' => Carried(i)
    BY <1>3 DEF Dequeue, Carried, Queued, Held, Working, DeadLettered
  <2> QED BY <1>0, <1>3, <2>1 DEF Dequeue, database, process, CarriedHaveRows, RunningAtWork, LostAreGone, TypeOK
<1>4. CASE StartTask
  <2>1. PICK m \in hand : tasks' = tasks \cup {[msg |-> m, pc |-> "check", result |-> NoJob]}
    BY <1>4 DEF StartTask
  <2> DEFINE w == [msg |-> m, pc |-> "check", result |-> NoJob]
  <2>2. w.msg = m /\ w.pc = "check" /\ tasks' = tasks \cup {w}
    BY <2>1
  <2> HIDE DEF w
  <2>3. \A i \in Jobs : Carried(i)' => Carried(i)
    BY <1>4, <2>2 DEF StartTask, queue, Carried, Queued, Held, Working, DeadLettered
  <2> QED BY <1>0, <1>4, <2>2, <2>3 DEF StartTask, database, process, CarriedHaveRows, RunningAtWork,
                                        LostAreGone, TypeOK
<1>5. ASSUME NEW t \in tasks, TaskStep(t) PROVE Traceable'
  <2>1. CASE t.pc = "done"
    <3>1. tasks' = tasks \ {t} /\ UNCHANGED <<row, req, pq, dlq, hand, lost>>
      BY <1>5, <2>1 DEF TaskStep, Check, MarkRunning, Lookup, Rank, Store, Persist, MarkFailed,
                        TaskDone, database, queue, process
    <3>2. \A i \in Jobs : Carried(i)' => Carried(i)
      BY <3>1 DEF Carried, Queued, Held, Working, DeadLettered
    <3> QED BY <1>0, <3>1, <3>2 DEF CarriedHaveRows, RunningAtWork, LostAreGone, TypeOK
  <2>2. CASE t.pc # "done"
    <3> DEFINE j == t.msg.job
    <3>1. /\ j \in Jobs /\ row[j] # "absent" /\ j \notin lost
          /\ \A u \in tasks : u.pc # "done" /\ u.msg.job = j => u = t
      BY <2>2, OnlyTrace DEF Gone
    <3>2. \A i \in Jobs : i # j => (Carried(i)' <=> Carried(i)) /\ row'[i] = row[i]
      BY <1>0, <1>5, <2>2, CarriedMoves, TaskKeepsOthers DEF Carried, OthersKept
    <3>3. UNCHANGED <<lost, req>>
      BY <1>0, <1>5, <2>2, TaskMoves, TaskTraces
    <3>4. CarriedHaveRows'
      BY <1>0, <1>5, <2>2, <3>1, <3>2, TaskTraces DEF CarriedHaveRows, Terminal, TypeOK
    <3>5. LostAreGone'
      BY <1>0, <3>1, <3>2, <3>3 DEF LostAreGone, TypeOK
    <3>6. RunningAtWork'
      <4> SUFFICES ASSUME NEW u \in tasks', u.pc \in {"lookup", "rank", "store", "persist"}
                   PROVE  row'[u.msg.job] = "running"
        BY DEF RunningAtWork
      <4>1. CASE u \in tasks /\ u # t
        <5>1. u.msg.job \in Jobs /\ u.msg.job # j
          BY <1>0, <3>1, <4>1 DEF TypeOK, Task, Message
        <5> QED BY <3>2, <4>1, <5>1 DEF RunningAtWork
      <4>2. CASE /\ u.msg = t.msg
                 /\ \/ t.pc \in {"lookup", "rank", "store", "persist"} /\ row' = row
                    \/ row' = [row EXCEPT ![j] = "running"]
        BY <1>0, <3>1, <4>2 DEF RunningAtWork, TypeOK
      <4> QED BY <1>0, <1>5, <2>2, <4>1, <4>2, TaskTraces
    <3> QED BY <3>4, <3>5, <3>6
  <2> QED BY <2>1, <2>2
<1>6. CASE Stop
  <2>1. \A i \in Jobs : Carried(i)' => Carried(i)
    BY <1>6 DEF Stop, queue, Carried, Queued, Held, Working, DeadLettered
  <2>2. \A m \in hand : m.job \in Jobs /\ ~Carried(m.job)' /\ req[m.job] = "closed"
    BY <1>0, <1>6 DEF Stop, queue, OneCopy, TypeOK, Message, Carried, Queued, Held, Working, DeadLettered
  <2> QED BY <1>0, <1>6, <2>1, <2>2 DEF Stop, database, CarriedHaveRows, RunningAtWork, LostAreGone, TypeOK
<1>7. CASE Halt
  <2>1. \A i \in Jobs : ~Carried(i)'
    BY <1>7 DEF Halt, Carried, Queued, Held, Working, DeadLettered
  <2>2. \A i \in lost' : i \in Jobs /\ req'[i] = "closed"
    BY <1>0, <1>7 DEF Halt, OneCopy, LostAreGone, TypeOK
  <2> QED BY <1>7, <2>1, <2>2 DEF Halt, CarriedHaveRows, RunningAtWork, LostAreGone
<1>8. CASE UNCHANGED <<row, req, pq, hand, tasks, dlq, lost>>
  BY <1>8 DEF CarriedHaveRows, RunningAtWork, LostAreGone, Carried, Queued, Held, Working, DeadLettered
<1> QED BY <1>1, <1>2, <1>3, <1>4, <1>5, <1>6, <1>7, <1>8
        DEF Next, Expire, Restart, Idle, Exit, Crash, vars, database, queue, worker, process

\* A fresh pipeline is a fresh lifecycle.
LEMMA LifecycleInit == Init => Lifecycle!Init
BY DEF Init, Lifecycle!Init

\* A step of a task at work is one of the lifecycle: mark_running starts the job, the result
\* transaction succeeds it, mark_failed fails it, a dead letter abandons it, the others stutter.
LEMMA TaskImplements ==
    ASSUME ~LostAck, Safe, Traceable, NEW t \in tasks, t.pc # "done", TaskStep(t)
    PROVE  [Lifecycle!Next]_(Lifecycle!vars)
<1> DEFINE j == t.msg.job
<1>1. /\ TypeOK /\ j \in Jobs /\ j \notin Gone
      /\ row[j] \in {"queued", "running"} /\ batches[j] = 0
  BY OnlyTrace DEF Safe
<1>2. Lifecycle!Active(j)
  BY <1>1 DEF Lifecycle!Active, Lifecycle!Unfinished, Gone
<1>3. \A o \in Outcomes : Lands(o) <=> Returns(o)
  BY DEF Outcomes, Lands, Returns
<1>4. UNCHANGED lost
  BY <1>1, TaskTraces
<1>5. ASSUME UNCHANGED <<row, batches, queue>> PROVE UNCHANGED Lifecycle!vars
  BY <1>4, <1>5 DEF Lifecycle!vars, queue
<1>6. ASSUME UNCHANGED <<row, batches>>, Retry(t) PROVE [Lifecycle!Next]_(Lifecycle!vars)
  <2>1. CASE dlq' = dlq
    BY <1>4, <1>6, <2>1 DEF Lifecycle!vars
  <2>2. CASE dlq' # dlq
    <3>1. \E m : m.job = j /\ dlq' = dlq \cup {m}
      BY <1>1, <1>6, <2>2, RetryMoves
    <3>2. Gone' = Gone \cup {j}
      BY <1>4, <3>1 DEF Gone
    <3>3. Lifecycle!Abandon({j})
      BY <1>1, <1>6, <3>2 DEF Lifecycle!Abandon, Lifecycle!Unfinished, Gone
    <3> QED BY <1>1, <3>3 DEF Lifecycle!Next
  <2> QED BY <2>1, <2>2
<1>7. ASSUME UNCHANGED <<row, batches>>, Raise(t) PROVE [Lifecycle!Next]_(Lifecycle!vars)
  BY <1>5, <1>6, <1>7 DEF Raise
<1>8. CASE Check(t)
  BY <1>5, <1>6, <1>8 DEF Check, database
<1>9. CASE MarkRunning(t)
  <2>1. CASE UNCHANGED row /\ Raise(t)
    BY <1>7, <1>9, <2>1 DEF MarkRunning
  <2>2. CASE row' = [row EXCEPT ![j] = "running"] /\ UNCHANGED queue
    <3>1. Lifecycle!Start(j)
      BY <1>2, <1>4, <1>9, <2>2 DEF MarkRunning, Lifecycle!Start, queue
    <3> QED BY <1>1, <3>1 DEF Lifecycle!Next
  <2> QED BY <1>3, <1>9, <2>1, <2>2 DEF MarkRunning
<1>10. CASE Lookup(t)
  BY <1>5, <1>7, <1>10 DEF Lookup, database
<1>11. CASE Rank(t)
  BY <1>5, <1>7, <1>11 DEF Rank, database
<1>12. CASE Store(t)
  BY <1>5, <1>7, <1>12 DEF Store, database
<1>13. CASE Persist(t)
  <2>1. CASE UNCHANGED database /\ Raise(t)
    BY <1>7, <2>1 DEF database
  <2>2. CASE /\ row' = [row EXCEPT ![j] = "succeeded"]
             /\ batches' = [batches EXCEPT ![j] = @ + 1] /\ UNCHANGED queue
    <3>1. row[j] = "running"
      BY <1>13 DEF Persist, Traceable, RunningAtWork
    <3>2. batches' = [batches EXCEPT ![j] = 1]
      BY <1>1, <2>2 DEF TypeOK
    <3>3. Lifecycle!Succeed(j)
      BY <1>2, <1>4, <2>2, <3>1, <3>2 DEF Lifecycle!Succeed, queue
    <3> QED BY <1>1, <3>3 DEF Lifecycle!Next
  <2> QED BY <1>3, <1>13, <2>1, <2>2 DEF Persist
<1>14. CASE MarkFailed(t)
  <2>1. CASE UNCHANGED row /\ Retry(t)
    BY <1>6, <1>14, <2>1 DEF MarkFailed
  <2>2. CASE row' = [row EXCEPT ![j] = "failed"] /\ UNCHANGED queue
    <3>1. Lifecycle!Fail(j)
      BY <1>2, <1>4, <1>14, <2>2 DEF MarkFailed, Lifecycle!Fail, queue
    <3> QED BY <1>1, <3>1 DEF Lifecycle!Next
  <2> QED BY <1>3, <1>14, <2>1, <2>2 DEF MarkFailed
<1> QED BY <1>8, <1>9, <1>10, <1>11, <1>12, <1>13, <1>14 DEF TaskStep, TaskDone

\* So is every other step: a request that commits creates its job, a process that ends abandons
\* what it carried, and the queue and the loop only stutter.
LEMMA LifecycleStep ==
    ASSUME ~LostAck, Safe, Traceable, [Next]_vars
    PROVE  [Lifecycle!Next]_(Lifecycle!vars)
<1>1. ASSUME NEW j \in Jobs, Submit(j) PROVE [Lifecycle!Next]_(Lifecycle!vars)
  <2>1. row[j] = "absent"
    BY <1>1 DEF Submit, Safe, RequestsPrecedeRows
  <2>2. UNCHANGED <<batches, lost, dlq>> /\ (UNCHANGED row \/ row' = [row EXCEPT ![j] = "queued"])
    BY <1>1 DEF Submit, Outcomes, Lands, Returns, queue
  <2>3. CASE UNCHANGED row
    BY <2>2, <2>3 DEF Lifecycle!vars
  <2>4. CASE row' = [row EXCEPT ![j] = "queued"]
    <3>1. Lifecycle!Create(j)
      BY <2>1, <2>2, <2>4 DEF Lifecycle!Create
    <3> QED BY <3>1 DEF Lifecycle!Next
  <2> QED BY <2>2, <2>3, <2>4
<1>2. ASSUME NEW t \in tasks, TaskStep(t) PROVE [Lifecycle!Next]_(Lifecycle!vars)
  <2>1. CASE t.pc = "done"
    BY <1>2, <2>1 DEF TaskStep, Check, MarkRunning, Lookup, Rank, Store, Persist, MarkFailed,
                      TaskDone, database, queue, process, Lifecycle!vars
  <2> QED BY <1>2, <2>1, TaskImplements
<1>3. ASSUME UNCHANGED <<row, batches>>,
             NEW S \in SUBSET Jobs, \A j \in S : Carried(j) \/ req[j] = "committed",
             Gone' = Gone \cup S
      PROVE  [Lifecycle!Next]_(Lifecycle!vars)
  <2>1. \A j \in S : row[j] \in {"queued", "running"}
    BY <1>3 DEF Safe, TypeOK, WorkIsUnfinished, RequestsPrecedeRows, Terminal, Traceable, CarriedHaveRows
  <2>2. Lifecycle!Abandon(S)
    BY <1>3, <2>1 DEF Lifecycle!Abandon, Lifecycle!Unfinished, Gone
  <2> QED BY <1>3, <2>2 DEF Lifecycle!Next
<1>4. CASE Stop
  <2> DEFINE S == {m.job : m \in hand}
  <2>1. S \in SUBSET Jobs /\ \A j \in S : Carried(j)
    BY DEF Safe, TypeOK, Message, Carried, Held
  <2>2. Gone' = Gone \cup S
    BY <1>4 DEF Stop, queue, Gone
  <2> HIDE DEF S
  <2> QED BY <1>3, <1>4, <2>1, <2>2 DEF Stop, database
<1>5. CASE Halt
  <2> DEFINE S == {j \in Jobs : Carried(j) \/ req[j] = "committed"}
  <2>1. \A m \in dlq : m.job \in S
    BY DEF Safe, TypeOK, Message, Carried, DeadLettered
  <2>2. Gone' = Gone \cup S
    BY <1>5, <2>1 DEF Halt, Gone
  <2>3. S \in SUBSET Jobs /\ \A j \in S : Carried(j) \/ req[j] = "committed"
    OBVIOUS
  <2> HIDE DEF S
  <2> QED BY <1>3, <1>5, <2>2, <2>3 DEF Halt, database
<1>6. CASE UNCHANGED <<row, batches, dlq, lost>>
  BY <1>6 DEF Lifecycle!vars
<1> QED BY <1>1, <1>2, <1>4, <1>5, <1>6
        DEF Next, Enqueue, Dequeue, StartTask, Expire, Exit, Crash, Restart, Idle,
            vars, database, queue, process

\* While every commit is acknowledged a client sees of a job what JobLifecycle promises: it
\* finishes once, its results appear with "succeeded", and an abandoned one stays unfinished.
THEOREM PipelineImplementsLifecycle == ASSUME ~LostAck PROVE Spec => ImplementsLifecycle
<1>1. Init => Lifecycle!Init /\ Traceable
  BY LifecycleInit DEF Init, Traceable, CarriedHaveRows, RunningAtWork, LostAreGone,
                       Carried, Queued, Held, Working, DeadLettered
<1>2. Safe /\ Traceable /\ [Next]_vars => Traceable'
  BY TraceableStep
<1>3. Safe /\ Traceable /\ [Next]_vars => [Lifecycle!Next]_(Lifecycle!vars)
  BY LifecycleStep
<1> QED BY <1>1, <1>2, <1>3, AlwaysSafe, PTL DEF Spec, ImplementsLifecycle, Lifecycle!Spec
=============================================================================
