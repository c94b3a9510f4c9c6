----------------------------- MODULE Ingestion -----------------------------
(***************************************************************************)
(* GitHub activity becomes evidence: syncs that the API runs in its process *)
(* (ingestion/sync.py, api/routers/developers.py) and the Celery tasks       *)
(* (ingestion/tasks.py), over one database and one graph. A worker executes  *)
(* one sync or task; its transaction sees what is committed and what it has  *)
(* written itself, a row another transaction has written makes it wait, and  *)
(* the database ends a wait that is circular by failing one of the waiting.  *)
(***************************************************************************)
EXTENDS Evidence

CONSTANTS Developers,   \* numbered
          GitHub,       \* [Developers -> sequence of repositories]
          ApiTasks,     \* workers that are asyncio tasks of the API
          CeleryWorkers,
          MaxRetries,   \* max_retries of a task
          MaxSyncs,     \* bound: syncs asked for
          MaxFaults     \* bound: crashes and failed calls

ASSUME IngestionAssumption ==
    /\ Developers \subseteq Nat /\ ApiTasks \cap CeleryWorkers = {}
    /\ MaxRetries \in Nat /\ MaxSyncs \in Nat /\ MaxFaults \in Nat

ASSUME GitHubAssumption == GitHub \in [Developers -> Seq(Repository)]

Workers == ApiTasks \cup CeleryWorkers

VARIABLES
  status,    \* [Developers -> sync_status]; "absent" without a row
  evidence,  \* committed evidence rows: [id, hash, dev]
  skills,    \* committed skill records: <<dev, skill>> -> [confidence, count]
  links,     \* committed links: [dev, skill, id, worth]
  task,      \* [Workers -> the execution in hand]
  work,      \* [Workers -> what its transaction has written]
  queue,     \* messages of the broker that nobody has
  dead,      \* messages dead-lettered, or only logged when the list is out of reach
  graph, index,
  syncs, faults

database == <<status, evidence, skills, links>>
running  == <<task, work>>
broker   == <<queue, dead>>
search   == <<graph, index>>
vars     == <<database, running, broker, search, syncs, faults>>

Idle   == [at |-> "idle"]
Unreported == [at |-> "unreported"]  \* idle, since its last sync ended without a report
NoMessage  == [kind |-> "none"]
NoArtifact == [hash |-> "none"]
NoWork == [rows |-> {}, records |-> <<>>, links |-> {}]
At(w, step) == task[w].at = step
Executing(w) == task[w].at \notin {"idle", "unreported", "lost"}
Goto(w, step) == task' = [task EXCEPT ![w].at = step]

Init ==
    /\ status = [d \in Developers |-> "absent"]
    /\ evidence = {} /\ skills = <<>> /\ links = {}
    /\ task = [w \in Workers |-> Idle] /\ work = [w \in Workers |-> NoWork]
    /\ queue = {} /\ dead = {} /\ graph = NoGraph /\ index = NoIndex
    /\ syncs = 0 /\ faults = 0

Faulty == faults < MaxFaults /\ faults' = faults + 1
Fresh == syncs < MaxSyncs /\ syncs' = syncs + 1

(* Syncs: asked of the API, or enqueued by beat *)

Execution(kind, dev, step) ==
    [kind |-> kind, dev |-> dev, at |-> step, todo |-> <<>>, fetched |-> {}, message |-> NoMessage,
     skills |-> <<>>, complexity |-> 0, id |-> <<>>, seen |-> Nothing]

\* connect_github commits the developer, resync finds one; both spawn a sync.
Connect(w, d) ==
    /\ w \in ApiTasks /\ task[w].at \in {"idle", "unreported"} /\ Fresh
    /\ status' = [status EXCEPT ![d] = IF @ = "absent" THEN "pending" ELSE @]
    /\ task' = [task EXCEPT ![w] = Execution("sync", d, "start")]
    /\ UNCHANGED <<evidence, skills, links, work, broker, search, faults>>

Message(kind, d, artifact) ==
    [kind |-> kind, dev |-> d, artifact |-> artifact, sync |-> syncs, retries |-> 0]

\* list_syncable leaves out whoever is "syncing".
Syncable == {d \in Developers : status[d] \notin {"absent", "syncing"}}

\* The broker may fail on the way, after some of the messages; nobody asks for the rest again.
SyncAllDevelopers ==
    /\ Fresh
    /\ \E sent \in SUBSET Syncable :
          /\ queue' = queue \cup {Message("fanout", d, NoArtifact) : d \in sent}
          /\ IF sent = Syncable THEN UNCHANGED faults ELSE Faulty
    /\ UNCHANGED <<database, running, dead, search>>

\* Mutant of Unacked: the message is gone from the broker once a worker has it.
AckedEarly(message) == {}

\* task_acks_late: a message whose worker is lost goes back to the broker.
Unacked(message) == IF message = NoMessage THEN {} ELSE {message}

Take(w, m) ==
    /\ w \in CeleryWorkers /\ At(w, "idle") /\ m \in queue
    /\ queue' = queue \ {m}
    /\ task' = [task EXCEPT ![w] =
                   IF m.kind = "fanout"
                   THEN [Execution("fanout", m.dev, "start") EXCEPT !.message = m]
                   ELSE [Execution("index", m.dev, "check") EXCEPT !.message = m, !.todo = <<m.artifact>>]]
    /\ UNCHANGED <<database, work, dead, search, syncs, faults>>

\* The row says "syncing" before GitHub is asked.
Start(w) ==
    /\ At(w, "start") /\ Goto(w, "fetch")
    /\ status' = [status EXCEPT ![task[w].dev] = "syncing"]
    /\ UNCHANGED <<evidence, skills, links, work, broker, search, syncs, faults>>

\* The artifacts that have a text; the others are skipped.
Texts(todo) == {a \in Range(todo) : ~a.blank}

\* fetch_developer_signals
Fetch(w) ==
    LET todo == Parse(GitHub[task[w].dev])
    IN  /\ At(w, "fetch")
        /\ task' = [task EXCEPT ![w].at = IF task[w].kind = "sync" THEN "check" ELSE "enqueue",
                                ![w].todo = todo, ![w].fetched = {a.hash : a \in Texts(todo)}]
        /\ UNCHANGED <<database, work, broker, search, syncs, faults>>

\* _fanout sends one task for each artifact with a text.
Enqueue(w) ==
    /\ At(w, "enqueue") /\ task[w].todo # <<>>
    /\ queue' = queue \cup {[Message("index", task[w].dev, a) EXCEPT !.sync = task[w].message.sync] :
                               a \in {Head(task[w].todo)} \cap Texts(task[w].todo)}
    /\ task' = [task EXCEPT ![w].todo = Tail(@)]
    /\ UNCHANGED <<database, work, dead, search, syncs, faults>>

(* summarise_and_index, in the transaction of w *)

\* Mutant of Rows: what other transactions have written and may still take back counts as indexed.
DirtyRows(w) == evidence \cup UNION {work[v].rows : v \in Workers}

Rows(w) == evidence \cup work[w].rows
Indexed(w, a) == \E row \in Rows(w) : row.hash = a.hash
Records(w) == Over(skills, work[w].records)

\* The row of the next artifact, or of the next skill of the artifact in hand.
NextRow(t) == IF t.skills = <<>> THEN [t EXCEPT !.at = "check", !.todo = Tail(@)] ELSE [t EXCEPT !.at = "read"]

Check(w) ==
    /\ At(w, "check") /\ task[w].todo # <<>>
    /\ LET a == Head(task[w].todo)
       IN  IF a.blank \/ Indexed(w, a) THEN task' = [task EXCEPT ![w].todo = Tail(@)]
           ELSE \E summary \in Summaries(a) :
                   task' = [task EXCEPT ![w].at = "insert", ![w].skills = summary.skills,
                                        ![w].complexity = summary.complexity]
    /\ UNCHANGED <<database, work, broker, search, syncs, faults>>

\* The transactions that have written the row w is about to write.
Hash(w) == Head(task[w].todo).hash
Key(w) == <<task[w].dev, Head(task[w].skills)>>
WaitsFor(w) ==
    {v \in Workers \ {w} : \/ At(w, "insert") /\ \E row \in work[v].rows : row.hash = Hash(w)
                           \/ At(w, "write") /\ Key(w) \in DOMAIN work[v].records}

\* Mutant of Unique: content_hash has no unique constraint.
NotUnique(w) == TRUE

\* The unique constraints, against what others have committed since w looked.
Unique(w) ==
    /\ At(w, "insert") => \A row \in evidence : row.hash # Hash(w)
    /\ At(w, "write") /\ task[w].seen = Nothing => Key(w) \notin DOMAIN skills

Insert(w) ==
    /\ At(w, "insert") /\ WaitsFor(w) = {} /\ Unique(w)
    /\ LET row == [id |-> <<Hash(w), Cardinality({a \in graph.artifacts : a.id[1] = Hash(w)})>>,
                   hash |-> Hash(w), dev |-> task[w].dev]
       IN  /\ work' = [work EXCEPT ![w].rows = @ \cup {row}]
           /\ task' = [task EXCEPT ![w] = NextRow([@ EXCEPT !.id = row.id])]
    /\ UNCHANGED <<database, broker, search, syncs, faults>>

\* SkillRepository.upsert selects the record, then writes what it computed from it.
ReadSkill(w) ==
    /\ At(w, "read")
    /\ task' = [task EXCEPT ![w].at = "write", ![w].seen = EntryOf(Records(w), Key(w))]
    /\ UNCHANGED <<database, work, broker, search, syncs, faults>>

\* The record, its link, and the graph, whose failure is only logged.
WriteSkill(w) ==
    LET t == task[w]
        worth == Contribution(Head(t.todo), t.complexity)
        row == [id |-> t.id, complexity |-> t.complexity]
    IN  /\ At(w, "write") /\ WaitsFor(w) = {} /\ Unique(w)
        /\ work' = [work EXCEPT ![w].records = WithEntry(@, Key(w), Accumulate(t.seen, worth)),
                                ![w].links = @ \cup {[dev |-> t.dev, skill |-> Key(w)[2], id |-> t.id]}]
        /\ \/ graph' = WithEvidence(graph, t.dev, Key(w)[2], row, worth) /\ UNCHANGED faults
           \/ Faulty /\ UNCHANGED graph
        /\ task' = [task EXCEPT ![w] = NextRow([t EXCEPT !.skills = Tail(@)])]
        /\ UNCHANGED <<database, broker, index, syncs>>

\* The artifacts are indexed or the tasks for them sent; an index task is acknowledged then.
Commit(w) ==
    /\ At(w, "check") /\ task[w].todo = <<>>
    /\ evidence' = evidence \cup work[w].rows /\ skills' = Records(w) /\ links' = links \cup work[w].links
    /\ work' = [work EXCEPT ![w] = NoWork]
    /\ task' = [task EXCEPT ![w] = IF @.kind = "sync" THEN [@ EXCEPT !.at = "mark"] ELSE Idle]
    /\ UNCHANGED <<status, broker, search, syncs, faults>>

Enqueued(w) ==
    /\ At(w, "enqueue") /\ task[w].todo = <<>> /\ Goto(w, "mark")
    /\ UNCHANGED <<database, work, broker, search, syncs, faults>>

MarkSynced(w) ==
    /\ At(w, "mark")
    /\ status' = [status EXCEPT ![task[w].dev] = "done"]
    /\ task' = [task EXCEPT ![w] = Idle]
    /\ UNCHANGED <<evidence, skills, links, work, broker, search, syncs, faults>>

(* Failures *)

\* Mutant of AfterFailure: nobody catches the exception of a sync.
NobodyCatches(t) == Idle

\* _safe_sync catches the failure of a sync to record it, and nobody catches that of the record; Celery
\* deals with the failure of a task.
AfterFailure(t) ==
    IF t.kind # "sync" THEN Idle
    ELSE IF t.at = "failed" THEN Unreported ELSE [t EXCEPT !.at = "failed"]

\* The exception rolls back and leaves the task: retried, or dead-lettered after the last retry.
Raise(w) ==
    LET m == task[w].message
    IN  /\ work' = [work EXCEPT ![w] = NoWork]
        /\ task' = [task EXCEPT ![w] = AfterFailure(@)]
        /\ IF m = NoMessage THEN UNCHANGED broker
           ELSE IF m.retries < MaxRetries
           THEN queue' = queue \cup {[m EXCEPT !.retries = @ + 1]} /\ UNCHANGED dead
           ELSE dead' = dead \cup {m} /\ UNCHANGED queue
        /\ UNCHANGED <<database, search, syncs>>

\* GitHub, the graph at the start of a sync, or the database fails, also when it is told of a failure.
Fail(w) == Executing(w) /\ Faulty /\ Raise(w)

ConstraintViolated(w) == WaitsFor(w) = {} /\ ~Unique(w) /\ Raise(w) /\ UNCHANGED faults

\* Everyone in V waits for another of V, and the database fails w.
DeadlockVictim(w) ==
    /\ \E V \in SUBSET Workers : w \in V /\ \A v \in V : WaitsFor(v) \cap V # {}
    /\ Raise(w) /\ UNCHANGED faults

SetError(w) ==
    /\ At(w, "failed")
    /\ status' = [status EXCEPT ![task[w].dev] = "error"]
    /\ task' = [task EXCEPT ![w] = Idle]
    /\ UNCHANGED <<evidence, skills, links, work, broker, search, syncs, faults>>

\* The process is gone. A Celery worker is replaced; what the API ran is not resumed.
Crash(w) ==
    /\ Executing(w) /\ Faulty
    /\ queue' = queue \cup Unacked(task[w].message)
    /\ task' = [task EXCEPT ![w] = IF w \in ApiTasks THEN [Idle EXCEPT !.at = "lost"] ELSE Idle]
    /\ work' = [work EXCEPT ![w] = NoWork]
    /\ UNCHANGED <<database, dead, search, syncs>>

\* A search builds the semantic index again when the amount of evidence has changed.
Search == /\ graph.artifacts # {} /\ index' = GetIndex(index, graph)
          /\ UNCHANGED <<database, running, broker, graph, syncs, faults>>

Step(w) == \/ Start(w) \/ Fetch(w) \/ Enqueue(w) \/ Enqueued(w) \/ Check(w) \/ Insert(w) \/ ReadSkill(w)
           \/ WriteSkill(w) \/ Commit(w) \/ MarkSynced(w) \/ SetError(w)
           \/ ConstraintViolated(w) \/ DeadlockVictim(w)

Next == \/ \E w \in Workers : Step(w) \/ Fail(w) \/ Crash(w)
        \/ \E w \in Workers, d \in Developers : Connect(w, d)
        \/ \E w \in Workers, m \in queue : Take(w, m)
        \/ SyncAllDevelopers \/ Search

Fairness == \A w \in Workers : WF_vars(Step(w))

Spec == Init /\ [][Next]_vars /\ Fairness

(* Properties *)

\* The database tells one story: an artifact is one row whoever synced it and however often, a link
\* joins a row and a record of one developer, and a record never counts evidence that is not linked.
RecordsAreBacked ==
    /\ \A r, q \in evidence : r.hash = q.hash => r = q
    /\ \A l \in links : /\ <<l.dev, l.skill>> \in DOMAIN skills
                        /\ \E row \in evidence : row.id = l.id /\ row.dev = l.dev
    /\ \A key \in DOMAIN skills :
          skills[key].count \in 1..Cardinality({l \in links : <<l.dev, l.skill>> = key})

\* A sync reports "done" only when everything it fetched is committed, also what another transaction
\* was indexing at the same time.
DoneMeansIndexed ==
    \A w \in Workers : At(w, "mark") /\ task[w].kind = "sync" =>
        task[w].fetched \subseteq {row.hash : row \in evidence}

InHand == {task[w].message : w \in {w \in Workers : Executing(w)}} \ {NoMessage}
Waiting == queue \cup InHand

\* No artifact is dropped on its way through the queue: the task of an artifact stays in the broker,
\* through crashes and retries, until the artifact is evidence or the task is dead-lettered.
NoSilentDrop ==
    [][\A m \in Waiting : m.kind = "index" =>
          \/ \E n \in Waiting' \cup dead' : n.artifact = m.artifact /\ n.dev = m.dev
          \/ \E row \in evidence' : row.hash = m.artifact.hash]_vars

\* Every sync of the API ends, its waits for other transactions too, and never leaves its developer
\* "syncing" when it does: success or failure is in the row by then, unless the report itself has failed
\* or the sync was lost with its process.
SyncReports ==
    /\ [][\A w \in ApiTasks : Executing(w) /\ ~Executing(w)' =>
             At(w, "unreported")' \/ At(w, "lost")' \/ status'[task[w].dev] # "syncing"]_vars
    /\ \A w \in ApiTasks : Executing(w) ~> ~Executing(w)

\* While the evidence fits into one answer of the index, whoever has some is found unless the answer is
\* full, whatever the index was built of; and one that both retrievers put first comes first.
SearchFindsEveryone ==
    \A query \in [skill : {key[2] : key \in DOMAIN graph.edges}, hints : SUBSET {"production", "debug"}] :
        LET answer == Answer(graph, index, query)
            structured == Structured(graph, query)
            semantic == Semantic(GetIndex(index, graph), query)
        IN  /\ Cardinality(graph.artifacts) <= VectorTopK =>
                  \A a \in graph.artifacts : a.dev \in Range(answer) \/ Len(answer) = Limit
            /\ structured # <<>> /\ structured[1] = semantic[1] => answer[1] = structured[1]

\* sync.py: "Idempotent on content_hash so re-running a sync is a no-op". Then no edge of the graph
\* counts more evidence than GitHub has artifacts that can demonstrate the skill.
GraphCountsOnce ==
    \A key \in DOMAIN graph.edges :
        graph.edges[key].count <=
            Cardinality({a \in Range(Parse(GitHub[key[1]])) :
                            \E summary \in Summaries(a) : key[2] \in Range(summary.skills)})
=============================================================================
