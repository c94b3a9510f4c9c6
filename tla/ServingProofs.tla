--------------------------- MODULE ServingProofs ---------------------------
(* Invariants of Serving for every set of requests and admins, every capacity, *)
(* limit and size.                                                            *)
EXTENDS Serving, SequenceTheorems, FiniteSetTheorems, WellFoundedInduction, TLAPS

Steps == {"matrix", "validate", "ids", "spec", "embeddings", "bm25", "manifest"}

\* The fields a reload has assigned before each of its steps.
Loaded == [matrix |-> {}, validate |-> {"matrix"}, ids |-> {"matrix"}, spec |-> {"matrix", "ids"},
           embeddings |-> {"matrix", "ids", "spec"}, bm25 |-> {"matrix", "ids", "spec", "embeddings"},
           manifest |-> {"matrix", "ids", "spec", "embeddings", "bm25"}]

Busy == [at : {"write"} \cup Steps, gen : Nat, next : 1..Len(Writes), mine : SUBSET Files]
Thread == [at : {"idle"}] \cup Busy

ReloadType ==
    /\ thread \in [Admins -> Thread] /\ settled \in SUBSET Files /\ built \in Nat \ {0}
    /\ disk \in [Files -> Nat] /\ ranker \in [Fields -> Nat]

\* A thread nothing has overlapped with finds what it has written and assigned itself, but for what
\* it has failed to write or to load.
OwnsMine(a) ==
    thread[a].at # "idle" /\ thread[a].mine # {} =>
        /\ Alone(a)
        /\ thread[a].at = "write" =>
              \A i \in 1..(thread[a].next - 1) : Writes[i] \in thread[a].mine => disk[Writes[i]] = thread[a].gen
        /\ thread[a].at \in Steps =>
              /\ \A f \in thread[a].mine : disk[f] = thread[a].gen
              /\ \A f \in Loaded[thread[a].at] \cap thread[a].mine : ranker[f] = thread[a].gen

\* Nobody writes or loads once a reload has settled.
SettledIsQuiet == settled # {} => \A a \in Admins : thread[a].at = "idle"

Orderly == ReloadType /\ (\A a \in Admins : OwnsMine(a)) /\ SettledIsQuiet /\ SettledFieldsAgree

LEMMA WritesCoverFiles == /\ Len(Writes) = 8
                          /\ \A f \in Files : \E i \in 1..8 : Writes[i] = f
                          /\ \A i \in 1..8 : Writes[i] \in Files
                          /\ Fields \subseteq Files /\ {"meta", "model"} \subseteq Files
<1>1. Len(Writes) = 8 /\ DOMAIN Writes = 1..8
  BY DEF Writes
<1>2. /\ Writes[1] = "spec" /\ Writes[2] = "embeddings" /\ Writes[3] = "meta" /\ Writes[4] = "bm25"
      /\ Writes[5] = "model" /\ Writes[6] = "matrix" /\ Writes[7] = "ids" /\ Writes[8] = "manifest"
  BY DEF Writes
<1> HIDE DEF Writes
<1>3. /\ \A f \in Files : \E i \in 1..8 : Writes[i] = f
      /\ \A i \in 1..8 : Writes[i] \in Files
  BY <1>1 DEF Files, Range
<1> QED BY <1>1, <1>2, <1>3 DEF Fields

\* A service that has loaded the first precompute is settled.
LEMMA OrderlyInit == Init => Orderly
<1> SUFFICES ASSUME Init PROVE Orderly
  OBVIOUS
<1>1. ReloadType
  BY DEF Init, ReloadType, Thread
<1>2. \A a \in Admins : OwnsMine(a)
  BY DEF Init, OwnsMine
<1>3. SettledIsQuiet
  BY DEF Init, SettledIsQuiet
<1>4. SettledFieldsAgree
  BY DEF Init, SettledFieldsAgree
<1> QED BY <1>1, <1>2, <1>3, <1>4 DEF Orderly

\* Requests and the clock touch neither the files nor the fields.
LEMMA OrderlyUntouched ==
    ASSUME Orderly, UNCHANGED <<files, loading>> PROVE Orderly'
BY DEF Orderly, ReloadType, OwnsMine, SettledIsQuiet, SettledFieldsAgree, Alone, files, loading

\* What is read of a file is a precompute or a part of a file; when nobody writes it is the file.
LEMMA ReadsAreContents ==
    ASSUME ReloadType, NEW f \in Files
    PROVE  /\ Reads(f) \subseteq Nat /\ disk[f] \in Reads(f)
           /\ (\A a \in Admins : thread[a].at # "write") => Reads(f) = {disk[f]}
BY DEF ReloadType, Reads, Torn

\* A thread at work leaves nothing settled.
LEMMA BusyUnsettles ==
    ASSUME Orderly, NEW a \in Admins, thread[a].at # "idle" PROVE settled = {} /\ thread[a] \in Busy
BY DEF Orderly, SettledIsQuiet, ReloadType, Thread

\* Nobody else claims anything while a thread is at work.
LEMMA OneClaims ==
    ASSUME Orderly, NEW a \in Admins, thread[a].at # "idle", NEW b \in Admins, b # a, thread[b].at # "idle"
    PROVE  thread[b].mine = {}
BY DEF Orderly, OwnsMine, Alone

\* Nothing is settled before or after a step of a thread that goes on or gives up.
LEMMA StaysUnsettled ==
    ASSUME settled = {}, settled' = {} PROVE SettledIsQuiet' /\ SettledFieldsAgree'
BY DEF SettledIsQuiet, SettledFieldsAgree

\* A new thread takes the claims of all others.
LEMMA OrderlyTrigger ==
    ASSUME Orderly, NEW a \in Admins, TriggerPrecompute(a) PROVE Orderly'
<1> DEFINE new == [at |-> "write", gen |-> built', next |-> 1, mine |-> IF Alone(a) THEN Files ELSE {}]
<1>1. ReloadType
  BY DEF Orderly
<1>2. new \in Busy /\ new.next = 1 /\ new.at = "write" /\ (new.mine # {} => Alone(a))
  <2>1. built' \in Nat
    BY <1>1 DEF ReloadType, TriggerPrecompute
  <2> QED BY <2>1, WritesCoverFiles DEF Busy
<1> HIDE DEF new
<1>3. /\ thread'[a] = new
      /\ \A b \in Admins \ {a} : thread'[b] = IF thread[b].at = "idle" THEN thread[b]
                                              ELSE [thread[b] EXCEPT !.mine = {}]
      /\ thread' = [b \in Admins |-> thread'[b]]
  BY DEF TriggerPrecompute, new
<1>4. ASSUME NEW b \in Admins
      PROVE  thread'[b] \in Thread /\ (thread'[b].at # "idle" /\ thread'[b].mine # {} => b = a)
  <2>1. CASE b = a
    BY <1>2, <1>3, <2>1 DEF Thread
  <2>2. CASE b # a /\ thread[b].at = "idle"
    BY <1>1, <1>3, <2>2 DEF ReloadType
  <2>3. CASE b # a /\ thread[b].at # "idle"
    <3>1. thread[b] \in Busy /\ thread'[b] = [thread[b] EXCEPT !.mine = {}]
      BY <1>3, <2>3, BusyUnsettles
    <3> QED BY <3>1 DEF Busy, Thread
  <2> QED BY <2>1, <2>2, <2>3
<1>5. ReloadType'
  <2>1. thread' \in [Admins -> Thread]
    BY <1>3, <1>4
  <2>2. disk' = disk /\ ranker' = ranker /\ settled' = {} /\ built' = built + 1
    BY DEF TriggerPrecompute
  <2>3. built' \in Nat \ {0}
    BY <1>1, <2>2 DEF ReloadType
  <2> QED BY <1>1, <2>1, <2>2, <2>3 DEF ReloadType
<1>6. ASSUME NEW b \in Admins PROVE OwnsMine(b)'
  <2> SUFFICES ASSUME thread'[b].at # "idle", thread'[b].mine # {}
               PROVE  /\ Alone(b)' /\ thread'[b].next = 1 /\ thread'[b].at \notin Steps
    BY DEF OwnsMine
  <2>1. b = a
    BY <1>4
  <2>2. Alone(b)'
    BY <1>2, <1>3, <2>1 DEF Alone
  <2> QED BY <1>2, <1>3, <2>1, <2>2 DEF Steps
<1>7. SettledIsQuiet' /\ SettledFieldsAgree'
  BY DEF TriggerPrecompute, SettledIsQuiet, SettledFieldsAgree
<1> QED BY <1>5, <1>6, <1>7 DEF Orderly

\* A file gets its content while nobody else claims anything.
LEMMA OrderlyWrite ==
    ASSUME Orderly, NEW a \in Admins, NEW content \in Nat, NEW mine \in SUBSET thread[a].mine,
           WriteAs(a, content, mine), Writes[thread[a].next] \in mine => content = thread[a].gen
    PROVE  Orderly'
<1> DEFINE t == thread[a]
<1>1. ReloadType /\ \A b \in Admins : OwnsMine(b)
  BY DEF Orderly
<1>2. /\ t \in Busy /\ t.at = "write" /\ settled = {} /\ settled' = {} /\ ranker' = ranker /\ built' = built
      /\ disk' = [disk EXCEPT ![Writes[t.next]] = content]
  BY BusyUnsettles DEF WriteAs
<1>3. t.next \in 1..8 /\ mine \in SUBSET Files /\ Writes[t.next] \in Files
  BY <1>2, WritesCoverFiles DEF Busy
<1>4. /\ thread' \in [Admins -> Thread] /\ thread'[a].gen = t.gen /\ thread'[a].mine = mine
      /\ \A b \in Admins \ {a} : thread'[b] = thread[b]
      /\ \/ thread'[a].at = "write" /\ thread'[a].next = t.next + 1
         \/ thread'[a].at = "matrix" /\ t.next = 8
  <2>1. CASE t.next < 8
    <3> DEFINE u == [t EXCEPT !.next = @ + 1, !.mine = mine]
    <3>1. u \in Thread /\ u.gen = t.gen /\ u.mine = mine /\ u.at = "write" /\ u.next = t.next + 1
      <4>1. t.next + 1 \in 1..Len(Writes)
        BY <1>3, <2>1, WritesCoverFiles
      <4>2. t \in Busy /\ t.at = "write" /\ mine \in SUBSET Files
        BY <1>2, <1>3
      <4> HIDE DEF t
      <4> QED BY <4>1, <4>2 DEF Busy, Thread
    <3>2. thread' = [thread EXCEPT ![a] = u]
      BY <2>1, WritesCoverFiles DEF WriteAs
    <3> HIDE DEF u
    <3> QED BY <1>1, <3>1, <3>2 DEF ReloadType
  <2>2. CASE t.next = 8
    <3> DEFINE u == [t EXCEPT !.at = "matrix", !.mine = mine]
    <3>1. u \in Thread /\ u.gen = t.gen /\ u.mine = mine /\ u.at = "matrix"
      BY <1>2, <1>3 DEF Busy, Thread, Steps
    <3>2. thread' = [thread EXCEPT ![a] = u]
      BY <2>2, WritesCoverFiles DEF WriteAs
    <3> HIDE DEF u
    <3> QED BY <1>1, <2>2, <3>1, <3>2 DEF ReloadType
  <2> QED BY <1>3, <2>1, <2>2
<1>5. ReloadType'
  BY <1>1, <1>2, <1>3, <1>4 DEF ReloadType
<1>6. ASSUME NEW b \in Admins PROVE OwnsMine(b)'
  <2> SUFFICES ASSUME thread'[b].at # "idle", thread'[b].mine # {}
               PROVE  /\ Alone(b)'
                      /\ thread'[b].at = "write" =>
                            \A i \in 1..(thread'[b].next - 1) :
                               Writes[i] \in thread'[b].mine => disk'[Writes[i]] = thread'[b].gen
                      /\ thread'[b].at \in Steps =>
                            /\ \A f \in thread'[b].mine : disk'[f] = thread'[b].gen
                            /\ \A f \in Loaded[thread'[b].at] \cap thread'[b].mine : ranker'[f] = thread'[b].gen
    BY DEF OwnsMine
  <2>1. b = a
    BY <1>2, <1>4, OneClaims
  <2>2. Alone(a) /\ \A i \in 1..(t.next - 1) : Writes[i] \in t.mine => disk[Writes[i]] = t.gen
    BY <1>1, <1>2, <1>4, <2>1 DEF OwnsMine
  <2>3. \A i \in 1..t.next : Writes[i] \in mine => disk'[Writes[i]] = t.gen
    <3>1. ASSUME NEW i \in 1..t.next, Writes[i] \in mine, Writes[i] # Writes[t.next] PROVE disk'[Writes[i]] = t.gen
      <4>1. i \in 1..(t.next - 1) /\ Writes[i] \in t.mine /\ disk'[Writes[i]] = disk[Writes[i]]
        BY <1>1, <1>2, <1>3, <3>1, WritesCoverFiles DEF ReloadType
      <4> QED BY <2>2, <4>1
    <3>2. disk'[Writes[t.next]] = content
      BY <1>1, <1>2, <1>3 DEF ReloadType
    <3> QED BY <3>1, <3>2
  <2>4. Alone(b)'
    BY <1>4, <2>1, <2>2 DEF Alone
  <2>5. Loaded["matrix"] = {}
    BY DEF Loaded
  <2>6. CASE thread'[a].at = "write" /\ thread'[a].next = t.next + 1
    BY <1>3, <1>4, <2>1, <2>3, <2>4, <2>6 DEF Steps
  <2>7. CASE thread'[a].at = "matrix" /\ t.next = 8
    <3>1. \A f \in mine : disk'[f] = t.gen
      BY <1>3, <2>3, <2>7, WritesCoverFiles
    <3> QED BY <1>4, <2>1, <2>4, <2>5, <2>7, <3>1 DEF Steps
  <2> QED BY <1>4, <2>6, <2>7
<1>7. SettledIsQuiet' /\ SettledFieldsAgree'
  BY <1>2, StaysUnsettled
<1> QED BY <1>5, <1>6, <1>7 DEF Orderly

\* A step of a reload changes one thread, and no file.
LEMMA OrderlyLoad ==
    ASSUME Orderly, NEW a \in Admins, thread[a].at \in Steps, UNCHANGED <<disk, built, settled>>,
           ranker' \in [Fields -> Nat], thread' \in [Admins -> Thread],
           \A b \in Admins \ {a} : thread'[b] = thread[b],
           thread'[a].at # "idle" /\ thread'[a].mine # {} =>
               /\ thread'[a].mine \subseteq thread[a].mine /\ thread'[a].gen = thread[a].gen
               /\ thread'[a].at \in Steps
               /\ \A f \in Loaded[thread'[a].at] \cap thread'[a].mine :
                     ranker'[f] = IF f \in Loaded[thread[a].at] THEN thread[a].gen ELSE disk[f]
    PROVE  Orderly'
<1>1. ReloadType /\ \A b \in Admins : OwnsMine(b)
  BY DEF Orderly
<1>2. thread[a].at # "idle" /\ settled = {} /\ settled' = {}
  BY BusyUnsettles DEF Steps
<1>3. ReloadType'
  BY <1>1 DEF ReloadType
<1>4. ASSUME NEW b \in Admins PROVE OwnsMine(b)'
  <2> SUFFICES ASSUME thread'[b].at # "idle", thread'[b].mine # {}
               PROVE  /\ Alone(b)' /\ thread'[b].at \in Steps
                      /\ \A f \in thread'[b].mine : disk'[f] = thread'[b].gen
                      /\ \A f \in Loaded[thread'[b].at] \cap thread'[b].mine : ranker'[f] = thread'[b].gen
    BY DEF OwnsMine, Steps
  <2>1. b = a
    BY <1>2, OneClaims
  <2>2. Alone(a) /\ \A f \in thread[a].mine : disk[f] = thread[a].gen
    BY <1>1, <1>2, <2>1 DEF OwnsMine
  <2>3. Alone(b)'
    BY <2>1, <2>2 DEF Alone
  <2> QED BY <2>1, <2>2, <2>3
<1>5. SettledIsQuiet' /\ SettledFieldsAgree'
  BY <1>2, StaysUnsettled
<1> QED BY <1>3, <1>4, <1>5 DEF Orderly

\* A thread moves on to a step of its reload, and keeps its claims.
LEMMA ThreadGoesOn ==
    ASSUME Orderly, NEW a \in Admins, thread[a].at # "idle", NEW s \in Steps, thread' = [thread EXCEPT ![a].at = s]
    PROVE  /\ thread' \in [Admins -> Thread]
           /\ thread'[a].at = s /\ thread'[a].gen = thread[a].gen /\ thread'[a].mine = thread[a].mine
           /\ \A b \in Admins \ {a} : thread'[b] = thread[b]
<1> DEFINE u == [thread[a] EXCEPT !.at = s]
<1>1. thread[a] \in Busy /\ thread \in [Admins -> Thread]
  BY BusyUnsettles DEF Orderly, ReloadType
<1>2. u \in Thread /\ u.at = s /\ u.gen = thread[a].gen /\ u.mine = thread[a].mine
  BY <1>1 DEF Busy, Thread
<1>3. thread' = [thread EXCEPT ![a] = u]
  OBVIOUS
<1> HIDE DEF u
<1> QED BY <1>1, <1>2, <1>3

\* What a thread assigns is what it wrote, when nobody overlaps with it.
LEMMA OrderlyAssign ==
    ASSUME Orderly, NEW a \in Admins, NEW field \in Steps \cap Fields, NEW next \in Steps,
           NEW content \in Reads(field), Assign(a, field, content, next),
           Loaded[next] = Loaded[field] \cup {field}, field \notin Loaded[field]
    PROVE  Orderly'
<1>1. ReloadType /\ OwnsMine(a) /\ field \in Files
  BY WritesCoverFiles DEF Orderly
<1>2. /\ ranker' = [ranker EXCEPT ![field] = content] /\ UNCHANGED <<disk, built, settled>>
      /\ thread[a].at = field /\ thread' = [thread EXCEPT ![a].at = next]
  BY DEF Assign, files
<1>3. content \in Nat /\ ranker' \in [Fields -> Nat]
  BY <1>1, <1>2, ReadsAreContents DEF ReloadType
<1>4. thread[a].at # "idle" /\ thread[a].at # "write"
  BY <1>2 DEF Steps
<1>5. /\ thread' \in [Admins -> Thread] /\ thread'[a].at = next /\ thread'[a].gen = thread[a].gen
      /\ thread'[a].mine = thread[a].mine /\ \A b \in Admins \ {a} : thread'[b] = thread[b]
  BY <1>2, <1>4, ThreadGoesOn
<1>6. ASSUME thread[a].mine # {}, NEW f \in Loaded[next] \cap thread[a].mine
      PROVE  ranker'[f] = IF f \in Loaded[field] THEN thread[a].gen ELSE disk[f]
  <2>1. Alone(a) /\ (f \in Loaded[field] => ranker[f] = thread[a].gen)
    BY <1>1, <1>2, <1>4, <1>6 DEF OwnsMine
  <2>2. \A b \in Admins : thread[b].at # "write"
    BY <1>4, <2>1 DEF Alone
  <2>3. content = disk[field]
    BY <1>1, <2>2, ReadsAreContents
  <2>4. f \in Fields
    BY DEF Loaded, Steps, Fields
  <2> QED BY <1>1, <1>2, <2>1, <2>3, <2>4 DEF ReloadType
<1> QED BY <1>2, <1>3, <1>5, <1>6, OrderlyLoad

\* A file that is whole is assigned as it is.
LEMMA OrderlyAssignWhole ==
    ASSUME Orderly, NEW a \in Admins, NEW field \in Steps \cap Fields, NEW next \in Steps,
           AssignWhole(a, field, next), Loaded[next] = Loaded[field] \cup {field}, field \notin Loaded[field]
    PROVE  Orderly'
<1>1. disk[field] \in Reads(field)
  BY DEF Reads
<1> QED BY <1>1, OrderlyAssign DEF AssignWhole

\* A field that cannot be loaded is claimed no more.
LEMMA OrderlySkip ==
    ASSUME Orderly, NEW a \in Admins, NEW field \in Steps, NEW next \in Steps, Skip(a, field, next),
           Loaded[next] = Loaded[field] \cup {field}
    PROVE  Orderly'
<1> DEFINE mine == thread[a].mine \ {field}
<1>1. ReloadType /\ OwnsMine(a)
  BY DEF Orderly
<1>2. thread[a].at = field /\ thread[a].at # "idle" /\ UNCHANGED <<disk, built, settled, ranker>>
  BY DEF Skip, files, Steps
<1>3. thread' = [thread EXCEPT ![a].at = next, ![a].mine = mine] /\ mine \in SUBSET thread[a].mine
  BY DEF Skip
<1>4. field \notin mine
  OBVIOUS
<1> HIDE DEF mine
<1>5. /\ thread' \in [Admins -> Thread] /\ thread'[a].at = next /\ thread'[a].gen = thread[a].gen
      /\ thread'[a].mine = mine /\ \A b \in Admins \ {a} : thread'[b] = thread[b]
  <2> DEFINE u == [thread[a] EXCEPT !.at = next, !.mine = mine]
  <2>1. thread[a] \in Busy /\ thread \in [Admins -> Thread]
    BY <1>1, <1>2, BusyUnsettles DEF ReloadType
  <2>2. u \in Thread /\ u.at = next /\ u.gen = thread[a].gen /\ u.mine = mine
    BY <1>3, <2>1 DEF Busy, Thread
  <2>3. thread' = [thread EXCEPT ![a] = u]
    BY <1>3
  <2> HIDE DEF u
  <2> QED BY <2>1, <2>2, <2>3
<1>6. \A f \in Loaded[next] \cap mine : f \in Loaded[field] /\ ranker[f] = thread[a].gen
  BY <1>1, <1>2, <1>3, <1>4 DEF OwnsMine
<1> QED BY <1>1, <1>2, <1>3, <1>5, <1>6, OrderlyLoad DEF ReloadType

\* A thread that gives up leaves what it wrote, and nobody has settled.
LEMMA OrderlyQuit ==
    ASSUME Orderly, NEW a \in Admins, thread[a].at # "idle", UNCHANGED <<built, settled, ranker>>,
           disk' \in [Files -> Nat], thread' = [thread EXCEPT ![a] = [at |-> "idle"]]
    PROVE  Orderly'
<1>1. ReloadType
  BY DEF Orderly
<1>2. settled = {} /\ settled' = {}
  BY BusyUnsettles
<1>3. ReloadType'
  BY <1>1 DEF ReloadType, Thread
<1>4. thread'[a].at = "idle" /\ \A b \in Admins \ {a} : thread'[b] = thread[b]
  BY <1>1 DEF ReloadType
<1>5. ASSUME NEW b \in Admins PROVE OwnsMine(b)'
  BY <1>4, OneClaims DEF OwnsMine
<1>6. SettledIsQuiet' /\ SettledFieldsAgree'
  BY <1>2, StaysUnsettled
<1> QED BY <1>3, <1>5, <1>6 DEF Orderly

\* The matrix is kept or the reload ends.
LEMMA OrderlyValidate ==
    ASSUME Orderly, NEW a \in Admins, Validate(a) PROVE Orderly'
<1>1. ReloadType /\ OwnsMine(a)
  BY DEF Orderly
<1>2. UNCHANGED <<disk, built, settled, ranker>> /\ thread[a].at = "validate" /\ thread[a].at # "idle"
  BY DEF Validate, files
<1>3. CASE thread' = [thread EXCEPT ![a].at = "ids"]
  <2>1. /\ thread' \in [Admins -> Thread] /\ thread'[a].at = "ids" /\ thread'[a].gen = thread[a].gen
        /\ thread'[a].mine = thread[a].mine /\ \A b \in Admins \ {a} : thread'[b] = thread[b]
    BY <1>2, <1>3, ThreadGoesOn DEF Steps
  <2>2. Loaded["ids"] = Loaded["validate"] /\ "ids" \in Steps /\ "validate" \in Steps
    BY DEF Loaded, Steps
  <2>3. thread[a].mine # {} => \A f \in Loaded["ids"] \cap thread[a].mine : ranker[f] = thread[a].gen
    BY <1>1, <1>2, <2>2 DEF OwnsMine
  <2> QED BY <1>1, <1>2, <2>1, <2>2, <2>3, OrderlyLoad DEF ReloadType
<1>4. CASE thread' = [thread EXCEPT ![a] = [at |-> "idle"]]
  BY <1>1, <1>2, <1>4, OrderlyQuit DEF ReloadType
<1> QED BY <1>3, <1>4 DEF Validate

\* A reload that ends well has read its own files from first to last, when nobody overlaps with it.
LEMMA OrderlyManifest ==
    ASSUME Orderly, NEW a \in Admins, LoadManifest(a) PROVE Orderly'
<1> DEFINE mine == thread[a].mine
<1>1. ReloadType /\ OwnsMine(a)
  BY DEF Orderly
<1>2. /\ thread[a].at = "manifest" /\ thread' = [thread EXCEPT ![a] = [at |-> "idle"]]
      /\ ranker' = [ranker EXCEPT !["manifest"] = disk["manifest"]]
      /\ settled' = mine /\ UNCHANGED <<disk, built>>
  BY DEF LoadManifest, files
<1>3. thread'[a].at = "idle" /\ \A b \in Admins \ {a} : thread'[b] = thread[b]
  BY <1>1, <1>2 DEF ReloadType
<1>4. mine \in SUBSET Files
  BY <1>2, BusyUnsettles DEF Busy
<1>5. ranker' \in [Fields -> Nat]
  BY <1>1, <1>2, WritesCoverFiles DEF ReloadType, Fields
<1>6. ReloadType'
  BY <1>1, <1>2, <1>4, <1>5 DEF ReloadType, Thread
<1>7. ASSUME NEW b \in Admins PROVE OwnsMine(b)'
  BY <1>2, <1>3, OneClaims DEF OwnsMine
<1>8. SettledIsQuiet'
  BY <1>1, <1>2, <1>3 DEF SettledIsQuiet, OwnsMine, Alone
<1>9. SettledFieldsAgree'
  <2>1. "manifest" \in Steps /\ \A f \in Fields : f = "manifest" \/ f \in Loaded["manifest"]
    BY DEF Loaded, Steps, Fields
  <2>2. ASSUME NEW f \in mine PROVE disk[f] = thread[a].gen /\ (f \in Fields => ranker'[f] = disk[f])
    BY <1>1, <1>2, <2>1, <2>2 DEF OwnsMine, ReloadType
  <2> QED BY <1>2, <2>2 DEF SettledFieldsAgree
<1> QED BY <1>6, <1>7, <1>8, <1>9 DEF Orderly

\* A request leaves files, fields and threads alone.
LEMMA RequestsRead ==
    ASSUME NEW t \in Tasks, \/ Lookup(t) \/ Pool(t) \/ Select(t) \/ Retrieve(t) \/ Embed(t) \/ ReadVectors(t)
                            \/ ReadIndex(t) \/ Fit(t) \/ Store(t)
    PROVE  UNCHANGED <<now, files, loading>>
BY DEF Lookup, Pool, Select, Retrieve, Embed, ReadVectors, ReadIndex, Fit, Store

\* Every step leaves the files, the fields and the threads in order.
LEMMA OrderlyStep == Orderly /\ [Next]_vars => Orderly'
<1> SUFFICES ASSUME Orderly, [Next]_vars PROVE Orderly'
  OBVIOUS
<1>1. ReloadType
  BY DEF Orderly
<1>2. CASE Tick
  BY <1>2, OrderlyUntouched DEF Tick
<1>3. ASSUME NEW t \in Tasks, NEW shape \in Shapes, Arrive(t, shape) PROVE Orderly'
  BY <1>3, OrderlyUntouched DEF Arrive
<1>4. ASSUME NEW t \in Tasks, \/ Lookup(t) \/ Pool(t) \/ Select(t) \/ Retrieve(t) \/ Embed(t) \/ ReadVectors(t)
                              \/ ReadIndex(t) \/ Fit(t) \/ Store(t)
      PROVE  Orderly'
  BY <1>4, RequestsRead, OrderlyUntouched
<1>5. ASSUME NEW a \in Admins, TriggerPrecompute(a) PROVE Orderly'
  BY <1>5, OrderlyTrigger
<1>6. ASSUME NEW a \in Admins, Write(a) PROVE Orderly'
  <2>1. thread[a].at # "idle" /\ WriteAs(a, thread[a].gen, thread[a].mine)
    BY <1>6 DEF Write, WriteAs
  <2>2. thread[a].gen \in Nat
    BY <2>1, BusyUnsettles DEF Busy
  <2> QED BY <2>1, <2>2, OrderlyWrite
<1>7. ASSUME NEW a \in Admins, TrainingFails(a) PROVE Orderly'
  <2> DEFINE mine == thread[a].mine \ {"model"}
  <2>1. PICK content \in Reads("model") : WriteAs(a, content, mine)
    BY <1>7 DEF TrainingFails
  <2>2. content \in Nat
    BY <1>1, ReadsAreContents, WritesCoverFiles
  <2>3. Writes[thread[a].next] \notin mine /\ mine \in SUBSET thread[a].mine
    BY <1>7 DEF TrainingFails
  <2> QED BY <2>1, <2>2, <2>3, OrderlyWrite
<1>8. ASSUME NEW a \in Admins, PrecomputeFails(a) PROVE Orderly'
  <2> DEFINE file == Writes[thread[a].next]
  <2>1. /\ thread[a].at = "write" /\ thread[a].at # "idle" /\ UNCHANGED <<built, settled, ranker>>
        /\ thread' = [thread EXCEPT ![a] = [at |-> "idle"]]
    BY <1>8 DEF PrecomputeFails
  <2>2. file \in Files
    BY <2>1, BusyUnsettles, WritesCoverFiles DEF Busy
  <2>3. PICK content \in Reads(file) : disk' = [disk EXCEPT ![file] = content]
    BY <1>8 DEF PrecomputeFails
  <2> HIDE DEF file
  <2>4. disk' \in [Files -> Nat]
    BY <1>1, <2>2, <2>3, ReadsAreContents DEF ReloadType
  <2> QED BY <2>1, <2>4, OrderlyQuit
<1>9. ASSUME NEW a \in Admins, LoadFails(a) PROVE Orderly'
  BY <1>1, <1>9, OrderlyQuit DEF LoadFails, files, ReloadType
<1>10. ASSUME NEW a \in Admins, LoadMatrix(a) PROVE Orderly'
  <2>1. Loaded["validate"] = Loaded["matrix"] \cup {"matrix"} /\ "matrix" \notin Loaded["matrix"]
    BY DEF Loaded
  <2> QED BY <1>10, <2>1, OrderlyAssignWhole DEF LoadMatrix, Steps, Fields
<1>11. ASSUME NEW a \in Admins, Validate(a) PROVE Orderly'
  BY <1>11, OrderlyValidate
<1>12. ASSUME NEW a \in Admins, LoadIds(a) PROVE Orderly'
  <2>1. Loaded["spec"] = Loaded["ids"] \cup {"ids"} /\ "ids" \notin Loaded["ids"]
    BY DEF Loaded
  <2>2. PICK ids \in Reads("ids") : Assign(a, "ids", ids, "spec")
    BY <1>12 DEF LoadIds
  <2> QED BY <2>1, <2>2, OrderlyAssign DEF Steps, Fields
<1>13. ASSUME NEW a \in Admins, LoadSpec(a) PROVE Orderly'
  <2>1. Loaded["embeddings"] = Loaded["spec"] \cup {"spec"} /\ "spec" \notin Loaded["spec"]
    BY DEF Loaded
  <2> QED BY <1>13, <2>1, OrderlyAssignWhole DEF LoadSpec, Steps, Fields
<1>14. ASSUME NEW a \in Admins, LoadEmbeddings(a) PROVE Orderly'
  <2>1. Loaded["bm25"] = Loaded["embeddings"] \cup {"embeddings"} /\ "embeddings" \notin Loaded["embeddings"]
    BY DEF Loaded
  <2> QED BY <1>14, <2>1, OrderlyAssignWhole, OrderlySkip DEF LoadEmbeddings, Steps, Fields
<1>15. ASSUME NEW a \in Admins, LoadIndex(a) PROVE Orderly'
  <2>1. Loaded["manifest"] = Loaded["bm25"] \cup {"bm25"} /\ "bm25" \notin Loaded["bm25"]
    BY DEF Loaded
  <2> QED BY <1>15, <2>1, OrderlyAssignWhole, OrderlySkip DEF LoadIndex, Steps, Fields
<1>16. ASSUME NEW a \in Admins, LoadManifest(a) PROVE Orderly'
  BY <1>16, OrderlyManifest
<1>17. CASE UNCHANGED vars
  BY <1>17, OrderlyUntouched DEF vars
<1> QED BY <1>2, <1>3, <1>4, <1>5, <1>6, <1>7, <1>8, <1>9, <1>10, <1>11, <1>12, <1>13, <1>14, <1>15, <1>16,
           <1>17 DEF Next

\* A stage that fails costs its own file only, for any number of admins, of precomputes and of
\* candidates: what a reload that ran alone has not missed is of one precompute, files and fields.
THEOREM SettledFieldsAlwaysAgree == Spec => []SettledFieldsAgree
<1>1. Init => Orderly
  BY OrderlyInit
<1>2. Orderly /\ [Next]_vars => Orderly'
  BY OrderlyStep
<1>3. Orderly => SettledFieldsAgree
  BY DEF Orderly
<1> QED BY <1>1, <1>2, <1>3, PTL DEF Spec

\* The steps of an admin request.
AdminStep(a) ==
    \/ TriggerPrecompute(a) \/ Write(a) \/ TrainingFails(a) \/ PrecomputeFails(a) \/ LoadFails(a) \/ LoadMatrix(a)
    \/ Validate(a) \/ LoadIds(a) \/ LoadSpec(a) \/ LoadEmbeddings(a) \/ LoadIndex(a) \/ LoadManifest(a)

LEMMA AdminsLeaveRequests ==
    ASSUME NEW a \in Admins, AdminStep(a) PROVE UNCHANGED <<cache, task, now, admitted>>
BY DEF AdminStep, TriggerPrecompute, Write, TrainingFails, WriteAs, PrecomputeFails, LoadFails, LoadMatrix, Validate,
       LoadIds, LoadSpec, LoadEmbeddings, LoadIndex, LoadManifest, AssignWhole, Assign, Skip, serving

(* The rate limit *)

Counter == [count : Nat, expires : Int]

\* The counter of a minute does not expire in that minute, and counts everyone let through in it.
MinuteIsCounted ==
    /\ now \in Nat /\ admitted \in Nat
    /\ "counters" \in DOMAIN cache
    /\ \A k \in DOMAIN cache.counters :
          cache.counters[k] \in Counter /\ cache.counters[k].expires >= Window * k + Window
    /\ DOMAIN cache.counters \subseteq Nat
    /\ admitted > 0 => /\ now \div Window \in DOMAIN cache.counters
                       /\ cache.counters[now \div Window].count >= admitted

Limited == MinuteIsCounted /\ LimitHolds

\* The minute of a tick, and its bounds.
LEMMA MinuteBounds ==
    ASSUME NEW w \in Nat \ {0}, NEW n \in Nat
    PROVE  n \div w \in Nat /\ w * (n \div w) <= n /\ n < w * (n \div w) + w
OBVIOUS

\* A tick is in one minute.
LEMMA OneMinute ==
    ASSUME NEW w \in Nat \ {0}, NEW n \in Nat, NEW j \in Nat, NEW k \in Nat,
           w * j <= n, n < w * j + w, w * k <= n, n < w * k + w
    PROVE  j = k
<1>1. CASE j < k
  <2>1. w * (j + 1) <= w * k
    BY <1>1
  <2> QED BY <2>1
<1>2. CASE k < j
  <2>1. w * (k + 1) <= w * j
    BY <1>2
  <2> QED BY <2>1
<1> QED BY <1>1, <1>2

\* The minute changes only at a tick that a whole number of minutes has passed.
LEMMA SameMinute ==
    ASSUME NEW w \in Nat \ {0}, NEW n \in Nat, (n + 1) % w # 0
    PROVE  (n + 1) \div w = n \div w
<1> DEFINE j == n \div w
           k == (n + 1) \div w
<1>1. /\ j \in Nat /\ w * j <= n /\ n < w * j + w
      /\ k \in Nat /\ w * k <= n + 1 /\ n + 1 < w * k + w
  BY MinuteBounds
<1>2. w * k # n + 1
  OBVIOUS
<1>3. w * k \in Nat
  BY <1>1
<1>4. w * k <= n /\ n < w * k + w
  BY <1>1, <1>2, <1>3
<1> QED BY <1>1, <1>4, OneMinute

\* Nothing has been counted at first.
LEMMA LimitedInit == Init => Limited
BY ServingAssumption DEF Init, Limited, MinuteIsCounted, LimitHolds, Empty

\* A request is counted in its minute, and let through only while the count is within the limit.
LEMMA LimitedArrive ==
    ASSUME Limited, NEW t \in Tasks, NEW shape \in Shapes, Arrive(t, shape) PROVE Limited'
<1> DEFINE key == now \div Window
           known == key \in DOMAIN cache.counters
           old == IF known THEN cache.counters[key] ELSE [count |-> 0, expires |-> -1]
           live == IF old.expires < now THEN [count |-> 0, expires |-> now + Window] ELSE old
           entry == [live EXCEPT !.count = @ + 1]
<1>1. Window \in Nat \ {0} /\ PerMinute \in Nat \ {0} /\ MinuteIsCounted /\ LimitHolds
  BY ServingAssumption DEF Limited
<1>2. key \in Nat /\ Window * key <= now /\ now < Window * key + Window
  BY <1>1, MinuteBounds DEF MinuteIsCounted
<1>3. /\ now' = now /\ cache' = [cache EXCEPT !.counters = With(cache.counters, key, entry)]
      /\ \/ cache'.counters[key].count <= PerMinute /\ admitted' = admitted + 1
         \/ admitted' = admitted
  BY DEF Arrive, Check, Incr
<1>4. /\ cache'.counters = With(cache.counters, key, entry) /\ "counters" \in DOMAIN cache'
  BY <1>1, <1>3 DEF MinuteIsCounted
<1>5. /\ DOMAIN cache'.counters = DOMAIN cache.counters \cup {key} /\ cache'.counters[key] = entry
      /\ \A k \in DOMAIN cache.counters \ {key} : cache'.counters[k] = cache.counters[k]
  BY <1>4 DEF With
<1>6. /\ entry \in Counter /\ entry.count > 0 /\ entry.expires >= Window * key + Window
      /\ known => entry.count = cache.counters[key].count + 1
  <2>1. CASE known
    <3>1. old \in Counter /\ old.expires >= Window * key + Window /\ old = cache.counters[key]
      BY <1>1, <2>1 DEF MinuteIsCounted
    <3>2. live = old
      BY <1>1, <1>2, <3>1 DEF MinuteIsCounted, Counter
    <3> QED BY <3>1, <3>2 DEF Counter
  <2>2. CASE ~known
    <3>1. live = [count |-> 0, expires |-> now + Window]
      BY <1>1, <2>2 DEF MinuteIsCounted
    <3> QED BY <1>1, <1>2, <2>2, <3>1 DEF MinuteIsCounted, Counter
  <2> QED BY <2>1, <2>2
<1>7. admitted' \in Nat /\ (admitted' > 0 => entry.count >= admitted') /\ admitted' <= PerMinute
  <2>1. entry.count \in Nat /\ (known => cache.counters[key].count \in Nat)
    BY <1>1, <1>6 DEF MinuteIsCounted, Counter
  <2>2. admitted \in Nat /\ admitted <= PerMinute
    BY <1>1 DEF MinuteIsCounted, LimitHolds
  <2>3. entry.count >= admitted + 1
    BY <1>1, <1>6, <2>1, <2>2 DEF MinuteIsCounted
  <2>4. admitted' = admitted \/ (admitted' = admitted + 1 /\ entry.count <= PerMinute)
    BY <1>3, <1>5
  <2> HIDE DEF entry, known
  <2> QED BY <2>1, <2>2, <2>3, <2>4, <1>1
<1>8. MinuteIsCounted'
  <2>1. \A k \in DOMAIN cache'.counters :
           cache'.counters[k] \in Counter /\ cache'.counters[k].expires >= Window * k + Window
    <3> HIDE DEF entry, key
    <3> QED BY <1>1, <1>5, <1>6 DEF MinuteIsCounted
  <2>2. DOMAIN cache'.counters \subseteq Nat
    BY <1>1, <1>2, <1>5 DEF MinuteIsCounted
  <2>3. now' \div Window \in DOMAIN cache'.counters /\ cache'.counters[now' \div Window] = entry
    BY <1>3, <1>5
  <2> HIDE DEF entry, key
  <2> QED BY <1>1, <1>3, <1>4, <1>7, <2>1, <2>2, <2>3 DEF MinuteIsCounted
<1> QED BY <1>7, <1>8 DEF Limited, LimitHolds

\* Time passes: the counter of the minute stays the same, or a new minute begins with nobody let through.
LEMMA LimitedTick == Limited /\ Tick => Limited'
<1> SUFFICES ASSUME Limited, Tick PROVE Limited'
  OBVIOUS
<1>1. /\ Window \in Nat \ {0} /\ PerMinute \in Nat /\ MinuteIsCounted /\ LimitHolds
      /\ now' = now + 1 /\ cache' = cache
      /\ admitted' = IF now' % Window = 0 THEN 0 ELSE admitted
  BY ServingAssumption DEF Limited, Tick
<1>2. CASE now' % Window = 0
  BY <1>1, <1>2 DEF Limited, MinuteIsCounted, LimitHolds
<1>3. CASE now' % Window # 0
  <2>1. now' \div Window = now \div Window
    BY <1>1, <1>3, SameMinute DEF MinuteIsCounted
  <2> QED BY <1>1, <1>3, <2>1 DEF Limited, MinuteIsCounted, LimitHolds
<1> QED BY <1>2, <1>3

\* The entries of the result cache are no counters.
LEMMA CountersKept ==
    ASSUME "counters" \in DOMAIN cache, NEW key, NEW value, NEW expires
    PROVE  /\ Get(cache, key, now).counters = cache.counters /\ "counters" \in DOMAIN Get(cache, key, now)
           /\ Set(cache, key, value, expires).counters = cache.counters
           /\ "counters" \in DOMAIN Set(cache, key, value, expires)
BY DEF Get, Set, Found, Drop

\* Everything else leaves the clock, the counters and who was let through alone.
LEMMA LimitedKept ==
    ASSUME Limited, UNCHANGED <<now, admitted>>, cache'.counters = cache.counters, "counters" \in DOMAIN cache'
    PROVE  Limited'
BY DEF Limited, MinuteIsCounted, LimitHolds

\* Every step keeps the count of the minute.
LEMMA LimitedStep == Limited /\ [Next]_vars => Limited'
<1> SUFFICES ASSUME Limited, [Next]_vars PROVE Limited'
  OBVIOUS
<1>1. "counters" \in DOMAIN cache
  BY DEF Limited, MinuteIsCounted
<1>2. CASE Tick
  BY <1>2, LimitedTick
<1>3. ASSUME NEW t \in Tasks, NEW shape \in Shapes, Arrive(t, shape) PROVE Limited'
  BY <1>3, LimitedArrive
<1>4. ASSUME NEW t \in Tasks, Lookup(t) PROVE Limited'
  BY <1>1, <1>4, CountersKept, LimitedKept DEF Lookup
<1>5. ASSUME NEW t \in Tasks, Store(t) PROVE Limited'
  BY <1>1, <1>5, CountersKept, LimitedKept DEF Store
<1>6. ASSUME UNCHANGED <<now, admitted, cache>> PROVE Limited'
  BY <1>1, <1>6, LimitedKept
<1>7. ASSUME NEW t \in Tasks, Pool(t) \/ Select(t) \/ Retrieve(t) \/ Embed(t) \/ ReadVectors(t) \/ ReadIndex(t) \/ Fit(t)
      PROVE  Limited'
  BY <1>6, <1>7 DEF Pool, Select, Retrieve, Embed, ReadVectors, ReadIndex, Fit
<1>8. ASSUME NEW a \in Admins, AdminStep(a) PROVE Limited'
  BY <1>6, <1>8, AdminsLeaveRequests
<1>9. CASE UNCHANGED vars
  BY <1>6, <1>9 DEF vars, serving
<1> QED BY <1>2, <1>3, <1>4, <1>5, <1>7, <1>8, <1>9 DEF Next, AdminStep

\* Whatever the limit, the minute and the rest of the traffic, no more requests than the limit are
\* let through in a minute.
THEOREM LimitAlwaysHolds == Spec => []LimitHolds
<1>1. Init => Limited
  BY LimitedInit
<1>2. Limited /\ [Next]_vars => Limited'
  BY LimitedStep
<1>3. Limited => LimitHolds
  BY DEF Limited
<1> QED BY <1>1, <1>2, <1>3, PTL DEF Spec

(* The result cache *)

Names == DOMAIN FileOf
PartSets == UNION {[S -> Nat] : S \in SUBSET Names}
Answer == [parts : PartSets, calm : SUBSET Files, computed : Nat]

\* The parts of an answer that was computed in one piece.
IsOneRanking(key, answer) ==
    /\ key = "default" => answer.parts["column"] = answer.parts["rows"]
    /\ \A p, q \in DOMAIN answer.parts :
          {FileOf[p], FileOf[q]} \subseteq answer.calm => answer.parts[p] = answer.parts[q]

\* An entry lives as long as its answer may be served.
Entry == {e \in [key : Shapes, value : Answer, expires : Nat] :
             e.expires = e.value.computed + Ttl /\ IsOneRanking(e.key, e.value)}

Keys(data) == {data[i].key : i \in DOMAIN data}
Distinct(data) == \A i, j \in DOMAIN data : data[i].key = data[j].key => i = j

\* A cache whose books are in order.
Tidy(c) ==
    /\ {"data", "freq"} \subseteq DOMAIN c
    /\ c.data \in Seq(Entry) /\ Distinct(c.data)
    /\ DOMAIN c.freq = Keys(c.data) /\ \A k \in DOMAIN c.freq : c.freq[k] \in Nat

\* A sequence without one of its elements.
LEMMA RemoveAtParts ==
    ASSUME NEW S, NEW s \in Seq(S), NEW i \in 1..Len(s)
    PROVE  /\ RemoveAt(s, i) \in Seq(S) /\ Len(RemoveAt(s, i)) = Len(s) - 1
           /\ \A j \in 1..(Len(s) - 1) : RemoveAt(s, i)[j] = IF j < i THEN s[j] ELSE s[j + 1]
<1> DEFINE front == SubSeq(s, 1, i - 1)
           back == SubSeq(s, i + 1, Len(s))
<1>1. /\ front \in Seq(S) /\ Len(front) = i - 1
      /\ \A j \in 1..(i - 1) : front[j] = s[j]
  BY SubSeqProperties
<1>2. /\ back \in Seq(S) /\ Len(back) = Len(s) - i
      /\ \A j \in 1..(Len(s) - i) : back[j] = s[i + j]
  BY SubSeqProperties
<1> HIDE DEF front, back
<1>3. /\ front \o back \in Seq(S) /\ Len(front \o back) = Len(s) - 1
      /\ \A j \in 1..(Len(s) - 1) : (front \o back)[j] = IF j <= i - 1 THEN front[j] ELSE back[j - (i - 1)]
  BY <1>1, <1>2, ConcatProperties
<1>4. RemoveAt(s, i) = front \o back
  BY DEF RemoveAt, front, back
<1>5. ASSUME NEW j \in 1..(Len(s) - 1), j < i PROVE (front \o back)[j] = s[j]
  BY <1>1, <1>3, <1>5
<1>6. ASSUME NEW j \in 1..(Len(s) - 1), ~(j < i) PROVE (front \o back)[j] = s[j + 1]
  <2>1. (front \o back)[j] = back[j - (i - 1)]
    BY <1>3, <1>6
  <2>2. j - (i - 1) \in 1..(Len(s) - i) /\ i + (j - (i - 1)) = j + 1
    BY <1>6
  <2> QED BY <1>2, <2>1, <2>2
<1> QED BY <1>3, <1>4, <1>5, <1>6

\* A dictionary without one of its keys keeps the others, each once.
LEMMA WithoutParts ==
    ASSUME NEW data \in Seq(Entry), Distinct(data), NEW key
    PROVE  /\ Without(data, key) \in Seq(Entry) /\ Distinct(Without(data, key))
           /\ Keys(Without(data, key)) = Keys(data) \ {key}
           /\ Len(Without(data, key)) = IF key \in Keys(data) THEN Len(data) - 1 ELSE Len(data)
<1>1. CASE key \notin Keys(data)
  BY <1>1 DEF Without, Keys
<1>2. CASE key \in Keys(data)
  <2> DEFINE at == Position(data, key)
             rest == RemoveAt(data, at)
  <2>1. at \in 1..Len(data) /\ data[at].key = key
    BY <1>2 DEF Position, Keys
  <2>2. Without(data, key) = rest
    BY <1>2 DEF Without, Keys
  <2> HIDE DEF at
  <2>3. /\ rest \in Seq(Entry) /\ Len(rest) = Len(data) - 1
        /\ \A j \in 1..(Len(data) - 1) : rest[j] = IF j < at THEN data[j] ELSE data[j + 1]
    BY <2>1, RemoveAtParts
  <2> HIDE DEF rest
  <2>4. DOMAIN rest = 1..(Len(data) - 1) /\ DOMAIN data = 1..Len(data)
    BY <2>3
  <2>5. Distinct(rest)
    <3> SUFFICES ASSUME NEW i \in DOMAIN rest, NEW j \in DOMAIN rest, rest[i].key = rest[j].key PROVE i = j
      BY DEF Distinct
    <3> DEFINE was(n) == IF n < at THEN n ELSE n + 1
    <3>1. was(i) \in DOMAIN data /\ was(j) \in DOMAIN data /\ rest[i] = data[was(i)] /\ rest[j] = data[was(j)]
      BY <2>1, <2>3, <2>4
    <3>2. was(i) = was(j)
      BY <3>1 DEF Distinct
    <3> QED BY <2>1, <2>4, <3>2
  <2>6. \A k \in Keys(rest) : k \in Keys(data) \ {key}
    BY <2>1, <2>3, <2>4 DEF Keys, Distinct
  <2>7. ASSUME NEW k \in Keys(data) \ {key} PROVE k \in Keys(rest)
    <3>1. PICK i \in 1..Len(data) : data[i].key = k
      BY <2>4 DEF Keys
    <3>2. CASE i < at
      BY <2>1, <2>3, <2>4, <3>1, <3>2 DEF Keys
    <3>3. CASE i > at
      <4>1. i - 1 \in DOMAIN rest /\ rest[i - 1] = data[i]
        BY <2>1, <2>3, <2>4, <3>3
      <4> QED BY <3>1, <4>1 DEF Keys
    <3> QED BY <2>1, <3>1, <3>2, <3>3
  <2> QED BY <1>2, <2>2, <2>3, <2>5, <2>6, <2>7
<1> QED BY <1>1, <1>2

\* A key at the end of the dictionary.
LEMMA AppendParts ==
    ASSUME NEW data \in Seq(Entry), Distinct(data), NEW e \in Entry, e.key \notin Keys(data)
    PROVE  /\ Append(data, e) \in Seq(Entry) /\ Distinct(Append(data, e))
           /\ Keys(Append(data, e)) = Keys(data) \cup {e.key}
           /\ Len(Append(data, e)) = Len(data) + 1
<1> DEFINE more == Append(data, e)
<1>1. /\ more \in Seq(Entry) /\ Len(more) = Len(data) + 1 /\ more[Len(data) + 1] = e
      /\ \A i \in 1..Len(data) : more[i] = data[i]
  BY AppendProperties
<1>2. DOMAIN more = 1..(Len(data) + 1) /\ DOMAIN data = 1..Len(data)
  BY <1>1
<1> HIDE DEF more
<1>3. Distinct(more)
  BY <1>1, <1>2 DEF Distinct, Keys
<1>4. Keys(more) = Keys(data) \cup {e.key}
  <2>1. \A k \in Keys(more) : k \in Keys(data) \cup {e.key}
    BY <1>1, <1>2 DEF Keys
  <2>2. \A k \in Keys(data) : k \in Keys(more)
    BY <1>1, <1>2 DEF Keys
  <2>3. e.key \in Keys(more)
    BY <1>1, <1>2 DEF Keys
  <2> QED BY <2>1, <2>2, <2>3
<1> QED BY <1>1, <1>3, <1>4 DEF more

\* A set of natural numbers has a least one.
LEMMA MinOfNats ==
    ASSUME NEW S \in SUBSET Nat, S # {} PROVE Min(S) \in S /\ \A n \in S : Min(S) <= n
<1> DEFINE below == {0..m : m \in S}
<1>1. below \subseteq FiniteSubsetsOf(Nat) /\ below # {}
  <2>1. ASSUME NEW m \in S PROVE 0..m \in FiniteSubsetsOf(Nat)
    <3>1. IsFiniteSet(0..m)
      BY FS_Interval
    <3>2. 0..m \subseteq Nat
      OBVIOUS
    <3> QED BY <3>1, <3>2, Zenon DEF FiniteSubsetsOf
  <2> QED BY <2>1, Zenon
<1>2. PICK x \in below : \A y \in below : ~ (<<y, x>> \in StrictSubsetOrdering(Nat))
  BY <1>1, FS_StrictSubsetOrderingWellFounded, WFMin
<1>3. PICK m \in S : x = 0..m
  BY <1>2
<1>4. ASSUME NEW n \in S, n < m PROVE FALSE
  <2>1. 0..n \in below /\ 0..n \subseteq 0..m /\ 0..n # 0..m /\ 0..n \subseteq Nat /\ 0..m \subseteq Nat
    BY <1>4
  <2>2. <<0..n, 0..m>> \in StrictSubsetOrdering(Nat)
    BY <2>1 DEF StrictSubsetOrdering
  <2> QED BY <1>2, <1>3, <2>1, <2>2
<1>5. \A n \in S : m <= n
  BY <1>4
<1> QED BY <1>5 DEF Min

\* The key that has to go is one that is there.
LEMMA VictimIsThere ==
    ASSUME NEW c, Tidy(c), Len(c.data) > 0 PROVE Victim(c) \in Keys(c.data)
<1>1. DOMAIN c.data = 1..Len(c.data) /\ Len(c.data) \in Nat /\ KeysOf(c) = Keys(c.data)
  BY DEF Tidy, KeysOf, Keys
<1>2. CASE Policy # "lfu"
  BY <1>1, <1>2 DEF Victim, Keys
<1>3. CASE Policy = "lfu"
  <2> DEFINE freqs == {FreqOf(c, key) : key \in KeysOf(c)}
             least == Min(freqs)
             at == {i \in DOMAIN c.data : FreqOf(c, c.data[i].key) = least}
  <2>1. freqs \in SUBSET Nat /\ freqs # {}
    <3>1. c.data[1].key \in KeysOf(c)
      BY <1>1 DEF KeysOf
    <3>2. \A key \in KeysOf(c) : FreqOf(c, key) \in Nat
      BY <1>1 DEF Tidy, FreqOf
    <3> QED BY <3>1, <3>2
  <2>2. least \in freqs
    BY <2>1, MinOfNats
  <2>3. at \in SUBSET Nat /\ at # {}
    <3>1. PICK i \in DOMAIN c.data : FreqOf(c, c.data[i].key) = least
      <4> HIDE DEF least
      <4> QED BY <2>2 DEF KeysOf
    <3> HIDE DEF least
    <3>2. i \in at /\ \A k \in at : k \in DOMAIN c.data
      BY <3>1
    <3> QED BY <1>1, <3>2
  <2>4. Min(at) \in at
    BY <2>3, MinOfNats
  <2>5. Victim(c) = c.data[Min(at)].key
    BY <1>3 DEF Victim
  <2> QED BY <2>4, <2>5 DEF Keys
<1> QED BY <1>2, <1>3

\* Dropping a key drops its entry and its frequency.
LEMMA DropIsTidy ==
    ASSUME NEW c, Tidy(c), NEW key
    PROVE  /\ Tidy(Drop(c, key))
           /\ Len(Drop(c, key).data) = IF key \in Keys(c.data) THEN Len(c.data) - 1 ELSE Len(c.data)
<1> DEFINE d == Drop(c, key)
<1>1. d.data = Without(c.data, key) /\ d.freq = [k \in DOMAIN c.freq \ {key} |-> c.freq[k]]
      /\ DOMAIN d = DOMAIN c
  BY DEF Drop, Tidy
<1>2. c.data \in Seq(Entry) /\ Distinct(c.data)
  BY DEF Tidy
<1> HIDE DEF d
<1>3. /\ d.data \in Seq(Entry) /\ Distinct(d.data) /\ Keys(d.data) = Keys(c.data) \ {key}
      /\ Len(d.data) = IF key \in Keys(c.data) THEN Len(c.data) - 1 ELSE Len(c.data)
  BY <1>1, <1>2, WithoutParts
<1>4. DOMAIN d.freq = Keys(c.data) \ {key} /\ \A k \in DOMAIN d.freq : d.freq[k] \in Nat
  BY <1>1 DEF Tidy
<1>5. Tidy(d)
  BY <1>1, <1>3, <1>4 DEF Tidy
<1> QED BY <1>3, <1>5 DEF d

\* A key that is asked for moves to the end, or expires.
LEMMA GetIsTidy ==
    ASSUME NEW c, Tidy(c), NEW key, NEW time
    PROVE  /\ Tidy(Get(c, key, time)) /\ Len(Get(c, key, time).data) <= Len(c.data)
           /\ Hit(c, key, time) => /\ EntryOf(c, key) \in Entry /\ EntryOf(c, key).key = key
                                   /\ EntryOf(c, key).expires >= time
<1>1. c.data \in Seq(Entry) /\ Distinct(c.data) /\ KeysOf(c) = Keys(c.data) /\ Len(c.data) \in Nat
  BY DEF Tidy, KeysOf, Keys
<1>2. key \in Keys(c.data) => EntryOf(c, key) \in Entry /\ EntryOf(c, key).key = key
  <2>1. key \in Keys(c.data) => Position(c.data, key) \in 1..Len(c.data) /\ c.data[Position(c.data, key)].key = key
    BY <1>1 DEF Position, Keys
  <2> QED BY <1>1, <2>1 DEF EntryOf
<1>3. CASE Hit(c, key, time)
  <2> DEFINE e == EntryOf(c, key)
             f == Found(c, key, time)
  <2>1. key \in Keys(c.data) /\ e \in Entry /\ e.key = key /\ e.expires >= time /\ Get(c, key, time) = f
    BY <1>1, <1>2, <1>3 DEF Hit, Get
  <2>2. /\ f.freq = Touched(c, key) /\ DOMAIN f = DOMAIN c
        /\ f.data = IF Policy = "lru" THEN Append(Without(c.data, key), e) ELSE c.data
    BY DEF Found, Tidy
  <2>3. DOMAIN f.freq = Keys(c.data) /\ \A k \in DOMAIN f.freq : f.freq[k] \in Nat
    BY <2>1, <2>2 DEF Tidy, Touched, With, FreqOf
  <2> HIDE DEF e, f
  <2>4. f.data \in Seq(Entry) /\ Distinct(f.data) /\ Keys(f.data) = Keys(c.data) /\ Len(f.data) = Len(c.data)
    <3>1. CASE Policy = "lru"
      <4>1. /\ Without(c.data, key) \in Seq(Entry) /\ Distinct(Without(c.data, key))
            /\ Keys(Without(c.data, key)) = Keys(c.data) \ {key}
            /\ Len(Without(c.data, key)) = Len(c.data) - 1
        BY <1>1, <2>1, WithoutParts
      <4>2. /\ f.data \in Seq(Entry) /\ Distinct(f.data) /\ Len(f.data) = Len(c.data) - 1 + 1
            /\ Keys(f.data) = (Keys(c.data) \ {key}) \cup {key}
        BY <2>1, <2>2, <3>1, <4>1, AppendParts
      <4>3. (Keys(c.data) \ {key}) \cup {key} = Keys(c.data)
        BY <2>1
      <4> QED BY <1>1, <4>2, <4>3
    <3>2. CASE Policy # "lru"
      BY <1>1, <2>2, <3>2
    <3> QED BY <3>1, <3>2
  <2> QED BY <1>1, <2>1, <2>2, <2>3, <2>4 DEF Tidy, e
<1>4. CASE ~Hit(c, key, time)
  BY <1>1, <1>4, DropIsTidy DEF Get
<1> QED BY <1>3, <1>4

\* One eviction is enough to bring the cache back to its capacity.
LEMMA SetIsTidy ==
    ASSUME NEW c, Tidy(c), Len(c.data) <= Capacity,
           NEW key, NEW value, NEW expires, [key |-> key, value |-> value, expires |-> expires] \in Entry
    PROVE  Tidy(Set(c, key, value, expires)) /\ Len(Set(c, key, value, expires).data) <= Capacity
<1> DEFINE e == [key |-> key, value |-> value, expires |-> expires]
           rest == Without(c.data, key)
           stored == [c EXCEPT !.data = Append(rest, e), !.freq = Touched(c, key)]
<1>1. c.data \in Seq(Entry) /\ Distinct(c.data) /\ Len(c.data) \in Nat
  BY DEF Tidy
<1>2. /\ rest \in Seq(Entry) /\ Distinct(rest) /\ Keys(rest) = Keys(c.data) \ {key}
      /\ Len(rest) <= Len(c.data)
  BY <1>1, WithoutParts
<1>3. /\ stored.data = Append(rest, e) /\ stored.freq = Touched(c, key) /\ DOMAIN stored = DOMAIN c
  BY DEF Tidy
<1>4. e \in Entry /\ e.key = key
  OBVIOUS
<1> HIDE DEF e, rest
<1>5. /\ stored.data \in Seq(Entry) /\ Distinct(stored.data)
      /\ Keys(stored.data) = Keys(c.data) \cup {key} /\ Len(stored.data) = Len(rest) + 1
  BY <1>2, <1>3, <1>4, AppendParts
<1>6. DOMAIN stored.freq = Keys(c.data) \cup {key} /\ \A k \in DOMAIN stored.freq : stored.freq[k] \in Nat
  BY <1>3 DEF Tidy, Touched, With, FreqOf
<1>7. Set(c, key, value, expires) = IF Len(stored.data) > Capacity THEN Drop(stored, Victim(stored)) ELSE stored
  BY DEF Set, rest, e
<1> HIDE DEF stored
<1>8. Tidy(stored) /\ Len(stored.data) \in Nat
  BY <1>3, <1>5, <1>6 DEF Tidy
<1>9. Len(stored.data) <= Capacity + 1
  BY <1>1, <1>2, <1>5, CacheAssumption
<1>10. CASE Len(stored.data) > Capacity
  <2>1. Victim(stored) \in Keys(stored.data)
    BY <1>8, <1>10, VictimIsThere, CacheAssumption
  <2>2. Tidy(Drop(stored, Victim(stored))) /\ Len(Drop(stored, Victim(stored)).data) = Len(stored.data) - 1
    BY <1>8, <2>1, DropIsTidy
  <2> QED BY <1>7, <1>8, <1>9, <1>10, <2>2, CacheAssumption
<1>11. CASE ~(Len(stored.data) > Capacity)
  BY <1>7, <1>8, <1>11, CacheAssumption
<1> QED BY <1>10, <1>11

(* The requests *)

Working == {"select", "retrieve", "embed", "vectors", "index", "fit", "store"}

\* A request, with what it has read when it is computed.
Request == [at : {"idle"}, age : Int]
           \cup [at : {"lookup", "pool"}, shape : Shapes]
           \cup [at : Working, shape : Shapes, began : Nat, parts : PartSets]

\* What a request has read fits together, and while nothing has overlapped with it, it is what is current.
IsWhole(r) ==
    r.at \in Working =>
        /\ "rows" \in DOMAIN r.parts
        /\ r.at = "select" => r.shape = "subset"
        /\ r.at \in {"embed", "vectors", "index"} => r.shape = "custom"
        /\ r.at \in {"fit", "store"} /\ r.shape = "default" =>
              "column" \in DOMAIN r.parts /\ r.parts["column"] = r.parts["rows"]
        /\ r.began <= built
        /\ r.began = built =>
              /\ settled # {}
              /\ \A p \in DOMAIN r.parts : FileOf[p] \in settled => r.parts[p] = disk[FileOf[p]]

Served ==
    /\ now \in Nat /\ task \in [Tasks -> Request]
    /\ Tidy(cache) /\ Len(cache.data) <= Capacity
    /\ (\A t \in Tasks : IsWhole(task[t])) /\ StaleAnswersEnd

LEMMA ServedInit == Init => Served
<1> SUFFICES ASSUME Init PROVE Served
  OBVIOUS
<1>1. Tidy(cache) /\ Len(cache.data) = 0
  BY EmptySeq DEF Init, Empty, Tidy, Keys, Distinct
<1>2. task \in [Tasks -> Request] /\ StaleAnswersEnd
  BY ServingAssumption DEF Init, Request, StaleAnswersEnd
<1>3. \A t \in Tasks : IsWhole(task[t])
  BY DEF Init, IsWhole, Working
<1> QED BY <1>1, <1>2, <1>3, CacheAssumption DEF Init, Served

\* A request takes a step, and the others none.
LEMMA RequestMoves ==
    ASSUME Served, NEW t \in Tasks, NEW r \in Request, task' = [task EXCEPT ![t] = r],
           UNCHANGED <<now, built, settled, disk>>,
           Tidy(cache'), Len(cache'.data) <= Capacity,
           r.at = "idle" => r.age <= Ttl, IsWhole(r)
    PROVE  Served'
<1>1. task'[t] = r /\ \A u \in Tasks \ {t} : task'[u] = task[u]
  BY DEF Served
<1>2. task' \in [Tasks -> Request]
  BY DEF Served
<1>3. StaleAnswersEnd'
  BY <1>1 DEF Served, StaleAnswersEnd
<1>4. ASSUME NEW u \in Tasks PROVE IsWhole(task[u])'
  BY <1>1 DEF Served, IsWhole
<1>5. Tidy(cache)' /\ now' \in Nat
  BY DEF Tidy, Served
<1> QED BY <1>2, <1>3, <1>4, <1>5 DEF Served

\* What the steps of a request need.
LEMMA ServedParts ==
    ASSUME Served, NEW t \in Tasks
    PROVE  /\ task[t] \in Request /\ IsWhole(task[t]) /\ Tidy(cache) /\ Len(cache.data) <= Capacity /\ now \in Nat
           /\ Ttl \in Nat
           /\ task[t].at \in Working => task[t] \in [at : Working, shape : Shapes, began : Nat, parts : PartSets]
<1>1. task[t] \in Request
  BY DEF Served
<1>2. task[t].at \in Working => task[t] \in [at : Working, shape : Shapes, began : Nat, parts : PartSets]
  BY <1>1 DEF Request, Working
<1> QED BY <1>1, <1>2, ServingAssumption DEF Served

\* A request that is let through has nothing yet; one that is not stays away.
LEMMA ServedArrive ==
    ASSUME Served, NEW t \in Tasks, NEW shape \in Shapes, Arrive(t, shape) PROVE Served'
<1>1. /\ cache' = Incr(cache, now \div Window, now, Window) /\ UNCHANGED <<now, built, settled, disk>>
      /\ (task' = task \/ task' = [task EXCEPT ![t] = [at |-> "lookup", shape |-> shape]])
  BY DEF Arrive, Check, files, loading
<1>2. cache'.data = cache.data /\ cache'.freq = cache.freq /\ DOMAIN cache' = DOMAIN cache
  BY <1>1 DEF Incr, Served, Tidy
<1>3. Tidy(cache') /\ Len(cache'.data) <= Capacity
  BY <1>2 DEF Tidy, Served
<1>4. CASE task' = task
  <2>1. Tidy(cache)'
    BY <1>3 DEF Tidy
  <2> QED BY <1>1, <1>3, <1>4, <2>1 DEF Served, IsWhole, StaleAnswersEnd
<1>5. CASE task' = [task EXCEPT ![t] = [at |-> "lookup", shape |-> shape]]
  <2> DEFINE r == [at |-> "lookup", shape |-> shape]
  <2>1. r \in Request /\ IsWhole(r) /\ r.at # "idle"
    BY DEF Request, IsWhole, Working
  <2> HIDE DEF r
  <2> QED BY <1>1, <1>3, <1>5, <2>1, RequestMoves DEF r
<1> QED BY <1>1, <1>4, <1>5

\* A ranking found in the cache has not outlived its time.
LEMMA ServedLookup ==
    ASSUME Served, NEW t \in Tasks, Lookup(t) PROVE Served'
<1> DEFINE key == task[t].shape
           e == EntryOf(cache, key)
<1>1. /\ task[t].at = "lookup" /\ cache' = Get(cache, key, now) /\ UNCHANGED <<now, built, settled, disk>>
      /\ task' = [task EXCEPT ![t] = IF Hit(cache, key, now) THEN Ended(e.value) ELSE [task[t] EXCEPT !.at = "pool"]]
  BY DEF Lookup, files, loading
<1>2. task[t] \in [at : {"lookup", "pool"}, shape : Shapes]
  BY <1>1, ServedParts DEF Request, Working
<1>3. /\ Tidy(cache') /\ Len(cache'.data) <= Capacity
  <2>1. Len(cache.data) \in Nat /\ Len(Get(cache, key, now).data) \in Nat
    BY ServedParts, GetIsTidy DEF Tidy
  <2> QED BY <1>1, <2>1, ServedParts, GetIsTidy, CacheAssumption
<1>4. CASE Hit(cache, key, now)
  <2>1. e \in Entry /\ e.expires >= now
    BY <1>4, ServedParts, GetIsTidy
  <2> HIDE DEF e
  <2>2. e.value.computed \in Nat /\ e.expires = e.value.computed + Ttl
    BY <2>1 DEF Entry, Answer
  <2>3. Ended(e.value) \in Request /\ Ended(e.value).at = "idle" /\ Ended(e.value).age <= Ttl
    BY <2>1, <2>2, ServedParts DEF Ended, Request
  <2>4. IsWhole(Ended(e.value))
    BY <2>3 DEF IsWhole, Working
  <2> QED BY <1>1, <1>3, <1>4, <2>3, <2>4, RequestMoves DEF e
<1>5. CASE ~Hit(cache, key, now)
  <2> DEFINE r == [task[t] EXCEPT !.at = "pool"]
  <2>1. r \in Request /\ r.at = "pool"
    BY <1>2 DEF Request
  <2>2. task' = [task EXCEPT ![t] = r]
    BY <1>1, <1>5
  <2> HIDE DEF r
  <2>3. IsWhole(r)
    BY <2>1 DEF IsWhole, Working
  <2> QED BY <1>1, <1>3, <2>1, <2>2, <2>3, RequestMoves
<1> QED BY <1>4, <1>5

\* A request that fails is gone.
LEMMA ServedFailed ==
    ASSUME Served, NEW t \in Tasks, Failed(t), UNCHANGED <<cache, now, built, settled, disk>> PROVE Served'
<1> DEFINE r == [at |-> "idle", age |-> 0]
<1>1. r \in Request /\ r.at = "idle" /\ r.age <= Ttl /\ task' = [task EXCEPT ![t] = r] /\ IsWhole(r)
  BY ServedParts DEF Failed, Request, IsWhole, Working
<1> HIDE DEF r
<1> QED BY <1>1, ServedParts, RequestMoves

\* One more part of a ranking.
LEMMA WithIsPart ==
    ASSUME NEW parts \in PartSets, NEW part \in Names, NEW content \in Nat
    PROVE  /\ With(parts, part, content) \in PartSets
           /\ DOMAIN With(parts, part, content) = DOMAIN parts \cup {part}
           /\ With(parts, part, content)[part] = content
           /\ \A p \in DOMAIN parts \ {part} : With(parts, part, content)[p] = parts[p]
<1> DEFINE new == With(parts, part, content)
<1>1. PICK S \in SUBSET Names : parts \in [S -> Nat]
  BY DEF PartSets
<1>2. DOMAIN parts \cup {part} \in SUBSET Names /\ new \in [DOMAIN parts \cup {part} -> Nat]
  BY <1>1 DEF With
<1>3. new \in PartSets
  <2> DEFINE T == DOMAIN parts \cup {part}
  <2>1. T \in SUBSET Names /\ new \in [T -> Nat]
    BY <1>2
  <2> HIDE DEF T, new
  <2> QED BY <2>1 DEF PartSets
<1> QED BY <1>3 DEF With

\* What is current is read of a file that nobody writes and of the field of it.
LEMMA SettledReads ==
    ASSUME Orderly, NEW f \in settled
    PROVE  Reads(f) = {disk[f]} /\ (f \in Fields => ranker[f] = disk[f])
<1>1. f \in Files /\ \A a \in Admins : thread[a].at # "write"
  BY DEF Orderly, ReloadType, SettledIsQuiet
<1> QED BY <1>1, ReadsAreContents DEF Orderly, SettledFieldsAgree

\* A request that reads one more part goes on, when the part is current as long as something is.
LEMMA ServedGoto ==
    ASSUME Served, NEW t \in Tasks, task[t].at \in Working,
           NEW step \in Working, NEW part \in Names, NEW content \in Nat, Goto(t, step, part, content),
           UNCHANGED <<cache, now, built, settled, disk>>,
           task[t].began = built /\ FileOf[part] \in settled => content = disk[FileOf[part]],
           step # "select", step \in {"embed", "vectors", "index"} => task[t].shape = "custom",
           step \in {"fit", "store"} /\ task[t].shape = "default" =>
               \/ part = "column" /\ content = task[t].parts["rows"]
               \/ task[t].at \in {"fit", "store"} /\ part \notin {"rows", "column"}
    PROVE  Served'
<1> DEFINE q == task[t]
           parts == With(q.parts, part, content)
           r == [q EXCEPT !.at = step, !.parts = parts]
<1>1. q \in [at : Working, shape : Shapes, began : Nat, parts : PartSets] /\ IsWhole(q)
  BY ServedParts
<1>2. /\ parts \in PartSets /\ DOMAIN parts = DOMAIN q.parts \cup {part} /\ parts[part] = content
      /\ \A p \in DOMAIN q.parts \ {part} : parts[p] = q.parts[p]
  <2>1. q.parts \in PartSets
    BY <1>1
  <2> HIDE DEF q
  <2> QED BY ONLY <2>1, WithIsPart, part \in Names, content \in Nat
<1>3. task' = [task EXCEPT ![t] = r]
  BY DEF Goto
<1> HIDE DEF q, parts
<1>4. r \in Request /\ r.at = step /\ r.shape = q.shape /\ r.began = q.began /\ r.parts = parts
  BY <1>1, <1>2 DEF Request
<1> HIDE DEF r
<1>5. IsWhole(r)
  <2>1. "rows" \in DOMAIN q.parts /\ q.began <= built
    BY <1>1 DEF IsWhole, q
  <2>2. ASSUME q.began = built
        PROVE  settled # {} /\ \A p \in DOMAIN parts : FileOf[p] \in settled => parts[p] = disk[FileOf[p]]
    BY <1>1, <1>2, <2>2 DEF IsWhole, q
  <2>3. ASSUME step \in {"fit", "store"}, q.shape = "default"
        PROVE  "column" \in DOMAIN parts /\ parts["column"] = parts["rows"]
    <3>1. CASE part = "column" /\ content = q.parts["rows"]
      BY <1>2, <2>1, <3>1
    <3>2. CASE q.at \in {"fit", "store"} /\ part \notin {"rows", "column"}
      <4>1. "column" \in DOMAIN q.parts /\ q.parts["column"] = q.parts["rows"]
        BY <1>1, <2>3, <3>2 DEF IsWhole
      <4> QED BY <1>2, <2>1, <3>2, <4>1
    <3> QED BY <2>3, <3>1, <3>2 DEF q
  <2> QED BY <1>2, <1>4, <2>1, <2>2, <2>3 DEF IsWhole, q
<1>6. r.at # "idle"
  BY <1>4 DEF Working
<1> QED BY <1>3, <1>4, <1>5, <1>6, ServedParts, RequestMoves

\* The files of the parts.
LEMMA FilesOfParts ==
    /\ Names = {"rows", "column", "ids", "meta", "map", "vectors", "index", "model"}
    /\ FileOf["rows"] = "matrix" /\ FileOf["column"] = "matrix" /\ FileOf["ids"] = "ids" /\ FileOf["meta"] = "meta"
    /\ FileOf["map"] = "embeddings" /\ FileOf["vectors"] = "embeddings" /\ FileOf["index"] = "bm25"
    /\ FileOf["model"] = "model"
BY DEF Names, FileOf

\* The rows come first.
LEMMA ServedPool ==
    ASSUME Served, Orderly, NEW t \in Tasks, Pool(t) PROVE Served'
<1> DEFINE step == IF task[t].shape = "subset" THEN "select" ELSE "retrieve"
           began == IF settled = {} THEN 0 ELSE built
           parts == [part \in {"rows"} |-> ranker["matrix"]]
           r == [at |-> step, shape |-> task[t].shape, began |-> began, parts |-> parts]
<1>1. task[t].at = "pool" /\ task' = [task EXCEPT ![t] = r] /\ UNCHANGED <<cache, now, built, settled, disk>>
  BY DEF Pool, files, loading
<1>2. task[t].shape \in Shapes
  BY <1>1, ServedParts DEF Request, Working
<1>3. ranker["matrix"] \in Nat /\ built \in Nat \ {0}
  BY DEF Orderly, ReloadType, Fields
<1>4. parts \in PartSets /\ DOMAIN parts = {"rows"} /\ parts["rows"] = ranker["matrix"]
  <2> DEFINE S == {"rows"}
  <2>1. S \in SUBSET Names /\ parts \in [S -> Nat]
    BY <1>3, FilesOfParts
  <2>2. DOMAIN parts = {"rows"} /\ parts["rows"] = ranker["matrix"]
    OBVIOUS
  <2> HIDE DEF S, parts
  <2> QED BY <2>1, <2>2 DEF PartSets
<1>5. "matrix" \in settled => ranker["matrix"] = disk["matrix"]
  BY SettledReads DEF Fields
<1>6. began \in Nat /\ began <= built /\ (began = built => settled # {})
  BY <1>3
<1> HIDE DEF parts, began
<1>7. r \in Request /\ r.at = step /\ r.shape = task[t].shape /\ r.began = began /\ r.parts = parts
  BY <1>2, <1>4, <1>6 DEF Request, Working
<1> HIDE DEF r
<1>8. IsWhole(r) /\ r.at # "idle"
  BY <1>4, <1>5, <1>6, <1>7, FilesOfParts DEF IsWhole
<1> QED BY <1>1, <1>7, <1>8, ServedParts, RequestMoves

\* The parts of a ranking, one after another.
LEMMA ServedRank ==
    ASSUME Served, Orderly, NEW t \in Tasks,
           Select(t) \/ Retrieve(t) \/ Embed(t) \/ ReadVectors(t) \/ ReadIndex(t) \/ Fit(t)
    PROVE  Served'
<1> DEFINE q == task[t]
<1>1. UNCHANGED <<cache, now, built, settled, disk>> /\ q.at \in Working
  BY DEF Select, Retrieve, Embed, ReadVectors, ReadIndex, Fit, files, loading, Working
<1>2. q \in [at : Working, shape : Shapes, began : Nat, parts : PartSets] /\ IsWhole(q)
  BY <1>1, ServedParts
<1>3. ReloadType /\ Fields \subseteq Files /\ {"meta", "model"} \subseteq Files
  BY WritesCoverFiles DEF Orderly
<1>4. ASSUME NEW f \in Fields
      PROVE  ranker[f] \in Nat /\ (f \in settled => ranker[f] = disk[f])
  BY <1>3, SettledReads DEF ReloadType
<1>5. ASSUME NEW f \in Files, NEW content \in Reads(f)
      PROVE  content \in Nat /\ (f \in settled => content = disk[f])
  BY <1>3, <1>5, ReadsAreContents, SettledReads
<1>6. CASE Failed(t)
  BY <1>1, <1>6, ServedFailed
<1>7. CASE Select(t) /\ ~Failed(t)
  <2>1. q.at = "select" /\ Goto(t, "retrieve", "rows", ranker["matrix"])
    BY <1>7 DEF Select
  <2> QED BY <1>1, <1>4, <2>1, ServedGoto, FilesOfParts DEF Working, Fields
<1>8. CASE Retrieve(t) /\ ~Failed(t)
  <2>1. CASE q.shape = "custom"
    <3>1. q.at = "retrieve" /\ Goto(t, "embed", "ids", ranker["ids"])
      BY <1>8, <2>1 DEF Retrieve
    <3> QED BY <1>1, <1>4, <2>1, <3>1, ServedGoto, FilesOfParts DEF Working, Fields
  <2>2. CASE q.shape # "custom"
    <3> DEFINE rows == q.parts["rows"]
    <3>1. q.at = "retrieve" /\ Goto(t, "fit", "column", rows)
      BY <1>8, <2>2 DEF Retrieve, DefaultScores
    <3>2. "rows" \in DOMAIN q.parts /\ rows \in Nat
      BY <1>1, <1>2 DEF IsWhole, PartSets
    <3>3. ASSUME q.began = built, "matrix" \in settled PROVE rows = disk["matrix"]
      BY <1>1, <1>2, <3>2, <3>3, FilesOfParts DEF IsWhole
    <3> QED BY <1>1, <3>1, <3>2, <3>3, ServedGoto, FilesOfParts DEF Working
  <2> QED BY <2>1, <2>2
<1>9. CASE Embed(t) /\ ~Failed(t)
  <2>1. PICK meta \in Reads("meta") : Goto(t, "vectors", "meta", meta)
    BY <1>9 DEF Embed
  <2>2. q.shape = "custom" /\ q.at = "embed"
    BY <1>1, <1>2, <1>9 DEF IsWhole, Embed
  <2> QED BY <1>1, <1>3, <1>5, <2>1, <2>2, ServedGoto, FilesOfParts DEF Working
<1>10. CASE ReadVectors(t) /\ ~Failed(t)
  <2> DEFINE mapped == With(q.parts, "map", ranker["embeddings"])
  <2>1. PICK vectors \in Reads("embeddings") :
            task' = [task EXCEPT ![t] = [q EXCEPT !.at = "index", !.parts = With(mapped, "vectors", vectors)]]
    BY <1>10 DEF ReadVectors
  <2> DEFINE parts == With(mapped, "vectors", vectors)
             r == [q EXCEPT !.at = "index", !.parts = parts]
  <2>2. q.at = "vectors" /\ q.shape = "custom"
    BY <1>1, <1>2, <1>10 DEF IsWhole, ReadVectors
  <2>3. /\ ranker["embeddings"] \in Nat /\ vectors \in Nat
        /\ "embeddings" \in settled => ranker["embeddings"] = disk["embeddings"] /\ vectors = disk["embeddings"]
    BY <1>3, <1>4, <1>5 DEF Fields
  <2>4. /\ mapped \in PartSets /\ DOMAIN mapped = DOMAIN q.parts \cup {"map"}
        /\ mapped["map"] = ranker["embeddings"] /\ \A p \in DOMAIN q.parts \ {"map"} : mapped[p] = q.parts[p]
    <3>1. q.parts \in PartSets /\ "map" \in Names /\ ranker["embeddings"] \in Nat
      BY <1>2, <2>3, FilesOfParts
    <3> HIDE DEF q
    <3> QED BY ONLY <3>1, WithIsPart
  <2> HIDE DEF mapped
  <2>5. /\ parts \in PartSets /\ DOMAIN parts = DOMAIN mapped \cup {"vectors"}
        /\ parts["vectors"] = vectors /\ \A p \in DOMAIN mapped \ {"vectors"} : parts[p] = mapped[p]
    <3>1. "vectors" \in Names /\ vectors \in Nat
      BY <2>3, FilesOfParts
    <3> QED BY ONLY <2>4, <3>1, WithIsPart
  <2> HIDE DEF parts
  <2>6. r \in Request /\ r.at = "index" /\ r.shape = q.shape /\ r.began = q.began /\ r.parts = parts
    BY <1>2, <2>5 DEF Request, Working
  <2>7. task' = [task EXCEPT ![t] = r]
    BY <2>1 DEF parts
  <2> HIDE DEF r
  <2>8. IsWhole(r)
    <3>1. "rows" \in DOMAIN q.parts /\ q.began <= built
      BY <1>1, <1>2 DEF IsWhole
    <3>2. ASSUME q.began = built
          PROVE  settled # {} /\ \A p \in DOMAIN parts : FileOf[p] \in settled => parts[p] = disk[FileOf[p]]
      <4>1. settled # {} /\ \A p \in DOMAIN q.parts : FileOf[p] \in settled => q.parts[p] = disk[FileOf[p]]
        BY <1>1, <1>2, <3>2 DEF IsWhole
      <4> QED BY <2>3, <2>4, <2>5, <4>1, FilesOfParts
    <3> QED BY <2>2, <2>4, <2>5, <2>6, <3>1, <3>2 DEF IsWhole
  <2> QED BY <1>1, <2>6, <2>7, <2>8, ServedParts, RequestMoves
<1>11. CASE ReadIndex(t) /\ ~Failed(t)
  <2>1. q.at = "index" /\ q.shape = "custom" /\ Goto(t, "fit", "index", ranker["bm25"])
    BY <1>1, <1>2, <1>11 DEF ReadIndex, IsWhole
  <2> QED BY <1>1, <1>4, <2>1, ServedGoto, FilesOfParts DEF Working, Fields
<1>12. CASE Fit(t)
  <2>1. CASE \E model \in Reads("model") : Goto(t, "store", "model", model)
    <3>1. PICK model \in Reads("model") : Goto(t, "store", "model", model)
      BY <2>1
    <3>2. q.at = "fit"
      BY <1>12 DEF Fit
    <3> QED BY <1>1, <1>3, <1>5, <3>1, <3>2, ServedGoto, FilesOfParts DEF Working
  <2>2. CASE task' = [task EXCEPT ![t].at = "store"]
    <3> DEFINE r == [q EXCEPT !.at = "store"]
    <3>1. r \in Request /\ r.at = "store" /\ r.shape = q.shape /\ r.began = q.began /\ r.parts = q.parts
      BY <1>2 DEF Request, Working
    <3>2. task' = [task EXCEPT ![t] = r]
      BY <2>2
    <3>3. q.at = "fit"
      BY <1>12 DEF Fit
    <3> HIDE DEF r
    <3>4. IsWhole(r)
      BY <1>1, <1>2, <3>1, <3>3 DEF IsWhole
    <3> QED BY <1>1, <3>1, <3>2, <3>4, ServedParts, RequestMoves
  <2> QED BY <1>12, <2>1, <2>2 DEF Fit
<1> QED BY <1>6, <1>7, <1>8, <1>9, <1>10, <1>11, <1>12

\* A new ranking is stored with its time to live.
LEMMA ServedStore ==
    ASSUME Served, Orderly, NEW t \in Tasks, Store(t) PROVE Served'
<1> DEFINE q == task[t]
           answer == [parts |-> q.parts, calm |-> Calm(t), computed |-> now]
           e == [key |-> q.shape, value |-> answer, expires |-> now + Ttl]
<1>1. /\ q.at = "store" /\ cache' = Set(cache, q.shape, answer, now + Ttl) /\ UNCHANGED <<now, built, settled, disk>>
      /\ task' = [task EXCEPT ![t] = Ended(answer)]
  BY DEF Store, files, loading
<1>2. q.shape \in Shapes /\ q.parts \in PartSets /\ IsWhole(q) /\ q.at \in Working
  BY <1>1, ServedParts DEF Working
<1>3. q.shape = "default" => q.parts["column"] = q.parts["rows"]
  BY <1>1, <1>2 DEF IsWhole
<1>4. ASSUME NEW x \in DOMAIN q.parts, NEW y \in DOMAIN q.parts, {FileOf[x], FileOf[y]} \subseteq Calm(t)
      PROVE  q.parts[x] = q.parts[y]
  <2>1. q.began = built /\ {FileOf[x], FileOf[y]} \subseteq settled
    BY <1>4 DEF Calm
  <2>2. q.parts[x] = disk[FileOf[x]] /\ q.parts[y] = disk[FileOf[y]]
    BY <1>2, <2>1 DEF IsWhole
  <2>3. disk[FileOf[x]] = disk[FileOf[y]]
    BY <2>1 DEF Orderly, SettledFieldsAgree
  <2> QED BY <2>2, <2>3
<1>5. answer \in Answer /\ now + Ttl \in Nat
  <2>1. Calm(t) \in SUBSET Files
    BY DEF Calm, Orderly, ReloadType
  <2> QED BY <1>2, <2>1, ServedParts DEF Answer
<1>6. /\ e.key = q.shape /\ e.value = answer /\ e.expires = now + Ttl
      /\ answer.parts = q.parts /\ answer.calm = Calm(t) /\ answer.computed = now
  OBVIOUS
<1>7. e \in [key : Shapes, value : Answer, expires : Nat]
  BY <1>2, <1>5
<1> HIDE DEF e, answer, q
<1>8. e \in Entry
  BY <1>3, <1>4, <1>6, <1>7 DEF Entry, IsOneRanking
<1>9. Tidy(cache') /\ Len(cache'.data) <= Capacity
  BY <1>1, <1>8, ServedParts, SetIsTidy DEF e
<1>10. Ended(answer) \in Request /\ Ended(answer).at = "idle" /\ Ended(answer).age <= Ttl
  BY <1>6, ServedParts DEF Ended, Request
<1>11. IsWhole(Ended(answer))
  BY <1>10 DEF IsWhole, Working
<1> QED BY <1>1, <1>9, <1>10, <1>11, RequestMoves

\* An admin request unsettles whatever is being computed, or finds it unsettled.
LEMMA ServedAdmin ==
    ASSUME Served, Orderly, NEW a \in Admins, UNCHANGED <<cache, task, now>>,
           TriggerPrecompute(a) \/ (thread[a].at # "idle" /\ built' = built)
    PROVE  Served'
<1>1. built \in Nat
  BY DEF Orderly, ReloadType
<1>2. ASSUME NEW t \in Tasks PROVE IsWhole(task[t])'
  <2>1. task[t].at \in Working => /\ IsWhole(task[t]) /\ task[t].began \in Nat
                                  /\ task[t].began <= built' /\ task[t].began # built'
    <3>1. CASE TriggerPrecompute(a)
      <4>1. built' = built + 1
        BY <3>1 DEF TriggerPrecompute
      <4>2. task[t].at \in Working => task[t].began \in Nat /\ IsWhole(task[t]) /\ task[t].began <= built
        BY ServedParts DEF IsWhole
      <4> QED BY <1>1, <4>1, <4>2
    <3>2. CASE thread[a].at # "idle" /\ built' = built
      <4>1. settled = {}
        BY <3>2, BusyUnsettles
      <4>2. task[t].at \in Working => task[t].began \in Nat /\ IsWhole(task[t])
        BY ServedParts
      <4> QED BY <3>2, <4>1, <4>2 DEF IsWhole
    <3> QED BY <3>1, <3>2
  <2> QED BY <2>1 DEF IsWhole
<1>3. Tidy(cache)' /\ StaleAnswersEnd'
  BY DEF Served, Tidy, StaleAnswersEnd
<1> QED BY <1>2, <1>3 DEF Served

\* Every step keeps the cache within its bounds and its entries true.
LEMMA ServedStep == Orderly /\ Served /\ [Next]_vars => Served'
<1> SUFFICES ASSUME Orderly, Served, [Next]_vars PROVE Served'
  OBVIOUS
<1>1. ASSUME UNCHANGED <<cache, task, built, settled, disk>>, now' \in Nat PROVE Served'
  BY <1>1 DEF Served, Tidy, IsWhole, StaleAnswersEnd
<1>2. CASE Tick
  BY <1>1, <1>2 DEF Tick, Served, files, loading
<1>3. ASSUME NEW t \in Tasks, NEW shape \in Shapes, Arrive(t, shape) PROVE Served'
  BY <1>3, ServedArrive
<1>4. ASSUME NEW t \in Tasks, \/ Lookup(t) \/ Pool(t) \/ Select(t) \/ Retrieve(t) \/ Embed(t) \/ ReadVectors(t)
                              \/ ReadIndex(t) \/ Fit(t) \/ Store(t)
      PROVE  Served'
  BY <1>4, ServedLookup, ServedPool, ServedRank, ServedStore
<1>5. ASSUME NEW a \in Admins, AdminStep(a) PROVE Served'
  <2>1. UNCHANGED <<cache, task, now>>
    BY <1>5, AdminsLeaveRequests
  <2>2. TriggerPrecompute(a) \/ (thread[a].at # "idle" /\ built' = built)
    BY <1>5 DEF AdminStep, Write, TrainingFails, WriteAs, PrecomputeFails, LoadFails, LoadMatrix, Validate, LoadIds,
                LoadSpec, LoadEmbeddings, LoadIndex, LoadManifest, AssignWhole, Assign, Skip, files
  <2> QED BY <2>1, <2>2, ServedAdmin
<1>6. CASE UNCHANGED vars
  BY <1>1, <1>6 DEF vars, serving, files, loading, Served
<1> QED BY <1>2, <1>3, <1>4, <1>5, <1>6 DEF Next, AdminStep

LEMMA AlwaysServed == Spec => []Served
<1>1. Init => Orderly /\ Served
  BY OrderlyInit, ServedInit
<1>2. Orderly /\ Served /\ [Next]_vars => (Orderly /\ Served)'
  BY OrderlyStep, ServedStep
<1> QED BY <1>1, <1>2, PTL DEF Spec

\* The cache never outgrows its capacity and keeps no frequency of a key that is gone, for every
\* capacity and eviction policy.
THEOREM CacheAlwaysBounded == Spec => []CacheStaysBounded
<1>1. Served => CacheStaysBounded
  BY DEF Served, Tidy, CacheStaysBounded, KeysOf, Keys
<1> QED BY <1>1, AlwaysServed, PTL

\* For any number of requests, admins and precomputes, of any sizes: the retrieval scores of a ranking for
\* the default job description are those of its rows, and a ranking that no precompute overlapped with is
\* of one precompute, the model included, but for the files that a failed stage has left as they were.
THEOREM AnswersAlwaysWhole == Spec => []AnswersAreWhole
<1>1. Served => AnswersAreWhole
  <2> SUFFICES ASSUME Served, NEW i \in DOMAIN cache.data
               PROVE  /\ cache.data[i].key = "default" => cache.data[i].value.parts.column = cache.data[i].value.parts.rows
                      /\ \A p, q \in DOMAIN cache.data[i].value.parts :
                            {FileOf[p], FileOf[q]} \subseteq cache.data[i].value.calm =>
                               cache.data[i].value.parts[p] = cache.data[i].value.parts[q]
    BY DEF AnswersAreWhole, Range
  <2>1. cache.data[i] \in Entry
    BY DEF Served, Tidy
  <2> QED BY <2>1 DEF Entry, IsOneRanking
<1> QED BY <1>1, AlwaysServed, PTL

\* No answer is older than the time to live, for any time to live and any traffic.
THEOREM StaleAnswersAlwaysEnd == Spec => []StaleAnswersEnd
BY AlwaysServed, PTL DEF Served
=============================================================================
