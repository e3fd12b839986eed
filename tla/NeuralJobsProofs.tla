--------------------------- MODULE NeuralJobsProofs ---------------------------
(***************************************************************************)
(* Theorems about NeuralJobs, for every set of jobs and every number of    *)
(* attempts and faults: what a queue and its counters hold, that a         *)
(* training is begun no more often than allowed, and that a completed run  *)
(* stays.                                                                  *)
(***************************************************************************)
EXTENDS NeuralJobs, SequenceTheorems, TLAPS

Elements(s) == {s[i] : i \in 1..Len(s)}

Types ==
  /\ group \subseteq Queues /\ done \subseteq Jobs
  /\ stream \in [Queues -> Seq(Jobs)] /\ pending \in [Queues -> Seq(Jobs)]
  /\ fails \in [Jobs -> Nat] /\ starts \in [Jobs -> Nat]
  /\ row \in [Runs -> Active \cup {"absent", "deleted", "completed", "failed"}]
  /\ request \in [Runs -> [at: {"none", "checked", "inserted", "failing", "answered"},
                           doomed: SUBSET Runs]]
  /\ worker \in [Queues -> [at: {"idle", "claimed", "working", "ended"},
                            job: Jobs \cup {None}, ok: BOOLEAN]]
  /\ faults \in 0..MaxFaults

\* A job is in its own queue, once, and one job at most is pending.
QueueOK(q) ==
  /\ IsInjective(stream[q]) /\ Len(pending[q]) <= 1
  /\ Elements(stream[q]) \cap Elements(pending[q]) = {}
  /\ \A j \in Elements(stream[q]) \cup Elements(pending[q]) : QueueOf(j) = q

\* A run whose request has not come to the stream is not there, and has no row
\* before it is inserted.
Unpublished ==
  \A r \in Runs :
    /\ request[r].at \in {"none", "checked", "inserted"} =>
         r \notin Elements(stream[QueueOf(r)]) \cup Elements(pending[QueueOf(r)])
    /\ request[r].at \in {"none", "checked"} => row[r] = "absent"

\* A training that has not been delivered has not been counted; one that has
\* been is counted before it is begun.
Counted ==
  \A j \in Trainings :
    /\ j \in Elements(stream["training.jobs"]) => fails[j] = 0 /\ starts[j] = 0 /\ j \notin done
    /\ starts[j] <= fails[j] /\ starts[j] <= Attempts

\* The job a thread executes is the one pending in its queue.
WorkerOK(q) ==
  worker[q].at # "idle" =>
    /\ pending[q] = <<worker[q].job>>
    /\ worker[q].job \in Trainings => starts[worker[q].job] >= 1
    /\ worker[q].at = "working" => worker[q].job \in Runs /\ row[worker[q].job] # "completed"

QueueInv ==
  /\ Types
  /\ \A q \in Queues : QueueOK(q) /\ WorkerOK(q)
  /\ Unpublished /\ Counted

-------------------------------------------------------------------------------
(***************************************************************************)
(* Sequences without repetition.                                           *)
(***************************************************************************)
LEMMA ElementsAreRange ==
  ASSUME NEW S, NEW s \in Seq(S)
  PROVE  Range(s) = Elements(s)
  BY DEF Range, Elements

LEMMA AppendNew ==
  ASSUME NEW S, NEW s \in Seq(S), NEW e \in S, IsInjective(s), e \notin Elements(s)
  PROVE  /\ Append(s, e) \in Seq(S)
         /\ IsInjective(Append(s, e)) /\ Elements(Append(s, e)) = Elements(s) \cup {e}
  <1>1. /\ Append(s, e) \in Seq(S) /\ Len(Append(s, e)) = Len(s) + 1 /\ Len(s) \in Nat
        /\ \A i \in 1..Len(s) : Append(s, e)[i] = s[i]
        /\ Append(s, e)[Len(s) + 1] = e
    OBVIOUS
  <1>2. DOMAIN s = 1..Len(s) /\ DOMAIN Append(s, e) = 1..Len(s) + 1
    BY <1>1
  <1>3. IsInjective(Append(s, e))
    BY <1>1, <1>2 DEF IsInjective, Elements
  <1>4. Elements(Append(s, e)) = Elements(s) \cup {e}
    BY <1>1 DEF Elements
  <1> QED BY <1>1, <1>3, <1>4

LEMMA TakeHead ==
  ASSUME NEW S, NEW s \in Seq(S), s # <<>>, IsInjective(s)
  PROVE  /\ Head(s) \in S /\ Tail(s) \in Seq(S) /\ IsInjective(Tail(s))
         /\ Head(s) \in Elements(s) /\ Elements(Tail(s)) = Elements(s) \ {Head(s)}
  <1>1. /\ Tail(s) \in Seq(S) /\ Len(Tail(s)) = Len(s) - 1 /\ Len(s) \in Nat \ {0}
        /\ \A i \in 1..Len(s) - 1 : Tail(s)[i] = s[i + 1]
        /\ Head(s) = s[1]
    OBVIOUS
  <1>2. DOMAIN s = 1..Len(s) /\ DOMAIN Tail(s) = 1..Len(s) - 1
    BY <1>1
  <1>3. \A i, k \in 1..Len(s) : s[i] = s[k] => i = k
    BY <1>2 DEF IsInjective
  <1>4. IsInjective(Tail(s))
    BY <1>1, <1>2, <1>3 DEF IsInjective
  <1>5. ASSUME NEW e \in Elements(s), e # Head(s) PROVE e \in Elements(Tail(s))
    <2>1. PICK i \in 1..Len(s) : e = s[i]
      BY <1>5 DEF Elements
    <2>2. i - 1 \in 1..Len(s) - 1 /\ Tail(s)[i - 1] = e
      BY <1>1, <1>5, <2>1
    <2> QED BY <1>1, <2>2 DEF Elements
  <1>6. ASSUME NEW e \in Elements(Tail(s)) PROVE e \in Elements(s) /\ e # Head(s)
    <2>1. PICK i \in 1..Len(s) - 1 : e = s[i + 1]
      BY <1>1 DEF Elements
    <2> QED BY <1>1, <1>3, <2>1 DEF Elements
  <1>7. Head(s) \in S /\ Head(s) \in Elements(s)
    BY <1>1 DEF Elements
  <1> QED BY <1>1, <1>4, <1>5, <1>6, <1>7

LEMMA AtMostOne ==
  ASSUME NEW S, NEW s \in Seq(S), Len(s) <= 1
  PROVE  \/ s = <<>> /\ Elements(s) = {}
         \/ s = <<Head(s)>> /\ Head(s) \in S /\ Tail(s) = <<>> /\ Elements(s) = {Head(s)}
  <1>1. CASE s = <<>>
    BY <1>1 DEF Elements
  <1>2. CASE s # <<>>
    <2>1. Len(s) = 1 /\ Head(s) = s[1] /\ Head(s) \in S
      BY <1>2
    <2>2. s = <<Head(s)>>
      BY <2>1, SeqEqual
    <2>3. Tail(s) \in Seq(S) /\ Len(Tail(s)) = 0
      BY <2>1
    <2>4. Tail(s) = <<>>
      BY <2>3, EmptySeq
    <2> QED BY <2>1, <2>2, <2>4 DEF Elements
  <1> QED BY <1>1, <1>2

LEMMA Singleton ==
  ASSUME NEW e
  PROVE  Len(<<e>>) = 1 /\ Elements(<<e>>) = {e} /\ Head(<<e>>) = e /\ Tail(<<e>>) = <<>>
  BY DEF Elements

LEMMA EmptySequence == Len(<<>>) = 0 /\ Elements(<<>>) = {} /\ IsInjective(<<>>)
  BY DEF Elements, IsInjective

LEMMA QueueOfJob == \A j \in Jobs : QueueOf(j) \in Queues
  BY DEF QueueOf, Queues

LEMMA InQueueIs ==
  ASSUME Types, NEW j \in Jobs
  PROVE  InQueue(j) <=> j \in Elements(stream[QueueOf(j)]) \cup Elements(pending[QueueOf(j)])
  BY QueueOfJob, ElementsAreRange DEF Types, InQueue

-------------------------------------------------------------------------------
LEMMA InitialQueueInv == Init => QueueInv
  <1> SUFFICES ASSUME Init PROVE QueueInv
    OBVIOUS
  <1>1. Types
    BY JobBounds DEF Init, Types, Unasked, Resting
  <1>2. \A q \in Queues : stream[q] = <<>> /\ pending[q] = <<>> /\ worker[q].at = "idle"
    BY DEF Init, Resting
  <1>3. \A q \in Queues : QueueOK(q) /\ WorkerOK(q)
    BY <1>2, EmptySequence DEF QueueOK, WorkerOK
  <1>4. \A j \in Jobs : Elements(stream[QueueOf(j)]) = {} /\ Elements(pending[QueueOf(j)]) = {}
    BY <1>2, QueueOfJob, EmptySequence
  <1>5. Unpublished
    BY <1>4 DEF Unpublished, Init, Jobs
  <1>6. Counted
    <2>1. Elements(stream["training.jobs"]) = {}
      BY <1>2, EmptySequence DEF Queues
    <2> QED BY <2>1, JobBounds DEF Counted, Init, Jobs
  <1> QED BY <1>1, <1>3, <1>5, <1>6 DEF QueueInv

(***************************************************************************)
(* The backend's requests and rows.                                        *)
(***************************************************************************)
LEMMA RowsStep ==
  ASSUME QueueInv, UNCHANGED <<queue, worker, starts>>, Types',
         \A r \in Runs : /\ request'[r].at \in {"none", "checked", "inserted"} =>
                              request[r].at \in {"none", "checked", "inserted"}
                         /\ request'[r].at \in {"none", "checked"} => row'[r] = "absent"
                         /\ row'[r] = "completed" => row[r] = "completed"
  PROVE  QueueInv'
  <1>1. UNCHANGED <<group, stream, pending, fails, done>>
    BY DEF queue
  <1>2. \A q \in Queues : QueueOK(q)' /\ WorkerOK(q)'
    BY <1>1 DEF QueueInv, QueueOK, WorkerOK
  <1>3. Unpublished'
    BY <1>1 DEF QueueInv, Unpublished
  <1>4. Counted'
    BY <1>1 DEF QueueInv, Counted
  <1> QED BY <1>2, <1>3, <1>4 DEF QueueInv

LEMMA RequestInv ==
  ASSUME QueueInv, NEW r \in Runs, Check(r) \/ Insert(r) \/ MarkFailed(r) \/ BackendStops(r)
  PROVE  QueueInv'
  <1> DEFINE Request == [at: {"none", "checked", "inserted", "failing", "answered"},
                         doomed: SUBSET Runs]
             Status == Active \cup {"absent", "deleted", "completed", "failed"}
  <1>1. /\ request \in [Runs -> Request] /\ row \in [Runs -> Status]
        /\ UNCHANGED <<queue, worker, starts>>
    BY DEF QueueInv, Types, Check, Insert, MarkFailed, BackendStops
  <1>2. faults' \in 0..MaxFaults
    BY JobBounds DEF QueueInv, Types, Check, Insert, MarkFailed, BackendStops, Fault
  <1>3. ASSUME request' \in [Runs -> Request], row' \in [Runs -> Status] PROVE Types'
    BY <1>1, <1>2, <1>3 DEF QueueInv, Types, queue
  <1>4. \A o \in Runs : request[o].at \in {"none", "checked"} => row[o] = "absent"
    BY DEF QueueInv, Unpublished
  <1>5. ASSUME NEW k, NEW d \in Doomed(k)
        PROVE  d \in SUBSET Runs /\ \A o \in d : row[o] # "absent"
    BY DEF Doomed, Present
  <1>6. CASE Check(r)
    <2>1. PICK d \in SUBSET Runs : \/ request' = [request EXCEPT ![r] = [at |-> "checked", doomed |-> d]]
                                   \/ request' = [request EXCEPT ![r].at = "checked"]
      BY <1>5, <1>6 DEF Check
    <2>2. request[r].at = "none" /\ row' = row
      BY <1>6 DEF Check
    <2>3. request' \in [Runs -> Request]
      BY <1>1, <2>1
    <2>4. Types'
      BY <1>1, <1>3, <2>2, <2>3
    <2>5. request'[r].at = "checked" /\ \A o \in Runs \ {r} : request'[o] = request[o]
      BY <1>1, <2>1
    <2> QED BY <1>1, <1>4, <2>2, <2>4, <2>5, RowsStep
  <1>7. CASE Insert(r)
    <2>1. /\ row' = [o \in Runs |-> IF o = r THEN "queued"
                                    ELSE IF o \in request[r].doomed THEN "deleted" ELSE row[o]]
          /\ request' = [request EXCEPT ![r].at = "inserted", ![r].doomed = {}]
          /\ request[r].at = "checked"
      BY <1>7 DEF Insert
    <2>2. request' \in [Runs -> Request] /\ row' \in [Runs -> Status]
      BY <1>1, <2>1, ZenonT(60) DEF Active
    <2>3. Types'
      BY <1>3, <2>2
    <2>4. request'[r].at = "inserted" /\ \A o \in Runs \ {r} : request'[o] = request[o]
      BY <1>1, <2>1
    <2> QED BY <1>1, <1>4, <2>1, <2>3, <2>4, RowsStep
  <1>8. CASE MarkFailed(r)
    <2>1. /\ row' = [row EXCEPT ![r] = IF r \in Present THEN "failed" ELSE row[r]]
          /\ request' = [request EXCEPT ![r].at = "answered"]
          /\ request[r].at = "failing"
      BY <1>8 DEF MarkFailed
    <2>2. request' \in [Runs -> Request] /\ row' \in [Runs -> Status]
      BY <1>1, <2>1
    <2>3. Types'
      BY <1>3, <2>2
    <2>4. request'[r].at = "answered" /\ \A o \in Runs \ {r} : request'[o] = request[o]
      BY <1>1, <2>1
    <2> QED BY <1>1, <1>4, <2>1, <2>3, <2>4, RowsStep
  <1>9. CASE BackendStops(r)
    <2>1. /\ row' = row
          /\ request' = [request EXCEPT ![r] = [at |-> "answered", doomed |-> {}]]
      BY <1>9 DEF BackendStops
    <2>2. request' \in [Runs -> Request]
      BY <1>1, <2>1
    <2>3. Types'
      BY <1>1, <1>3, <2>1, <2>2
    <2> QED BY <1>1, <1>4, <2>1, <2>3, RowsStep
  <1> QED BY <1>6, <1>7, <1>8, <1>9

LEMMA DeletionInv ==
  ASSUME QueueInv, ListRuns \/ \E r \in Runs : DeleteRun(r)
  PROVE  QueueInv'
  <1>1. /\ row \in [Runs -> Active \cup {"absent", "deleted", "completed", "failed"}]
        /\ UNCHANGED <<group, stream, pending, fails, done, request, worker, starts, faults>>
    BY DEF QueueInv, Types, DeleteRun, ListRuns, queue
  <1>2. PICK d \in SUBSET Runs : /\ \A o \in d : row[o] # "absent"
                                 /\ row' = [o \in Runs |-> IF o \in d THEN "deleted" ELSE row[o]]
    <2>1. CASE ListRuns
      <3>1. PICK d \in Doomed(Keep + 1) : row' = [o \in Runs |-> IF o \in d THEN "deleted" ELSE row[o]]
        BY <2>1 DEF ListRuns
      <3>2. d \in SUBSET Runs /\ \A o \in d : row[o] # "absent"
        BY <3>1 DEF Doomed, Present
      <3> QED BY <3>1, <3>2
    <2>2. ASSUME NEW r \in Runs, DeleteRun(r)
          PROVE  \E d \in SUBSET Runs : /\ \A o \in d : row[o] # "absent"
                                        /\ row' = [o \in Runs |-> IF o \in d THEN "deleted" ELSE row[o]]
      <3>1. row[r] # "absent" /\ row' = [row EXCEPT ![r] = "deleted"]
        BY <2>2 DEF DeleteRun, Present
      <3>2. row' = [o \in Runs |-> IF o \in {r} THEN "deleted" ELSE row[o]]
        BY <1>1, <3>1
      <3>3. {r} \in SUBSET Runs /\ \A o \in {r} : row[o] # "absent"
        BY <3>1
      <3> QED BY <3>2, <3>3
    <2> QED BY <2>1, <2>2
  <1>3. Types'
    BY <1>1, <1>2 DEF QueueInv, Types
  <1>4. \A r \in Runs : /\ request'[r].at \in {"none", "checked"} => row'[r] = "absent"
                        /\ row'[r] = "completed" => row[r] = "completed"
    BY <1>1, <1>2 DEF QueueInv, Unpublished
  <1> QED BY <1>1, <1>3, <1>4, RowsStep DEF queue

-------------------------------------------------------------------------------
(***************************************************************************)
(* Publications.                                                           *)
(***************************************************************************)
\* A job that is not in its queue is appended to the stream, or not.
LEMMA AppendedInv ==
  ASSUME QueueInv, UNCHANGED <<group, pending, fails, done, row, worker, starts>>, Types',
         NEW j \in Jobs, j \notin Elements(stream[QueueOf(j)]) \cup Elements(pending[QueueOf(j)]),
         stream' = stream \/ stream' = [stream EXCEPT ![QueueOf(j)] = Append(stream[QueueOf(j)], j)],
         \A r \in Runs : /\ request'[r].at \in {"none", "checked", "inserted"} =>
                              request'[r].at = request[r].at /\ r # j,
         j \in Trainings => fails[j] = 0 /\ starts[j] = 0 /\ j \notin done
  PROVE  QueueInv'
  <1> DEFINE k == QueueOf(j)
  <1>1. /\ stream \in [Queues -> Seq(Jobs)] /\ pending \in [Queues -> Seq(Jobs)] /\ k \in Queues
        /\ stream[k] \in Seq(Jobs) /\ IsInjective(stream[k])
    BY QueueOfJob DEF QueueInv, Types, QueueOK
  <1>2. \A q \in Queues : WorkerOK(q)'
    BY DEF QueueInv, WorkerOK
  <1>3. CASE stream' = stream
    <2>1. \A q \in Queues : QueueOK(q)'
      BY <1>3 DEF QueueInv, QueueOK
    <2>2. Unpublished' /\ Counted'
      BY <1>3 DEF QueueInv, Unpublished, Counted
    <2> QED BY <1>2, <2>1, <2>2 DEF QueueInv
  <1>4. CASE stream' = [stream EXCEPT ![k] = Append(stream[k], j)]
    <2>1. /\ stream'[k] = Append(stream[k], j) /\ \A q \in Queues \ {k} : stream'[q] = stream[q]
      BY <1>1, <1>4
    <2>2. /\ IsInjective(stream'[k]) /\ Elements(stream'[k]) = Elements(stream[k]) \cup {j}
      BY <1>1, <2>1, AppendNew
    <2> HIDE DEF k
    <2>3. \A q \in Queues : QueueOK(q)'
      <3>1. QueueOK(k)'
        BY <1>1, <2>2 DEF QueueInv, QueueOK, k
      <3> QED BY <2>1, <3>1 DEF QueueInv, QueueOK
    <2>4. Unpublished'
      <3>1. \A r \in Runs : QueueOf(r) \in Queues
        BY QueueOfJob DEF Jobs
      <3>2. \A r \in Runs : r # j => (r \in Elements(stream'[QueueOf(r)]) => r \in Elements(stream[QueueOf(r)]))
        BY <2>1, <2>2, <3>1
      <3> QED BY <3>2 DEF QueueInv, Unpublished
    <2>5. Counted'
      <3>1. "training.jobs" \in Queues
        BY DEF Queues
      <3>2. \A t \in Elements(stream'["training.jobs"]) : t = j \/ t \in Elements(stream["training.jobs"])
        BY <2>1, <2>2, <3>1
      <3> QED BY <3>2 DEF QueueInv, Counted
    <2> QED BY <1>2, <2>3, <2>4, <2>5 DEF QueueInv
  <1> QED BY <1>3, <1>4

LEMMA PublishInv ==
  ASSUME QueueInv, NEW r \in Runs, Publish(r) \/ PublishFails(r)
  PROVE  QueueInv'
  <1>1. r \in Jobs /\ r \notin Trainings /\ QueueOf(r) \in Queues /\ stream \in [Queues -> Seq(Jobs)]
    BY JobKinds, QueueOfJob DEF Jobs, QueueInv, Types
  <1>2. /\ request[r].at = "inserted"
        /\ stream' = stream \/ stream' = [stream EXCEPT ![QueueOf(r)] = Append(stream[QueueOf(r)], r)]
        /\ UNCHANGED <<group, pending, fails, done, row, worker, starts>>
    BY DEF Publish, PublishFails, Delivered
  <1>3. PICK at \in {"failing", "answered"} : request' = [request EXCEPT ![r].at = at]
    BY DEF Publish, PublishFails
  <1>4. faults' \in 0..MaxFaults
    BY JobBounds DEF QueueInv, Types, Publish, PublishFails, Fault
  <1> DEFINE Request == [at: {"none", "checked", "inserted", "failing", "answered"},
                         doomed: SUBSET Runs]
  <1>5. request \in [Runs -> Request] /\ request' \in [Runs -> Request]
    <2>1. request \in [Runs -> Request] /\ request[r] \in Request
      BY DEF QueueInv, Types
    <2>2. [request[r] EXCEPT !.at = at] \in Request
      BY <2>1
    <2> QED BY <1>3, <2>1, <2>2
  <1>6. stream' \in [Queues -> Seq(Jobs)]
    <2>1. Append(stream[QueueOf(r)], r) \in Seq(Jobs)
      BY <1>1
    <2> QED BY <1>1, <1>2, <2>1
  <1>7. Types'
    BY <1>1, <1>2, <1>4, <1>5, <1>6 DEF QueueInv, Types
  <1>8. request'[r].at = at /\ \A o \in Runs \ {r} : request'[o] = request[o]
    BY <1>3 DEF QueueInv, Types
  <1>9. r \notin Elements(stream[QueueOf(r)]) \cup Elements(pending[QueueOf(r)])
    BY <1>2 DEF QueueInv, Unpublished
  <1> QED BY <1>1, <1>2, <1>7, <1>8, <1>9, AppendedInv

LEMMA PublishTrainingInv ==
  ASSUME QueueInv, NEW j \in Trainings, PublishTraining(j)
  PROVE  QueueInv'
  <1>1. j \in Jobs /\ j \notin Runs /\ QueueOf(j) \in Queues /\ stream \in [Queues -> Seq(Jobs)]
    BY JobKinds, QueueOfJob DEF Jobs, QueueInv, Types
  <1>2. /\ ~InQueue(j) /\ fails[j] = 0 /\ j \notin done
        /\ stream' = stream \/ stream' = [stream EXCEPT ![QueueOf(j)] = Append(stream[QueueOf(j)], j)]
        /\ UNCHANGED <<group, pending, fails, done, row, request, worker, starts, faults>>
    BY DEF PublishTraining, Delivered
  <1>3. stream' \in [Queues -> Seq(Jobs)]
    <2>1. Append(stream[QueueOf(j)], j) \in Seq(Jobs)
      BY <1>1
    <2> QED BY <1>1, <1>2, <2>1
  <1>4. Types'
    BY <1>1, <1>2, <1>3 DEF QueueInv, Types
  <1>5. starts[j] = 0
    BY <1>1, <1>2 DEF QueueInv, Types, Counted
  <1>6. j \notin Elements(stream[QueueOf(j)]) \cup Elements(pending[QueueOf(j)])
    BY <1>1, <1>2, InQueueIs DEF QueueInv
  <1> QED BY <1>1, <1>2, <1>4, <1>5, <1>6, AppendedInv

-------------------------------------------------------------------------------
(***************************************************************************)
(* The neural service takes jobs.                                          *)
(***************************************************************************)
\* What becomes of a queue when it is read or acknowledged: ns is left in the stream
\* and np is pending.
Shift(q, ns, np) ==
  /\ stream' = [stream EXCEPT ![q] = ns] /\ pending' = [pending EXCEPT ![q] = np]
  /\ \/ ns = stream[q] /\ (np = pending[q] \/ np = <<>>)
     \/ stream[q] # <<>> /\ ns = Tail(stream[q]) /\ np = <<Head(stream[q])>>

LEMMA ShiftKeeps ==
  ASSUME QueueInv, NEW q \in Queues, NEW ns, NEW np, Shift(q, ns, np), UNCHANGED <<row, request>>
  PROVE  /\ stream' \in [Queues -> Seq(Jobs)] /\ pending' \in [Queues -> Seq(Jobs)]
         /\ \A o \in Queues : QueueOK(o)'
         /\ Unpublished'
         /\ stream'[q] = ns /\ pending'[q] = np
         /\ Elements(ns) \subseteq Elements(stream[q])
         /\ Elements(ns) \cap (Elements(pending[q]) \cup Elements(np)) = {}
         /\ Elements(np) \subseteq Elements(pending[q]) \cup Elements(stream[q])
  <1>1. /\ stream \in [Queues -> Seq(Jobs)] /\ pending \in [Queues -> Seq(Jobs)]
        /\ stream[q] \in Seq(Jobs) /\ pending[q] \in Seq(Jobs) /\ QueueOK(q)
    BY DEF QueueInv, Types
  <1>2. /\ ns \in Seq(Jobs) /\ np \in Seq(Jobs) /\ IsInjective(ns) /\ Len(np) <= 1
        /\ Elements(ns) \subseteq Elements(stream[q])
        /\ Elements(ns) \cap (Elements(pending[q]) \cup Elements(np)) = {}
        /\ Elements(np) \subseteq Elements(pending[q]) \cup Elements(stream[q])
    <2>1. CASE ns = stream[q] /\ np = pending[q]
      BY <1>1, <2>1 DEF QueueOK
    <2>2. CASE ns = stream[q] /\ np = <<>>
      BY <1>1, <2>2, EmptySequence, EmptySeq DEF QueueOK
    <2>3. CASE stream[q] # <<>> /\ ns = Tail(stream[q]) /\ np = <<Head(stream[q])>>
      <3>1. /\ Head(stream[q]) \in Jobs /\ ns \in Seq(Jobs) /\ IsInjective(ns)
            /\ Head(stream[q]) \in Elements(stream[q])
            /\ Elements(ns) = Elements(stream[q]) \ {Head(stream[q])}
        BY <1>1, <2>3, TakeHead DEF QueueOK
      <3>2. np \in Seq(Jobs) /\ Len(np) = 1 /\ Elements(np) = {Head(stream[q])}
        BY <2>3, <3>1, Singleton
      <3> QED BY <1>1, <3>1, <3>2 DEF QueueOK
    <2> QED BY <2>1, <2>2, <2>3 DEF Shift
  <1>3. /\ stream'[q] = ns /\ pending'[q] = np
        /\ \A o \in Queues \ {q} : stream'[o] = stream[o] /\ pending'[o] = pending[o]
        /\ stream' \in [Queues -> Seq(Jobs)] /\ pending' \in [Queues -> Seq(Jobs)]
    BY <1>1, <1>2 DEF Shift
  <1>4. \A o \in Queues : QueueOK(o)'
    <2>1. QueueOK(q)'
      BY <1>1, <1>2, <1>3 DEF QueueOK
    <2> QED BY <1>3, <2>1 DEF QueueInv, QueueOK
  <1>5. Unpublished'
    <2>1. ASSUME NEW r \in Runs,
                 r \in Elements(stream'[QueueOf(r)]) \cup Elements(pending'[QueueOf(r)])
          PROVE  r \in Elements(stream[QueueOf(r)]) \cup Elements(pending[QueueOf(r)])
      <3>1. QueueOf(r) \in Queues
        BY QueueOfJob DEF Jobs
      <3> QED BY <1>2, <1>3, <2>1, <3>1
    <2> QED BY <2>1 DEF QueueInv, Unpublished
  <1> QED BY <1>2, <1>3, <1>4, <1>5

\* Jobs of a queue that are not in its stream any more are counted, and one of them
\* may be begun, when it has attempts left.
LEMMA CountedKeeps ==
  ASSUME QueueInv, NEW q \in Queues, NEW ns, NEW np, Shift(q, ns, np), UNCHANGED <<row, request, done>>,
         NEW counted, counted \subseteq Elements(pending[q]) \cup Elements(np),
         fails' = [j \in Jobs |-> IF j \in counted THEN CountedAtStart(j) ELSE fails[j]],
         \/ starts' = starts
         \/ \E job \in counted : /\ job \in Trainings => ~Dismissed(job)
                                 /\ starts' = [starts EXCEPT ![job] = @ + 1]
  PROVE  fails' \in [Jobs -> Nat] /\ starts' \in [Jobs -> Nat] /\ Counted'
         /\ \A j \in Jobs : starts'[j] >= starts[j]
  <1>1. /\ fails \in [Jobs -> Nat] /\ starts \in [Jobs -> Nat]
        /\ Attempts \in Nat \ {0} /\ Trainings \subseteq Jobs
    BY JobBounds DEF QueueInv, Types, Jobs
  <1>2. \A j \in counted : j \in Jobs /\ QueueOf(j) = q /\ j \notin Elements(ns)
    <2>1. Elements(ns) \cap (Elements(pending[q]) \cup Elements(np)) = {}
      BY ShiftKeeps
    <2>2. Elements(np) \subseteq Elements(pending[q]) \cup Elements(stream[q])
      BY ShiftKeeps
    <2>3. \A j \in Elements(pending[q]) \cup Elements(stream[q]) : j \in Jobs /\ QueueOf(j) = q
      BY SMTT(60) DEF QueueInv, Types, QueueOK, Elements
    <2> QED BY <2>1, <2>2, <2>3
  <1>3. fails' \in [Jobs -> Nat] /\ \A j \in Jobs : fails'[j] >= fails[j]
    BY <1>1 DEF CountedAtStart
  <1>4. /\ starts' \in [Jobs -> Nat]
        /\ \A j \in Jobs : starts'[j] >= starts[j]
    BY <1>1, <1>2
  <1>5. ASSUME NEW j \in Trainings PROVE starts'[j] <= fails'[j] /\ starts'[j] <= Attempts
    <2>1. j \in Jobs /\ starts[j] <= fails[j] /\ starts[j] <= Attempts
      BY <1>1 DEF QueueInv, Counted
    <2>2. CASE starts'[j] = starts[j]
      BY <1>1, <1>3, <2>1, <2>2
    <2>3. CASE starts'[j] # starts[j]
      <3>1. j \in counted /\ ~Dismissed(j) /\ starts'[j] = starts[j] + 1
        BY <1>1, <1>2, <2>1, <2>3
      <3>2. fails[j] < Attempts /\ fails'[j] = fails[j] + 1
        BY <1>1, <2>1, <3>1 DEF Dismissed, Spent, CountedAtStart
      <3> QED BY <1>1, <2>1, <3>1, <3>2
    <2> QED BY <2>2, <2>3
  <1>6. ASSUME NEW j \in Trainings, j \in Elements(stream'["training.jobs"])
        PROVE  fails'[j] = 0 /\ starts'[j] = 0 /\ j \notin done'
    <2>1. /\ stream'[q] = ns /\ Elements(ns) \subseteq Elements(stream[q])
      BY ShiftKeeps
    <2>. \A o \in Queues \ {q} : stream'[o] = stream[o]
      BY DEF Shift, QueueInv, Types
    <2>2. "training.jobs" \in Queues /\ QueueOf(j) = "training.jobs"
      BY DEF Queues, QueueOf
    <2>3. j \in Elements(stream["training.jobs"])
      BY <1>6, <2>1, <2>2
    <2>4. j \notin counted
      BY <1>2, <1>6, <2>1, <2>2
    <2>5. fails[j] = 0 /\ starts[j] = 0 /\ j \notin done
      BY <2>3 DEF QueueInv, Counted
    <2> QED BY <1>1, <1>2, <2>4, <2>5
  <1> QED BY <1>3, <1>4, <1>5, <1>6 DEF Counted

\* The cases of a call that claims a job.
LEMMA ClaimCases ==
  ASSUME QueueInv, NEW q \in Queues, Claim(q)
  PROVE  \E ns, np, job, counted :
           /\ Shift(q, ns, np)
           /\ counted \subseteq Elements(pending[q]) \cup Elements(np)
           /\ fails' = [j \in Jobs |-> IF j \in counted THEN CountedAtStart(j) ELSE fails[j]]
           /\ \/ job = None
              \/ job \in counted /\ np = <<job>>
           /\ worker' = IF job = None THEN worker
                        ELSE [worker EXCEPT ![q] = [at |-> "claimed", job |-> job, ok |-> FALSE]]
           /\ starts' = IF job = None THEN starts ELSE [starts EXCEPT ![job] = @ + 1]
           /\ job \in Trainings => ~Dismissed(job)
  <1> DEFINE old == pending[q]
             drop == old # <<>> /\ Dismissed(Head(old))
             fresh == (old = <<>> \/ drop) /\ stream[q] # <<>>
             job == IF fresh THEN Head(stream[q]) ELSE IF old = <<>> \/ drop THEN None ELSE Head(old)
             counted == (IF drop THEN {Head(old)} ELSE {}) \cup ({job} \ {None})
             np == (IF drop THEN Tail(old) ELSE old) \o (IF fresh THEN <<job>> ELSE <<>>)
             ns == IF fresh THEN Tail(stream[q]) ELSE stream[q]
  <1>1. /\ pending' = [pending EXCEPT ![q] = np] /\ stream' = [stream EXCEPT ![q] = ns]
        /\ fails' = [j \in Jobs |-> IF j \in counted THEN CountedAtStart(j) ELSE fails[j]]
        /\ worker' = IF job = None THEN worker
                     ELSE [worker EXCEPT ![q] = [at |-> "claimed", job |-> job, ok |-> FALSE]]
        /\ starts' = IF job = None THEN starts ELSE [starts EXCEPT ![job] = @ + 1]
    BY DEF Claim, ReadPending
  <1>2. /\ old \in Seq(Jobs) /\ stream[q] \in Seq(Jobs) /\ Len(old) <= 1 /\ IsInjective(stream[q])
        /\ None \notin Jobs
    BY JobKinds DEF QueueInv, Types, QueueOK
  <1>3. \/ old = <<>> /\ Elements(old) = {}
        \/ old = <<Head(old)>> /\ Head(old) \in Jobs /\ Tail(old) = <<>> /\ Elements(old) = {Head(old)}
    BY <1>2, AtMostOne
  <1>4. CASE fresh
    <2>1. job \in Jobs /\ job = Head(stream[q]) /\ job \in Elements(stream[q])
      BY <1>2, <1>4, TakeHead
    <2>2. np = <<job>> /\ ns = Tail(stream[q])
      <3>1. (IF drop THEN Tail(old) ELSE old) = <<>>
        BY <1>3, <1>4
      <3>2. <<job>> \in Seq(Jobs)
        BY <2>1
      <3> QED BY <1>4, <3>1, <3>2, ConcatEmptySeq
    <2>3. job \in Trainings => ~Dismissed(job)
      <3>1. ASSUME job \in Trainings PROVE fails[job] = 0 /\ job \notin done
        <4>1. QueueOf(job) = "training.jobs" /\ QueueOf(job) = q
          BY <2>1, <3>1 DEF QueueOf, QueueInv, QueueOK
        <4> QED BY <2>1, <3>1, <4>1 DEF QueueInv, Counted
      <3> QED BY <3>1, JobBounds DEF Dismissed, Spent
    <2>4. counted \subseteq Elements(old) \cup Elements(np) /\ job \in counted /\ job # None
      BY <1>2, <1>3, <2>1, <2>2, Singleton
    <2>5. Shift(q, ns, np)
      BY <1>1, <1>4, <2>1, <2>2 DEF Shift
    <2> HIDE DEF ns, np, job, counted
    <2> QED BY <1>1, <2>2, <2>3, <2>4, <2>5
  <1>5. CASE ~fresh /\ (old = <<>> \/ drop)
    <2>1. job = None /\ ns = stream[q]
      BY <1>5
    <2>2. np = <<>>
      <3>1. (IF drop THEN Tail(old) ELSE old) = <<>>
        BY <1>3, <1>5
      <3> QED BY <1>2, <1>5, <3>1, ConcatEmptySeq, EmptySeq
    <2>3. counted \subseteq Elements(old)
      BY <1>2, <1>3, <2>1
    <2>4. Shift(q, ns, np)
      BY <1>1, <2>1, <2>2 DEF Shift
    <2>5. job \notin Trainings
      BY <1>2, <2>1 DEF Jobs
    <2> HIDE DEF ns, np, job, counted
    <2> QED BY <1>1, <2>1, <2>3, <2>4, <2>5
  <1>6. CASE ~(old = <<>> \/ drop)
    <2>1. job = Head(old) /\ ns = stream[q] /\ ~Dismissed(job) /\ old = <<job>>
      BY <1>3, <1>6
    <2>2. np = old
      BY <1>2, <1>6, ConcatEmptySeq
    <2>3. counted = {job} /\ job # None /\ Elements(old) = {job}
      BY <1>2, <1>3, <1>6
    <2>4. Shift(q, ns, np)
      BY <1>1, <2>1, <2>2 DEF Shift
    <2> HIDE DEF ns, np, job, counted
    <2> QED BY <1>1, <2>1, <2>2, <2>3, <2>4
  <1> QED BY <1>4, <1>5, <1>6

LEMMA ClaimInv ==
  ASSUME QueueInv, NEW q \in Queues, Claim(q)
  PROVE  QueueInv'
  <1>1. PICK ns, np, job, counted :
           /\ Shift(q, ns, np)
           /\ counted \subseteq Elements(pending[q]) \cup Elements(np)
           /\ fails' = [j \in Jobs |-> IF j \in counted THEN CountedAtStart(j) ELSE fails[j]]
           /\ \/ job = None
              \/ job \in counted /\ np = <<job>>
           /\ worker' = IF job = None THEN worker
                        ELSE [worker EXCEPT ![q] = [at |-> "claimed", job |-> job, ok |-> FALSE]]
           /\ starts' = IF job = None THEN starts ELSE [starts EXCEPT ![job] = @ + 1]
           /\ job \in Trainings => ~Dismissed(job)
    BY ClaimCases
  <1>2. /\ UNCHANGED <<done, row, request, faults>> /\ group' \subseteq Queues
        /\ worker[q].at = "idle"
    BY DEF Claim, QueueInv, Types
  <1>3. /\ stream' \in [Queues -> Seq(Jobs)] /\ pending' \in [Queues -> Seq(Jobs)]
        /\ \A o \in Queues : QueueOK(o)'
        /\ Unpublished' /\ pending'[q] = np
        /\ Elements(np) \subseteq Elements(pending[q]) \cup Elements(stream[q])
    BY <1>1, <1>2, ShiftKeeps
  <1>4. /\ fails' \in [Jobs -> Nat] /\ starts' \in [Jobs -> Nat] /\ Counted'
        /\ \A j \in Jobs : starts'[j] >= starts[j]
    BY <1>1, <1>2, CountedKeeps
  <1>5. job # None => job \in Jobs
    <2>1. \A j \in Elements(pending[q]) \cup Elements(stream[q]) : j \in Jobs
      BY DEF QueueInv, Types, Elements
    <2> QED BY <1>1, <1>3, <2>1
  <1>6. worker' \in [Queues -> [at: {"idle", "claimed", "working", "ended"},
                                job: Jobs \cup {None}, ok: BOOLEAN]]
    BY <1>1, <1>5 DEF QueueInv, Types
  <1>7. Types'
    BY <1>2, <1>3, <1>4, <1>6 DEF QueueInv, Types
  <1>8. ASSUME NEW o \in Queues PROVE WorkerOK(o)'
    <2>1. CASE o = q /\ job # None
      <3>1. worker'[o] = [at |-> "claimed", job |-> job, ok |-> FALSE]
        BY <1>1, <2>1 DEF QueueInv, Types
      <3>2. starts'[job] = starts[job] + 1 /\ starts[job] \in Nat
        BY <1>1, <1>5, <2>1 DEF QueueInv, Types
      <3> QED BY <1>1, <1>3, <2>1, <3>1, <3>2 DEF WorkerOK
    <2>2. CASE o = q /\ job = None
      BY <1>1, <1>2, <2>2 DEF WorkerOK
    <2>3. CASE o # q
      <3>1. worker'[o] = worker[o] /\ pending'[o] = pending[o]
        BY <1>1, <2>3 DEF Shift, QueueInv, Types
      <3>2. worker[o].at # "idle" /\ worker[o].job \in Trainings =>
              starts[worker[o].job] >= 1 /\ starts'[worker[o].job] >= 1
        BY <1>4 DEF QueueInv, WorkerOK, Types, Jobs
      <3> QED BY <1>2, <3>1, <3>2 DEF QueueInv, WorkerOK
    <2> QED BY <2>1, <2>2, <2>3
  <1> QED BY <1>3, <1>4, <1>7, <1>8 DEF QueueInv

\* A job is delivered, or counted, and no thread has it.
LEMMA ClaimFailsInv ==
  ASSUME QueueInv, NEW q \in Queues, ClaimFails(q)
  PROVE  QueueInv'
  <1>1. /\ UNCHANGED <<group, done, row, request, worker, starts>> /\ worker[q].at = "idle"
        /\ stream \in [Queues -> Seq(Jobs)] /\ pending \in [Queues -> Seq(Jobs)]
        /\ fails \in [Jobs -> Nat] /\ faults' \in 0..MaxFaults
    BY JobBounds DEF ClaimFails, Fault, QueueInv, Types
  <1>2. PICK ns, np, counted :
           /\ Shift(q, ns, np)
           /\ counted \subseteq Elements(pending[q]) \cup Elements(np)
           /\ fails' = [j \in Jobs |-> IF j \in counted THEN CountedAtStart(j) ELSE fails[j]]
    <2>1. CASE /\ pending[q] = <<>> /\ stream[q] # <<>>
               /\ pending' = [pending EXCEPT ![q] = <<Head(stream[q])>>]
               /\ stream' = [stream EXCEPT ![q] = Tail(@)]
               /\ UNCHANGED fails
      <3> DEFINE counted == {}
                 ns == Tail(stream[q])
                 np == <<Head(stream[q])>>
      <3>1. /\ fails' = [j \in Jobs |-> IF j \in counted THEN CountedAtStart(j) ELSE fails[j]]
            /\ counted \subseteq Elements(pending[q]) \cup Elements(np)
        BY <1>1, <2>1
      <3>2. Shift(q, ns, np)
        BY <2>1 DEF Shift
      <3> HIDE DEF counted, ns, np
      <3> QED BY <3>1, <3>2
    <2>2. CASE /\ pending[q] # <<>>
               /\ fails' = [fails EXCEPT ![Head(pending[q])] = CountedAtStart(Head(pending[q]))]
               /\ UNCHANGED <<pending, stream>>
      <3> DEFINE j == Head(pending[q])
      <3>1. j \in Jobs /\ Elements(pending[q]) = {j}
        BY <1>1, <2>2, AtMostOne DEF QueueInv, QueueOK
      <3>2. fails' = [k \in Jobs |-> IF k \in {j} THEN CountedAtStart(k) ELSE fails[k]]
        BY <1>1, <2>2, <3>1
      <3>3. Shift(q, stream[q], pending[q])
        BY <1>1, <2>2 DEF Shift
      <3> QED BY <3>1, <3>2, <3>3
    <2> QED BY <2>1, <2>2 DEF ClaimFails
  <1>3. /\ stream' \in [Queues -> Seq(Jobs)] /\ pending' \in [Queues -> Seq(Jobs)]
        /\ \A o \in Queues : QueueOK(o)'
        /\ Unpublished'
    BY <1>1, <1>2, ShiftKeeps
  <1>4. fails' \in [Jobs -> Nat] /\ Counted'
    BY <1>1, <1>2, CountedKeeps, ZenonT(60)
  <1>5. Types'
    BY <1>1, <1>3, <1>4 DEF QueueInv, Types
  <1>6. \A o \in Queues \ {q} : pending'[o] = pending[o]
    BY <1>1, <1>2 DEF Shift
  <1>7. \A o \in Queues : WorkerOK(o)'
    BY <1>1, <1>6 DEF QueueInv, WorkerOK
  <1> QED BY <1>3, <1>4, <1>5, <1>7 DEF QueueInv

-------------------------------------------------------------------------------
(***************************************************************************)
(* Jobs are executed.                                                      *)
(***************************************************************************)
LEMMA ExecuteInv ==
  ASSUME QueueInv, NEW q \in Queues, Train(q) \/ Begin(q) \/ Replay(q)
  PROVE  QueueInv'
  <1> DEFINE r == worker[q].job
             Status == Active \cup {"absent", "deleted", "completed", "failed"}
             Thread == [at: {"idle", "claimed", "working", "ended"},
                        job: Jobs \cup {None}, ok: BOOLEAN]
  <1>1. /\ UNCHANGED <<group, stream, pending, fails, done, request, starts>>
        /\ worker[q].at \in {"claimed", "working"}
        /\ worker \in [Queues -> Thread] /\ row \in [Runs -> Status]
    BY DEF Train, Begin, Replay, Unqueued, queue, QueueInv, Types
  <1>2. faults' \in 0..MaxFaults
    <2>1. faults' = faults \/ Fault
      <3>1. Replay(q) => faults' = faults \/ Fault
        BY DEF Replay
      <3> QED BY <3>1 DEF Train, Begin
    <2> QED BY <2>1, JobBounds DEF Fault, QueueInv, Types
  <1>3. PICK at \in {"working", "ended"}, ok \in BOOLEAN :
           /\ worker' = [worker EXCEPT ![q].at = at, ![q].ok = ok]
           /\ at = "working" => r \in Runs /\ row' = [row EXCEPT ![r] = "running"]
    BY DEF Train, Begin, Replay, Goes
  <1>4. \/ row' = row
        \/ /\ r \in Present
           /\ \E status \in {"running", "completed", "failed"} : row' = [row EXCEPT ![r] = status]
    BY <1>1 DEF Train, Begin, Replay, ToReplay
  <1>5. worker' \in [Queues -> Thread]
    <2>1. [worker[q] EXCEPT !.at = at, !.ok = ok] \in Thread
      BY <1>1
    <2> QED BY <1>1, <1>3, <2>1
  <1>6. row' \in [Runs -> Status]
    BY <1>1, <1>4 DEF Active
  <1>7. Types'
    BY <1>1, <1>2, <1>5, <1>6 DEF QueueInv, Types
  <1>8. \A o \in Queues : QueueOK(o)'
    BY <1>1 DEF QueueInv, QueueOK
  <1>9. Counted'
    BY <1>1 DEF QueueInv, Counted
  <1>10. Unpublished'
    BY <1>1, <1>4 DEF QueueInv, Unpublished, Present
  <1>11. ASSUME NEW o \in Queues PROVE WorkerOK(o)'
    <2>1. CASE o = q
      <3>1. worker'[q].at = at /\ worker'[q].job = r
        BY <1>1, <1>3
      <3>2. at = "working" => r \in Runs /\ row'[r] = "running"
        BY <1>1, <1>3
      <3> QED BY <1>1, <2>1, <3>1, <3>2 DEF QueueInv, WorkerOK
    <2>2. CASE o # q
      <3>1. worker'[o] = worker[o] /\ WorkerOK(o) /\ WorkerOK(q) /\ QueueOK(o) /\ QueueOK(q)
        BY <1>1, <1>3, <2>2 DEF QueueInv
      <3>2. worker[o].at # "idle" => worker[o].job # r
        <4>1. \A p \in Queues : worker[p].at # "idle" => QueueOf(worker[p].job) = p
          <5> SUFFICES ASSUME NEW p \in Queues, worker[p].at # "idle" PROVE QueueOf(worker[p].job) = p
            OBVIOUS
          <5>1. pending[p] = <<worker[p].job>>
            BY DEF QueueInv, WorkerOK
          <5>2. worker[p].job \in Elements(pending[p])
            BY <5>1, Singleton
          <5> QED BY <5>2 DEF QueueInv, QueueOK
        <4> QED BY <1>1, <2>2, <4>1
      <3>3. worker[o].at = "working" => row'[worker[o].job] # "completed"
        BY <1>1, <1>4, <3>1, <3>2 DEF WorkerOK
      <3> QED BY <1>1, <3>1, <3>3 DEF WorkerOK
    <2> QED BY <2>1, <2>2
  <1> QED BY <1>7, <1>8, <1>9, <1>10, <1>11 DEF QueueInv

LEMMA FinishInv ==
  ASSUME QueueInv, NEW q \in Queues, Finish(q) \/ FinishFails(q)
  PROVE  QueueInv'
  <1> DEFINE j == worker[q].job
  <1>1. /\ UNCHANGED <<group, stream, row, request, starts>>
        /\ worker[q].at = "ended" /\ worker' = [worker EXCEPT ![q] = Resting]
        /\ pending[q] = <<j>> /\ pending \in [Queues -> Seq(Jobs)] /\ stream \in [Queues -> Seq(Jobs)]
    BY DEF Finish, FinishFails, Rests, QueueInv, WorkerOK, Types
  <1>2. /\ j \in Jobs /\ QueueOf(j) = q /\ j \notin Elements(stream[q])
        /\ fails \in [Jobs -> Nat] /\ done \subseteq Jobs
    <2>1. Elements(pending[q]) = {j}
      BY <1>1, Singleton
    <2>2. pending[q] \in Seq(Jobs)
      BY <1>1
    <2>3. j \in Elements(pending[q]) => j \in Jobs
      BY <2>2 DEF Elements
    <2> QED BY <2>1, <2>3 DEF QueueInv, QueueOK, Types
  <1>3. PICK np : Shift(q, stream[q], np)
    <2>1. Acknowledged(pending[q], j) = <<>>
      BY <1>1 DEF Acknowledged
    <2>2. pending' = pending \/ pending' = [pending EXCEPT ![q] = Acknowledged(pending[q], j)]
      BY DEF Finish, FinishFails
    <2>3. CASE pending' = pending
      <3>1. Shift(q, stream[q], pending[q])
        BY <1>1, <2>3 DEF Shift
      <3> QED BY <3>1
    <2>4. CASE pending' = [pending EXCEPT ![q] = <<>>]
      <3>1. Shift(q, stream[q], <<>>)
        BY <1>1, <2>4 DEF Shift
      <3> QED BY <3>1
    <2> QED BY <2>1, <2>2, <2>3, <2>4
  <1>4. /\ stream' \in [Queues -> Seq(Jobs)] /\ pending' \in [Queues -> Seq(Jobs)]
        /\ \A o \in Queues : QueueOK(o)'
        /\ Unpublished'
    BY <1>1, <1>3, ShiftKeeps
  <1>5. /\ fails' \in [Jobs -> Nat] /\ done' \subseteq Jobs /\ done' \subseteq done \cup {j}
        /\ \A t \in Trainings : fails'[t] = fails[t]
    <2>1. fails' = fails \/ (j \in Runs /\ (fails' = [fails EXCEPT ![j] = 0]
                                             \/ fails' = [fails EXCEPT ![j] = fails[j] + 1]))
      BY DEF Finish, FinishFails
    <2>2. done' = done \/ done' = done \cup {j}
      BY DEF Finish, FinishFails
    <2> QED BY <1>2, <2>1, <2>2, JobKinds DEF Jobs
  <1>6. faults' \in 0..MaxFaults
    BY JobBounds DEF Finish, FinishFails, Fault, QueueInv, Types
  <1>7. worker' \in [Queues -> [at: {"idle", "claimed", "working", "ended"},
                                job: Jobs \cup {None}, ok: BOOLEAN]]
    BY <1>1 DEF QueueInv, Types, Resting
  <1>8. Types'
    BY <1>1, <1>4, <1>5, <1>6, <1>7 DEF QueueInv, Types
  <1>9. Counted'
    <2>1. ASSUME NEW t \in Trainings, t \in Elements(stream["training.jobs"])
          PROVE  t # j
      BY <1>2, <2>1 DEF QueueOf
    <2> QED BY <1>1, <1>5, <2>1 DEF QueueInv, Counted
  <1>10. ASSUME NEW o \in Queues PROVE WorkerOK(o)'
    <2>1. CASE o = q
      BY <1>1, <2>1 DEF WorkerOK, Resting, QueueInv, Types
    <2>2. CASE o # q
      <3>1. worker'[o] = worker[o] /\ pending'[o] = pending[o]
        BY <1>1, <1>3, <2>2 DEF Shift, QueueInv, Types
      <3> QED BY <1>1, <3>1 DEF QueueInv, WorkerOK
    <2> QED BY <2>1, <2>2
  <1> QED BY <1>4, <1>8, <1>9, <1>10 DEF QueueInv

LEMMA CrashInv ==
  ASSUME QueueInv, Crash
  PROVE  QueueInv'
  <1>1. /\ UNCHANGED <<group, stream, pending, fails, done, row, request, starts>>
        /\ worker' = [q \in Queues |-> Resting]
    BY DEF Crash, queue
  <1>2. Types'
    BY <1>1, JobBounds DEF QueueInv, Types, Resting, Crash, Fault
  <1>3. \A q \in Queues : QueueOK(q)' /\ WorkerOK(q)'
    BY <1>1 DEF QueueInv, QueueOK, WorkerOK, Resting
  <1> QED BY <1>1, <1>2, <1>3 DEF QueueInv, Unpublished, Counted

-------------------------------------------------------------------------------
LEMMA QueueInvStep == QueueInv /\ [Next]_vars => QueueInv'
  <1> SUFFICES ASSUME QueueInv, [Next]_vars PROVE QueueInv'
    OBVIOUS
  <1>1. ASSUME NEW r \in Runs, Backend(r) PROVE QueueInv'
    BY <1>1, RequestInv, DeletionInv, PublishInv DEF Backend
  <1>2. CASE ListRuns
    BY <1>2, DeletionInv
  <1>3. ASSUME NEW q \in Queues, Work(q) \/ ClaimFails(q) \/ FinishFails(q) PROVE QueueInv'
    BY <1>3, ClaimInv, ClaimFailsInv, ExecuteInv, FinishInv DEF Work
  <1>4. CASE UNCHANGED vars
    BY <1>4 DEF vars, queue, QueueInv, Types, QueueOK, WorkerOK, Unpublished, Counted
  <1> QED BY <1>1, <1>2, <1>3, <1>4, PublishTrainingInv, CrashInv DEF Next

\* What every state satisfies (claim and finish of replay/jobs.py and jobs.py with
\* the backend's requests): a job is in its queue once, one at most is pending, a
\* thread executes the pending one, and a training is counted before it is begun.
THEOREM QueueInvariant == Spec => []QueueInv
  <1> QED BY InitialQueueInv, QueueInvStep, PTL DEF Spec

\* A training is begun Attempts times at most (claim_training_job), whatever fails and
\* however often the process dies.
THEOREM TrainingAttempts == Spec => []TrainingsBounded
  <1>1. QueueInv => TrainingsBounded
    BY DEF QueueInv, Counted, TrainingsBounded
  <1> QED BY <1>1, QueueInvariant, PTL

\* Every variable has its type; a queue has each of its jobs once.
THEOREM JobsTypes == Spec => []TypeOK
  <1>1. QueueInv => TypeOK
    <2> SUFFICES ASSUME QueueInv, NEW q \in Queues PROVE IsInjective(stream[q] \o pending[q])
      BY DEF QueueInv, Types, TypeOK
    <2> DEFINE s == stream[q]
               p == pending[q]
    <2>1. /\ s \in Seq(Jobs) /\ p \in Seq(Jobs) /\ IsInjective(s)
          /\ Elements(s) \cap Elements(p) = {} /\ Len(p) <= 1
      BY DEF QueueInv, Types, QueueOK
    <2> HIDE DEF s, p
    <2>2. /\ Len(s) \in Nat /\ Len(p) \in {0, 1} /\ DOMAIN (s \o p) = 1..Len(s) + Len(p)
          /\ \A i \in 1..Len(s) : (s \o p)[i] = s[i]
          /\ Len(p) = 1 => (s \o p)[Len(s) + 1] = p[1]
      <3>1. s \o p \in Seq(Jobs) /\ Len(s \o p) = Len(s) + Len(p)
        BY <2>1, ConcatProperties
      <3>2. Len(s) \in Nat /\ Len(p) \in {0, 1}
        <4>1. Len(s) \in Nat /\ Len(p) \in Nat
          BY <2>1, LenProperties
        <4>2. Len(p) <= 1
          BY <2>1
        <4>3. \A k \in Nat : k <= 1 => k \in {0, 1}
          OBVIOUS
        <4> QED BY <4>1, <4>2, <4>3
      <3>3. \A i \in 1..Len(s) + Len(p) : (s \o p)[i] = IF i <= Len(s) THEN s[i] ELSE p[i - Len(s)]
        BY <2>1, ConcatProperties
      <3> QED BY <3>1, <3>2, <3>3, LenProperties
    <2>3. \A i, k \in 1..Len(s) : s[i] = s[k] => i = k
      BY <2>1 DEF IsInjective
    <2>4. Len(p) = 1 => \A i \in 1..Len(s) : s[i] # p[1]
      BY <2>1 DEF Elements
    <2>5. IsInjective(s \o p)
      BY <2>2, <2>3, <2>4 DEF IsInjective
    <2> QED BY <2>5 DEF s, p
  <1> QED BY <1>1, QueueInvariant, PTL

-------------------------------------------------------------------------------
\* A run that is completed is not replayed by a second delivery: its row changes no
\* more unless it is deleted or its request fails (run_backtest_job).
THEOREM CompletedRunStays == Spec => CompletedStays
  <1>1. ASSUME QueueInv, Next, NEW r \in Runs, row[r] = "completed", request[r].at # "failing"
        PROVE  row'[r] \in {"completed", "deleted"}
    <2>1. row \in [Runs -> Active \cup {"absent", "deleted", "completed", "failed"}]
      BY <1>1 DEF QueueInv, Types
    <2>2. ASSUME NEW o \in Runs, Backend(o) PROVE row'[r] \in {"completed", "deleted"}
      <3>1. CASE row' = row
        BY <1>1, <3>1
      <3>2. CASE Insert(o)
        <4>1. o # r
          BY <1>1, <3>2 DEF Insert, QueueInv, Unpublished
        <4> QED BY <1>1, <3>2, <4>1 DEF Insert
      <3>3. CASE MarkFailed(o)
        BY <1>1, <2>1, <3>3 DEF MarkFailed
      <3>4. CASE DeleteRun(o)
        BY <1>1, <2>1, <3>4 DEF DeleteRun
      <3> QED BY <2>2, <3>1, <3>2, <3>3, <3>4 DEF Backend, Check, Publish, PublishFails, BackendStops
    <2>3. CASE ListRuns
      BY <1>1, <2>3 DEF ListRuns
    <2>4. ASSUME NEW q \in Queues, Work(q) PROVE row'[r] \in {"completed", "deleted"}
      <3>1. CASE row' = row
        BY <1>1, <3>1
      <3>2. CASE Begin(q)
        BY <1>1, <2>1, <3>2 DEF Begin, ToReplay
      <3>3. CASE Replay(q)
        <4>1. worker[q].job # r
          BY <1>1, <3>3 DEF Replay, QueueInv, WorkerOK
        <4> QED BY <1>1, <2>1, <3>3, <4>1 DEF Replay
      <3> QED BY <2>4, <3>1, <3>2, <3>3 DEF Work, Claim, Train, Finish
    <2>5. CASE row' = row
      BY <1>1, <2>5
    <2> QED BY <1>1, <2>2, <2>3, <2>4, <2>5 DEF Next, PublishTraining, ClaimFails, FinishFails, Crash
  <1>2. QueueInv /\ [Next]_vars =>
          [\A r \in Runs : row[r] = "completed" /\ request[r].at # "failing"
             => row'[r] \in {"completed", "deleted"}]_vars
    BY <1>1
  <1> QED BY <1>2, QueueInvariant, PTL DEF Spec, CompletedStays
===============================================================================
