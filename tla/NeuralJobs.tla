------------------------------ MODULE NeuralJobs ------------------------------
(***************************************************************************)
(* The two job queues of the neural service, the Redis streams             *)
(* training.jobs and backtest.jobs, with the backend that publishes the    *)
(* jobs and the thread per queue that executes one job at a time.          *)
(*                                                                         *)
(* A replay or a strategy search has a row in backtest_runs, written       *)
(* before its job is published; a training has no row.  A job that has      *)
(* been delivered stays pending until it is acknowledged, and the first     *)
(* pending job is taken before a new one.  Attempts are counted in Redis:  *)
(* those begun for a training, those that raised for a run.                 *)
(* Expiry of the keys (30 days) and the stream's trimming (10000 entries)  *)
(* are left out.                                                           *)
(***************************************************************************)
EXTENDS Integers, Sequences, FiniteSets, SequencesExt

CONSTANTS
  Replays, Searches, Trainings,     \* jobs
  Config,        \* Config[r]: hash of a replay's request
  Keep,          \* 24: runs kept in backtest_runs
  Attempts,      \* 3
  MaxFaults,     \* bound: failures of Redis, the database, a job or a process
  None

Runs == Replays \cup Searches
Jobs == Runs \cup Trainings
Queues == {"training.jobs", "backtest.jobs"}

ASSUME JobKinds == Runs \cap Trainings = {} /\ Replays \cap Searches = {} /\ None \notin Jobs
ASSUME JobBounds == Keep \in Nat /\ Attempts \in Nat \ {0} /\ MaxFaults \in Nat

VARIABLES
  group,       \* queues whose consumer group exists
  stream,      \* stream[q]: published and not delivered
  pending,     \* pending[q]: delivered and not acknowledged
  fails,       \* fails[j]: counter of attempts
  done,        \* jobs marked as done
  row,         \* row[r]: status in backtest_runs
  request,     \* request[r]: how far the backend's request has come
  worker,      \* worker[q]: the thread that executes jobs
  starts,      \* starts[j]: attempts begun (history)
  faults

queue == <<group, stream, pending, fails, done>>
vars == <<queue, row, request, worker, starts, faults>>

Active == {"queued", "running"}
Resting == [at |-> "idle", job |-> None, ok |-> FALSE]
Unasked == [at |-> "none", doomed |-> {}]

Init ==
  /\ group = {} /\ done = {}
  /\ stream = [q \in Queues |-> <<>>] /\ pending = [q \in Queues |-> <<>>]
  /\ fails = [j \in Jobs |-> 0] /\ starts = [j \in Jobs |-> 0]
  /\ row = [r \in Runs |-> "absent"]
  /\ request = [r \in Runs |-> Unasked]
  /\ worker = [q \in Queues |-> Resting]
  /\ faults = 0

Fault == faults < MaxFaults /\ faults' = faults + 1
QueueOf(j) == IF j \in Trainings THEN "training.jobs" ELSE "backtest.jobs"
Present == {r \in Runs : row[r] # "absent" /\ row[r] # "deleted"}
InQueue(j) == j \in Range(stream[QueueOf(j)]) \cup Range(pending[QueueOf(j)])

-------------------------------------------------------------------------------
(***************************************************************************)
(* The backend.                                                            *)
(***************************************************************************)
DeliveredTwice(j) ==                                         \* mutant
  stream' = IF QueueOf(j) \in group THEN [stream EXCEPT ![QueueOf(j)] = @ \o <<j, j>>] ELSE stream
\* A group reads what is published after it has been created.
Delivered(j) ==
  stream' = IF QueueOf(j) \in group THEN [stream EXCEPT ![QueueOf(j)] = Append(@, j)] ELSE stream

\* Sets of runs _trim_backtest_history may pick; which ones are the oldest is left open.
Doomed(keep) ==
  LET rest == {r \in Present : row[r] \notin Active}
      extra == Cardinality(Present) - keep
  IN  {d \in SUBSET rest : Cardinality(d) = IF extra < 0 THEN 0
                                            ELSE IF extra < Cardinality(rest) THEN extra
                                            ELSE Cardinality(rest)}

\* What the request reads, and then commits.
Check(r) ==
  /\ request[r].at = "none"
  /\ \/ /\ r \in Replays
        /\ ~\E o \in Replays : Config[o] = Config[r] /\ row[o] \in Active
        /\ \E d \in Doomed(Keep) : request' = [request EXCEPT ![r] = [at |-> "checked", doomed |-> d]]
     \/ r \in Searches /\ request' = [request EXCEPT ![r].at = "checked"]
  /\ UNCHANGED <<queue, row, worker, starts, faults>>
Insert(r) ==
  /\ request[r].at = "checked"
  /\ row' = [o \in Runs |-> IF o = r THEN "queued"
                            ELSE IF o \in request[r].doomed THEN "deleted" ELSE row[o]]
  /\ request' = [request EXCEPT ![r].at = "inserted", ![r].doomed = {}]
  /\ UNCHANGED <<queue, worker, starts, faults>>

Publish(r) ==
  /\ request[r].at = "inserted"
  /\ Delivered(r)
  /\ request' = [request EXCEPT ![r].at = "answered"]
  /\ UNCHANGED <<group, pending, fails, done, row, worker, starts, faults>>
\* An error or a timeout, after which the job may be in the stream.
PublishFails(r) ==
  /\ request[r].at = "inserted" /\ Fault
  /\ Delivered(r) \/ UNCHANGED stream
  /\ request' = [request EXCEPT ![r].at = IF r \in Replays THEN "failing" ELSE "answered"]
  /\ UNCHANGED <<group, pending, fails, done, row, worker, starts>>
MarkFailed(r) ==
  /\ request[r].at = "failing"
  /\ row' = [row EXCEPT ![r] = IF r \in Present THEN "failed" ELSE @]
  /\ request' = [request EXCEPT ![r].at = "answered"]
  /\ UNCHANGED <<queue, worker, starts, faults>>
BackendStops(r) ==
  /\ request[r].at \in {"checked", "inserted", "failing"} /\ Fault
  /\ request' = [request EXCEPT ![r] = [at |-> "answered", doomed |-> {}]]
  /\ UNCHANGED <<queue, row, worker, starts>>

PublishTraining(j) ==
  /\ ~InQueue(j) /\ fails[j] = 0 /\ j \notin done
  /\ Delivered(j)
  /\ UNCHANGED <<group, pending, fails, done, row, request, worker, starts, faults>>

ListRuns ==
  \E d \in Doomed(Keep + 1) :
    /\ d # {}
    /\ row' = [r \in Runs |-> IF r \in d THEN "deleted" ELSE row[r]]
    /\ UNCHANGED <<queue, request, worker, starts, faults>>
DeleteRun(r) ==
  /\ r \in Present
  /\ row' = [row EXCEPT ![r] = "deleted"]
  /\ UNCHANGED <<queue, request, worker, starts, faults>>

-------------------------------------------------------------------------------
(***************************************************************************)
(* The queue's end in the neural service.                                  *)
(***************************************************************************)
\* The job is not attempted again; the counter is that of the attempts so far.
Spent(j) == fails[j] >= Attempts
Dismissed(j) == j \in done \/ Spent(j)
CountedAtEnd(j) == fails[j]                                  \* mutant
CountedAtStart(j) == IF j \in Trainings /\ j \notin done THEN fails[j] + 1 ELSE fails[j]

OnlyNew(q) == <<>>                                           \* mutant
ReadPending(q) == pending[q]

\* One call: the first pending job, or, when there is none or it is dismissed,
\* a new one.
Claim(q) ==
  LET old == ReadPending(q)
      drop == old # <<>> /\ Dismissed(Head(old))
      fresh == (old = <<>> \/ drop) /\ stream[q] # <<>>
      job == IF fresh THEN Head(stream[q]) ELSE IF old = <<>> \/ drop THEN None ELSE Head(old)
      counted == (IF drop THEN {Head(old)} ELSE {}) \cup ({job} \ {None})
  IN
  /\ worker[q].at = "idle"
  /\ q \notin group \/ drop \/ job # None
  /\ group' = group \cup {q}
  /\ pending' = [pending EXCEPT ![q] = (IF drop THEN Tail(@) ELSE @)
                                         \o (IF fresh THEN <<job>> ELSE <<>>)]
  /\ stream' = [stream EXCEPT ![q] = IF fresh THEN Tail(@) ELSE @]
  /\ fails' = [j \in Jobs |-> IF j \in counted THEN CountedAtStart(j) ELSE fails[j]]
  /\ worker' = IF job = None THEN worker
               ELSE [worker EXCEPT ![q] = [at |-> "claimed", job |-> job, ok |-> FALSE]]
  /\ starts' = IF job = None THEN starts ELSE [starts EXCEPT ![job] = @ + 1]
  /\ UNCHANGED <<done, row, request, faults>>

\* Redis fails on the way: a job has been delivered, or counted, and is not begun.
ClaimFails(q) ==
  /\ worker[q].at = "idle" /\ q \in group /\ Fault
  /\ \/ /\ pending[q] = <<>> /\ stream[q] # <<>>
        /\ pending' = [pending EXCEPT ![q] = <<Head(stream[q])>>]
        /\ stream' = [stream EXCEPT ![q] = Tail(@)]
        /\ UNCHANGED fails
     \/ /\ pending[q] # <<>>
        /\ fails' = [fails EXCEPT ![Head(pending[q])] = CountedAtStart(Head(pending[q]))]
        /\ UNCHANGED <<pending, stream>>
  /\ UNCHANGED <<group, done, row, request, worker, starts>>

Goes(q, at, ok) == worker' = [worker EXCEPT ![q].at = at, ![q].ok = ok]
Unqueued == UNCHANGED <<queue, request, starts>>

Train(q) ==
  /\ worker[q].at = "claimed" /\ worker[q].job \in Trainings
  /\ \/ Goes(q, "ended", TRUE) /\ UNCHANGED faults
     \/ Goes(q, "ended", FALSE) /\ Fault
  /\ UNCHANGED row /\ Unqueued

\* run_backtest_job: a run that is gone or completed is not replayed.
ReplaysAgain(r) == r \in Present                             \* mutant
ToReplay(r) == r \in Present /\ row[r] # "completed"
Begin(q) ==
  LET r == worker[q].job IN
  /\ worker[q].at = "claimed" /\ r \in Runs
  /\ \/ /\ ToReplay(r)
        /\ row' = [row EXCEPT ![r] = "running"]
        /\ Goes(q, "working", FALSE) /\ UNCHANGED faults
     \/ ~ToReplay(r) /\ Goes(q, "ended", TRUE) /\ UNCHANGED <<row, faults>>
     \/ Goes(q, "ended", FALSE) /\ Fault /\ UNCHANGED row
  /\ Unqueued
\* The replay ends, raises, or raises and leaves the row as it is.
Replay(q) ==
  LET r == worker[q].job
      becomes(status) == row' = [row EXCEPT ![r] = IF r \in Present THEN status ELSE @]
  IN
  /\ worker[q].at = "working"
  /\ \/ becomes("completed") /\ Goes(q, "ended", TRUE) /\ UNCHANGED faults
     \/ becomes("failed") /\ Goes(q, "ended", FALSE) /\ Fault
     \/ UNCHANGED row /\ Goes(q, "ended", FALSE) /\ Fault
  /\ Unqueued

Rests(q) == worker' = [worker EXCEPT ![q] = Resting]
\* A queue has one pending job at most.
Acknowledged(p, j) == IF p = <<j>> THEN <<>> ELSE p
Finish(q) ==
  LET j == worker[q].job IN
  /\ worker[q].at = "ended"
  /\ \/ /\ worker[q].ok
        /\ done' = done \cup {j}
        /\ pending' = [pending EXCEPT ![q] = Acknowledged(@, j)]
        /\ fails' = IF j \in Runs THEN [fails EXCEPT ![j] = 0] ELSE fails
     \/ /\ ~worker[q].ok
        /\ fails' = IF j \in Runs THEN [fails EXCEPT ![j] = @ + 1] ELSE fails
        /\ UNCHANGED <<pending, done>>
  /\ Rests(q)
  /\ UNCHANGED <<group, stream, row, request, starts, faults>>
\* Redis fails: before the first of the calls, or between two of them.
FinishFails(q) ==
  LET j == worker[q].job IN
  /\ worker[q].at = "ended" /\ Fault
  /\ \/ UNCHANGED <<fails, done>>
     \/ /\ worker[q].ok
        /\ fails' = IF j \in Runs THEN [fails EXCEPT ![j] = 0] ELSE fails
        /\ done' \in {done, done \cup {j}}
  /\ Rests(q)
  /\ UNCHANGED <<group, stream, pending, row, request, starts>>

\* Both threads end with the process.
Crash ==
  /\ \E q \in Queues : worker[q].at # "idle"
  /\ Fault
  /\ worker' = [q \in Queues |-> Resting]
  /\ UNCHANGED <<queue, row, request, starts>>

-------------------------------------------------------------------------------
Backend(r) ==
  \/ Check(r) \/ Insert(r) \/ Publish(r) \/ PublishFails(r) \/ MarkFailed(r)
  \/ BackendStops(r) \/ DeleteRun(r)
Work(q) == Claim(q) \/ Train(q) \/ Begin(q) \/ Replay(q) \/ Finish(q)
Next ==
  \/ \E r \in Runs : Backend(r)
  \/ \E j \in Trainings : PublishTraining(j)
  \/ ListRuns
  \/ \E q \in Queues : Work(q) \/ ClaimFails(q) \/ FinishFails(q)
  \/ Crash

\* The main loop starts each thread again and again; a job ends, one way or another.
Spec == Init /\ [][Next]_vars
FairSpec == Spec /\ \A q \in Queues : WF_vars(Work(q))

-------------------------------------------------------------------------------
\* Every variable has its type.
TypeOK ==
  /\ group \subseteq Queues /\ done \subseteq Jobs
  /\ \A q \in Queues : stream[q] \in Seq(Jobs) /\ pending[q] \in Seq(Jobs)
  /\ \A q \in Queues : IsInjective(stream[q] \o pending[q])
  /\ fails \in [Jobs -> Nat] /\ starts \in [Jobs -> Nat]
  /\ row \in [Runs -> Active \cup {"absent", "deleted", "completed", "failed"}]
  /\ request \in [Runs -> [at: {"none", "checked", "inserted", "failing", "answered"},
                           doomed: SUBSET Runs]]
  /\ worker \in [Queues -> [at: {"idle", "claimed", "working", "ended"},
                            job: Jobs \cup {None}, ok: BOOLEAN]]
  /\ faults \in 0..MaxFaults

\* A run that is completed is not replayed again by a second delivery, and
\* changes no more unless it is deleted or its request, that does not know whether
\* the job was published, marks it as failed.
CompletedStays ==
  [][\A r \in Runs : row[r] = "completed" /\ request[r].at # "failing"
       => row'[r] \in {"completed", "deleted"}]_vars

\* A training is not begun more often than it may be attempted, when the process
\* dies in each of them too.
TrainingsBounded == \A j \in Trainings : starts[j] <= Attempts

\* A job in the queue comes to an end: the training is done, the run is completed,
\* failed or deleted, or all its attempts have been used; for good.
Over(j) ==
  \/ Spent(j)
  \/ j \in Trainings /\ j \in done
  \/ j \in Runs /\ row[j] \in {"completed", "failed", "deleted"}
JobsEnd == \A j \in Jobs : InQueue(j) ~> [](Over(j))
===============================================================================
