--------------------------- MODULE FlashscoreImport ---------------------------
(***************************************************************************)
(* The durable jobs that import player profiles from Flashscore (table     *)
(* flashscore_import_jobs) and the processes that execute them: the        *)
(* flashscore worker, or the research service where it is not enabled.     *)
(*                                                                         *)
(* An executor selects a job, claims it with a new token and a lease, has   *)
(* each profile fetched by a child process, saves the profile's result and  *)
(* finally the job's.  A thread renews the lease; whoever writes first      *)
(* checks, with the row locked, that the job still runs under his token    *)
(* and that the lease has not expired.  The child gets its pages through   *)
(* FlashscoreSource, next to other clients.  The token is the number of     *)
(* the attempt (a uuid in the code).                                       *)
(***************************************************************************)
EXTENDS FlashscoreSource

CONSTANTS
  Executors,     \* clients that execute jobs; each one's child is the client
  Jobs,
  Authorized,    \* jobs that may run; others are leftovers of a static batch
  Profiles,      \* number of profiles of a job
  Tries          \* 3: attempts after which a mismatch is parked

ASSUME ImportConstants ==
  /\ Executors \subseteq Clients /\ Authorized \subseteq Jobs
  /\ Profiles \in Nat \ {0} /\ Tries \in Nat \ {0}

VARIABLES
  job,           \* job[j]: its row
  exec,          \* exec[x]: an executor
  archive        \* profiles whose matches have been imported

vars == <<rows, control, gate, job, exec, archive, faults>>
others == Clients \ Executors

Reasons == {"captcha", "mismatch", "transport", "failed"}
NoResults == [i \in 1..Profiles |-> "none"]
Results == [1..Profiles -> {"none", "available"} \cup Reasons]

Absent == [status |-> "absent", token |-> 0, lease |-> FALSE, due |-> FALSE, attempts |-> 0,
           error |-> "none", since |-> "none", profiles |-> NoResults]
Idle == [at |-> "idle", job |-> None, token |-> 0, beat |-> FALSE, index |-> 0,
         results |-> NoResults, outcome |-> "none"]

Init ==
  /\ SourceInit
  /\ job = [j \in Jobs |-> Absent]
  /\ exec = [x \in Executors |-> Idle]
  /\ archive = {}

\* The condition of every write of an attempt.
AnyAttempt(x) ==                        \* mutant: of any attempt
  exec[x].job # None /\ job[exec[x].job].status = "running" /\ job[exec[x].job].lease
Owner(x) ==
  /\ exec[x].job # None
  /\ LET r == job[exec[x].job] IN
     r.status = "running" /\ r.token = exec[x].token /\ r.lease

\* The next profile that has no result of this parser version.
Processed(results, i) ==                \* mutant: any result will do
  LET left == {k \in i..Profiles : results[k] = "none"}
  IN  IF left = {} THEN Profiles + 1 ELSE CHOOSE k \in left : \A l \in left : k <= l
NextIndex(results, i) ==
  LET left == {k \in i..Profiles : results[k] # "available"}
  IN  IF left = {} THEN Profiles + 1 ELSE CHOOSE k \in left : \A l \in left : k <= l
PastTheEnd(i) == IF i > Profiles + 1 THEN "finish" ELSE "child"      \* mutant
At(i) == IF i > Profiles THEN "finish" ELSE "child"

-------------------------------------------------------------------------------
Enqueue(j) ==
  /\ job[j].status = "absent"
  /\ job' = [job EXCEPT ![j] = [Absent EXCEPT !.status = "queued", !.due = TRUE]]
  /\ UNCHANGED <<rows, control, gate, exec, archive, faults>>

\* One job at a time for a process, none while the source is paused.
Select(x) ==
  /\ exec[x].at = "idle" /\ ~control.paused
  /\ \E j \in Jobs :
       /\ job[j].due
       /\ job[j].status = "queued" \/ (job[j].status = "running" /\ ~job[j].lease)
       /\ exec' = [exec EXCEPT ![x] = [Idle EXCEPT !.at = "selected", !.job = j]]
  /\ UNCHANGED <<rows, control, gate, job, archive, faults>>

\* Whatever the job has become since: only a running job with a lease is left
\* alone.
Claim(x) ==
  LET j == exec[x].job IN
  /\ exec[x].at = "selected"
  /\ IF job[j].status = "running" /\ job[j].lease
     THEN exec' = [exec EXCEPT ![x] = Idle] /\ UNCHANGED job
     ELSE IF j \notin Authorized
     THEN /\ job' = [job EXCEPT ![j].status = "blocked", ![j].error = "unauthorized",
                                ![j].token = 0, ![j].lease = FALSE]
          /\ exec' = [exec EXCEPT ![x] = Idle]
     ELSE LET first == NextIndex(job[j].profiles, 1) IN
          /\ job' = [job EXCEPT ![j].status = "running", ![j].token = job[j].attempts + 1,
                                ![j].attempts = @ + 1, ![j].lease = TRUE]
          /\ exec' = [exec EXCEPT ![x] = [@ EXCEPT !.at = At(first), !.index = first,
                        !.token = job[j].attempts + 1, !.beat = TRUE,
                        !.results = job[j].profiles]]
  /\ UNCHANGED <<rows, control, gate, archive, faults>>

-------------------------------------------------------------------------------
(***************************************************************************)
(* The child process that fetches a profile.                               *)
(***************************************************************************)
Fetched(x, outcome) ==
  exec' = [exec EXCEPT ![x].at = "fetched", ![x].outcome = outcome]
InChild(x) == exec[x].at = "child"

AskForPage(x) ==
  /\ InChild(x) /\ Enter(x)
  /\ UNCHANGED <<job, exec, archive, faults>>
RefusedPage(x) ==
  /\ InChild(x) /\ gate[x] = "out" /\ control.paused
  /\ Fetched(x, "failed")
  /\ UNCHANGED <<rows, control, gate, job, archive, faults>>
GetPage(x) ==
  /\ InChild(x) /\ (Grant(x) \/ Sweep(x))
  /\ UNCHANGED <<job, exec, archive, faults>>
\* The page is archived and noted in the job, by the owner only.
ReadPage(x) ==
  /\ InChild(x) /\ Leave(x)
  /\ IF Owner(x) THEN UNCHANGED exec ELSE Fetched(x, "failed")
  /\ UNCHANGED <<job, archive, faults>>
ReadLastPage(x) ==
  /\ InChild(x) /\ Leave(x)
  /\ Fetched(x, IF Owner(x) THEN "available" ELSE "failed")
  /\ UNCHANGED <<job, archive, faults>>
\* Other ends of the child: the number of events disagrees, the source denies
\* access, the network or the wait for a slot fails, time is up and the child
\* is killed.
FailToRead(x) ==
  /\ InChild(x) /\ Fault
  /\ \/ Leave(x) /\ Fetched(x, "mismatch")
     \/ LeaveThrottled(x) /\ (Fetched(x, "captcha") \/ Fetched(x, "failed"))
     \/ LeaveFailed(x) /\ Fetched(x, "transport")
     \/ (GiveUp(x) \/ Gone(x)) /\ Fetched(x, "failed")
  /\ UNCHANGED <<job, archive>>

-------------------------------------------------------------------------------
(***************************************************************************)
(* The attempt, once the child has ended.                                  *)
(***************************************************************************)
\* A challenge pauses the source once more; what was read is imported by the owner.
Persist(x) ==
  /\ exec[x].at = "fetched"
  /\ control' = IF exec[x].outcome = "captcha" THEN Throttled ELSE control
  /\ archive' = IF exec[x].outcome \in {"available", "mismatch"} /\ Owner(x)
                THEN archive \cup {<<exec[x].job, exec[x].index>>} ELSE archive
  /\ exec' = [exec EXCEPT ![x].at = "persisted"]
  /\ UNCHANGED <<rows, gate, job, faults>>

SaveProfile(x) ==
  LET results == [exec[x].results EXCEPT ![exec[x].index] = exec[x].outcome]
      next == IF exec[x].outcome = "captcha" THEN Profiles + 1
              ELSE NextIndex(results, exec[x].index + 1)
  IN
  /\ exec[x].at = "persisted"
  /\ IF Owner(x)
     THEN /\ job' = [job EXCEPT ![exec[x].job].profiles = results]
          /\ exec' = [exec EXCEPT ![x].at = At(next), ![x].index = next,
                                  ![x].results = results, ![x].outcome = "none"]
     ELSE UNCHANGED job /\ exec' = [exec EXCEPT ![x] = Idle]
  /\ UNCHANGED <<rows, control, gate, archive, faults>>

\* _flashscore_import_failure_schedule and _flashscore_failure_progress
Since(r, error) ==
  IF error # "transport" THEN "none"
  ELSE IF r.error # error \/ r.since = "none" THEN "recent" ELSE r.since
Parked(error, attempts, since) ==
  \/ error = "captcha"
  \/ error = "mismatch" /\ attempts >= Tries
  \/ error = "transport" /\ since = "old"
Ended(r, error, results) ==
  LET blocked == Parked(error, r.attempts, Since(r, error)) IN
  [r EXCEPT !.status = IF blocked THEN "blocked" ELSE "queued", !.error = error,
            !.since = Since(r, error), !.lease = FALSE, !.profiles = results,
            !.due = IF blocked /\ error # "captcha" THEN @ ELSE FALSE]

\* The error of the job is that of its first profile that is not complete.
Finish(x) ==
  LET j == exec[x].job
      results == exec[x].results
      left == NextIndex(results, 1)
  IN
  /\ exec[x].at = "finish"
  /\ job' = IF ~Owner(x) THEN job
            ELSE IF left > Profiles
            THEN [job EXCEPT ![j] = [@ EXCEPT !.status = "completed", !.error = "none",
                    !.since = "none", !.lease = FALSE, !.due = TRUE, !.profiles = results]]
            ELSE [job EXCEPT ![j] = Ended(@, results[left], results)]
  /\ exec' = [exec EXCEPT ![x] = Idle]
  /\ UNCHANGED <<rows, control, gate, archive, faults>>

\* An exception: the job is queued again, with what had been saved.
Fail(x) ==
  LET j == exec[x].job IN
  /\ exec[x].at \in {"fetched", "persisted", "finish"} /\ Fault
  /\ job' = IF Owner(x) THEN [job EXCEPT ![j] = Ended(@, "failed", @.profiles)] ELSE job
  /\ exec' = [exec EXCEPT ![x] = Idle]
  /\ UNCHANGED <<rows, control, gate, archive>>

\* The thread that renews the lease ends at the first exception.
LoseHeartbeat(x) ==
  /\ exec[x].beat /\ Fault
  /\ exec' = [exec EXCEPT ![x].beat = FALSE]
  /\ UNCHANGED <<rows, control, gate, job, archive>>

\* The process stops, whatever it does.
Stop(x) ==
  /\ exec[x].at # "idle" /\ Fault
  /\ exec' = [exec EXCEPT ![x] = Idle]
  /\ Gone(x) \/ (gate[x] = "out" /\ UNCHANGED sourceVars)
  /\ UNCHANGED <<job, archive>>

ExpireLease(j) ==
  /\ job[j].status = "running" /\ job[j].lease
  /\ ~\E x \in Executors : exec[x].job = j /\ exec[x].token = job[j].token /\ exec[x].beat
  /\ job' = [job EXCEPT ![j].lease = FALSE]
  /\ UNCHANGED <<rows, control, gate, exec, archive, faults>>

-------------------------------------------------------------------------------
(***************************************************************************)
(* The scheduler's upkeep, and time.                                       *)
(***************************************************************************)
ParkTransport(j) ==
  /\ job[j].status = "queued" /\ job[j].error = "transport" /\ job[j].since = "old"
  /\ job' = [job EXCEPT ![j].status = "blocked", ![j].token = 0, ![j].lease = FALSE]
  /\ UNCHANGED <<rows, control, gate, exec, archive, faults>>
ResumeCaptcha(j) ==
  /\ job[j].status = "blocked" /\ job[j].error = "captcha" /\ job[j].due /\ ~control.paused
  /\ job' = [job EXCEPT ![j].status = "queued", ![j].error = "none", ![j].token = 0,
                        ![j].lease = FALSE]
  /\ UNCHANGED <<rows, control, gate, exec, archive, faults>>
BecomeDue(j) ==
  /\ ~job[j].due /\ job[j].status # "absent"
  /\ job' = [job EXCEPT ![j].due = TRUE]
  /\ UNCHANGED <<rows, control, gate, exec, archive, faults>>
DayPasses(j) ==
  /\ job[j].since = "recent"
  /\ job' = [job EXCEPT ![j].since = "old"]
  /\ UNCHANGED <<rows, control, gate, exec, archive, faults>>

\* The other clients of the source, and the threads that refresh the rows.
Other(c) ==
  /\ \/ Access(c) /\ UNCHANGED faults
     \/ FaultyAccess(c) /\ Fault
  /\ UNCHANGED <<job, exec, archive>>
RowLapses(x) == Lapse(x) /\ Fault /\ UNCHANGED <<job, exec, archive>>
RowRefreshed(x) == Refresh(x) /\ UNCHANGED <<job, exec, archive, faults>>
Passes(A) == A /\ UNCHANGED <<job, exec, archive, faults>>
Clock == Passes(SourceClock)

-------------------------------------------------------------------------------
Work(x) ==
  \/ Select(x) \/ Claim(x)
  \/ AskForPage(x) \/ RefusedPage(x) \/ GetPage(x)
  \/ Persist(x) \/ SaveProfile(x) \/ Finish(x)
Upkeep(j) ==
  ExpireLease(j) \/ ParkTransport(j) \/ ResumeCaptcha(j) \/ BecomeDue(j)

Next ==
  \/ \E j \in Jobs : Enqueue(j) \/ Upkeep(j) \/ DayPasses(j)
  \/ \E x \in Executors :
       \/ Work(x) \/ ReadPage(x) \/ ReadLastPage(x)
       \/ FailToRead(x) \/ Fail(x) \/ LoseHeartbeat(x) \/ Stop(x)
       \/ RowLapses(x) \/ RowRefreshed(x)
  \/ \E c \in others : Other(c)
  \/ Clock

\* A process that executes jobs goes on; a request that asks every 0.2 seconds gets
\* a slot that stays free for it, and when its row is gone, so that nothing
\* keeps a slot for it, is not late every time; a profile has a last page; leases and
\* pauses end.  A process may stop: another, or itself once more, selects.
Fairness ==
  /\ \A x \in Executors : 
       /\ WF_vars(Work(x)) /\ SF_vars(ReadLastPage(x))
       /\ SF_vars(GetPage(x) /\ Own(rows, x) = {}) /\ WF_vars(Passes(ArchiveAges(x)))
  /\ \A j \in Jobs : WF_vars(Upkeep(j))
  /\ \A c \in others : WF_vars(Passes(Leave(c)))
  /\ WF_vars(Passes(RowsOfTheGoneLapse))
  /\ WF_vars(Passes(PauseEnds)) /\ WF_vars(Passes(SpacingEnds))

Spec == Init /\ [][Next]_vars
FairSpec == Spec /\ Fairness

-------------------------------------------------------------------------------
Status == {"absent", "queued", "running", "blocked", "completed"}
JobRow == [status: Status, token: Nat, lease: BOOLEAN, due: BOOLEAN, attempts: Nat,
           error: Reasons \cup {"none", "unauthorized"}, since: {"none", "recent", "old"},
           profiles: Results]
Exec == [at: {"idle", "selected", "child", "fetched", "persisted", "finish"},
         job: Jobs \cup {None}, token: Nat, beat: BOOLEAN, index: 0..Profiles + 1,
         results: Results, outcome: Reasons \cup {"none", "available"}]

\* Every variable has its type (the columns of flashscore_import_jobs and the
\* locals of _execute_flashscore_import_job).
TypeOK ==
  /\ SourceTypeOK
  /\ job \in [Jobs -> JobRow] /\ exec \in [Executors -> Exec]
  /\ archive \subseteq Jobs \X (1..Profiles)

\* A job is completed only when the matches of all its profiles are in the
\* archive, whichever attempts fetched them and whatever they lost.
CompletedMeansArchived ==
  \A j \in Jobs : job[j].status = "completed" =>
    \A i \in 1..Profiles : <<j, i>> \in archive

\* A profile that is done is not undone by an attempt that has lost its lease,
\* by a failure, or by the scheduler: it is never fetched again.
ProgressNeverLost ==
  [][\A j \in Jobs : \A i \in 1..Profiles :
       job[j].profiles[i] = "available" => job'[j].profiles[i] = "available"]_vars

\* Every job that may run ends: it is completed, or parked for a reason that retrying does not
\* repair; after stops, lost leases and pauses too.
Ends(j) ==
  \/ job[j].status = "completed"
  \/ job[j].status = "blocked" /\ job[j].error \in {"mismatch", "transport"}
JobEnds == \A j \in Authorized : job[j].status # "absent" ~> [](Ends(j))
===============================================================================
