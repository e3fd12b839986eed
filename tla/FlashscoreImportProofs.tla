------------------------ MODULE FlashscoreImportProofs ------------------------
(***************************************************************************)
(* Theorems about FlashscoreImport, for every number of executors, jobs    *)
(* and profiles: what an attempt knows of its job, and that neither stops, *)
(* lost leases nor late attempts undo or fake the import of a profile; and *)
(* about FlashscoreSource, for every number of clients and slots: a slot   *)
(* is given only as long as one is free.                                   *)
(***************************************************************************)
EXTENDS FlashscoreImport, SequenceTheorems, FiniteSetTheorems, WellFoundedInduction, TLAPS

Indices == 1..Profiles

\* The part of TypeOK about the jobs, their executors and the archive.
JobsTypeOK ==
  /\ job \in [Jobs -> JobRow] /\ exec \in [Executors -> Exec]
  /\ archive \subseteq Jobs \X Indices

\* An executor that has claimed a job and not yet ended its attempt.
Attempting(x) == exec[x].at \notin {"idle", "selected"}
WithProfile(x) == exec[x].at \in {"child", "fetched", "persisted"}

\* Where an executor is tells which of its locals are set.
Located(x) ==
  /\ exec[x].at # "idle" => exec[x].job \in Jobs
  /\ Attempting(x) => exec[x].token \in 1..job[exec[x].job].attempts
  /\ exec[x].beat => Attempting(x)
  /\ WithProfile(x) => exec[x].index \in Indices
  /\ exec[x].at \in {"fetched", "persisted"} => exec[x].outcome # "none"

\* No two attempts have the same token of the same job.
TokensUnique ==
  \A x, y \in Executors :
    /\ Attempting(x) /\ Attempting(y)
    /\ exec[x].job = exec[y].job /\ exec[x].token = exec[y].token
    => x = y

\* What an attempt holds of its job: as long as it owns the job, the results
\* saved so far; and nothing is done that is not in the archive.
Knows(x) ==
  Attempting(x) =>
    /\ Owner(x) => exec[x].results = job[exec[x].job].profiles
    /\ \A i \in Indices : exec[x].results[i] = "available" => <<exec[x].job, i>> \in archive
    /\ WithProfile(x) => exec[x].results[exec[x].index] # "available"
    /\ exec[x].at = "persisted" /\ exec[x].outcome = "available" /\ Owner(x)
         => <<exec[x].job, exec[x].index>> \in archive

DoneMeansArchived ==
  \A j \in Jobs, i \in Indices : job[j].profiles[i] = "available" => <<j, i>> \in archive

AbsentIsEmpty == \A j \in Jobs : job[j].status = "absent" => job[j] = Absent

JobsSound == DoneMeansArchived /\ CompletedMeansArchived /\ AbsentIsEmpty

ImportInv ==
  /\ JobsTypeOK
  /\ \A x \in Executors : Located(x) /\ Knows(x)
  /\ TokensUnique
  /\ JobsSound

-------------------------------------------------------------------------------
\* A set of numbers that is not empty has a smallest one.
LEMMA Smallest ==
  ASSUME NEW S \in SUBSET Nat, S # {}
  PROVE  \E k \in S : \A l \in S : k <= l
  <1>1. PICK k \in S : \A l \in S : ~ (<<l, k>> \in OpToRel(<, Nat))
    BY NatLessThanWellFounded, WFMin, Zenon
  <1>2. \A l \in S : ~ (l < k)
    BY <1>1 DEF OpToRel
  <1> QED BY <1>2

\* NextIndex passes over what is available, and over nothing else.
LEMMA NextIndexIsNext ==
  ASSUME NEW results \in Results, NEW i \in 1..Profiles + 1
  PROVE  LET n == NextIndex(results, i) IN
         /\ n \in 1..Profiles + 1
         /\ n <= Profiles => n \in Indices /\ results[n] # "available"
         /\ n > Profiles => \A k \in i..Profiles : results[k] = "available"
  <1> DEFINE left == {k \in i..Profiles : results[k] # "available"}
  <1> Profiles \in Nat \ {0}
    BY ImportConstants
  <1>1. CASE left = {}
    <2>1. NextIndex(results, i) = Profiles + 1
      BY <1>1 DEF NextIndex
    <2> QED BY <1>1, <2>1
  <1>2. CASE left # {}
    <2>1. left \in SUBSET Nat
      OBVIOUS
    <2>2. NextIndex(results, i) = CHOOSE k \in left : \A l \in left : k <= l
      BY <1>2 DEF NextIndex
    <2>3. \E k \in left : \A l \in left : k <= l
      BY <1>2, <2>1, Smallest
    <2>4. NextIndex(results, i) \in left
      BY <2>2, <2>3
    <2> QED BY <2>4 DEF Indices
  <1> QED BY <1>1, <1>2

\* A step that leaves the attempt of y alone, and does not make it the owner.
Steady(y) ==
  /\ exec'[y] = exec[y]
  /\ Attempting(y) => job'[exec[y].job].attempts >= job[exec[y].job].attempts
  /\ Attempting(y) /\ Owner(y)' => Owner(y) /\ job'[exec[y].job].profiles = job[exec[y].job].profiles

LEMMA SteadyKeeps ==
  ASSUME JobsTypeOK, JobsTypeOK', archive \subseteq archive',
         NEW y \in Executors, Located(y), Knows(y), Steady(y)
  PROVE  Located(y)' /\ Knows(y)'
  <1>1. /\ Attempting(y)' <=> Attempting(y)
        /\ WithProfile(y)' <=> WithProfile(y)
    BY DEF Steady, Attempting, WithProfile
  <1>2. Located(y)'
    <2>1. Attempting(y) => exec[y].token \in 1..job'[exec[y].job].attempts
      <3> SUFFICES ASSUME Attempting(y) PROVE exec[y].token \in 1..job'[exec[y].job].attempts
        OBVIOUS
      <3>1. exec[y].job \in Jobs
        BY DEF Located, Attempting
      <3>2. job[exec[y].job].attempts \in Nat /\ job'[exec[y].job].attempts \in Nat
        BY <3>1 DEF JobsTypeOK, JobRow
      <3> QED BY <3>2 DEF Located, Steady
    <2> QED BY <1>1, <2>1 DEF Located, Steady
  <1>3. Knows(y)'
    BY <1>1 DEF Knows, Steady
  <1> QED BY <1>2, <1>3

\* What a step by x has to show: the others' attempts are left alone, x knows
\* what it should, and its token is the one it had or a new one.
LEMMA StepOf ==
  ASSUME ImportInv, JobsTypeOK', archive \subseteq archive',
         NEW x \in Executors, \A y \in Executors \ {x} : Steady(y),
         Located(x)', Knows(x)',
         Attempting(x)' => \/ /\ Attempting(x)
                              /\ exec'[x].job = exec[x].job /\ exec'[x].token = exec[x].token
                           \/ exec'[x].token > job[exec'[x].job].attempts,
         JobsSound'
  PROVE  ImportInv'
  <1>1. \A y \in Executors : Located(y)' /\ Knows(y)'
    BY SteadyKeeps DEF ImportInv
  <1>2. ASSUME NEW y \in Executors \ {x}, Attempting(x)', Attempting(y)',
               exec'[x].job = exec'[y].job, exec'[x].token = exec'[y].token
        PROVE  FALSE
    <2>1. exec'[y] = exec[y] /\ Attempting(y)
      BY <1>2 DEF Steady, Attempting
    <2>2. exec[y].token \in 1..job[exec[y].job].attempts /\ exec[y].job \in Jobs
      BY <2>1 DEF ImportInv, Located, Attempting
    <2>3. job[exec[y].job].attempts \in Nat
      BY <2>2 DEF ImportInv, JobsTypeOK, JobRow
    <2> QED BY <1>2, <2>1, <2>2, <2>3 DEF ImportInv, TokensUnique
  <1>3. ASSUME NEW y \in Executors \ {x}, NEW z \in Executors \ {x}, Attempting(y)', Attempting(z)',
               exec'[y].job = exec'[z].job, exec'[y].token = exec'[z].token
        PROVE  y = z
    BY <1>3 DEF Steady, Attempting, ImportInv, TokensUnique
  <1>4. TokensUnique'
    BY <1>2, <1>3 DEF TokensUnique
  <1> QED BY <1>1, <1>4 DEF ImportInv

\* Nothing is saved and nothing completed.
LEMMA NothingSaved ==
  ASSUME ImportInv, archive \subseteq archive',
         \A j \in Jobs : /\ job'[j].profiles = job[j].profiles
                         /\ job'[j].status = "completed" => job[j].status = "completed"
                         /\ job'[j].status = "absent" => job'[j] = job[j]
  PROVE  JobsSound'
  BY DEF ImportInv, JobsSound, DoneMeansArchived, CompletedMeansArchived, AbsentIsEmpty, Indices

\* The job rows are left alone.
LEMMA OthersSteady ==
  ASSUME ImportInv, UNCHANGED job, NEW y \in Executors, exec'[y] = exec[y]
  PROVE  Steady(y)
  <1>1. Attempting(y) => job[exec[y].job].attempts \in Nat
    BY DEF ImportInv, Located, Attempting, JobsTypeOK, JobRow
  <1> QED BY <1>1 DEF Steady, Owner

\* An executor that has ended its attempt knows nothing.
LEMMA IdleKnows ==
  ASSUME NEW x \in Executors, exec'[x] = Idle
  PROVE  Located(x)' /\ Knows(x)' /\ ~Attempting(x)'
  BY DEF Idle, Located, Knows, Attempting, WithProfile

LEMMA IdleType == Idle \in Exec
  BY ImportConstants DEF Idle, Exec, NoResults, Results

\* The rows of the jobs are left alone, x ends its attempt.
LEMMA GivesUp ==
  ASSUME ImportInv, UNCHANGED <<job, archive>>, NEW x \in Executors,
         exec' = [exec EXCEPT ![x] = Idle]
  PROVE  ImportInv'
  <1>1. Idle \in Exec
    BY IdleType
  <1>2. JobsTypeOK'
    BY <1>1 DEF ImportInv, JobsTypeOK
  <1>3. exec'[x] = Idle /\ \A y \in Executors \ {x} : exec'[y] = exec[y]
    BY DEF ImportInv, JobsTypeOK
  <1> QED BY <1>2, <1>3, OthersSteady, IdleKnows, NothingSaved, StepOf

-------------------------------------------------------------------------------
\* The empty tables satisfy it.
LEMMA InitialImportInv == Init => ImportInv
  <1> SUFFICES ASSUME Init PROVE ImportInv
    OBVIOUS
  <1>1. JobsTypeOK
    <2>1. Absent \in JobRow /\ Idle \in Exec
      BY ImportConstants, IdleType DEF Absent, JobRow, Status, NoResults, Results
    <2> QED BY <2>1 DEF Init, JobsTypeOK
  <1>2. \A x \in Executors : exec[x].at = "idle" /\ ~exec[x].beat
    BY DEF Init, Idle
  <1>3. JobsSound
    BY DEF Init, Absent, NoResults, JobsSound, DoneMeansArchived, CompletedMeansArchived, AbsentIsEmpty, Indices
  <1> QED BY <1>1, <1>2, <1>3 DEF ImportInv, Located, Knows, TokensUnique, Attempting, WithProfile

\* The child process and the thread that renews the lease: only locals of the
\* executor change, and not those an attempt is known by.
LEMMA LocalStep ==
  ASSUME ImportInv, UNCHANGED <<job, archive>>, NEW x \in Executors,
         NEW new \in Exec, exec' = [exec EXCEPT ![x] = new],
         Attempting(x),
         \/ new.at = exec[x].at /\ new.outcome = exec[x].outcome
         \/ new.at = "fetched" /\ exec[x].at = "child" /\ new.outcome # "none",
         new.job = exec[x].job, new.token = exec[x].token, new.index = exec[x].index,
         new.results = exec[x].results
  PROVE  ImportInv'
  <1>1. JobsTypeOK'
    BY DEF ImportInv, JobsTypeOK
  <1>2. exec'[x] = new /\ \A y \in Executors \ {x} : exec'[y] = exec[y]
    BY DEF ImportInv, JobsTypeOK
  <1>3. Owner(x)' <=> Owner(x)
    BY <1>2 DEF Owner
  <1>4. Located(x)' /\ Attempting(x)'
    <2>1. Located(x) /\ Attempting(x)' /\ (WithProfile(x)' => WithProfile(x))
      BY <1>2 DEF ImportInv, Attempting, WithProfile
    <2>2. exec[x].outcome # "none" \/ exec[x].at \notin {"fetched", "persisted"}
      BY <2>1 DEF Located
    <2>3. exec'[x].at \in {"fetched", "persisted"} => exec'[x].outcome # "none"
      BY <1>2, <2>2
    <2> QED BY <1>2, <2>1, <2>3 DEF Located, Attempting
  <1>5. Knows(x)'
    BY <1>2, <1>3 DEF ImportInv, Knows, Attempting, WithProfile
  <1> QED BY <1>1, <1>2, <1>4, <1>5, OthersSteady, NothingSaved, StepOf

LEMMA FetchedInv ==
  ASSUME ImportInv, UNCHANGED <<job, archive>>, NEW x \in Executors, InChild(x),
         NEW outcome \in Reasons \cup {"available"}, Fetched(x, outcome)
  PROVE  ImportInv'
  <1> DEFINE new == [exec[x] EXCEPT !.at = "fetched", !.outcome = outcome]
  <1>1. exec[x] \in Exec
    BY DEF ImportInv, JobsTypeOK
  <1>2. new \in Exec /\ exec' = [exec EXCEPT ![x] = new]
    BY <1>1 DEF Fetched, Exec, Reasons, ImportInv, JobsTypeOK
  <1>3. /\ new.at = "fetched" /\ new.outcome = outcome /\ outcome # "none"
        /\ new.job = exec[x].job /\ new.token = exec[x].token /\ new.index = exec[x].index
        /\ new.results = exec[x].results
    BY <1>1 DEF Exec, Reasons
  <1>4. Attempting(x) /\ exec[x].at = "child"
    BY DEF InChild, Attempting
  <1> HIDE DEF new
  <1> QED BY <1>2, <1>3, <1>4, LocalStep

LEMMA ChildInv ==
  ASSUME ImportInv, NEW x \in Executors,
         \/ RefusedPage(x) \/ ReadPage(x) \/ ReadLastPage(x) \/ FailToRead(x)
         \/ AskForPage(x) \/ GetPage(x)
  PROVE  ImportInv'
  <1>1. UNCHANGED <<job, archive>> /\ InChild(x)
    BY DEF RefusedPage, ReadPage, ReadLastPage, FailToRead, AskForPage, GetPage
  <1>2. exec' = exec \/ \E outcome \in Reasons \cup {"available"} : Fetched(x, outcome)
    BY DEF RefusedPage, ReadPage, ReadLastPage, FailToRead, AskForPage, GetPage, Reasons
  <1>3. CASE exec' = exec
    BY <1>1, <1>3 DEF ImportInv, JobsTypeOK, Located, Knows, TokensUnique, JobsSound, DoneMeansArchived,
                      CompletedMeansArchived, AbsentIsEmpty, Owner, Attempting, WithProfile
  <1> QED BY <1>1, <1>2, <1>3, FetchedInv

LEMMA HeartbeatInv ==
  ASSUME ImportInv, NEW x \in Executors, LoseHeartbeat(x)
  PROVE  ImportInv'
  <1> Attempting(x)
    BY DEF LoseHeartbeat, ImportInv, Located
  <1> DEFINE new == [exec[x] EXCEPT !.beat = FALSE]
  <1>1. exec[x] \in Exec
    BY DEF ImportInv, JobsTypeOK
  <1>2. new \in Exec /\ exec' = [exec EXCEPT ![x] = new] /\ UNCHANGED <<job, archive>>
    BY <1>1 DEF LoseHeartbeat, Exec, ImportInv, JobsTypeOK
  <1>3. /\ new.at = exec[x].at /\ new.outcome = exec[x].outcome
        /\ new.job = exec[x].job /\ new.token = exec[x].token /\ new.index = exec[x].index
        /\ new.results = exec[x].results
    BY <1>1 DEF Exec
  <1> HIDE DEF new
  <1> QED BY <1>2, <1>3, LocalStep

-------------------------------------------------------------------------------
\* The attempt: selecting and claiming a job, and what follows the child.
LEMMA SelectInv ==
  ASSUME ImportInv, NEW x \in Executors, Select(x)
  PROVE  ImportInv'
  <1>1. PICK j \in Jobs : exec' = [exec EXCEPT ![x] = [Idle EXCEPT !.at = "selected", !.job = j]]
    BY DEF Select
  <1>2. [Idle EXCEPT !.at = "selected", !.job = j] \in Exec
    BY IdleType DEF Exec
  <1>3. JobsTypeOK'
    BY <1>1, <1>2 DEF Select, ImportInv, JobsTypeOK
  <1>4. /\ exec'[x].at = "selected" /\ exec'[x].job = j /\ ~exec'[x].beat
        /\ \A y \in Executors \ {x} : exec'[y] = exec[y]
    BY <1>1 DEF ImportInv, JobsTypeOK, Idle
  <1>5. Located(x)' /\ Knows(x)' /\ ~Attempting(x)'
    BY <1>4 DEF Located, Knows, Attempting, WithProfile
  <1>6. UNCHANGED <<job, archive>>
    BY DEF Select
  <1> QED BY <1>3, <1>4, <1>5, <1>6, OthersSteady, NothingSaved, StepOf

\* A token is the number of the attempt, so that a claim takes the job from
\* whoever had it.
LEMMA ClaimInv ==
  ASSUME ImportInv, NEW x \in Executors, Claim(x)
  PROVE  ImportInv'
  <1> DEFINE j == exec[x].job
             first == NextIndex(job[j].profiles, 1)
  <1>1. /\ job \in [Jobs -> JobRow] /\ exec \in [Executors -> Exec]
        /\ j \in Jobs /\ exec[x].at = "selected" /\ UNCHANGED archive
    BY DEF Claim, ImportInv, JobsTypeOK, Located
  <1>2. CASE job[j].status = "running" /\ job[j].lease
    BY <1>1, <1>2, GivesUp DEF Claim
  <1>3. CASE ~(job[j].status = "running" /\ job[j].lease) /\ j \notin Authorized
    <2>1. /\ job' = [job EXCEPT ![j].status = "blocked", ![j].error = "unauthorized",
                                ![j].token = 0, ![j].lease = FALSE]
          /\ exec' = [exec EXCEPT ![x] = Idle]
      BY <1>3 DEF Claim
    <2>2. /\ job' \in [Jobs -> JobRow]
          /\ job'[j].status = "blocked" /\ job'[j].profiles = job[j].profiles
          /\ job'[j].attempts = job[j].attempts /\ \A i \in Jobs \ {j} : job'[i] = job[i]
      <3> DEFINE new == [job[j] EXCEPT !.status = "blocked", !.error = "unauthorized", !.token = 0, !.lease = FALSE]
      <3> /\ job[j] \in JobRow /\ "blocked" \in Status /\ "unauthorized" \in Reasons \cup {"none", "unauthorized"}
        BY <1>1 DEF Status
      <3>1. /\ new \in JobRow /\ new.status = "blocked" /\ new.profiles = job[j].profiles
            /\ new.attempts = job[j].attempts
        BY DEF JobRow
      <3>2. job' = [job EXCEPT ![j] = new]
        BY <2>1
      <3> HIDE DEF new
      <3> QED BY <1>1, <3>1, <3>2
    <2>3. Idle \in Exec
      BY IdleType
    <2>4. JobsTypeOK'
      BY <1>1, <2>1, <2>2, <2>3 DEF ImportInv, JobsTypeOK
    <2>5. exec'[x] = Idle /\ \A y \in Executors \ {x} : exec'[y] = exec[y]
      BY <1>1, <2>1
    <2>6. ASSUME NEW y \in Executors \ {x} PROVE Steady(y)
      <3>1. Attempting(y) => exec[y].job \in Jobs
        BY DEF ImportInv, Located, Attempting
      <3>2. Attempting(y) => job[exec[y].job].attempts \in Nat
        BY <1>1, <3>1 DEF JobRow
      <3> QED BY <2>2, <2>5, <3>1, <3>2 DEF Steady, Owner
    <2>7. \A i \in Jobs : /\ job'[i].profiles = job[i].profiles
                          /\ job'[i].status = "completed" => job[i].status = "completed"
                          /\ job'[i].status = "absent" => job'[i] = job[i]
      BY <2>2
    <2> QED BY <1>1, <2>4, <2>5, <2>6, <2>7, IdleKnows, NothingSaved, StepOf
  <1>4. CASE ~(job[j].status = "running" /\ job[j].lease) /\ j \in Authorized
    <2> DEFINE new == [exec[x] EXCEPT !.at = At(first), !.index = first,
                         !.token = job[j].attempts + 1, !.beat = TRUE, !.results = job[j].profiles]
      <2>1. /\ job' = [job EXCEPT ![j].status = "running", ![j].token = job[j].attempts + 1,
                                ![j].attempts = @ + 1, ![j].lease = TRUE]
          /\ exec' = [exec EXCEPT ![x] = new]
      BY <1>4 DEF Claim
    <2>2. exec[x] \in Exec /\ job[j] \in JobRow /\ job[j].attempts \in Nat /\ job[j].profiles \in Results
      BY <1>1 DEF JobRow
    <2>3. /\ first \in 1..Profiles + 1
          /\ first <= Profiles => first \in Indices /\ job[j].profiles[first] # "available"
      BY <2>2, ImportConstants, NextIndexIsNext
    <2> HIDE DEF first
    <2>4. /\ At(first) \in {"child", "finish"} /\ (At(first) = "child" => first <= Profiles)
      BY <2>3, ImportConstants DEF At
    <2>5. /\ new \in Exec /\ new.at = At(first) /\ new.index = first
          /\ new.token = job[j].attempts + 1 /\ new.results = job[j].profiles /\ new.job = j
      <3>1. job[j].attempts + 1 \in Nat /\ first \in 0..Profiles + 1
        BY <2>2, <2>3, ImportConstants
      <3> QED BY <2>2, <2>4, <3>1 DEF Exec
    <2>6. /\ job' \in [Jobs -> JobRow]
          /\ job'[j].status = "running" /\ job'[j].profiles = job[j].profiles
          /\ job'[j].attempts = job[j].attempts + 1 /\ job'[j].token = job[j].attempts + 1
          /\ \A i \in Jobs \ {j} : job'[i] = job[i]
      <3>1. job' = [job EXCEPT ![j] = [@ EXCEPT !.status = "running", !.token = job[j].attempts + 1,
                                                !.attempts = job[j].attempts + 1, !.lease = TRUE]]
        BY <2>1
      <3> DEFINE row == [job[j] EXCEPT !.status = "running", !.token = job[j].attempts + 1,
                                       !.attempts = job[j].attempts + 1, !.lease = TRUE]
      <3>2. /\ row \in JobRow /\ row.status = "running" /\ row.profiles = job[j].profiles
            /\ row.attempts = job[j].attempts + 1 /\ row.token = job[j].attempts + 1
        <4>1. job[j].attempts + 1 \in Nat
          BY <2>2
        <4> QED BY <2>2, <4>1 DEF JobRow, Status
      <3> HIDE DEF row
      <3>3. job' = [job EXCEPT ![j] = row]
        BY <3>1 DEF row
      <3> QED BY <1>1, <3>2, <3>3
    <2> HIDE DEF new
    <2>7. JobsTypeOK' /\ exec'[x] = new /\ \A y \in Executors \ {x} : exec'[y] = exec[y]
      BY <1>1, <2>1, <2>5, <2>6 DEF ImportInv, JobsTypeOK
    <2>8. ASSUME NEW y \in Executors \ {x} PROVE Steady(y)
      <3>1. Attempting(y) => exec[y].job \in Jobs /\ exec[y].token \in 1..job[exec[y].job].attempts
        BY DEF ImportInv, Located, Attempting
      <3>2. Attempting(y) => job[exec[y].job].attempts \in Nat
        BY <1>1, <3>1 DEF JobRow
      <3>3. Attempting(y) /\ exec[y].job = j => ~Owner(y)'
        BY <2>2, <2>6, <2>7, <3>1 DEF Owner
      <3> QED BY <2>6, <2>7, <3>1, <3>2, <3>3 DEF Steady, Owner
    <2>9. Located(x)' /\ Knows(x)'
      <3>1. Attempting(x)' /\ (WithProfile(x)' => first <= Profiles)
            /\ exec'[x].at \notin {"fetched", "persisted"}
        BY <2>4, <2>5, <2>7 DEF Attempting, WithProfile
      <3>2. Located(x)'
        BY <1>1, <2>2, <2>3, <2>5, <2>6, <2>7, <3>1 DEF Located
      <3>3. Knows(x)'
        BY <1>1, <2>2, <2>3, <2>5, <2>6, <2>7, <3>1 DEF Knows, ImportInv, JobsSound, DoneMeansArchived
      <3> QED BY <3>2, <3>3
    <2>10. \A i \in Jobs : /\ job'[i].profiles = job[i].profiles
                           /\ job'[i].status = "completed" => job[i].status = "completed"
                           /\ job'[i].status = "absent" => job'[i] = job[i]
      BY <2>6
    <2>11. exec'[x].token > job[exec'[x].job].attempts
      BY <2>2, <2>5, <2>7
    <2> QED BY <1>1, <2>7, <2>8, <2>9, <2>10, <2>11, NothingSaved, StepOf
  <1> QED BY <1>2, <1>3, <1>4

LEMMA PersistInv ==
  ASSUME ImportInv, NEW x \in Executors, Persist(x)
  PROVE  ImportInv'
  <1>1. /\ job \in [Jobs -> JobRow] /\ exec \in [Executors -> Exec]
        /\ exec[x].at = "fetched" /\ UNCHANGED job
        /\ exec' = [exec EXCEPT ![x].at = "persisted"]
        /\ archive' = IF exec[x].outcome \in {"available", "mismatch"} /\ Owner(x)
                      THEN archive \cup {<<exec[x].job, exec[x].index>>} ELSE archive
    BY DEF Persist, ImportInv, JobsTypeOK
  <1>2. /\ exec'[x].at = "persisted" /\ exec'[x].job = exec[x].job /\ exec'[x].token = exec[x].token
        /\ exec'[x].beat = exec[x].beat /\ exec'[x].index = exec[x].index
        /\ exec'[x].results = exec[x].results /\ exec'[x].outcome = exec[x].outcome
        /\ \A y \in Executors \ {x} : exec'[y] = exec[y]
        /\ exec' \in [Executors -> Exec]
    BY <1>1 DEF Exec
  <1>3. Attempting(x) /\ Attempting(x)' /\ WithProfile(x) /\ WithProfile(x)'
    BY <1>1, <1>2 DEF Attempting, WithProfile
  <1>4. exec[x].job \in Jobs /\ exec[x].index \in Indices
    BY <1>1, <1>3 DEF ImportInv, Located
  <1>5. JobsTypeOK' /\ archive \subseteq archive'
    BY <1>1, <1>2, <1>4 DEF ImportInv, JobsTypeOK
  <1>6. Located(x)'
    BY <1>1, <1>2, <1>3 DEF ImportInv, Located
  <1>7. Owner(x)' <=> Owner(x)
    BY <1>1, <1>2 DEF Owner
  <1>8. Knows(x)'
    BY <1>1, <1>2, <1>3, <1>5, <1>7 DEF ImportInv, Knows
  <1> QED BY <1>1, <1>2, <1>3, <1>5, <1>6, <1>8, OthersSteady, NothingSaved, StepOf

\* The owner writes the results to the row, and nobody else may.
LEMMA SaveProfileInv ==
  ASSUME ImportInv, NEW x \in Executors, SaveProfile(x)
  PROVE  ImportInv'
  <1> DEFINE j == exec[x].job
             results == [exec[x].results EXCEPT ![exec[x].index] = exec[x].outcome]
             next == IF exec[x].outcome = "captcha" THEN Profiles + 1
                     ELSE NextIndex(results, exec[x].index + 1)
  <1>1. /\ job \in [Jobs -> JobRow] /\ exec \in [Executors -> Exec]
        /\ exec[x].at = "persisted" /\ UNCHANGED archive
        /\ Attempting(x) /\ WithProfile(x)
    BY DEF SaveProfile, ImportInv, JobsTypeOK, Attempting, WithProfile
  <1>2. CASE ~Owner(x)
    BY <1>2, GivesUp DEF SaveProfile
  <1>3. CASE Owner(x)
    <2>1. /\ exec[x] \in Exec /\ j \in Jobs /\ exec[x].index \in Indices
          /\ exec[x].outcome # "none" /\ exec[x].token \in 1..job[j].attempts
      BY <1>1 DEF ImportInv, Located
    <2>2. /\ results \in Results /\ results[exec[x].index] = exec[x].outcome
          /\ \A i \in Indices \ {exec[x].index} : results[i] = exec[x].results[i]
      BY <2>1 DEF Exec, Results, Indices
    <2>3. /\ next \in 1..Profiles + 1
          /\ next <= Profiles => next \in Indices /\ results[next] # "available"
      <3>1. exec[x].index + 1 \in 1..Profiles + 1
        BY <2>1, ImportConstants DEF Indices
      <3>2. NextIndex(results, exec[x].index + 1) \in 1..Profiles + 1
        BY <2>2, <3>1, NextIndexIsNext
      <3>3. NextIndex(results, exec[x].index + 1) <= Profiles =>
              /\ NextIndex(results, exec[x].index + 1) \in Indices
              /\ results[NextIndex(results, exec[x].index + 1)] # "available"
        BY <2>2, <3>1, NextIndexIsNext
      <3> QED BY <3>2, <3>3, ImportConstants
    <2>4. /\ job' = [job EXCEPT ![j].profiles = results]
          /\ exec' = [exec EXCEPT ![x].at = At(next), ![x].index = next,
                                  ![x].results = results, ![x].outcome = "none"]
      BY <1>3 DEF SaveProfile
    <2> HIDE DEF results, next
    <2>5. At(next) \in {"child", "finish"} /\ (At(next) = "child" => next <= Profiles)
      BY <2>3, ImportConstants DEF At
    <2>6. /\ job' \in [Jobs -> JobRow] /\ job'[j].profiles = results
          /\ job'[j].status = job[j].status /\ job'[j].attempts = job[j].attempts
          /\ job'[j].token = job[j].token /\ job'[j].lease = job[j].lease
          /\ \A i \in Jobs \ {j} : job'[i] = job[i]
      BY <1>1, <2>1, <2>2, <2>4 DEF JobRow
    <2>7. /\ exec' \in [Executors -> Exec]
          /\ exec'[x].at = At(next) /\ exec'[x].index = next /\ exec'[x].results = results
          /\ exec'[x].job = j /\ exec'[x].token = exec[x].token /\ exec'[x].beat = exec[x].beat
          /\ \A y \in Executors \ {x} : exec'[y] = exec[y]
      <3>1. next \in 0..Profiles + 1
        BY <2>3, ImportConstants
      <3> QED BY <1>1, <2>1, <2>2, <2>4, <2>5, <3>1 DEF Exec
    <2>8. JobsTypeOK'
      BY <1>1, <2>6, <2>7 DEF ImportInv, JobsTypeOK
    <2>9. \A i \in Indices : results[i] = "available" => <<j, i>> \in archive
      BY <1>1, <1>3, <2>2 DEF ImportInv, Knows
    <2>10. /\ Attempting(x)' /\ (WithProfile(x)' => next <= Profiles)
           /\ exec'[x].at \notin {"fetched", "persisted"}
      BY <2>5, <2>7 DEF Attempting, WithProfile
    <2>11. Located(x)'
      BY <1>1, <2>1, <2>3, <2>6, <2>7, <2>10 DEF Located
    <2>12. Knows(x)'
      BY <1>1, <2>1, <2>3, <2>6, <2>7, <2>9, <2>10 DEF Knows
    <2>13. ASSUME NEW y \in Executors \ {x} PROVE Steady(y)
      <3>1. Attempting(y) => exec[y].job \in Jobs
        BY DEF ImportInv, Located, Attempting
      <3>2. Attempting(y) => job[exec[y].job].attempts \in Nat
        BY <1>1, <3>1 DEF JobRow
      <3>3. Attempting(y) /\ exec[y].job = j => ~Owner(y)
        BY <1>1, <1>3 DEF Owner, ImportInv, TokensUnique
      <3> QED BY <2>6, <2>7, <3>1, <3>2, <3>3 DEF Steady, Owner
    <2>14. JobsSound'
      <3>1. job[j].status = "running"
        BY <1>3 DEF Owner
      <3> QED BY <1>1, <2>6, <2>9, <3>1 DEF ImportInv, JobsSound, DoneMeansArchived, CompletedMeansArchived, AbsentIsEmpty, Indices
    <2> QED BY <1>1, <2>7, <2>8, <2>11, <2>12, <2>13, <2>14, StepOf
  <1> QED BY <1>2, <1>3

\* A job that ends without success is neither running nor completed.
LEMMA EndedType ==
  ASSUME NEW r \in JobRow, NEW error \in Reasons \cup {"none"}, NEW results \in Results
  PROVE  LET e == Ended(r, error, results) IN
         /\ e \in JobRow /\ e.status \in {"blocked", "queued"} /\ e.profiles = results
         /\ e.attempts = r.attempts
  <1>1. Since(r, error) \in {"none", "recent", "old"}
    BY DEF Since, JobRow
  <1> QED BY <1>1, ZenonT(60) DEF Ended, JobRow, Status

\* The last write of an attempt: whoever ends it owned the job, and after it
\* nobody does.
LEMMA EndOfAttempt ==
  ASSUME ImportInv, NEW x \in Executors, UNCHANGED archive, Attempting(x),
         exec' = [exec EXCEPT ![x] = Idle],
         NEW row \in JobRow, job' = [job EXCEPT ![exec[x].job] = row],
         row.status \notin {"running", "absent"}, row.attempts = job[exec[x].job].attempts,
         \A i \in Indices : row.profiles[i] = "available" => <<exec[x].job, i>> \in archive,
         row.status = "completed" => \A i \in Indices : row.profiles[i] = "available"
  PROVE  ImportInv'
  <1> DEFINE j == exec[x].job
  <1>1. job \in [Jobs -> JobRow] /\ exec \in [Executors -> Exec] /\ j \in Jobs
    BY DEF ImportInv, JobsTypeOK, Located, Attempting
  <1>2. JobsTypeOK'
    BY <1>1, IdleType DEF ImportInv, JobsTypeOK
  <1>3. /\ exec'[x] = Idle /\ \A y \in Executors \ {x} : exec'[y] = exec[y]
        /\ job'[j] = row /\ \A i \in Jobs \ {j} : job'[i] = job[i]
    BY <1>1
  <1>4. ASSUME NEW y \in Executors \ {x} PROVE Steady(y)
    <2>1. Attempting(y) => exec[y].job \in Jobs
      BY DEF ImportInv, Located, Attempting
    <2>2. Attempting(y) => job[exec[y].job].attempts \in Nat
      BY <1>1, <2>1 DEF JobRow
    <2>3. exec[y].job = j => ~Owner(y)'
      BY <1>3 DEF Owner
    <2> QED BY <1>3, <2>1, <2>2, <2>3 DEF Steady, Owner
  <1>5. JobsSound'
    BY <1>1, <1>3 DEF ImportInv, JobsSound, DoneMeansArchived, CompletedMeansArchived, AbsentIsEmpty, Indices
  <1> QED BY <1>2, <1>3, <1>4, <1>5, IdleKnows, StepOf

LEMMA FinishInv ==
  ASSUME ImportInv, NEW x \in Executors, Finish(x)
  PROVE  ImportInv'
  <1> DEFINE j == exec[x].job
             results == exec[x].results
             left == NextIndex(results, 1)
  <1>1. /\ job \in [Jobs -> JobRow] /\ exec \in [Executors -> Exec] /\ Attempting(x) /\ j \in Jobs
        /\ UNCHANGED archive /\ exec' = [exec EXCEPT ![x] = Idle]
    BY DEF Finish, ImportInv, JobsTypeOK, Located, Attempting
  <1>2. results \in Results
    BY <1>1 DEF Exec
  <1>3. /\ left \in 1..Profiles + 1
        /\ left <= Profiles => left \in Indices
        /\ left > Profiles => \A k \in 1..Profiles : results[k] = "available"
    BY <1>2, ImportConstants, NextIndexIsNext
  <1>4. CASE ~Owner(x)
    BY <1>1, <1>4, GivesUp DEF Finish
  <1>5. CASE Owner(x)
    <2>1. \A i \in Indices : results[i] = "available" => <<j, i>> \in archive
      BY <1>1, <1>5 DEF ImportInv, Knows
    <2>2. CASE left > Profiles
      <3> DEFINE row == [job[j] EXCEPT !.status = "completed", !.error = "none",
                          !.since = "none", !.lease = FALSE, !.due = TRUE, !.profiles = results]
      <3>1. job' = [job EXCEPT ![j] = row]
        BY <1>5, <2>2 DEF Finish
      <3>2. /\ row \in JobRow /\ row.status = "completed" /\ row.attempts = job[j].attempts
            /\ row.profiles = results
        <4>1. job[j] \in JobRow
          BY <1>1
        <4> HIDE DEF results, j
        <4> QED BY <1>2, <4>1 DEF JobRow, Status
      <3> HIDE DEF row, results, left
      <3> QED BY <1>1, <1>3, <2>1, <2>2, <3>1, <3>2, EndOfAttempt DEF Indices
    <2>3. CASE ~(left > Profiles)
      <3> DEFINE row == Ended(job[j], results[left], results)
      <3>1. job' = [job EXCEPT ![j] = row]
        BY <1>5, <2>3 DEF Finish
      <3>2. left \in Indices /\ results[left] # "available"
        <4>1. left <= Profiles
          BY <1>3, <2>3, ImportConstants
        <4> QED BY <1>2, <1>3, <4>1, ImportConstants, NextIndexIsNext
      <3>3. results[left] \in Reasons \cup {"none"}
        BY <1>2, <3>2 DEF Results, Indices
      <3>4. /\ row \in JobRow /\ row.status \in {"blocked", "queued"}
            /\ row.attempts = job[j].attempts /\ row.profiles = results
        BY <1>1, <1>2, <3>3, EndedType, ZenonT(60)
      <3> HIDE DEF row, results, left
      <3> QED BY <1>1, <2>1, <3>1, <3>4, EndOfAttempt
    <2> QED BY <2>2, <2>3
  <1> QED BY <1>4, <1>5

LEMMA FailInv ==
  ASSUME ImportInv, NEW x \in Executors, Fail(x)
  PROVE  ImportInv'
  <1> DEFINE j == exec[x].job
             row == Ended(job[j], "failed", job[j].profiles)
  <1>1. /\ job \in [Jobs -> JobRow] /\ exec \in [Executors -> Exec] /\ Attempting(x) /\ j \in Jobs
        /\ UNCHANGED archive /\ exec' = [exec EXCEPT ![x] = Idle]
    BY DEF Fail, ImportInv, JobsTypeOK, Located, Attempting
  <1>2. CASE ~Owner(x)
    BY <1>1, <1>2, GivesUp DEF Fail
  <1>3. CASE Owner(x)
    <2>1. job' = [job EXCEPT ![j] = row]
      BY <1>3 DEF Fail
    <2>2. job[j] \in JobRow /\ job[j].profiles \in Results
      BY <1>1 DEF JobRow
    <2>3. /\ row \in JobRow /\ row.status \in {"blocked", "queued"}
          /\ row.attempts = job[j].attempts /\ row.profiles = job[j].profiles
      <3>1. "failed" \in Reasons \cup {"none"}
        BY DEF Reasons
      <3> QED BY <2>2, <3>1, EndedType
    <2>4. \A i \in Indices : job[j].profiles[i] = "available" => <<j, i>> \in archive
      BY <1>1 DEF ImportInv, JobsSound, DoneMeansArchived
    <2> HIDE DEF row
    <2> QED BY <1>1, <2>1, <2>3, <2>4, EndOfAttempt
  <1> QED BY <1>2, <1>3

LEMMA StopInv ==
  ASSUME ImportInv, NEW x \in Executors, Stop(x)
  PROVE  ImportInv'
  BY GivesUp DEF Stop

-------------------------------------------------------------------------------
\* A row changes on its own: no executor becomes its owner, nothing is saved.
LEMMA RowStep ==
  ASSUME ImportInv, UNCHANGED <<exec, archive>>, NEW j \in Jobs,
         NEW row \in JobRow, job' = [job EXCEPT ![j] = row],
         row.profiles = job[j].profiles, row.attempts = job[j].attempts,
         row.status # "completed" \/ job[j].status = "completed", row.status # "absent",
         row.status # "running" \/ ~row.lease \/
           (job[j].status = "running" /\ job[j].lease /\ row.token = job[j].token)
  PROVE  ImportInv'
  <1>1. job \in [Jobs -> JobRow] /\ exec \in [Executors -> Exec]
    BY DEF ImportInv, JobsTypeOK
  <1>2. JobsTypeOK'
    BY <1>1 DEF ImportInv, JobsTypeOK
  <1>3. job'[j] = row /\ \A i \in Jobs \ {j} : job'[i] = job[i]
    BY <1>1
  <1>4. ASSUME NEW y \in Executors PROVE Steady(y)
    <2>1. Attempting(y) => exec[y].job \in Jobs
      BY DEF ImportInv, Located, Attempting
    <2>2. Attempting(y) => job[exec[y].job].attempts \in Nat
      BY <1>1, <2>1 DEF JobRow
    <2>3. Attempting(y) /\ exec[y].job = j => (Owner(y)' => Owner(y))
      BY <1>3 DEF Owner
    <2> QED BY <1>3, <2>1, <2>2, <2>3 DEF Steady, Owner
  <1>5. JobsSound'
    BY <1>3, NothingSaved
  <1>6. \A y \in Executors : Located(y)' /\ Knows(y)'
    BY <1>2, <1>4, SteadyKeeps DEF ImportInv
  <1>7. TokensUnique'
    BY DEF ImportInv, TokensUnique, Attempting
  <1> QED BY <1>2, <1>5, <1>6, <1>7 DEF ImportInv

LEMMA UpkeepInv ==
  ASSUME ImportInv, NEW j \in Jobs, Enqueue(j) \/ Upkeep(j) \/ DayPasses(j)
  PROVE  ImportInv'
  <1> job[j] \in JobRow /\ job \in [Jobs -> JobRow]
    BY DEF ImportInv, JobsTypeOK
  <1>1. CASE Enqueue(j)
    <2> DEFINE row == [Absent EXCEPT !.status = "queued", !.due = TRUE]
    <2>1. job[j] = Absent
      BY <1>1 DEF Enqueue, ImportInv, JobsSound, AbsentIsEmpty
    <2>2. /\ row \in JobRow /\ row.profiles = job[j].profiles /\ row.attempts = job[j].attempts
          /\ row.status = "queued"
      BY <2>1 DEF Absent, JobRow, Status
    <2> HIDE DEF row
    <2>3. job' = [job EXCEPT ![j] = row] /\ UNCHANGED <<exec, archive>>
      BY <1>1 DEF Enqueue, row
    <2> QED BY <2>2, <2>3, RowStep
  <1>2. CASE ExpireLease(j)
    <2> DEFINE row == [job[j] EXCEPT !.lease = FALSE]
    <2>1. /\ row \in JobRow /\ row.profiles = job[j].profiles /\ row.attempts = job[j].attempts
          /\ row.status = job[j].status /\ ~row.lease
      BY DEF JobRow
    <2> HIDE DEF row
    <2>2. job' = [job EXCEPT ![j] = row] /\ UNCHANGED <<exec, archive>>
      BY <1>2 DEF ExpireLease, row
    <2> QED BY <1>2, <2>1, <2>2, RowStep DEF ExpireLease
  <1>3. CASE ParkTransport(j)
    <2> DEFINE row == [job[j] EXCEPT !.status = "blocked", !.token = 0, !.lease = FALSE]
    <2>1. /\ row \in JobRow /\ row.profiles = job[j].profiles /\ row.attempts = job[j].attempts
          /\ row.status = "blocked"
      BY DEF JobRow, Status
    <2> HIDE DEF row
    <2>2. job' = [job EXCEPT ![j] = row] /\ UNCHANGED <<exec, archive>>
      BY <1>3 DEF ParkTransport, row
    <2> QED BY <2>1, <2>2, RowStep
  <1>4. CASE ResumeCaptcha(j)
    <2> DEFINE row == [job[j] EXCEPT !.status = "queued", !.error = "none", !.token = 0, !.lease = FALSE]
    <2>1. /\ row \in JobRow /\ row.profiles = job[j].profiles /\ row.attempts = job[j].attempts
          /\ row.status = "queued"
      BY DEF JobRow, Status
    <2> HIDE DEF row
    <2>2. job' = [job EXCEPT ![j] = row] /\ UNCHANGED <<exec, archive>>
      BY <1>4 DEF ResumeCaptcha, row
    <2> QED BY <2>1, <2>2, RowStep
  <1>5. CASE BecomeDue(j)
    <2> DEFINE row == [job[j] EXCEPT !.due = TRUE]
    <2>1. /\ row \in JobRow /\ row.profiles = job[j].profiles /\ row.attempts = job[j].attempts
          /\ row.status = job[j].status /\ row.lease = job[j].lease /\ row.token = job[j].token
      BY DEF JobRow
    <2> HIDE DEF row
    <2>2. job' = [job EXCEPT ![j] = row] /\ UNCHANGED <<exec, archive>>
      BY <1>5 DEF BecomeDue, row
    <2>3. job[j].status # "absent"
      BY <1>5 DEF BecomeDue
    <2> QED BY <2>1, <2>2, <2>3, RowStep, ZenonT(60) DEF JobRow
  <1>6. CASE DayPasses(j)
    <2> DEFINE row == [job[j] EXCEPT !.since = "old"]
    <2>1. /\ row \in JobRow /\ row.profiles = job[j].profiles /\ row.attempts = job[j].attempts
          /\ row.status = job[j].status /\ row.lease = job[j].lease /\ row.token = job[j].token
      BY DEF JobRow
    <2> HIDE DEF row
    <2>2. job' = [job EXCEPT ![j] = row] /\ UNCHANGED <<exec, archive>>
      BY <1>6 DEF DayPasses, row
    <2>3. job[j].status # "absent"
      BY <1>6 DEF DayPasses, ImportInv, JobsSound, AbsentIsEmpty, Absent
    <2> QED BY <2>1, <2>2, <2>3, RowStep, ZenonT(60) DEF JobRow
  <1> QED BY <1>1, <1>2, <1>3, <1>4, <1>5, <1>6 DEF Upkeep

\* The queue of the source and its other clients: nothing of the jobs changes.
LEMMA SourceStepInv ==
  ASSUME ImportInv, UNCHANGED <<job, exec, archive>>
  PROVE  ImportInv'
  BY DEF ImportInv, JobsTypeOK, Located, Knows, TokensUnique, JobsSound, DoneMeansArchived,
         CompletedMeansArchived, AbsentIsEmpty, Owner, Attempting, WithProfile

LEMMA ImportInvStep == ImportInv /\ [Next]_vars => ImportInv'
  <1> SUFFICES ASSUME ImportInv, [Next]_vars PROVE ImportInv'
    OBVIOUS
  <1>1. ASSUME NEW j \in Jobs, Enqueue(j) \/ Upkeep(j) \/ DayPasses(j) PROVE ImportInv'
    BY <1>1, UpkeepInv
  <1>2. ASSUME NEW x \in Executors, Work(x) \/ ReadPage(x) \/ ReadLastPage(x)
                 \/ FailToRead(x) \/ Fail(x) \/ LoseHeartbeat(x) \/ Stop(x)
        PROVE  ImportInv'
    BY <1>2, SelectInv, ClaimInv, ChildInv, PersistInv, SaveProfileInv, FinishInv, FailInv,
       HeartbeatInv, StopInv DEF Work
  <1>3. ASSUME NEW x \in Executors, RowLapses(x) \/ RowRefreshed(x) PROVE ImportInv'
    BY <1>3, SourceStepInv DEF RowLapses, RowRefreshed
  <1>4. ASSUME NEW c \in others, Other(c) PROVE ImportInv'
    BY <1>4, SourceStepInv DEF Other
  <1>5. CASE Clock
    BY <1>5, SourceStepInv DEF Clock, Passes
  <1>6. CASE UNCHANGED vars
    BY <1>6, SourceStepInv DEF vars
  <1> QED BY <1>1, <1>2, <1>3, <1>4, <1>5, <1>6 DEF Next

\* What every state satisfies (_execute_flashscore_import_job, with the jobs'
\* scheduling around it): an executor that owns its job holds the results saved
\* so far, tokens are not shared, and a profile that is done, or a job that is
\* completed, has its matches in the archive.
THEOREM ImportInvariant == Spec => []ImportInv
  <1>1. Init => ImportInv
    BY InitialImportInv
  <1>2. ImportInv /\ [Next]_vars => ImportInv'
    BY ImportInvStep
  <1> QED BY <1>1, <1>2, PTL DEF Spec

\* A job is completed only when the matches of all its profiles are in the
\* archive (_execute_flashscore_import_job), for every number of executors, jobs and
\* profiles and every number of stops, lost leases and pauses.
THEOREM CompletedArchived == Spec => []CompletedMeansArchived
  <1>1. ImportInv => CompletedMeansArchived
    BY DEF ImportInv, JobsSound
  <1> QED BY <1>1, ImportInvariant, PTL

-------------------------------------------------------------------------------
\* The profiles of a job are written by the owner of its attempt, who holds
\* what has been saved, and then only where the result is not "available".
ProgressKept ==
  \A j \in Jobs : \A i \in 1..Profiles :
    job[j].profiles[i] = "available" => job'[j].profiles[i] = "available"

LEMMA UpkeepKeeps ==
  ASSUME ImportInv, NEW j \in Jobs, Enqueue(j) \/ Upkeep(j) \/ DayPasses(j)
  PROVE  ProgressKept
  <1> job \in [Jobs -> JobRow]
    BY DEF ImportInv, JobsTypeOK
  <1>1. CASE Enqueue(j)
    <2>1. job[j] = Absent
      BY <1>1 DEF Enqueue, ImportInv, JobsSound, AbsentIsEmpty
    <2> QED BY <1>1, <2>1 DEF Enqueue, ProgressKept, Absent, NoResults
  <1>2. CASE Upkeep(j) \/ DayPasses(j)
    <2>1. \A k \in Jobs : job'[k].profiles = job[k].profiles
      BY <1>2 DEF Upkeep, ExpireLease, ParkTransport, ResumeCaptcha, BecomeDue, DayPasses, JobRow
    <2> QED BY <2>1 DEF ProgressKept
  <1> QED BY <1>1, <1>2

LEMMA AttemptKeeps ==
  ASSUME ImportInv, NEW x \in Executors,
         Claim(x) \/ SaveProfile(x) \/ Finish(x) \/ Fail(x)
  PROVE  ProgressKept
  <1> DEFINE j == exec[x].job
  <1> /\ job \in [Jobs -> JobRow] /\ exec \in [Executors -> Exec]
      /\ j \in Jobs /\ job[j] \in JobRow /\ exec[x] \in Exec
    BY DEF ImportInv, JobsTypeOK, Located, Claim, SaveProfile, Finish, Fail
  <1>1. CASE job' = job
    BY <1>1 DEF ProgressKept
  <1>2. CASE Claim(x)
    <2>1. \A k \in Jobs : job'[k].profiles = job[k].profiles
      <3>1. \A k \in Jobs : k # j => job'[k] = job[k]
        BY <1>2 DEF Claim
      <3>2. job'[j].profiles = job[j].profiles
        <4>1. \/ job' = job
              \/ job' = [job EXCEPT ![j].status = "blocked", ![j].error = "unauthorized",
                                    ![j].token = 0, ![j].lease = FALSE]
              \/ job' = [job EXCEPT ![j].status = "running", ![j].token = job[j].attempts + 1,
                                    ![j].attempts = @ + 1, ![j].lease = TRUE]
          BY <1>2 DEF Claim
        <4>2. CASE job' = [job EXCEPT ![j].status = "blocked", ![j].error = "unauthorized",
                                      ![j].token = 0, ![j].lease = FALSE]
          BY <4>2 DEF JobRow
        <4>3. CASE job' = [job EXCEPT ![j].status = "running", ![j].token = job[j].attempts + 1,
                                      ![j].attempts = @ + 1, ![j].lease = TRUE]
          BY <4>3 DEF JobRow
        <4> QED BY <4>1, <4>2, <4>3
      <3> QED BY <3>1, <3>2
    <2> QED BY <2>1 DEF ProgressKept
  <1>3. CASE SaveProfile(x) /\ Owner(x)
    <2>1. /\ exec[x].results = job[j].profiles
          /\ exec[x].index \in 1..Profiles /\ exec[x].results[exec[x].index] # "available"
      BY <1>3 DEF SaveProfile, ImportInv, Located, Knows, Attempting, WithProfile, Indices
    <2>2. job' = [job EXCEPT ![j].profiles =
                    [exec[x].results EXCEPT ![exec[x].index] = exec[x].outcome]]
      BY <1>3 DEF SaveProfile
    <2>3. job[j].profiles \in Results
      BY DEF JobRow
    <2>4. /\ job'[j].profiles = [job[j].profiles EXCEPT ![exec[x].index] = exec[x].outcome]
          /\ \A k \in Jobs \ {j} : job'[k] = job[k]
      BY <2>1, <2>2 DEF JobRow
    <2>5. \A i \in 1..Profiles : i # exec[x].index => job'[j].profiles[i] = job[j].profiles[i]
      BY <2>3, <2>4 DEF Results
    <2> QED BY <2>1, <2>4, <2>5 DEF ProgressKept
  <1>4. CASE (Finish(x) \/ Fail(x)) /\ Owner(x)
    <2>1. Finish(x) => exec[x].results = job[j].profiles
      BY <1>4 DEF Finish, ImportInv, Knows, Attempting
    <2>2. ASSUME NEW error, NEW results PROVE Ended(job[j], error, results).profiles = results
      BY DEF Ended, JobRow
    <2>3. CASE Finish(x)
      <3>1. /\ job'[j].profiles = exec[x].results
            /\ \A k \in Jobs \ {j} : job'[k] = job[k]
        BY <1>4, <2>2, <2>3 DEF Finish, JobRow
      <3> QED BY <2>1, <2>3, <3>1 DEF ProgressKept
    <2>4. CASE Fail(x)
      <3>1. \A k \in Jobs : job'[k].profiles = job[k].profiles
        BY <1>4, <2>2, <2>4 DEF Fail, JobRow
      <3> QED BY <3>1 DEF ProgressKept
    <2> QED BY <1>4, <2>3, <2>4
  <1> QED BY <1>1, <1>2, <1>3, <1>4 DEF SaveProfile, Finish, Fail

LEMMA StepKeepsProgress == ImportInv /\ [Next]_vars => ProgressKept \/ UNCHANGED vars
  <1> SUFFICES ASSUME ImportInv, Next PROVE ProgressKept
    OBVIOUS
  <1>1. ASSUME UNCHANGED job PROVE ProgressKept
    BY <1>1 DEF ProgressKept
  <1>2. ASSUME NEW x \in Executors, Work(x) \/ ReadPage(x) \/ ReadLastPage(x)
                 \/ FailToRead(x) \/ Fail(x) \/ LoseHeartbeat(x) \/ Stop(x)
                 \/ RowLapses(x) \/ RowRefreshed(x)
        PROVE  ProgressKept
    BY <1>1, <1>2, AttemptKeeps
       DEF Work, Select, AskForPage, RefusedPage, GetPage, Persist, ReadPage, ReadLastPage,
           FailToRead, LoseHeartbeat, Stop, RowLapses, RowRefreshed
  <1>3. ASSUME NEW c \in others, Other(c) PROVE ProgressKept
    BY <1>1, <1>3 DEF Other
  <1>4. CASE Clock
    BY <1>1, <1>4 DEF Clock, Passes
  <1> QED BY <1>2, <1>3, <1>4, UpkeepKeeps DEF Next

\* A profile that is done is not undone by an attempt that has lost its lease,
\* by a failure or by the scheduler (_execute_flashscore_import_job checks the token and
\* the lease before each write).
THEOREM ProgressStays == Spec => ProgressNeverLost
  <1>1. ImportInv /\ [Next]_vars =>
          [\A j \in Jobs : \A i \in 1..Profiles :
             job[j].profiles[i] = "available" => job'[j].profiles[i] = "available"]_vars
    BY StepKeepsProgress DEF ProgressKept
  <1> QED BY <1>1, ImportInvariant, PTL DEF Spec, ProgressNeverLost

-------------------------------------------------------------------------------
(***************************************************************************)
(* The queue in front of the source.  Who is in the source and has a row   *)
(* has an acquired one: a grant counts those of the others.                *)
(***************************************************************************)
HoldersAcquired ==
  \A c \in Clients : gate[c] = "in" => \A i \in Own(rows, c) : rows[i].acquired
SourceInv == SourceTypeOK /\ HoldersAcquired /\ IsFiniteSet(Holders) /\ SlotLimit

\* The k-th of a set of places.
LEMMA PlaceExists ==
  ASSUME NEW n \in Nat, NEW S \in SUBSET (1..n), NEW k \in 1..Cardinality(S)
  PROVE  \E i \in S : Cardinality(S \cap 1..i) = k
  <1> DEFINE f == [i \in S |-> Cardinality(S \cap 1..i)]
  <1>1. IsFiniteSet(S) /\ Cardinality(S) \in Nat
    <2>1. IsFiniteSet(1..n)
      BY FS_Interval
    <2> QED BY <2>1, FS_Subset, FS_CardinalityType
  <1>2. ASSUME NEW i \in S
        PROVE  /\ IsFiniteSet(S \cap 1..i) /\ Cardinality(S \cap 1..i) \in Nat
               /\ Cardinality(S \cap 1..i) \in 1..Cardinality(S)
    <2>1. S \cap 1..i \in SUBSET S /\ i \in S \cap 1..i
      OBVIOUS
    <2>2. IsFiniteSet(S \cap 1..i) /\ Cardinality(S \cap 1..i) <= Cardinality(S)
      BY <1>1, <2>1, FS_Subset
    <2>3. Cardinality(S \cap 1..i) \in Nat /\ Cardinality(S \cap 1..i) # 0
      BY <2>1, <2>2, FS_CardinalityType, FS_EmptySet
    <2> QED BY <1>1, <2>2, <2>3
  <1>3. ASSUME NEW i \in S, NEW j \in S, i < j
        PROVE  Cardinality(S \cap 1..i) # Cardinality(S \cap 1..j)
    <2>1. S \cap 1..i \in SUBSET (S \cap 1..j) /\ j \in S \cap 1..j /\ j \notin S \cap 1..i
      BY <1>3
    <2> QED BY <1>2, <2>1, FS_Subset
  <1>4. f \in [S -> 1..Cardinality(S)]
    BY <1>2
  <1>5. \A i, j \in S : f[i] = f[j] => i = j
    <2> SUFFICES ASSUME NEW i \in S, NEW j \in S, i # j PROVE f[i] # f[j]
      OBVIOUS
    <2>1. i < j \/ j < i
      OBVIOUS
    <2> QED BY <1>3, <2>1
  <1>6. f \in Injection(S, 1..Cardinality(S))
    BY <1>4, <1>5 DEF Injection, IsInjective
  <1>7. IsFiniteSet(1..Cardinality(S)) /\ Cardinality(1..Cardinality(S)) = Cardinality(S)
    BY <1>1, FS_Interval
  <1>8. f \in Surjection(S, 1..Cardinality(S))
    BY <1>1, <1>6, <1>7, FS_Injection
  <1> QED BY <1>8 DEF Surjection

\* What is left of a queue are rows of it.
LEMMA OnlyIs ==
  ASSUME NEW q \in Seq(Row), NEW S \in SUBSET Index(q)
  PROVE  /\ Only(q, S) \in Seq(Row)
         /\ \A k \in Index(Only(q, S)) : \E i \in S : Only(q, S)[k] = q[i]
  <1>1. CASE S = Index(q)
    BY <1>1 DEF Only, Index
  <1>2. CASE S # Index(q)
    <2> DEFINE n == Cardinality(S)
               at(k) == CHOOSE i \in S : Cardinality(S \cap 1..i) = k
    <2>1. Len(q) \in Nat /\ n \in Nat
      <3>1. Len(q) \in Nat /\ IsFiniteSet(1..Len(q))
        BY FS_Interval
      <3> QED BY <3>1, FS_Subset, FS_CardinalityType DEF Index
    <2>2. \A k \in 1..n : at(k) \in S
      BY <2>1, PlaceExists DEF Index
    <2>3. Only(q, S) = [k \in 1..n |-> q[at(k)]]
      BY <1>2 DEF Only
    <2> HIDE DEF n, at
    <2>4. \A i \in S : q[i] \in Row
      BY DEF Index
    <2>5. [k \in 1..n |-> q[at(k)]] \in [1..n -> Row]
      BY <2>2, <2>4
    <2>6. Only(q, S) \in Seq(Row) /\ Len(Only(q, S)) = n
      BY <2>1, <2>3, <2>5
    <2>7. \A k \in 1..n : Only(q, S)[k] = q[at(k)]
      BY <2>3
    <2> QED BY <2>2, <2>6, <2>7 DEF Index
  <1> QED BY <1>1, <1>2

\* A row with a new value of one of its columns.
Marked(r, field, value) == [r EXCEPT ![field] = value]

LEMMA MarkedIs ==
  ASSUME NEW r \in Row
  PROVE  /\ \A b \in BOOLEAN :
              /\ Marked(r, "fresh", b) \in Row
              /\ Marked(r, "fresh", b).client = r.client /\ Marked(r, "fresh", b).acquired = r.acquired
         /\ Marked(r, "client", None) \in Row
         /\ Marked(r, "client", None).client = None /\ Marked(r, "client", None).acquired = r.acquired
  <1>2. ASSUME NEW b \in BOOLEAN
        PROVE  /\ Marked(r, "fresh", b) \in Row
               /\ Marked(r, "fresh", b).client = r.client /\ Marked(r, "fresh", b).acquired = r.acquired
    BY <1>2 DEF Marked, Row
  <1>3. /\ Marked(r, "client", None) \in Row
        /\ Marked(r, "client", None).client = None /\ Marked(r, "client", None).acquired = r.acquired
    BY DEF Marked, Row
  <1> QED BY <1>2, <1>3

LEMMA SetIs ==
  ASSUME NEW q \in Seq(Row), NEW c, NEW field, NEW value, \A r \in Row : Marked(r, field, value) \in Row
  PROVE  /\ Set(q, c, field, value) \in Seq(Row) /\ Len(Set(q, c, field, value)) = Len(q)
         /\ \A i \in Index(q) : Set(q, c, field, value)[i] =
              IF q[i].client = c THEN Marked(q[i], field, value) ELSE q[i]
  <1> DEFINE new == [i \in Index(q) |-> IF q[i].client = c THEN Marked(q[i], field, value)
                                                           ELSE q[i]]
  <1>1. Len(q) \in Nat /\ \A i \in Index(q) : q[i] \in Row
    BY DEF Index
  <1>2. \A i \in Index(q) : new[i] \in Row
    BY <1>1
  <1>3. new \in [1..Len(q) -> Row]
    BY <1>2 DEF Index
  <1>4. Set(q, c, field, value) = new
    BY DEF Set, Marked
  <1> QED BY <1>1, <1>3, <1>4 DEF Index

\* The queue once the client c has its slot.
Acquired(q, c) == Set(q, c, "acquired", TRUE)
LEMMA AcquiredIs ==
  ASSUME NEW q \in Seq(Row), NEW c
  PROVE  /\ Acquired(q, c) \in Seq(Row) /\ Len(Acquired(q, c)) = Len(q)
         /\ \A i \in Index(q) :
              /\ Acquired(q, c)[i].client = q[i].client
              /\ Acquired(q, c)[i].acquired <=> (q[i].acquired \/ q[i].client = c)
  <1> DEFINE row(r) == IF r.client = c THEN [r EXCEPT !.acquired = TRUE] ELSE r
  <1>1. Len(q) \in Nat /\ \A i \in Index(q) : q[i] \in Row
    BY DEF Index
  <1>2. ASSUME NEW r \in Row
        PROVE  /\ row(r) \in Row /\ row(r).client = r.client
               /\ row(r).acquired <=> (r.acquired \/ r.client = c)
    BY DEF Row
  <1>3. Acquired(q, c) = [i \in Index(q) |-> row(q[i])]
    BY DEF Acquired, Set
  <1> HIDE DEF row
  <1>4. Acquired(q, c) \in [1..Len(q) -> Row]
    BY <1>1, <1>2, <1>3 DEF Index
  <1>5. Acquired(q, c) \in Seq(Row) /\ Len(Acquired(q, c)) = Len(q)
    BY <1>1, <1>4
  <1>6. \A i \in Index(q) : Acquired(q, c)[i] = row(q[i])
    BY <1>3
  <1>7. \A i \in Index(q) : /\ Acquired(q, c)[i].client = q[i].client
                            /\ Acquired(q, c)[i].acquired <=> (q[i].acquired \/ q[i].client = c)
    BY <1>1, <1>2, <1>6
  <1> QED BY <1>5, <1>7

\* A step that gives no slot: whoever is in the source and has a row was, and had.
NoGrant ==
  \A k \in 1..Len(rows'), c \in Clients :
    rows'[k].client = c /\ gate'[c] = "in" =>
      /\ gate[c] = "in"
      /\ \E i \in Index(rows) : rows[i].client = c /\ (rows[i].acquired => rows'[k].acquired)

LEMMA NoGrantKeeps ==
  ASSUME SourceInv, SourceTypeOK', NoGrant
  PROVE  SourceInv'
  <1>1. Holders' \subseteq Holders
    BY DEF NoGrant, Holders, Own, Index
  <1>2. HoldersAcquired'
    <2> SUFFICES ASSUME NEW c \in Clients, gate'[c] = "in", NEW k \in 1..Len(rows'), rows'[k].client = c
                 PROVE  rows'[k].acquired
      BY DEF HoldersAcquired, Own, Index
    <2>1. PICK i \in Index(rows) : rows[i].client = c /\ (rows[i].acquired => rows'[k].acquired)
      BY DEF NoGrant
    <2>2. gate[c] = "in"
      BY DEF NoGrant
    <2> QED BY <2>1, <2>2 DEF SourceInv, HoldersAcquired, Own
  <1>3. IsFiniteSet(Holders') /\ Cardinality(Holders') <= Cardinality(Holders)
    BY <1>1, FS_Subset DEF SourceInv
  <1>4. Cardinality(Holders) \in Nat /\ Cardinality(Holders') \in Nat
    BY <1>3, FS_CardinalityType DEF SourceInv
  <1>5. SlotLimit'
    BY <1>3, <1>4, SlotNumbers DEF SourceInv, SlotLimit
  <1> QED BY <1>2, <1>3, <1>5 DEF SourceInv

LEMMA SweptIs ==
  ASSUME rows \in Seq(Row)
  PROVE  /\ Swept(rows) \in Seq(Row)
         /\ \A k \in 1..Len(Swept(rows)) : /\ Swept(rows)[k].fresh
                                           /\ \E i \in Index(rows) : Swept(rows)[k] = rows[i]
  <1> DEFINE S == {i \in Index(rows) : rows[i].fresh}
  <1>1. S \in SUBSET Index(rows) /\ Swept(rows) = Only(rows, S)
    BY DEF Swept, Fresh
  <1>2. \A i \in S : i \in Index(rows) /\ rows[i].fresh
    OBVIOUS
  <1> HIDE DEF S
  <1> QED BY <1>1, <1>2, OnlyIs DEF Index

LEMMA WithoutIs ==
  ASSUME rows \in Seq(Row), NEW c
  PROVE  /\ Without(rows, c) \in Seq(Row)
         /\ \A k \in 1..Len(Without(rows, c)) :
              \E i \in Index(rows) : Without(rows, c)[k] = rows[i] /\ rows[i].client # c
  <1> DEFINE S == Index(rows) \ Own(rows, c)
  <1>1. S \in SUBSET Index(rows) /\ Without(rows, c) = Only(rows, S)
    BY DEF Without
  <1>2. \A i \in S : i \in Index(rows) /\ rows[i].client # c
    BY DEF Own
  <1> HIDE DEF S
  <1> QED BY <1>1, <1>2, OnlyIs DEF Index

LEMMA EnterKeeps ==
  ASSUME SourceInv, NEW c \in Clients, Enter(c), faults' \in 0..MaxFaults
  PROVE  SourceInv'
  <1> DEFINE q == Swept(rows)
             r == [client |-> c, rank |-> Rank[Priority[c]], acquired |-> FALSE, fresh |-> TRUE]
  <1>1. rows \in Seq(Row) /\ gate \in [Clients -> {"out", "waiting", "in"}] /\ control' \in Control
    BY DEF SourceInv, SourceTypeOK, Enter
  <1>2. r \in Row /\ r.client = c
    <2>1. Priority[c] \in {"live", "participant", "archive", "background_profile"}
      BY Priorities DEF Rank
    <2>2. Rank[Priority[c]] \in {0, 10, 20, 30}
      BY <2>1 DEF Rank
    <2> QED BY <2>2 DEF Row
  <1>3. rows' = Append(q, r) /\ gate' = [gate EXCEPT ![c] = "waiting"]
    BY DEF Enter
  <1>4. /\ q \in Seq(Row) /\ \A k \in 1..Len(q) : \E i \in Index(rows) : q[k] = rows[i]
    BY <1>1, SweptIs
  <1> HIDE DEF q, r
  <1>5. SourceTypeOK'
    BY <1>1, <1>2, <1>3, <1>4 DEF SourceTypeOK
  <1>6. NoGrant
    <2> SUFFICES ASSUME NEW k \in 1..Len(rows'), NEW d \in Clients, rows'[k].client = d, gate'[d] = "in"
                 PROVE  gate[d] = "in" /\ \E i \in Index(rows) : rows'[k] = rows[i]
      BY DEF NoGrant
    <2>1. d # c /\ gate[d] = "in"
      BY <1>1, <1>3
    <2>2. k \in 1..Len(q) /\ rows'[k] = q[k]
      BY <1>2, <1>3, <1>4, <2>1
    <2> QED BY <1>4, <2>1, <2>2
  <1> QED BY <1>5, <1>6, NoGrantKeeps

LEMMA SweepKeeps ==
  ASSUME SourceInv, NEW c \in Clients, Sweep(c), faults' \in 0..MaxFaults
  PROVE  SourceInv'
  <1>1. rows \in Seq(Row) /\ rows' = Swept(rows) /\ UNCHANGED <<control, gate>>
    BY DEF SourceInv, SourceTypeOK, Sweep
  <1>2. SourceTypeOK'
    BY <1>1, SweptIs DEF SourceInv, SourceTypeOK
  <1>3. NoGrant
    BY <1>1, SweptIs DEF NoGrant
  <1> QED BY <1>2, <1>3, NoGrantKeeps

LEMMA OutKeeps ==
  ASSUME SourceInv, NEW c \in Clients, Out(c), control' \in Control, faults' \in 0..MaxFaults
  PROVE  SourceInv'
  <1>1. rows \in Seq(Row) /\ rows' = Without(rows, c)
    BY DEF SourceInv, SourceTypeOK, Out
  <1>2. gate \in [Clients -> {"out", "waiting", "in"}] /\ gate' = [gate EXCEPT ![c] = "out"]
    BY DEF SourceInv, SourceTypeOK, Out
  <1>3. SourceTypeOK'
    BY <1>1, <1>2, WithoutIs DEF SourceTypeOK
  <1>4. \A d \in Clients : gate'[d] = "in" => gate[d] = "in"
    BY <1>2
  <1>5. NoGrant
    BY <1>1, <1>4, WithoutIs DEF NoGrant
  <1> QED BY <1>3, <1>5, NoGrantKeeps

\* Rows are marked: as gone, as lapsed or as refreshed.
LEMMA MarkKeeps ==
  ASSUME SourceInv, NEW c \in Clients \cup {None}, NEW field \in {"client", "fresh"}, NEW value,
         field = "client" => value = None, field # "client" => value \in BOOLEAN,
         rows' = Set(rows, c, field, value), control' \in Control, faults' \in 0..MaxFaults,
         gate' \in [Clients -> {"out", "waiting", "in"}],
         \A d \in Clients : gate'[d] = "in" => gate[d] = "in"
  PROVE  SourceInv'
  <1>1. rows \in Seq(Row)
    BY DEF SourceInv, SourceTypeOK
  <1>2. /\ rows' \in Seq(Row) /\ Len(rows') = Len(rows)
        /\ \A i \in Index(rows) :
             rows'[i] = IF rows[i].client = c THEN Marked(rows[i], field, value) ELSE rows[i]
    <2>1. \A r \in Row : Marked(r, field, value) \in Row
      BY MarkedIs
    <2> QED BY <1>1, <2>1, SetIs
  <1>3. SourceTypeOK'
    BY <1>2 DEF SourceTypeOK
  <1>4. ASSUME NEW i \in Index(rows)
        PROVE  /\ rows'[i].client \in {rows[i].client, None}
               /\ rows'[i].acquired = rows[i].acquired
    <2>1. rows[i] \in Row
      BY <1>1 DEF Index
    <2>2. CASE rows'[i] = rows[i]
      BY <2>2
    <2>3. CASE rows'[i] = Marked(rows[i], field, value)
      <3>1. CASE field = "client"
        <4>1. rows'[i] = Marked(rows[i], "client", None)
          BY <2>3, <3>1
        <4> QED BY <2>1, <4>1, MarkedIs
      <3>2. CASE field = "fresh"
        <4>1. rows'[i] = Marked(rows[i], "fresh", value) /\ value \in BOOLEAN
          BY <2>3, <3>2
        <4> QED BY <2>1, <4>1, MarkedIs
      <3> QED BY <3>1, <3>2
    <2> QED BY <1>2, <2>2, <2>3
  <1>5. NoGrant
    BY <1>2, <1>4, NoneIsNoClient DEF NoGrant, Index
  <1> QED BY <1>3, <1>5, NoGrantKeeps

LEMMA AgingKeeps ==
  ASSUME SourceInv, NEW c \in Clients \cup {None}, ArchiveAges(c), faults' \in 0..MaxFaults
  PROVE  SourceInv'
  <1>1. rows \in Seq(Row) /\ UNCHANGED <<control, gate>>
    BY DEF SourceInv, SourceTypeOK, ArchiveAges
  <1>2. PICK i \in Index(rows) : rows' = [rows EXCEPT ![i].rank = AgedRank]
    BY DEF ArchiveAges, Own
  <1>3. rows[i] \in Row
    BY <1>1 DEF Index
  <1>4. [rows[i] EXCEPT !.rank = AgedRank] \in Row
    BY <1>3 DEF Row, AgedRank
  <1>5. rows' = [rows EXCEPT ![i] = [rows[i] EXCEPT !.rank = AgedRank]]
    BY <1>2
  <1>6. rows' \in Seq(Row) /\ Len(rows') = Len(rows)
    <2>1. rows \in [1..Len(rows) -> Row] /\ Len(rows) \in Nat
      BY <1>1
    <2>2. rows' \in [1..Len(rows) -> Row]
      BY <1>4, <1>5, <2>1
    <2> QED BY <2>1, <2>2
  <1>7. \A k \in Index(rows) : rows'[k].client = rows[k].client /\ rows'[k].acquired = rows[k].acquired
    BY <1>1, <1>3, <1>5 DEF Row, Index
  <1>8. SourceTypeOK'
    BY <1>1, <1>6 DEF SourceInv, SourceTypeOK
  <1>9. NoGrant
    BY <1>1, <1>6, <1>7 DEF NoGrant, Index
  <1> QED BY <1>8, <1>9, NoGrantKeeps

\* A slot is given when fewer than the limit are taken, and each of the others
\* in the source whose row is left takes one.
LEMMA GrantKeeps ==
  ASSUME SourceInv, NEW c \in Clients, Grant(c), faults' \in 0..MaxFaults
  PROVE  SourceInv'
  <1> DEFINE q == Swept(rows)
             active == {i \in Index(q) : q[i].acquired /\ q[i].fresh}
             held == {d \in Clients : gate[d] = "in" /\ Own(q, d) # {}}
             f == [d \in held |-> CHOOSE i \in Index(q) : q[i].client = d]
  <1>1. /\ rows \in Seq(Row) /\ control \in Control /\ gate \in [Clients -> {"out", "waiting", "in"}]
        /\ rows' = Acquired(q, c)
        /\ control' = [control EXCEPT !.spacing = TRUE]
        /\ gate' = [gate EXCEPT ![c] = "in"] /\ gate[c] = "waiting"
        /\ Cardinality(active) < control.limit
    BY DEF SourceInv, SourceTypeOK, Grant, Active, Acquired
  <1>2. /\ q \in Seq(Row)
        /\ \A k \in Index(q) : q[k].fresh /\ \E i \in Index(rows) : q[k] = rows[i]
    BY <1>1, SweptIs DEF Index
  <1> HIDE DEF q
  <1>3. rows' \in Seq(Row) /\ Len(rows') = Len(q)
    BY <1>1, <1>2, AcquiredIs
  <1>4. \A i \in Index(q) : /\ rows'[i].client = q[i].client
                            /\ rows'[i].acquired <=> (q[i].acquired \/ q[i].client = c)
    BY <1>1, <1>2, AcquiredIs
  <1>5. SourceTypeOK'
    <2>1. control' \in Control
      BY <1>1 DEF Control
    <2> QED BY <1>1, <1>3, <2>1 DEF SourceTypeOK
  <1>6. ASSUME NEW i \in Index(q), NEW d \in Clients, q[i].client = d, gate[d] = "in"
        PROVE  i \in active
    BY <1>2, <1>6 DEF SourceInv, HoldersAcquired, Own
  <1>7. HoldersAcquired'
    <2> SUFFICES ASSUME NEW d \in Clients, gate'[d] = "in", NEW k \in Index(q), rows'[k].client = d
                 PROVE  rows'[k].acquired
      BY <1>3 DEF HoldersAcquired, Own, Index
    <2>1. CASE d = c
      BY <1>4, <2>1
    <2>2. CASE d # c
      <3>1. gate[d] = "in" /\ q[k].client = d
        BY <1>1, <1>4, <2>2
      <3> QED BY <1>4, <1>6, <3>1
    <2> QED BY <2>1, <2>2
  <1>8. IsFiniteSet(active) /\ Cardinality(active) \in Nat
    <2>1. Len(q) \in Nat /\ IsFiniteSet(1..Len(q))
      BY <1>2, FS_Interval
    <2>2. active \in SUBSET (1..Len(q))
      BY DEF Index
    <2> QED BY <2>1, <2>2, FS_Subset, FS_CardinalityType
  <1>9. f \in Injection(held, active)
    <2>1. \A d \in held : \E i \in Index(q) : q[i].client = d
      BY DEF Own
    <2>2. \A d \in held : f[d] \in Index(q) /\ q[f[d]].client = d
      BY <2>1
    <2>3. \A d \in held : d \in Clients /\ gate[d] = "in"
      OBVIOUS
    <2>4. f \in [held -> active]
      <3> HIDE DEF active, held
      <3>1. \A d \in held : f[d] \in active
        BY <1>6, <2>2, <2>3
      <3> HIDE DEF f
      <3>2. f = [d \in held |-> f[d]]
        BY DEF f
      <3> QED BY <3>1, <3>2
    <2>5. \A d, e \in held : f[d] = f[e] => d = e
      <3> HIDE DEF f, held
      <3> QED BY <2>2
    <2> QED BY <2>4, <2>5 DEF Injection, IsInjective
  <1> HIDE DEF active, f
  <1>10. IsFiniteSet(held) /\ Cardinality(held) <= Cardinality(active) /\ Cardinality(held) \in Nat
    BY <1>8, <1>9, FS_Injection, FS_CardinalityType
  <1>11. Holders' \subseteq held \cup {c}
    <2> SUFFICES ASSUME NEW d \in Holders', d # c PROVE d \in held
      OBVIOUS
    <2>1. d \in Clients /\ gate[d] = "in"
      BY <1>1 DEF Holders
    <2>2. PICK k \in Index(q) : rows'[k].client = d
      BY <1>3 DEF Holders, Own, Index
    <2>3. k \in Own(q, d)
      BY <1>4, <2>2 DEF Own
    <2> QED BY <2>1, <2>3
  <1> HIDE DEF held
  <1>12. IsFiniteSet(held \cup {c}) /\ Cardinality(held \cup {c}) <= Cardinality(held) + 1
    <2>1. /\ IsFiniteSet(held \cup {c})
          /\ Cardinality(held \cup {c}) = IF c \in held THEN Cardinality(held) ELSE Cardinality(held) + 1
      BY <1>10, FS_AddElement
    <2> QED BY <1>10, <2>1
  <1>13. IsFiniteSet(Holders') /\ Cardinality(Holders') <= Cardinality(held \cup {c})
    BY <1>11, <1>12, FS_Subset
  <1>14. Cardinality(Holders') \in Nat /\ Cardinality(held \cup {c}) \in Nat
    BY <1>12, <1>13, FS_CardinalityType
  <1>15. control.limit \in Nat /\ control.limit <= MaxSlots /\ MaxSlots \in Nat
    BY <1>1, SlotNumbers DEF Control
  <1>16. SlotLimit'
    BY <1>1, <1>8, <1>10, <1>12, <1>13, <1>14, <1>15 DEF SlotLimit
  <1> QED BY <1>5, <1>7, <1>13, <1>16 DEF SourceInv

LEMMA ControlKeeps ==
  ASSUME SourceInv, UNCHANGED <<rows, gate>>, control' \in Control, faults' \in 0..MaxFaults
  PROVE  SourceInv'
  BY DEF SourceInv, SourceTypeOK, HoldersAcquired, SlotLimit, Holders, Own, Index

LEMMA ThrottledIs ==
  ASSUME control \in Control
  PROVE  Throttled \in Control
  <1>1. 0 \in 0..Enough /\ 1 \in 1..MaxSlots /\ TRUE \in BOOLEAN
    BY SlotNumbers
  <1> QED BY <1>1 DEF Throttled, Control

LEMMA LeaveControl ==
  ASSUME control \in Control, NEW c \in Clients, Leave(c)
  PROVE  control' \in Control
  <1>1. /\ control.successes \in 0..Enough /\ control.limit \in 1..MaxSlots
        /\ MaxSlots \in 1..MaxSlots /\ Enough \in Nat
    BY SlotNumbers DEF Control
  <1>2. CASE control.paused
    <2>1. control' = [control EXCEPT !.successes = 0]
      BY <1>2 DEF Leave
    <2> QED BY <1>1, <2>1 DEF Control
  <1>3. CASE ~control.paused
    <2> DEFINE n == IF control.successes < Enough THEN control.successes + 1 ELSE control.successes
               l == IF control.successes + 1 >= Enough THEN MaxSlots ELSE control.limit
    <2>1. control' = [control EXCEPT !.successes = n, !.limit = l]
      BY <1>3 DEF Leave
    <2>2. n \in 0..Enough /\ l \in 1..MaxSlots
      BY <1>1
    <2> HIDE DEF n, l
    <2> QED BY <2>1, <2>2 DEF Control
  <1> QED BY <1>2, <1>3

LEMMA LapseOrRefreshKeeps ==
  ASSUME SourceInv, NEW c \in Clients \cup {None}, faults' \in 0..MaxFaults, UNCHANGED <<control, gate>>,
         rows' = Set(rows, c, "fresh", FALSE) \/ rows' = Set(rows, c, "fresh", TRUE)
  PROVE  SourceInv'
  <1>1. control' \in Control /\ gate' \in [Clients -> {"out", "waiting", "in"}]
    BY DEF SourceInv, SourceTypeOK
  <1>2. ASSUME NEW field, NEW value, field = "fresh", value \in BOOLEAN, rows' = Set(rows, c, field, value)
        PROVE  SourceInv'
    BY <1>1, <1>2, MarkKeeps
  <1> QED BY <1>2, Zenon

LEMMA GoneKeeps ==
  ASSUME SourceInv, NEW c \in Clients, Gone(c), faults' \in 0..MaxFaults
  PROVE  SourceInv'
  <1>1. /\ gate \in [Clients -> {"out", "waiting", "in"}] /\ control' \in Control
        /\ gate' = [gate EXCEPT ![c] = "out"] /\ rows' = Set(rows, c, "client", None)
    BY DEF SourceInv, SourceTypeOK, Gone
  <1>2. /\ gate' \in [Clients -> {"out", "waiting", "in"}]
        /\ \A d \in Clients : gate'[d] = "in" => gate[d] = "in"
    BY <1>1
  <1> QED BY <1>1, <1>2, MarkKeeps

LEMMA AccessKeeps ==
  ASSUME SourceInv, NEW c \in Clients, Access(c) \/ FaultyAccess(c), faults' \in 0..MaxFaults
  PROVE  SourceInv'
  <1>1. control \in Control
    BY DEF SourceInv, SourceTypeOK
  <1>2. CASE GiveUp(c) \/ LeaveFailed(c)
    BY <1>1, <1>2, OutKeeps DEF GiveUp, LeaveFailed
  <1>3. CASE Leave(c)
    BY <1>1, <1>3, LeaveControl, OutKeeps DEF Leave
  <1>4. CASE LeaveThrottled(c)
    BY <1>1, <1>4, ThrottledIs, OutKeeps DEF LeaveThrottled
  <1>5. CASE Lapse(c) \/ Refresh(c)
    BY <1>5, LapseOrRefreshKeeps DEF Lapse, Refresh
  <1> QED BY <1>2, <1>3, <1>4, <1>5, EnterKeeps, GrantKeeps, SweepKeeps, GoneKeeps DEF Access, FaultyAccess

LEMMA ClockKeeps ==
  ASSUME SourceInv, SourceClock, faults' \in 0..MaxFaults
  PROVE  SourceInv'
  <1>1. control \in Control
    BY DEF SourceInv, SourceTypeOK
  <1>2. CASE RowsOfTheGoneLapse
    BY <1>2, LapseOrRefreshKeeps DEF RowsOfTheGoneLapse
  <1>3. CASE PauseEnds
    <2>1. control' \in Control
      BY <1>1, <1>3 DEF PauseEnds, Control
    <2> QED BY <1>3, <2>1, ControlKeeps DEF PauseEnds
  <1>4. CASE SpacingEnds
    <2>1. control' \in Control
      BY <1>1, <1>4 DEF SpacingEnds, Control
    <2> QED BY <1>4, <2>1, ControlKeeps DEF SpacingEnds
  <1> QED BY <1>2, <1>3, <1>4, AgingKeeps DEF SourceClock

LEMMA InitialSourceInv == Init => SourceInv
  <1> SUFFICES ASSUME Init PROVE SourceInv
    OBVIOUS
  <1>1. rows = <<>> /\ Holders = {}
    BY DEF Init, SourceInit, Holders
  <1>2. SourceTypeOK
    BY SlotNumbers DEF Init, SourceInit, SourceTypeOK, Control
  <1>3. SlotLimit /\ IsFiniteSet(Holders)
    BY <1>1, FS_EmptySet, SlotNumbers DEF SlotLimit
  <1>4. HoldersAcquired
    BY DEF Init, SourceInit, HoldersAcquired
  <1> QED BY <1>2, <1>3, <1>4 DEF SourceInv

LEMMA SourceInvStep == SourceInv /\ [Next]_vars => SourceInv'
  <1> SUFFICES ASSUME SourceInv, [Next]_vars PROVE SourceInv'
    OBVIOUS
  <1>1. control \in Control /\ faults \in 0..MaxFaults /\ MaxFaults \in Nat
    BY SlotNumbers DEF SourceInv, SourceTypeOK
  <1>2. UNCHANGED faults \/ Fault => faults' \in 0..MaxFaults
    BY <1>1 DEF Fault
  <1>3. ASSUME UNCHANGED <<rows, gate>>, UNCHANGED control \/ control' = Throttled, UNCHANGED faults \/ Fault
        PROVE  SourceInv'
    BY <1>1, <1>2, <1>3, ThrottledIs, ControlKeeps
  <1>4. ASSUME NEW c \in Clients, Access(c) \/ FaultyAccess(c), UNCHANGED faults \/ Fault
        PROVE  SourceInv'
    BY <1>2, <1>4, AccessKeeps
  <1>5. ASSUME NEW j \in Jobs, Enqueue(j) \/ Upkeep(j) \/ DayPasses(j) PROVE SourceInv'
    BY <1>3, <1>5 DEF Enqueue, Upkeep, DayPasses, ExpireLease, ParkTransport, ResumeCaptcha, BecomeDue
  <1>6. ASSUME NEW x \in Executors, Work(x) \/ ReadPage(x) \/ ReadLastPage(x) \/ FailToRead(x)
        PROVE  SourceInv'
    <2>1. x \in Clients
      BY ImportConstants
    <2>2. CASE Select(x) \/ Claim(x) \/ RefusedPage(x) \/ Persist(x) \/ SaveProfile(x) \/ Finish(x)
      BY <1>3, <2>2 DEF Select, Claim, RefusedPage, Persist, SaveProfile, Finish
    <2>3. CASE AskForPage(x) \/ GetPage(x) \/ ReadPage(x) \/ ReadLastPage(x)
      BY <1>4, <2>1, <2>3 DEF AskForPage, GetPage, ReadPage, ReadLastPage, Access
    <2>4. CASE FailToRead(x)
      BY <1>4, <2>1, <2>4 DEF FailToRead, Access, FaultyAccess
    <2> QED BY <1>6, <2>2, <2>3, <2>4 DEF Work
  <1>7. ASSUME NEW x \in Executors,
               Fail(x) \/ LoseHeartbeat(x) \/ Stop(x) \/ RowLapses(x) \/ RowRefreshed(x)
        PROVE  SourceInv'
    <2>1. x \in Clients
      BY ImportConstants
    <2>2. CASE Fail(x) \/ LoseHeartbeat(x)
      BY <1>3, <2>2 DEF Fail, LoseHeartbeat
    <2>3. CASE Stop(x)
      BY <1>3, <1>4, <2>1, <2>3 DEF Stop, FaultyAccess, sourceVars
    <2>4. CASE RowLapses(x) \/ RowRefreshed(x)
      BY <1>4, <2>1, <2>4 DEF RowLapses, RowRefreshed, Access, FaultyAccess
    <2> QED BY <1>7, <2>2, <2>3, <2>4
  <1>8. ASSUME NEW c \in others, Other(c) PROVE SourceInv'
    BY <1>4, <1>8 DEF Other, others
  <1>9. CASE Clock
    BY <1>2, <1>9, ClockKeeps DEF Clock, Passes
  <1>10. CASE UNCHANGED vars
    BY <1>3, <1>10 DEF vars
  <1> QED BY <1>5, <1>6, <1>7, <1>8, <1>9, <1>10 DEF Next

\* What every state of the queue satisfies (_flashscore_source_access), for any
\* number of clients: rows and control row keep their columns' domains, and whoever
\* is in the source holds an acquired row as long as it has one at all.
THEOREM SourceInvariant == Spec => []SourceInv
  <1> QED BY InitialSourceInv, SourceInvStep, PTL DEF Spec

\* The source serves no more clients at once than it has slots, as far as their
\* requests are still in the queue, for any number of clients and slots.
THEOREM SlotsKept == Spec => []SlotLimit
  <1>1. SourceInv => SlotLimit
    BY DEF SourceInv
  <1> QED BY <1>1, SourceInvariant, PTL

\* Every variable has its type (the columns of flashscore_import_jobs and of the queue,
\* and the locals of _execute_flashscore_import_job).
THEOREM ImportTypes == Spec => []TypeOK
  <1>1. SourceInv /\ ImportInv => TypeOK
    BY DEF SourceInv, ImportInv, JobsTypeOK, TypeOK, Indices
  <1> QED BY <1>1, SourceInvariant, ImportInvariant, PTL
===============================================================================
