----------------------------- MODULE ResearchQueue -----------------------------
(***************************************************************************)
(* The queue of web searches: every live or prematch event is searched     *)
(* once, a few at a time, and its forecasts wait for the search.           *)
(*                                                                         *)
(* Three processes share the tables: the backend (the worker has it sync   *)
(* the queue every 30 seconds, and it waits for each search in a thread),  *)
(* the research service (which searches, and writes what it found), and    *)
(* neural, which makes forecasts of an event once its search is over.      *)
(* Decisions about a forecast ask the research service for its evidence.   *)
(*                                                                         *)
(* A transaction that reads one row and writes it is a step; the sync      *)
(* reads lists and writes them later, in several transactions.             *)
(***************************************************************************)
EXTENDS Integers, Sequences, FiniteSets, SequencesExt, Functions

CONSTANTS
  Events,
  Limit,         \* SEARCH_LIMIT: searches the queue has running
  Calls,         \* requests of the research service under way at the same time
  MaxTroubles,   \* bound: failures, restarts, rows written back, runs by hand
  None

ASSUME QueueBounds ==
  /\ IsFiniteSet(Events) /\ Limit \in Nat \ {0} /\ MaxTroubles \in Nat
  /\ None \notin Events

VARIABLES
  board,       \* events that are live or prematch
  runs,        \* web_research_runs, in the order of created_at
  evidence,    \* events with rows in web_evidence
  inflight,    \* _inflight: events a thread waits for
  sync,        \* the sync under way
  call,        \* call[c]: a request to the research service, at both ends
  cache,       \* events whose packet the research service has in memory
  searches,    \* searches[e]: searches of e, while it is calm (history)
  troubles

tables == <<board, runs, evidence>>
backend == <<inflight, sync>>
vars == <<tables, backend, call, cache, searches, troubles>>

Runs == [event: Events, status: {"queued", "running", "completed"}]
NoCall == [event |-> None, by |-> None, client |-> "none", server |-> "none"]
Asked(e) == [event |-> e, by |-> "thread", client |-> "waiting", server |-> "check"]
NoSearches == [e \in Events |-> 0]
NoSync == [at |-> "idle", rows |-> {}]

Init ==
  /\ board = Events /\ runs = <<>> /\ evidence = {}
  /\ inflight = {} /\ sync = NoSync
  /\ call = [c \in Calls |-> NoCall]
  /\ cache = {}
  /\ searches = NoSearches
  /\ troubles = 0

Trouble == troubles < MaxTroubles /\ troubles' = troubles + 1 /\ searches' = NoSearches
NoTrouble == UNCHANGED <<searches, troubles>>
\* Nothing has failed, nobody has recorded a run by hand, and no sync has written
\* back a run that was completed after the sync read it.
Calm == troubles = 0

RunsOf(e) == {i \in 1..Len(runs) : runs[i].event = e}
OpenRuns(e) == {i \in RunsOf(e) : runs[i].status # "completed"}
Completed(e) == RunsOf(e) \ OpenRuns(e)
Newest(S) == CHOOSE i \in S : \A j \in S : j <= i

\* research_state: "waiting"
NotYetQueued(e) == FALSE                                               \* mutant
NotSearched(e) == RunsOf(e) = {} \/ runs[Newest(RunsOf(e))].status # "completed"
Waiting(e) == e \notin evidence /\ NotSearched(e)

\* Calls have no names: which of the free ones is taken makes no difference.
Free == {c \in Calls : call[c] = NoCall}
OneOf(S) == IF S = {} THEN {} ELSE {CHOOSE x \in S : TRUE}

With(i, status) == [runs EXCEPT ![i].status = status]
WithAll(S, status) == [i \in DOMAIN runs |-> IF i \in S THEN [runs[i] EXCEPT !.status = status] ELSE runs[i]]
\* _open_run: the newest run that is not completed gets the status, or a new one has it.
Noted(e, status) ==
  IF OpenRuns(e) = {} THEN Append(runs, [event |-> e, status |-> status])
  ELSE With(Newest(OpenRuns(e)), status)

-------------------------------------------------------------------------------
(***************************************************************************)
(* The sync of the queue; a second one that arrives meanwhile is refused.  *)
(***************************************************************************)
ReadRunning ==
  /\ sync.at = "idle"
  /\ sync' = [at |-> "requeuing", rows |-> {i \in 1..Len(runs) : runs[i].status = "running"}]
  /\ UNCHANGED <<tables, inflight, call, cache>> /\ NoTrouble

NoneOf(S) == {}                                                        \* mutant
Abandoned(S) == {i \in S : runs[i].event \notin inflight}
\* A row that was completed since it was read is written back.  Nothing fails in
\* this: troubles only bound how often it happens, and beyond the bound the read
\* is taken to have come later.
Ended(S) == {i \in S : runs[i].status = "completed"}
Overwritten(S) == \/ NoTrouble /\ Ended(S) = {}
                  \/ Trouble /\ Ended(S) # {}
Requeue ==
  /\ sync.at = "requeuing"
  /\ \E lost \in {Abandoned(sync.rows), Abandoned(sync.rows) \ Ended(sync.rows)} :
       runs' = WithAll(lost, "queued") /\ Overwritten(lost)
  /\ sync' = [NoSync EXCEPT !.at = "queuing"]
  /\ UNCHANGED <<board, evidence, inflight, call, cache>>

\* Nobody else adds the first run of an event.  What is pending is read at once:
\* the oldest queued runs, as many as there are slots.
SlotsOfThisSync(table) == Limit                                        \* mutant
Slots(table) == Limit - Cardinality({i \in DOMAIN table : table[i].status = "running"})
Pending(table) ==
  LET queued == {i \in DOMAIN table : table[i].status = "queued"} IN
  {i \in queued : Cardinality({j \in queued : j <= i}) <= Slots(table)}

QueueMissing ==
  /\ sync.at = "queuing"
  /\ \E new \in SetToSeqs({e \in board \ evidence : RunsOf(e) = {}}) :
       /\ runs' = runs \o [k \in 1..Len(new) |-> [event |-> new[k], status |-> "queued"]]
       /\ sync' = IF Pending(runs') = {} THEN NoSync ELSE [at |-> "claiming", rows |-> Pending(runs')]
  /\ UNCHANGED <<board, evidence, inflight, call, cache>> /\ NoTrouble

\* The rows are marked, the events are in flight, the threads start; when the
\* database fails after the commit there are rows but no threads.
Claim ==
  /\ sync.at = "claiming"
  /\ sync' = NoSync
  /\ \/ \E rows \in {sync.rows, sync.rows \ Ended(sync.rows)} :
          /\ runs' = WithAll(rows, "running") /\ Overwritten(rows)
          /\ \E start \in OneOf(Injection(rows, Free)) :
               call' = [c \in Calls |-> IF \E i \in rows : start[i] = c
                                        THEN Asked(runs[CHOOSE i \in rows : start[i] = c].event)
                                        ELSE call[c]]
          /\ inflight' = inflight \cup {runs[i].event : i \in rows}
     \/ runs' = WithAll(sync.rows, "running") /\ UNCHANGED <<call, inflight>> /\ Trouble
  /\ UNCHANGED <<board, evidence, cache>>

\* The database fails; what the sync has committed stays.
SyncFails ==
  /\ sync.at # "idle" /\ Trouble
  /\ sync' = NoSync
  /\ UNCHANGED <<tables, inflight, call, cache>>

-------------------------------------------------------------------------------
(***************************************************************************)
(* The research service (execute_research).  A caller that has given up    *)
(* does not stop it.                                                       *)
(***************************************************************************)
Goes(c, step) == call' = [call EXCEPT ![c].server = step]
Replies(c, how) ==
  call' = [call EXCEPT ![c] = IF @.client = "waiting" THEN [@ EXCEPT !.server = how]
                              ELSE IF @.client = "closing" THEN [@ EXCEPT !.server = "none"]
                              ELSE NoCall]

\* load_completed_evidence: an event that was searched has evidence, or none.
WithPages(e) == e \in evidence                                         \* mutant
Stored(e) == Completed(e) # {}
Known(e) == e \in cache \/ Stored(e)
\* Not in memory, and not searched yet, or so it seems when the database fails.
SeemsNew(e) == e \notin cache /\ ((~Stored(e) /\ NoTrouble) \/ (Stored(e) /\ Trouble))
Check(c) ==
  /\ call[c].server = "check"
  /\ \/ Known(call[c].event) /\ Replies(c, "answered") /\ NoTrouble
     \/ SeemsNew(call[c].event) /\ Goes(c, "begin")
  /\ UNCHANGED <<tables, backend, cache>>

\* begin_research_run, a transaction later: the run is marked, or a new one
\* begins; when the database fails the search goes on all the same.
Begin(c) ==
  LET e == call[c].event IN
  /\ call[c].server = "begin" /\ Goes(c, "search")
  /\ \/ /\ runs' = Noted(e, "running")
        /\ searches' = IF Calm THEN [searches EXCEPT ![e] = @ + 1] ELSE searches
        /\ UNCHANGED troubles
     \/ UNCHANGED runs /\ Trouble
  /\ UNCHANGED <<board, evidence, backend, cache>>

Search(c) ==
  /\ call[c].server = "search"
  /\ \/ Goes(c, "persist") /\ cache' = cache \cup {call[c].event} /\ NoTrouble
     \/ Replies(c, "failed") /\ UNCHANGED cache /\ Trouble
  /\ UNCHANGED <<tables, backend>>

\* persist_research_packet; a failure of the database is not told to the caller.
Persist(c) ==
  LET e == call[c].event IN
  /\ call[c].server = "persist" /\ Replies(c, "answered")
  /\ \/ /\ runs' = Noted(e, "completed")
        /\ \E found \in {{}, {e}} : evidence' = evidence \cup found
        /\ NoTrouble
     \/ UNCHANGED <<runs, evidence>> /\ Trouble
  /\ UNCHANGED <<board, backend, cache>>

-------------------------------------------------------------------------------
(***************************************************************************)
(* The callers: a thread of the queue (_call_research), and a decision,    *)
(* whose part after its question is left out.                              *)
(***************************************************************************)
\* The finally block of the thread
StaysInFlight(e) == inflight                                           \* mutant
Discarded(e) == inflight \ {e}
Hear(c) ==
  /\ call[c].client = "waiting" /\ call[c].server = "answered"
  /\ call' = [call EXCEPT ![c] = NoCall]
  /\ inflight' = Discarded(call[c].event)
  /\ UNCHANGED <<tables, sync, cache>> /\ NoTrouble

\* An error of the service or, after 70 seconds, no answer.
GiveUp(c) ==
  /\ call[c].client = "waiting" /\ call[c].server # "answered"
  /\ LET server == IF call[c].server = "failed" THEN "none" ELSE call[c].server IN
       call' = [call EXCEPT ![c].client = "closing", ![c].server = server]
  /\ UNCHANGED <<tables, backend, cache>> /\ NoTrouble

\* _complete_empty, and the end of the thread, even when the database fails.
LeftOpen(e) == runs                                                    \* mutant
ClosedEmpty(e) == IF OpenRuns(e) = {} THEN runs ELSE With(Newest(OpenRuns(e)), "completed")
CompleteEmpty(c) ==
  LET e == call[c].event IN
  /\ call[c].client = "closing"
  /\ \/ runs' = ClosedEmpty(e) /\ NoTrouble
     \/ UNCHANGED runs /\ Trouble
  /\ inflight' = Discarded(e)
  /\ call' = [call EXCEPT ![c] = IF @.server = "none" THEN NoCall ELSE [@ EXCEPT !.client = "none"]]
  /\ UNCHANGED <<board, evidence, sync, cache>>

\* fetch_research_snippets, for a decision about a forecast: neural made it when
\* it was told that the search is over, now or earlier (not before the run was
\* written back).  What the service knows it answers at once.
Ask(c, e) ==
  /\ ~Waiting(e) \/ Stored(e)
  /\ c \in OneOf(Free)
  /\ \/ Known(e) /\ UNCHANGED call /\ NoTrouble
     \/ /\ SeemsNew(e)
        /\ call' = [call EXCEPT ![c] = [event |-> e, by |-> "decision", client |-> "none", server |-> "begin"]]
  /\ UNCHANGED <<tables, backend, cache>>

-------------------------------------------------------------------------------
(***************************************************************************)
(* Time, the operator, and the processes.                                  *)
(***************************************************************************)
Expire(e) ==
  /\ e \in cache /\ \A c \in Calls : call[c].server = "persist" => call[c].event # e
  /\ cache' = cache \ {e}
  /\ UNCHANGED <<tables, backend, call>> /\ NoTrouble

\* The event is finished before it is queued; later that makes no difference.
Leave(e) ==
  /\ e \in board /\ RunsOf(e) = {} /\ board' = board \ {e}
  /\ UNCHANGED <<runs, evidence, backend, call, cache>> /\ NoTrouble

\* POST /api/research/run
RunByHand(e) ==
  /\ Trouble
  /\ runs' = Append(runs, [event |-> e, status |-> "completed"])
  /\ UNCHANGED <<board, evidence, backend, call, cache>>

BackendRestarts ==
  /\ (sync # NoSync \/ \E c \in Calls : call[c].client # "none") /\ Trouble
  /\ inflight' = {} /\ sync' = NoSync
  /\ call' = [c \in Calls |-> IF call[c].server \in {"none", "answered", "failed"} THEN NoCall
                              ELSE [call[c] EXCEPT !.client = "none"]]
  /\ UNCHANGED <<tables, cache>>

ResearchRestarts ==
  /\ (cache # {} \/ \E c \in Calls : call[c].server # "none") /\ Trouble
  /\ cache' = {}
  /\ call' = [c \in Calls |-> IF call[c].client = "waiting" /\ call[c].server # "answered"
                              THEN [call[c] EXCEPT !.server = "failed"]
                              ELSE IF call[c].client = "none" THEN NoCall
                              ELSE IF call[c].client = "closing" THEN [call[c] EXCEPT !.server = "none"]
                              ELSE call[c]]
  /\ UNCHANGED <<tables, backend>>

-------------------------------------------------------------------------------
Sync == ReadRunning \/ Requeue \/ QueueMissing \/ Claim
Serve(c) == Check(c) \/ Begin(c) \/ Search(c) \/ Persist(c)
Listen(c) == Hear(c) \/ CompleteEmpty(c) \/ GiveUp(c)

Next ==
  \/ Sync \/ SyncFails
  \/ \E c \in Calls : Serve(c) \/ Listen(c)
  \/ \E e \in Events : Expire(e) \/ Leave(e) \/ RunByHand(e) \/ \E c \in Calls : Ask(c, e)
  \/ BackendRestarts \/ ResearchRestarts
Spec == Init /\ [][Next]_vars

\* The worker asks for a sync every 30 seconds; a request ends, or is given up.
Fairness ==
  /\ WF_vars(Sync)
  /\ \A c \in Calls : WF_vars(Serve(c)) /\ WF_vars(Listen(c))
  /\ \A e \in Events : WF_vars(Expire(e))
FairSpec == Spec /\ Fairness

-------------------------------------------------------------------------------
\* Every variable has its type; only a thread that waits is in flight.
TypeOK ==
  /\ board \subseteq Events /\ evidence \subseteq Events
  /\ runs \in Seq(Runs)
  /\ inflight \subseteq Events /\ cache \subseteq Events
  /\ sync \in [at: {"idle", "requeuing", "queuing", "claiming"}, rows: SUBSET (1..Len(runs))]
  /\ call \in [Calls -> [event: Events \cup {None}, by: {None, "thread", "decision"},
                         client: {"none", "waiting", "closing"},
                         server: {"none", "check", "begin", "search", "persist", "answered", "failed"}]]
  /\ searches \in [Events -> Nat]
  /\ troubles \in 0..MaxTroubles
  /\ \A e \in inflight : \E c \in Calls : call[c].event = e /\ call[c].by = "thread" /\ call[c].client # "none"

\* A live or prematch match is searched once, however late the service answers,
\* as long as nothing fails, no run is recorded by hand and no sync writes back a
\* run that was completed since it read it.
SearchedOnce == Calm => \A e \in Events : searches[e] <= 1

\* The queue has no more searches running than its limit, late ones aside, on the
\* same conditions: although threads give up and the service goes on.
Running == {c \in Calls : /\ call[c].by = "thread" /\ call[c].client = "waiting"
                           /\ call[c].server \in {"begin", "search", "persist"}}
LimitKept == Calm => Cardinality(Running) <= Limit

\* Decisions never search, on the same conditions: their forecast has waited for
\* the search of the queue, and was told that it is over.
DecisionsNeverSearch ==
  Calm => \A c \in Calls : call[c].by = "decision" => call[c].server = "none"

\* Until something fails, an event that neural was told is searched waits again in
\* two ways only: a sync writes back a run that was completed since it read it, or
\* the service begins a run between whose lookup and whose start the thread gave
\* up and closed the run of the queue.
WrittenBack(e) == \E i \in sync.rows : runs[i].event = e /\ runs[i].status = "completed"
BegunLate(e) ==
  \E c \in Calls : /\ call[c].event = e /\ call[c].by = "thread"
                   /\ call[c].server = "begin" /\ call[c].client = "none"
WaitsAgainByRaceOnly ==
  [][\A e \in Events : Calm /\ ~Waiting(e) /\ Waiting(e)' => WrittenBack(e) \/ BegunLate(e)]_vars

\* Every match on the board is searched in the end, whatever fails on the way,
\* unless the slots are for ever taken by runs nobody closes: the service
\* answers from what it has stored, and leaves the run open.
Unsearched(e) == e \in board /\ Completed(e) = {}
Stuck == {i \in 1..Len(runs) : runs[i].status # "completed" /\ Completed(runs[i].event) # {}}
SearchedInTheEnd ==
  []<>(Cardinality(Stuck) < Limit) => \A e \in Events : []<>~Unsearched(e)
===============================================================================
