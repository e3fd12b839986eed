-------------------------- MODULE CandidateScheduler --------------------------
(***************************************************************************)
(* The candidate scheduler of the backend: events that have a prediction   *)
(* and no LLM decision are scored, queued by score, and dispatched to the  *)
(* LLM under a cooldown per event, a cache of verdicts and a rate limit.   *)
(*                                                                         *)
(* The scheduler is one object in memory, used by every request of the     *)
(* backend at once.  The worker and the neural service both ask for a sync *)
(* (POST /api/scheduler/sync-ml-predictions), an operator may clear the    *)
(* scheduler.  A step is what a request does between two points where      *)
(* another request can be seen.                                            *)
(*                                                                         *)
(* An event leaves the sync's query for good when it ends, or when another *)
(* part writes a decision on it: an execution round, or the context gate   *)
(* of the neural service before the event has a prediction.  What is queued*)
(* is dispatched all the same.                                             *)
(*                                                                         *)
(* Left out: the cooldown of web research and the text it feeds to the LLM,*)
(* the verdict itself, and proposals made on the way, which nobody sends   *)
(* on.                                                                     *)
(***************************************************************************)
EXTENDS Integers, Sequences, FiniteSets, SequencesExt

CONSTANTS
  Events,
  Score,         \* Score[i]: composite score of a prediction; 0 for odds that are
                 \* no odds, which a sync passes over
  Rank,          \* Rank[i]: place of a prediction in the sync's query, the live
                 \* events first, then the newest prediction
  Default,       \* 0.60: hurdle the scheduler starts with
  Lowered,       \* 0.35: hurdle during a sync
  Capacity,      \* 100: items in the queue
  Limit,         \* events a sync may enqueue
  RowsRead,      \* limit * 3: predictions a sync reads
  Calls,         \* requests of the backend that run at the same time
  MaxVersions,   \* bound: predictions of an event
  MaxTroubles,   \* bound: failures, clears, refusals of the rate limiter, expired
                 \* verdicts, new predictions, events that leave the query
  None

Versions == 1..MaxVersions
Items == [event: Events, version: Versions]

ASSUME ScoreData == Score \in [Items -> Nat] /\ {Default, Lowered} \subseteq Nat \ {0}
ASSUME RankOrder ==
  /\ Rank \in [Items -> Nat]
  /\ \A i, j \in Items : /\ Rank[i] = Rank[j] => i = j
                         /\ i.event = j.event /\ i.version > j.version => Rank[i] < Rank[j]
ASSUME SchedulerBounds ==
  /\ {Capacity, Limit, RowsRead, MaxVersions} \subseteq Nat \ {0}
  /\ MaxTroubles \in Nat /\ None \notin Items

VARIABLES
  hurdle,      \* config.min_candidate_score
  heap,        \* the queue, best item first
  cache,       \* items whose verdict is cached
  cooling,     \* events in LLM cooldown
  version,     \* version[e]: newest prediction of e
  decisions,   \* decisions[e]: committed rows of llm_decisions, counted to 2
  gone,        \* events the query leaves out, whatever the scheduler does
  call,        \* call[c]: a request of the backend
  answers,     \* answers[i]: LLM answers for an item, counted, as lost is, while
               \* AnsweredOnce speaks of them (history)
  lost,        \* lost[i]: those of them that no cache has seen (history)
  past,        \* what has happened so far (history)
  troubles

scheduler == <<hurdle, heap, cache, cooling>>
database == <<version, decisions, gone>>
history == <<answers, lost, past>>
vars == <<scheduler, database, call, history, troubles>>

NoWrites == [e \in Events |-> 0]
Returned == [at |-> "idle", saved |-> 0, todo |-> {}, left |-> 0,
             item |-> None, writes |-> NoWrites]

Init ==
  /\ hurdle = Default
  /\ heap = <<>> /\ cache = {} /\ cooling = {}
  /\ version = [e \in Events |-> 1] /\ decisions = NoWrites /\ gone = {}
  /\ call = [c \in Calls |-> Returned]
  /\ answers = [i \in Items |-> 0] /\ lost = answers
  /\ past = {}
  /\ troubles = 0

Trouble == troubles < MaxTroubles /\ troubles' = troubles + 1
Idle(c) == call[c].at = "idle"
Syncing == {c \in Calls : call[c].at \in {"read", "enqueuing"}}
Smaller(a, b) == IF a < b THEN a ELSE b

-------------------------------------------------------------------------------
(***************************************************************************)
(* The queue.                                                              *)
(***************************************************************************)
\* The best score first, the older of two equals first.
Inserted(q, i) ==
  LET ahead == {k \in 1..Len(q) : Score[q[k]] >= Score[i]}
  IN  InsertAt(q, Cardinality(ahead) + 1, i)

Worst(q) == {k \in 1..Len(q) : \A l \in 1..Len(q) : Score[q[k]] <= Score[q[l]]}

\* What the queue may be after push(i), and whether it took the item.
PastCapacity(q, i) == {[taken |-> TRUE, queue |-> Inserted(q, i)]}     \* mutant
Pushed(q, i) ==
  LET worse == {k \in Worst(q) : Score[q[k]] < Score[i]} IN
  IF Len(q) < Capacity THEN {[taken |-> TRUE, queue |-> Inserted(q, i)]}
  ELSE IF worse = {} THEN {[taken |-> FALSE, queue |-> q]}
  ELSE {[taken |-> TRUE, queue |-> Inserted(RemoveAt(q, k), i)] : k \in worse}

\* evaluate_and_enqueue
Evaluated(q, i) ==
  IF Score[i] < hurdle THEN {[taken |-> FALSE, queue |-> q]} ELSE Pushed(q, i)

-------------------------------------------------------------------------------
(***************************************************************************)
(* The sync.                                                               *)
(***************************************************************************)
ReadHurdle(c) ==
  /\ Idle(c)
  /\ call' = [call EXCEPT ![c] = [Returned EXCEPT !.at = "read", !.saved = hurdle]]
  /\ past' = past \cup (IF \A d \in Calls \ {c} : Idle(d) THEN {} ELSE {"overlap"})
                  \cup (IF Syncing = {} THEN {} ELSE {"blurred"})
  /\ UNCHANGED <<scheduler, database, answers, lost, troubles>>

AsConfigured(saved) == saved                                           \* mutant
Eased(saved) == Smaller(saved, Lowered)

\* The query follows at once: what another request may do in between changes
\* the hurdle or the rows, not both.
AnyEvent(e) == TRUE                                                    \* mutant
Undecided(e) == decisions[e] = 0
Newest(e) == [event |-> e, version |-> version[e]]
Rows == {i \in Items : i.version <= version[i.event] /\ Undecided(i.event) /\ i.event \notin gone}
Ahead(i) == {j \in Rows : Rank[j] < Rank[i]}
\* Of each event among the first rows the newest prediction; the others fill rows.
Listed == {i \in Rows : i = Newest(i.event) /\ Cardinality(Ahead(i)) < RowsRead}
Lower(c) ==
  /\ call[c].at = "read"
  /\ hurdle' = Eased(call[c].saved)
  /\ call' = [call EXCEPT ![c].at = "enqueuing", ![c].todo = Listed]
  /\ UNCHANGED <<heap, cache, cooling, database, history, troubles>>

Enqueue(c) ==
  /\ call[c].at = "enqueuing" /\ call[c].left < Limit
  /\ \E i \in call[c].todo : \E p \in Evaluated(heap, i) :
       /\ \A j \in call[c].todo : Rank[i] <= Rank[j]
       /\ heap' = p.queue
       /\ call' = [call EXCEPT ![c].todo = @ \ {i}, ![c].left = @ + (IF p.taken THEN 1 ELSE 0)]
  /\ UNCHANGED <<hurdle, cache, cooling, database, history, troubles>>

\* The finally block, and the decision to dispatch.
LeaveLowered(h, saved) == h                                            \* mutant
Restored(h, saved) == saved
RestoreHurdle(c) ==
  /\ call[c].at = "enqueuing" /\ (call[c].todo = {} \/ call[c].left = Limit)
  /\ hurdle' = Restored(hurdle, call[c].saved)
  /\ call' = [call EXCEPT ![c] = IF @.left = 0 THEN Returned
                                 ELSE [@ EXCEPT !.at = "dispatching", !.todo = {}, !.saved = 0]]
  /\ UNCHANGED <<heap, cache, cooling, database, history, troubles>>

\* The database fails: the hurdle is restored, what is in the queue stays there.
SyncFails(c) ==
  /\ call[c].at = "enqueuing" /\ Trouble
  /\ hurdle' = Restored(hurdle, call[c].saved)
  /\ call' = [call EXCEPT ![c] = Returned]
  /\ past' = past \cup {"failed"}
  /\ UNCHANGED <<heap, cache, cooling, database, answers, lost>>

-------------------------------------------------------------------------------
(***************************************************************************)
(* The dispatch: what is popped is the top of the whole queue, and the     *)
(* decisions are committed together, after the last item.                  *)
(***************************************************************************)
OneShort(c) == call[c].left > 1                       \* mutant
WantsMore(c) == call[c].left > 0
MLOnly(c) == call' = [call EXCEPT ![c].left = @ - 1]
Answered(c, i) ==
  call' = [call EXCEPT ![c].at = "dispatching", ![c].item = None,
                       ![c].left = @ - 1, ![c].writes[i.event] = @ + 1]

\* The top of the queue: with the cached verdict, or ML only (no decision) in the
\* cooldown or when the rate limiter refuses, or to the LLM.
Take(c) ==
  LET i == Head(heap) IN
  /\ call[c].at = "dispatching" /\ WantsMore(c) /\ heap # <<>>
  /\ heap' = Tail(heap)
  /\ \/ i \in cache /\ Answered(c, i) /\ UNCHANGED troubles
     \/ i \notin cache /\ i.event \in cooling /\ MLOnly(c) /\ UNCHANGED troubles
     \/ i \notin cache /\ i.event \notin cooling /\ MLOnly(c) /\ Trouble
     \/ /\ i \notin cache /\ i.event \notin cooling
        /\ call' = [call EXCEPT ![c].at = "asking", ![c].item = i]
        /\ UNCHANGED troubles
  /\ UNCHANGED <<hurdle, cache, cooling, database, history>>

\* The LLM, or what stands in for it, always answers.
Counted == past \cap {"overlap", "forgotten"} = {}
OneMore(count, i) == IF Counted THEN [count EXCEPT ![i] = @ + 1] ELSE count
Answer(c) ==
  /\ call[c].at = "asking"
  /\ call' = [call EXCEPT ![c].at = "answered"]
  /\ answers' = OneMore(answers, call[c].item)
  /\ UNCHANGED <<scheduler, database, lost, past, troubles>>

\* The rows of the decision are flushed; only then is the verdict cached.
NotCached(i) == cache                                                  \* mutant
Cached(i) == cache \cup {i}
Record(c) ==
  LET i == call[c].item IN
  /\ call[c].at = "answered"
  /\ cooling' = cooling \cup {i.event}
  /\ cache' = Cached(i)
  /\ Answered(c, i)
  /\ UNCHANGED <<hurdle, heap, database, history, troubles>>

Commit(c) ==
  /\ call[c].at = "dispatching" /\ (~WantsMore(c) \/ heap = <<>>)
  /\ decisions' = [e \in Events |-> Smaller(decisions[e] + call[c].writes[e], 2)]
  /\ call' = [call EXCEPT ![c] = Returned]
  /\ UNCHANGED <<scheduler, version, gone, history, troubles>>

\* The decisions of the whole dispatch are rolled back; what was popped is gone,
\* and so is an answer whose rows could not be flushed.
DispatchFails(c) ==
  /\ call[c].at \in {"dispatching", "asking", "answered"} /\ Trouble
  /\ lost' = IF call[c].at = "answered" THEN OneMore(lost, call[c].item) ELSE lost
  /\ call' = [call EXCEPT ![c] = Returned]
  /\ past' = past \cup {"failed"}
  /\ UNCHANGED <<scheduler, database, answers>>

-------------------------------------------------------------------------------
(***************************************************************************)
(* The operator, the process, time, and the rest of the system.            *)
(***************************************************************************)
ClearByHand ==
  /\ Trouble
  /\ heap' = <<>> /\ cache' = {} /\ cooling' = {}
  /\ past' = past \cup {"failed", "forgotten"}
  /\ UNCHANGED <<hurdle, database, call, answers, lost>>

\* Only the database survives.
Restart ==
  /\ \E c \in Calls : ~Idle(c)
  /\ Trouble
  /\ hurdle' = Default
  /\ heap' = <<>> /\ cache' = {} /\ cooling' = {}
  /\ call' = [c \in Calls |-> Returned]
  /\ past' = past \cup {"failed", "forgotten"}
  /\ UNCHANGED <<database, answers, lost>>

CoolsDown(e) ==
  /\ e \in cooling
  /\ cooling' = cooling \ {e}
  /\ UNCHANGED <<hurdle, heap, cache, database, call, history, troubles>>
Expires(i) ==
  /\ i \in cache /\ Trouble
  /\ cache' = cache \ {i}
  /\ past' = past \cup {"forgotten"}
  /\ UNCHANGED <<hurdle, heap, cooling, database, call, answers, lost>>

NewPrediction(e) ==
  /\ version[e] < MaxVersions /\ Trouble
  /\ version' = [version EXCEPT ![e] = @ + 1]
  /\ UNCHANGED <<scheduler, decisions, gone, call, history>>

\* It ends, or somebody else decides it.
Leaves(e) ==
  /\ e \notin gone /\ Trouble
  /\ gone' = gone \cup {e}
  /\ UNCHANGED <<scheduler, version, decisions, call, history>>

-------------------------------------------------------------------------------
Sync(c) == ReadHurdle(c) \/ Lower(c) \/ Enqueue(c) \/ RestoreHurdle(c)
Dispatch(c) == Take(c) \/ Answer(c) \/ Record(c) \/ Commit(c)
Fails == (\E c \in Calls : SyncFails(c) \/ DispatchFails(c)) \/ Restart
Time == (\E e \in Events : CoolsDown(e)) \/ (\E i \in Items : Expires(i))

Next == (\E c \in Calls : Sync(c) \/ Dispatch(c)) \/ ClearByHand \/ Fails \/ Time
  \/ \E e \in Events : NewPrediction(e) \/ Leaves(e)
Spec == Init /\ [][Next]_vars

\* The worker asks for a sync every 30 seconds, and time passes.
Fairness ==
  /\ \A c \in Calls : WF_vars(Sync(c) \/ Dispatch(c))
  /\ \A e \in Events : WF_vars(CoolsDown(e))
FairSpec == Spec /\ Fairness

-------------------------------------------------------------------------------
\* Every variable has its type; the queue is sorted and within its capacity.
TypeOK ==
  /\ hurdle \in {Default, Lowered}
  /\ heap \in Seq(Items) /\ Len(heap) <= Capacity
  /\ \A k \in 1..Len(heap) - 1 : Score[heap[k]] >= Score[heap[k + 1]]
  /\ cache \subseteq Items /\ cooling \subseteq Events
  /\ version \in [Events -> Versions] /\ decisions \in [Events -> 0..2]
  /\ gone \subseteq Events
  /\ call \in [Calls -> [at: {"idle", "read", "enqueuing", "dispatching", "asking", "answered"},
                         saved: Nat, todo: SUBSET Items, left: 0..Limit,
                         item: Items \cup {None}, writes: [Events -> Nat]]]
  /\ answers \in [Items -> Nat] /\ lost \in [Items -> Nat]
  /\ past \subseteq {"overlap", "blurred", "failed", "forgotten"}
  /\ troubles \in 0..MaxTroubles

\* A sync lowers the hurdle "temporarily": when none is under way, the hurdle is
\* the configured one again, after failures too, unless two syncs overlapped.
HurdleLostOnlyByOverlap ==
  Syncing = {} /\ "blurred" \notin past => hurdle = Default

\* The LLM answers once for a prediction, and once more for each answer that is
\* lost because its rows could not be flushed: once the verdict is cached it is
\* used again when the dispatch that asked is rolled back, unless requests
\* overlapped or the cache lost it.
AnsweredOnce ==
  past \cap {"overlap", "forgotten"} = {} => \A i \in Items : answers[i] <= 1 + lost[i]

\* The scheduler writes one decision on an event, though its prediction changes, its verdict expires
\* or the limiter refuses, unless requests overlapped, failed or were cleared.
DecidedOnce ==
  past \cap {"overlap", "failed"} = {} => \A e \in Events : decisions[e] <= 1

\* What the syncs enqueue they dispatch between them, overlapping or not: only
\* a failure leaves an item in the queue, where it may wait ahead of newer ones
\* until some sync enqueues another.
NothingLeftBehind ==
  (\A c \in Calls : Idle(c)) /\ "failed" \notin past => heap = <<>>

\* An event whose score passes the hurdle is decided in the end, or leaves the
\* query, and one that passes the lowered hurdle too, if syncs do not overlap for
\* ever; unless the rows a sync reads are in the end filled ahead of it, for good,
\* by predictions that no sync enqueues, or the queue stays full of better items
\* that no sync will dispatch.
Waits(e) == decisions[e] = 0 /\ e \notin gone
HopelessAhead(e, h) == {i \in Ahead(Newest(e)) : Score[Newest(i.event)] < h}
Reached(e, h) == Score[Newest(e)] >= h /\ Cardinality(HopelessAhead(e, h)) < RowsRead
Jammed == Len(heap) = Capacity /\ \A c \in Calls : call[c].left = 0
Apart == Cardinality(Syncing) <= 1
DecidedInTheEnd ==
  \A e \in Events :
    []<>~Jammed /\ ([]<>Reached(e, Default) \/ (<>[]Apart /\ []<>Reached(e, Lowered)))
      => []<>~Waits(e)
===============================================================================
