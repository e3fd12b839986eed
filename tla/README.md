# NeuroBet: TLA+ models, checks and proofs

NeuroBet collects live tennis odds, predicts matches, lets an LLM review the
prediction, and places *virtual* bets that are settled from the bookmaker's
official results. This directory holds TLA+ models of the parts of it in which
concurrent processes share state, the TLC runs that check them, and theorems
about them proved with TLAPS. Paths below are relative to the repository.

## 1. The system

| component | state | operations | talks to |
|---|---|---|---|
| virtual bankroll (`packages/bankroll/.../service.py`, `db/models/betting.py`) | `virtual_accounts`, `ledger_entries`, `bets`, `bet_settlements` | `get_or_create_account`, `place_bet`, `settle_bet` | called inside the transactions of the next three |
| bet-manager (`services/bet-manager/app/executor.py`, `pipeline.py`) | `bet_proposals`, `bet_validation_results` | `process_proposal`: load account, 15 validation gates, insert proposal, place bet, commit | HTTP from the execution bridge, the backend and the MCP server |
| settlement (`packages/bankroll/.../settlement.py`) | event row (`status`, `metadata_json`), bets | `match_and_complete_event`, `settle_event_bets` | called by `POST /api/settlement/sync` (worker, every 30 s) and `scripts/backfill_official_results.py` |
| simulation reset (`services/backend/app/main.py`) | account, ledger | `POST /api/simulation/reset` | operator |
| streams (`packages/streams`) | Redis streams, consumer group, idempotency marks, dead letters | `publish`, `read_messages`, `process_one`, `route_to_dead_letter` | collector -> `fonbet.raw` -> worker |
| worker (`services/worker/app`) | none of its own | poll two streams; every 30 s execution, settlement, scheduler and research rounds | Redis, backend |
| live ingest (`worker/app/ingest.py`, `sports/tennis/.../pipeline.py`) | event row, snapshots, odds | `persist_fonbet_snapshot`, `process_and_persist` | handler of `fonbet.raw` |
| candidate scheduler (`packages/bankroll/.../candidate_scheduler.py`, `backend/app/main.py`) | queue, hurdle, cooldowns, cache of verdicts (memory); `llm_decisions` | sync, dispatch, clear | called by worker and neural; calls the LLM and the research service |
| research queue (`backend/app/research_queue.py`, `research/app/persistence.py`, `service.py`, `cache.py`) | `web_research_runs`, `web_evidence`, in-flight set, packet cache | `sync_search_queue`, `_call_research`, `execute_research` | worker -> backend -> research; neural reads the result |
| Flashscore jobs (`research/app/main.py`, `flashscore_worker.py`) | `flashscore_import_jobs`, `flashscore_source_requests`, `flashscore_source_control` | select, claim, fetch by a child process, save, park, resume | the Flashscore site, through one queue for all clients |
| neural jobs (`neural/app/jobs.py`, `replay/jobs.py`) | two Redis streams, counters, done keys; `backtest_runs` | claim, run, finish; backend: create, trim, delete runs | backend -> Redis -> neural |
| execution bridge (`packages/bankroll/.../execution_bridge.py`) | proposals | `execute_confirmed` | bet-manager |
| collector (`services/collector/app`) | circuit breaker | `poll_once` | bookmaker, `fonbet.raw` |
| LLM, frontend, parsers, models | files, weights | scraping, parsing, inference | |

Hard to get right: the account row is written by three kinds of transaction
that do not take its lock at the same moment; the event row is read, compared
and written back by ingest, settlement, a script and two annotators without a
common lock; delivery is at least once with reclaim, republication and
trimming; jobs and searches are executed under leases, time limits and
attempt counters while their executors stop, lose a lease or answer late; the
scheduler is one object in memory used by concurrent requests. `PROJECT.json`
lists the hazards at their lines with the property that would catch each, or
why there is none.

## 2. Modules

| module | models |
|---|---|
| `BetJournal` | what the bankroll promises: a bet is placed once, settled once, and the journal tells that story |
| `Bankroll` | account, ledger, bets, proposals and stored official results under concurrent request, settlement and reset transactions; implements `BetJournal` |
| `StreamDelivery` | one Redis stream, its group, consumers, marks, retries, dead letters |
| `EventLifecycle` | the row of a tennis event and everybody who writes it back |
| `FlashscoreSource` | the queue of requests in front of Flashscore: priorities, ageing, slots, leases, pauses |
| `FlashscoreImport` | the profile jobs, composed with `FlashscoreSource` (EXTENDS): each attempt's child gets its pages through the queue |
| `NeuralJobs` | the training and the replay stream, the backend's requests, the neural service's threads |
| `CandidateScheduler` | sync and dispatch as concurrent requests on one scheduler |
| `ResearchQueue` | the queue of web searches, the research service and the decisions that ask it |
| `MC...` | values of the constants for TLC |
| `BankrollProofs`, `BankrollSafety`, `StreamDeliveryProofs`, `EventLifecycleProofs`, `FlashscoreImportProofs`, `NeuralJobsProofs`, `CandidateSchedulerProofs`, `ResearchQueueProofs` | theorems about the module of that name (`FlashscoreImportProofs` about `FlashscoreSource` too), see section 5 |

### Bankroll

A step is what one database transaction does between two points where another
transaction can be seen. Assumed of PostgreSQL and the ORM:

- READ COMMITTED; a row lock lasts to the end of the transaction; a write is
  seen by others when it is committed; a conflicting insert of a unique value
  waits for the uncommitted one and then fails or goes through.
- An ORM session keeps the objects it has loaded and does not refresh them on
  `SELECT ... FOR UPDATE` without `populate_existing`. So `place_bet` computes
  from the account loaded at the start of the request (`req[r].snap`), and
  `settle_bet` from the row first locked by this transaction (`settler[s].row`).
- Deadlocks are detected: one transaction of a cycle is aborted, and the one
  waiting for it gets the row (external: `WaitsFor`, `Deadlocked`,
  `BreakDeadlock`).

| variable | code |
|---|---|
| `account`, `ledger`, `bet`, `settlements`, `proposals` | committed rows of the tables |
| `official` | `events.metadata_json["fonbet_official_result"]` |
| `accountLock`, `betLock`, `eventLock`, `proposalLock` | row locks, and uncommitted unique inserts |
| `req[r]` | a call of `process_proposal`: place, loaded account, verdict |
| `settler[s]` | a settlement transaction: events left, event, bets left, result, locked row, uncommitted outcomes |
| `resetter[x]` | a call of `reset_simulation` |

Requests: `LoadAccount`, `CreateAccount`, `Validate`, `AnswerDuplicate`,
`FindProposal`, `InsertProposal`, `CommitWithoutBet`, `EnterPlaceBet`,
`PlaceBet`, `AbortRequest` follow `process_proposal` from top to bottom.
`PlaceBet` includes the commit, because nothing of it can be seen earlier.
Settlers: `BeginSettlement` (a feed result per event), `MatchEvent` (a result
weaker than the stored one keeps the event row), `CompleteEvent`, `LoadBets`,
`NextBet`, `LockBet`, `SettleBet`, `CommitSettlement`. The sync has one
transaction per event and repeats; a script has one for all events.

Money is counted in minimum stakes. The gates on the proposal's own data
(schema, prediction, LLM, event, market, odds, edge, policy) are one free
choice in `Validate`. A result carries only what its consequences need: the
winner, what its set scores say of the set bet on, and its strength. A result
weaker than the stored one still merges its set winners into the event's
metadata in the code; they are taken to be stored already, so that merge writes
nothing.

### StreamDelivery

A step is one Redis command or one run of the handler. A message is its
idempotency key; its id is the position in the stream. `Reclaim` is XAUTOCLAIM,
`ReadNew` XREADGROUP, `CheckCompleted` GET of the mark, `MarkCompleted` SET,
`Ack` XACK, `RetryOrDeadLetter` the except branch (XADD of the copy, or of the
dead letter; the XACK follows as its own step). `Start` is the process start
with XGROUP CREATE at `$`. `Publish` trims as `maxlen ~` allows. Faults:
`Stop` (at any command), `ErrorInMark`, `ErrorInAck` (inside the `try`),
`ErrorOutside`, `Overrun` (a handler slower than `pending_idle_ms`),
`ExpireMark` (24 hours). The published, lost, handled, failed and excused
counts are history variables, read by no action.

### EventLifecycle

`row[e]` is the committed row: status, `is_live`, `finished_at`,
`last_seen_at`, and of `metadata_json` the official result, its history, the
pending flag, the noted sets and the notes of others. A step is a SELECT or a
commit. An UPDATE of the ORM writes the columns that differ from the loaded
object (`ChangedColumns`), so two writers that overlap mix columns, and
`metadata_json` is one column.

| action | code |
|---|---|
| `Poll`, `Publish` | outside: a snapshot of the live board or the catalog; a result, definitive or not |
| `BeginSnapshot`, `LoadEvent`, `SaveEvent`, `FailEvent`, `Reconcile`, `StopWorker` | `persist_fonbet_snapshot` and `process_and_persist` with its branches: late catalog item, sealed row, stale observation, overwrite, insert; then the bulk update to `interrupted` |
| `BeginSync`, `LoadForResult`, `SaveResult`, `EndSync`, `StopSync` | the settlement sync: index built once, the row found by names, `match_and_complete_event` |
| `BeginScript`, `CommitResults`, `LoadForRepair`, `SaveRepair` | `backfill_official_results.py`: results in one transaction, two repairs, results again |
| `LoadNote`, `SaveNote` | `freeze_finished_context` and the catalogue's note |

Snapshots may be processed late, again, or in another order. The clock is the
number of snapshots; `Grace` is the 90 seconds within which a snapshot counts as
current, in snapshots.

### FlashscoreSource and FlashscoreImport

A client of the source is out, waiting or in. Its row has a rank, may be
acquired, and is *fresh* while its heartbeat thread lives; whoever joins or
asks sweeps rows that are not. `Grant` is the SELECT ... FOR UPDATE on the
control row together with what it decides, `Sweep` a round that grants nothing.
Time is not kept: what ends after some time (a pause, the interval between
starts, ten seconds of waiting, a lease) may end at any time.

A job's row carries status, token, lease, due, attempts, error and the result
of each profile. An executor selects, claims (`Claim`: a new token and a
lease), and per profile has a child fetch pages (`AskForPage`, `GetPage`,
`ReadPage`, `ReadLastPage`, `FailToRead`), imports the matches (`Persist`),
saves the profile (`SaveProfile`) and at last the job (`Finish`, `Fail`). Every
write asks `Owner`: the row locked, still running, under this token, the lease
not expired. `ParkTransport`, `ResumeCaptcha`, `BecomeDue`, `ExpireLease`
are the scheduler's upkeep and time.

### NeuralJobs

`stream` and `pending` are the two streams and the group's pending entries,
`fails` and `done` the Redis keys, `row` the status in `backtest_runs`,
`request[r]` a backend request between its check of an equal run, its insert
and its publication. `Claim` is one call of `claim`: the first pending entry,
dismissed when done or out of attempts, else a new one. A training is counted
when it begins, a run when it raises, as in the code. `ClaimFails`,
`FinishFails`, `PublishFails`, `BackendStops`, `Crash` are failures between any
two of the calls.

### CandidateScheduler

`hurdle` (`config.min_candidate_score`), `heap`, `cache` and `cooling` are the
one object in memory; `call[c]` is a request of `sync_ml_predictions_to_llm`
with the dispatch it ends in. `ReadHurdle`, `Lower` (with the query, which
reads `RowsRead` rows in the order of `Rank`), `Enqueue` (per event listed, best
rank first), `RestoreHurdle` (the finally block), then `Take`, `Answer` (the
LLM's), `Record` (its rows are flushed, cooldown and verdict are noted),
`Commit`. Decisions written by a dispatch are its own until `Commit`; a flush
that fails (`DispatchFails` between `Answer` and `Record`) loses the answer.
An item is an event with the version of its prediction, which is what the
cache's hash tells apart; a prediction without odds has score 0. `Leaves` is
what takes an event out of the query from outside: it ends, an execution round
decides it, or the context gate of the neural service writes a row of
`llm_decisions` before there is a prediction (`context_gate.py:297-330`).

### ResearchQueue

`runs` are the rows of `web_research_runs` in the order of `created_at`.
`ReadRunning`, `Requeue`, `QueueMissing`, `Claim` are `_sync_locked` between
its reads and commits. `call[c]` is a request to the research service, seen
from both ends: a thread that has given up does not stop the service. `Check`
(memory, then the tables), `Begin` (`begin_research_run`, a transaction of its
own), `Search`, `Persist` are `execute_research`; `Hear`, `GiveUp`, `CompleteEmpty` the thread. `Ask` is
`fetch_research_snippets` of a decision about a forecast; a forecast exists
once `research_state` has said that the search is over (`Waiting`).

## 3. Runs

| run | instance | shows |
|---|---|---|
| `bankroll_settlement` | 2 requests (a match bet and a set bet on one event), sync + script, two feeds that disagree; fairness; deadlock checked | `TypeOK`, `SettledOnce`, `RowIsLedgerTail`, `SettlementMovesExactly`, `ImplementsJournal`, `EventuallySettled` hold |
| `bankroll_retry_reset` | 3 requests, two of them of one proposal, sync, one reset | `OneBetPerProposal`, `RowExposureWithinLimit`, `ImplementsJournal` hold |
| `balance_lost_update` | 2 requests, nothing else | violated: the balance is not `initial + sum(ledger)`, a debit is overwritten |
| `daily_loss` | 2 requests, sync | violated: the daily-loss gate never rejects, lost bets have amount 0 |
| `stream_delivery` | 2 consumers, 2 keys, 2 publications, `MaxLen` 1, batch 2, 1 retry, 1 fault; symmetry | `TypeOK`, `NoMessageLost`, `RepeatsAreAccountedFor`, `DeadLetterAfterRetries` hold |
| `stream_liveness` | 1 key, otherwise the same | `EventuallyHandled` holds |
| `event_lifecycle` | 1 event, a final result and its correction, ingest, sync, one annotator, 2 snapshots; fairness | `TypeOK`, `ResultLostOnlyByOverlap`, `EventuallyClosed` hold |
| `event_repair` | 2 events of the same players, a lead and a final result, ingest and the script, 2 snapshots | `MixedRowOnlyByOverlap`, `NeverPrematchAgain` hold |
| `flashscore_import` | 2 executors and a participant refresh, 1 slot, a job of 2 profiles and one not authorized, 1 fault; fairness | `TypeOK`, `SlotLimit`, `CompletedMeansArchived`, `ProgressNeverLost`, `JobEnds` hold |
| `neural_jobs` | a replay, a strategy search, a training, 2 attempts, 3 faults; fairness | `TypeOK`, `TrainingsBounded`, `CompletedStays`, `JobsEnd` hold |
| `candidate_scheduler` | 2 events (one above the hurdle; one ahead of it in the query, above the lowered hurdle, then without odds), 2 rows read, 2 callers, capacity 2, 2 versions, 1 trouble; fairness; deadlock checked; 489,858 states | `TypeOK`, `HurdleLostOnlyByOverlap`, `AnsweredOnce`, `DecidedOnce`, `NothingLeftBehind`, `DecidedInTheEnd` hold |
| `research_queue` | 2 events, 1 slot, 2 requests at the service, 1 trouble; fairness; deadlock checked; 550,208 states | `TypeOK`, `SearchedOnce`, `LimitKept`, `DecisionsNeverSearch`, `WaitsAgainByRaceOnly`, `SearchedInTheEnd` hold |

### Why the bounds suffice

Bankroll: one account with two bets already has every conflict between two
transactions. The two settlers differ (the script holds what the sync
releases); since their feeds differ in strength, the weaker one passes the
event row and meets the other one on bets and account in another order, which
is how a deadlock arises within one event. Three requests are needed for a
repeated proposal and another one. Stakes of 3 and 1 against an exposure limit
of 4 make the second bet fit exactly; 2, 2 and 3 make the third too much.

Streams: two consumers and two publications make duplicates within a batch and
across consumers, `MaxLen` 1 makes trimming hit undelivered and pending
entries, one retry separates a copy from a dead letter. Named bounds:
`MaxPublish`, `MaxFaults`; in addition nothing is published after the first
retry copy, which keeps the stream finite.

Event lifecycle: an overlap needs two writers and one row; two snapshots give a
stale one, a repeated one, a catalog item after a live one and a row that has
left the board (`Grace` 0 makes the older snapshot too old at once). Two results
of different strength are needed for "weaker". Two rows of one pair of names
are needed for the choice of the row (`event_repair`). Bounds: `MaxTime`,
`Results`.

Flashscore: two executors make an attempt overtaken by another one, the
participant takes the only slot in between, two profiles make one done and one
not; one fault anywhere suffices to lose a lease, a row or a process, and
`Tries` 1 and `Enough` 1 bring parking and the return of a slot within reach.

Neural: one job of each kind; 3 faults exceed the 2 attempts, so that all
attempts of a training can die; `Keep` 0 lets every insert trim the runs that
are over.

Scheduler: two callers are the real ones, the worker and neural. Capacity 2 is
as many items as there are events, so the queue can be full. `RowsRead` 2 is as
many rows as the event ahead can have: once its second prediction is there, the
other event is out of reach as long as the first one is undecided, so the
premise `Reached` matters. One trouble is one of: failure (of the query, of a
flush, of a commit), restart, clear, expired verdict, refusal, new prediction,
event that leaves.

Research: one slot and two events make one wait; two requests are a search that
answers late and the next one, or a decision. One trouble is a failure, a
restart, a run by hand, or a completed run written back; the last is no failure
and counts only to keep the instance finite. Where a thread would find no free
`call`, it starts when one is free.

Histories (`past`, `answers`, `lost`, `searches`, `starts`, and those of the
streams) are read by properties only, but for `searches`, `answers` and `lost`
that stop counting once the property does not speak of them.

### Fairness

- Bankroll: each settler takes steps (the worker asks for a round every 30
  seconds, `worker/app/main.py:115-145`) and a request goes on to its end; feed,
  interleaving and deadlock victim stay free. `EventuallySettled` is stated for
  match-winner bets: a set bet whose set the feeds do not know stays open by
  design.
- Streams: each consumer is restarted (`restart: unless-stopped` in
  docker-compose.yml) and polls for ever, and idle time passes; nothing is
  assumed of handlers, publishers or faults.
- Events: the sync's steps, and that processes do not stop for ever and ever.
  Nothing is assumed of ingest, feed or annotators.
- Flashscore: an executor goes on; a page is read at last; leases, pauses and
  intervals end; a request that asks every 0.2 seconds gets a slot that stays
  free for it. Strong fairness is used twice: for a profile having a last page,
  and for a client whose own row is gone (it then waits for nobody) not being
  late every time.
- Neural: the main loop starts each thread again and again, and a job ends one
  way or another.
- Scheduler: each caller's request goes on, a cooldown ends.
- Research: syncs, the service and the threads go on; a packet in memory
  expires. Decisions and by-hand runs need not happen.

`CHECK_DEADLOCK FALSE` where the system really may come to rest: no settler in
`balance_lost_update`, no more snapshots and results in the event runs, all jobs
over in `flashscore_import` and `neural_jobs`.

## 4. What does not hold

The two violation runs are disagreements between the repository's own
statements and its code; `PROJECT.json` quotes them under `findings`. Beyond
them the models show, and the properties state in their premises:

Bankroll
- `RowIsLedgerTail` is checked without resets. `reset_simulation` reads without
  a lock and leaves unchanged columns out of its UPDATE, so with a concurrent
  bet the row and the newest `balance_after` may differ. It also zeroes the
  exposure of bets that stay open, against `reconciliation.py:59-62`
  (`ExposureIsOpenStakes`, defined, violated by one request and one reset).
- `RowExposureWithinLimit` speaks of the column. The stakes at risk
  (`OpenStakesWithinLimit`) and the one-bet-per-selection rule
  (`NoDuplicateOpenBet`) fail by the same window as `BalanceFromLedger`.
- `OneBetPerProposal` excludes a proposal of which one request was rejected:
  the row is then committed and later repetitions are serialised by nothing.

Streams
- `NoMessageLost` and `EventuallyHandled` leave out messages the group never
  sees: published before the group was created at `$`, or trimmed.
- `RepeatsAreAccountedFor` bounds, and does not exclude, repeated effects. Two
  consumers that hold two messages of one key both run the handler
  (`EffectOnce`, defined; `tests/streams/test_streams.py:110-113` and
  `packages/streams/README.md` promise otherwise).

Event row
- `process_and_persist` says that closed rows are never resurrected, and
  `match_and_complete_event` that a stronger result is never overwritten. Both
  keep it against whatever they have read; a writer that loaded the row before
  the other's commit breaks it. `ResultLostOnlyByOverlap` states exactly that,
  `EventuallyClosed` that later rounds of the sync repair it.
- The same overlap leaves rows whose `status`, `is_live` and `finished_at`
  disagree (`MixedRowOnlyByOverlap`). One such mixture has a consequence of its
  own: `pipeline.py:367-373` says that a delayed prematch item cannot move an
  event already on the live board, and tests `is_live`; a row with the status
  `live` and `is_live` false passes the test and goes back to the catalog. The
  proof of `NeverPrematchAgain` brought this up: the property names the row
  (`HalfLive`) as its one exception.

Flashscore
- An archive request waits for ever behind a steady stream of *live* requests:
  ageing lifts it to rank 5, live is rank 0. `JobEnds` is checked against a
  participant (rank 10).

Neural
- A job published before its group exists is not delivered. A run whose
  publication fails (strategy search), or whose backend stops before publishing,
  stays `queued`. A publish that times out after delivering marks a run failed
  that may be completed (`CompletedStays` excludes that request by name).
  Crashes during a run are not counted as attempts.

Scheduler
- `backend/app/main.py:3240` says the hurdle is lowered temporarily. The two
  callers overlap: the second one saves the lowered hurdle and restores it last,
  and it stays low until a restart (`HurdleLostOnlyByOverlap`).
- An item left by a failed dispatch is dispatched only when a later sync
  enqueues something; a queue full of better leftovers is never dispatched
  (premise `Jammed`).
- `limit * 3` rows are read, live events first, then the newest predictions
  (`backend/app/main.py:3254-3255`). Rows that no sync enqueues (below the
  hurdle, without odds, older predictions of an event) fill them all the same,
  so an event above the hurdle may never be read (premise `Reached` of
  `DecidedInTheEnd`).
- The verdict is cached after the rows of its decision are flushed
  (`candidate_scheduler.py:395-404`). When a flush fails the LLM has answered in
  vain and is asked again: `AnsweredOnce` allows one answer more for each lost
  one.

Research
- `_complete_empty` closes a search "so it is not retried forever"
  (`research_queue.py:41`). A run left open while its event has a completed one
  (recorded through `/api/research/run`, or a failure after
  `begin_research_run`) is answered from the store and never closed: requeued for
  ever, it takes a slot each time. `SearchedInTheEnd` assumes that such runs do
  not fill all slots (`Stuck`).
- Requeueing and claiming write the rows read before: a run completed meanwhile
  is set back (`WrittenBack`). Nothing has to fail for this.
- Nor for the other race: `load_completed_evidence` and `begin_research_run` are
  two transactions. A thread whose 70 seconds end between them closes the run of
  the queue, neural is told that the search is over, and the service begins a new
  run (`BegunLate`): the event waits again. "Enqueue live/prematch matches once"
  (`research_queue.py:164`) holds of the rows the sync adds, but what neural is told
  does not last.
  `WaitsAgainByRaceOnly` states that before any failure these two are all.
- `SearchedOnce`, `LimitKept` and `DecisionsNeverSearch` are stated until the
  first failure, run by hand, or write-back.

## 5. Proofs

TLAPS checks 38 theorems that a reader should know of (`PROJECT.json`,
`theorems`) and the lemmas under them: every safety property and every action
property that a passing run checks, but for `SettlementMovesExactly`, and the
refinement. They hold for any sets of requests, consumers, events, jobs and
calls and any values of the other constants. Each module names an invariant
that is inductive, proves one step per action of `Next`, and draws the
properties from it.

| module | inductive invariant and why it is needed | theorems |
|---|---|---|
| `BankrollProofs` | `TypeInv`. `TypeOK` is not inductive: a request that goes on needs an account to commit to, and `balance >= 0` needs the bets a settler is about to close to be bets it knows. Added: running requests and resetters have an account (committed or their own insert), anything committed implies the account, `SettlersKnowBets` | `TypeCorrect` |
| `BankrollSafety` | `OnceInv`: `SettledOnce` says nothing of uncommitted outcomes; they belong to distinct bets that are open and whose rows the transaction holds (`HoldsWork`). `ProposalInv`: of two requests of one proposal that go on, one has inserted the row and the other waits for it, unless it was rejected before; and each carries a snapshot that the exposure gate let pass. `TailInv`: the row a settler will write shows the balance of its last outcome. `JournalInv`: a settler holds a row of the account once it has an outcome | `SettledOnceAlways`, `OneBetEach`, `ExposureLimited`, `RowShowsLedger`, `JournalImplemented` |
| `StreamDeliveryProofs` | `Shapes`, then three on top. `Attempts`: a copy with r retries stands for r failed attempts. `Handled`: what is acknowledged is vouched for by an effect, a dead letter, a loss, or an entry *further on*, so that two entries never rely on each other. `Repeats`: before a key is marked, the consumers that have still to write the mark account for its effects; afterwards only those past the check do | `DeliveryTypes`, `DeadAfterRetries`, `MessagesKept`, `RepeatsAccounted` |
| `EventLifecycleProofs` | `EventInv`: what the copy of each writer has to do with the row (`IngestOK`, `MatchOK`, `SyncOK`, `ScriptOK`, `NotesOK`). A commit is safe unless the row has changed since it was loaded, and what the script holds uncommitted cannot have changed, since it holds the lock | `EventTypes`, `ResultKept`, `MixedOnlyByOverlap`, `NeverBackToCatalog` |
| `FlashscoreImportProofs` | `ImportInv`: tokens are unique, and as long as an attempt owns its job, its copy of the results is the stored one (`Knows`); what is done is in the archive. `SourceInv`: whoever is in the source and has a row has an acquired one, so that a grant counts all others | `CompletedArchived`, `ProgressStays`, `SlotsKept`, `ImportTypes` |
| `NeuralJobsProofs` | `QueueInv`: a job is once in stream and pending together, a thread executes the one pending job, an undelivered training has not been counted, a run is not in the stream before its request has come so far | `TrainingAttempts`, `JobsTypes`, `CompletedRunStays` |
| `CandidateSchedulerProofs` | `SchedulerInv`: what a sync has saved as long as no other blurred it, that of the answers for an item all but one are lost and that one is cached or about to be (`OneKept`), and in which one place an event is without overlap. `DueInv`, with overlap: each item of the queue is paid for by an item some call has enqueued and not dispatched, counted as a set of pairs of a call and a number | `SchedulerTypes`, `HurdleComesBack`, `OneAnswer`, `OneDecision`, `QueueEmptied` |
| `ResearchQueueProofs` | `QueueInv`: until a failure, a run by hand or a write-back, an event has one open run at most and a queued one has no thread; while a thread waits for its event the run is running or the event is searched already; a second call for an event, or one nobody waits for, belongs to an event whose run a thread has closed; claimed rows count towards the limit (`Quiet`). Nothing of it survives but the types | `QueueTypes`, `MatchSearchedOnce`, `DecisionsOnlyAsk`, `QueueLimitKept`, `ToldForGood` |

`JournalImplemented` refines step by step: the ledger without amounts, and the
status of each bet, are the abstract state; a commit of a settler maps to
settling the bets it holds at once, everything uncommitted to a stutter.

Assumptions: the named `ASSUME`s of the modules, evaluated by TLC in every run,
as weak as the code has them. Two limit what is proved. `RowShowsLedger` takes
`Resetters = {}`, since a reset breaks its property (section 4).
Finitely many consumers (`StreamDelivery`) and events (`ResearchQueue`) are
assumed, since they are counted.

Stays with TLC:

- Liveness (`EventuallySettled`, `EventuallyHandled`, `EventuallyClosed`,
  `JobEnds`, `JobsEnd`, `DecidedInTheEnd`, `SearchedInTheEnd`): it rests on
  fairness, hence on ENABLED, which the prover does not handle.
- `SettlementMovesExactly`: it speaks of a sum over the bets of a commit, which
  the community module defines by recursion; what the sum is would take an
  induction over data.

## 6. Plan

1. Execution bridge and decision pipeline: from confirmed decisions to
   proposals, with the 20-second sender and the 60-second worker timeout, rounds
   that overlap, and the duplicate gate of `Bankroll`; the promise that a
   selection gets one bet.
2. Browser leases (`browser_pool.py`), event enrolment, the collector's circuit
   breaker.
3. Proofs: what holds of the account row with resets; which properties of
   `ResearchQueue` survive which failures; theorems about the modules above.

## 7. Not modelled

- Execution bridge: planned, see above. The verdict of the LLM and what a
  proposal contains: data the properties do not tell apart.
- Numerical code (features, models, training, replay arithmetic), parsing and
  scraping, the LLM, the frontend, read-only reports and tools: nothing in them
  is shared between processes. They are by far the larger part of the code.
- Of settlement: how names are compared, review-only results, set winners from
  live history, and the sync's own lock, which an exception in parsing leaves
  taken (`backend/app/main.py:2830`).
- Of ingest: markets, odds and snapshot rows.
- Of the scheduler: the research cooldown, the browser limiter, evaluate and
  dispatch by hand; other writers of `llm_decisions` (execution rounds, the
  context gate) only take an event out of the query.
- Of Flashscore: page checkpoints within a profile, enrolment of static
  catalogues, FlareSolverr recovery, the switch that turns the source's pause off
  (`FLASHSCORE_SOURCE_COOLDOWN_ENABLED=false`).
- Of research: what is searched and stored, and that the cache key contains the
  query (a decision with another tournament text misses the cache and finds the
  tables instead, which `Check` allows).
- Of neural jobs: expiry of keys (30 days) and trimming of the streams (10000).
