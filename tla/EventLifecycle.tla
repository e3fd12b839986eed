---------------------------- MODULE EventLifecycle ----------------------------
(***************************************************************************)
(* The row of a tennis event (table events) and the programs that read it, *)
(* decide, and write it back without locking it in between:                *)
(*                                                                         *)
(*   ingest     the worker: process_and_persist for every event of a       *)
(*              snapshot, then the bulk update to "interrupted"            *)
(*   settlers   the settlement sync of the backend, and the script         *)
(*              backfill_official_results: match_and_complete_event, and   *)
(*              the script's two repairs                                   *)
(*   notes      programs that only add something to metadata_json          *)
(*                                                                         *)
(* A step is a SELECT or a commit.  An UPDATE of the ORM writes the columns *)
(* whose value differs from the one loaded; metadata_json is one column.   *)
(* A row lock taken by a flush lasts to the commit and delays other        *)
(* writers only, so a flush and its commit are one step, but for the       *)
(* script, that applies all its results in one transaction.                *)
(***************************************************************************)
EXTENDS Integers, Sequences, FiniteSets

CONSTANTS
  Events,        \* events of the bookmaker
  Pair,          \* Pair[e]: the names of the two players
  Results,       \* rows of the results feed: the event they are of, whether
                 \* they are definitive, strength (sets played, sets of the
                 \* leader) and the status they give the event
  Settlers,      \* a subset of {"sync", "script"}
  Annotators,    \* a subset of {"context", "catalog"}
  MaxTime,       \* bound: number of snapshots
  Grace,         \* 90 seconds, in snapshots
  None

ASSUME ResultRecords ==
  \A r \in Results :
    /\ r.event \in Events /\ r.definitive \in BOOLEAN /\ r.strength \in Nat
    /\ r.status \in {"finished", "cancelled"}
ASSUME Bounds == MaxTime \in Nat /\ Grace \in Nat
ASSUME NoneIsNone == None \notin Events \cup Results
ASSUME KnownPrograms ==
  Settlers \subseteq {"sync", "script"} /\ Annotators \subseteq {"context", "catalog"}

VARIABLES
  row,           \* row[e]: the committed row, or None
  board,         \* board[t]: what the snapshot taken at t shows
  backlog,       \* snapshots the worker has to process (or process again)
  feed,          \* feed[e]: the results feed's row of the match, or None
  archive,       \* definitive results found in saved feeds
  ingest,        \* the worker
  settler,       \* settler[s]: the sync, the script
  note           \* note[a]: an annotator

vars == <<row, board, backlog, feed, archive, ingest, settler, note>>
outside == <<board, feed, archive>>

now == Len(board)

-------------------------------------------------------------------------------
(***************************************************************************)
(* Rows.                                                                   *)
(***************************************************************************)
Terminal == {"finished", "cancelled"}
Statuses == {"prematch", "live", "interrupted"} \cup Terminal
\* The parts of metadata_json that matter here.
Metadata == [official: {r \in Results : r.definitive} \cup {None}, history: SUBSET Results,
             pending: BOOLEAN, sets: 0..1, notes: SUBSET (Annotators \cup {"demoted"})]
NoMetadata == [official |-> None, history |-> {}, pending |-> FALSE, sets |-> 0, notes |-> {}]
EventRow == [status: Statuses, live: BOOLEAN, finishedAt: BOOLEAN,
             lastSeen: 1..MaxTime, meta: Metadata]
ASSUME NoneIsNoRow == None \notin EventRow

IsTerminal(x) == x.status \in Terminal \/ x.finishedAt
HasDefinitive(x) == x.meta.official # None
Sealed(x) == HasDefinitive(x) /\ IsTerminal(x)

\* What an UPDATE leaves in the row: the columns changed since they were loaded.
WholeRow(e, loaded, new) == new
ChangedColumns(e, loaded, new) ==
  [c \in DOMAIN new |-> IF new[c] # loaded[c] THEN new[c] ELSE row[e][c]]
\* A row the script has written and not committed makes other writers wait.
Locked(e) ==
  \E s \in Settlers : settler[s].at \in {"next", "loaded"} /\ settler[s].table[e] # None
Write(e, loaded, new) ==
  ~Locked(e) /\ row' = [row EXCEPT ![e] = ChangedColumns(e, loaded, new)]

NoRows == [e \in Events |-> None]

\* What is looked at in a row to tell whether it is the event of a result.
Known == [official: BOOLEAN, live: BOOLEAN, seen: 1..MaxTime]
Index(rows) ==
  [e \in Events |->
     IF rows[e] = None THEN None
     ELSE [official |-> HasDefinitive(rows[e]), seen |-> rows[e].lastSeen,
           live |-> rows[e].live \/ rows[e].status = "live"]]
NoIndex == [e \in Events |-> None]

Init ==
  /\ row = NoRows
  /\ board = <<>> /\ backlog = {}
  /\ feed = [e \in Events |-> None] /\ archive = {}
  /\ ingest = [at |-> "idle", snap |-> 0, current |-> FALSE, todo |-> {}, seen |-> {},
               event |-> None, loaded |-> None]
  /\ settler = [s \in Settlers |-> [at |-> "idle", round |-> 0, results |-> {}, todo |-> {},
                 index |-> NoIndex, table |-> NoRows, result |-> None, event |-> None, loaded |-> None]]
  /\ note = [a \in Annotators |-> [event |-> None, loaded |-> None]]

-------------------------------------------------------------------------------
(***************************************************************************)
(* The world outside: matches, the collector's snapshots, the results feed. *)
(***************************************************************************)
\* The live board shows matches in play and just over, the catalog those to be
\* played, and either lags: an item of the catalog may come after live ones.  An
\* item of the live board tells the sets closed so far.
Poll(page, shown, sets) ==
  /\ now < MaxTime
  /\ shown # {}
  /\ page = "prematch" => sets = [e \in shown |-> 0]
  /\ board' = Append(board, [page |-> page, sets |-> sets])
  /\ backlog' = backlog \cup {now + 1}
  /\ UNCHANGED <<row, feed, archive, ingest, settler, note>>

\* A result not definitive (a set lead, a score under review) or a definitive
\* one is published; the feed shows the newest result of a match, and saved
\* feeds keep them all.
Publish(r) ==
  /\ r \notin archive
  /\ feed' = [feed EXCEPT ![r.event] = r]
  /\ archive' = archive \cup {r}
  /\ UNCHANGED <<row, board, backlog, ingest, settler, note>>

-------------------------------------------------------------------------------
(***************************************************************************)
(* Ingest: persist_fonbet_snapshot.                                        *)
(***************************************************************************)
Live(t) == board[t].page = "live"
Stale(t, x) == t < x.lastSeen

\* The oldest message first, but a redelivered one may come at any time.
BeginSnapshot(t) ==
  /\ ingest.at = "idle"
  /\ t \in backlog
  /\ ingest' = [ingest EXCEPT !.at = "next", !.snap = t, !.current = now - t <= Grace,
                              !.todo = DOMAIN board[t].sets, !.seen = {}]
  /\ UNCHANGED <<row, backlog, outside, settler, note>>

\* process_and_persist up to the decision what to do with the row.
LoadEvent(e) ==
  /\ ingest.at = "next"
  /\ e \in ingest.todo
  /\ ingest' = [ingest EXCEPT !.at = "loaded", !.event = e, !.loaded = row[e],
                              !.todo = @ \ {e}]
  /\ UNCHANGED <<row, backlog, outside, settler, note>>

\* A catalog item cannot take back an event that was live or has ended.
LatePrematch(t, x) ==
  ~Live(t) /\ (x.live \/ IsTerminal(x) \/ x.status = "interrupted")

IsSealed(x) == Sealed(x)

\* A sealed row is only noted as seen.
KeepSealed(t, x) ==
  [x EXCEPT !.lastSeen = IF Stale(t, x) THEN @ ELSE t, !.live = FALSE]

SummedSets(t, e, m) == [m EXCEPT !.sets = @ + board[t].sets[e]]
NotedSets(t, e, m) ==
  [m EXCEPT !.sets = IF board[t].sets[e] > @ THEN board[t].sets[e] ELSE @]
ClearedMarkers(t, x) ==
  IF Live(t) /\ ~HasDefinitive(x) THEN [x.meta EXCEPT !.pending = FALSE] ELSE x.meta

Overwritten(t, e, x) ==
  [status |-> IF Live(t) THEN "live" ELSE "prematch", live |-> Live(t),
   finishedAt |-> x.finishedAt /\ ~Live(t), lastSeen |-> t,
   meta |-> NotedSets(t, e, ClearedMarkers(t, x))]

Inserted(t, e) ==
  [status |-> IF Live(t) THEN "live" ELSE "prematch", live |-> Live(t),
   finishedAt |-> FALSE, lastSeen |-> t, meta |-> NotedSets(t, e, NoMetadata)]

SaveEvent ==
  LET t == ingest.snap
      e == ingest.event
      x == ingest.loaded
  IN
  /\ ingest.at = "loaded"
  /\ IF x = None THEN row' = [row EXCEPT ![e] = Inserted(t, e)]
     ELSE IF LatePrematch(t, x) THEN UNCHANGED row
     ELSE IF IsSealed(x) THEN Write(e, x, KeepSealed(t, x))
     ELSE IF Stale(t, x) THEN UNCHANGED row
     ELSE Write(e, x, Overwritten(t, e, x))
  /\ ingest' = [ingest EXCEPT !.at = "next", !.event = None, !.loaded = None,
                              !.seen = @ \cup {e}]
  /\ UNCHANGED <<backlog, outside, settler, note>>

\* An exception: the event's transaction is rolled back, the next one is taken.
FailEvent ==
  /\ ingest.at = "loaded"
  /\ ingest' = [ingest EXCEPT !.at = "next", !.event = None, !.loaded = None]
  /\ UNCHANGED <<row, backlog, outside, settler, note>>

\* One UPDATE ... WHERE for the events that have left the live board.
Missing(e) ==
  /\ row[e] # None /\ e \notin ingest.seen
  /\ row[e].live /\ row[e].status = "live"
  /\ row[e].lastSeen < now - Grace

Reconcile ==
  /\ ingest.at = "next" /\ ingest.todo = {}
  /\ ~\E e \in Events : Missing(e) /\ Locked(e)
  /\ row' = IF ingest.current /\ Live(ingest.snap) /\ ingest.seen # {}
            THEN [e \in Events |-> IF Missing(e)
                    THEN [row[e] EXCEPT !.live = FALSE, !.status = "interrupted"]
                    ELSE row[e]]
            ELSE row
  /\ backlog' = backlog \ {ingest.snap}
  /\ ingest' = [ingest EXCEPT !.at = "idle", !.snap = 0, !.current = FALSE, !.seen = {}]
  /\ UNCHANGED <<outside, settler, note>>

\* The worker stops; the message is delivered again.
StopWorker ==
  /\ ingest.at # "idle"
  /\ ingest' = [ingest EXCEPT !.at = "idle", !.snap = 0, !.current = FALSE, !.todo = {},
                              !.seen = {}, !.event = None, !.loaded = None]
  /\ UNCHANGED <<row, backlog, outside, settler, note>>

-------------------------------------------------------------------------------
(***************************************************************************)
(* Official results: match_and_complete_event.                             *)
(***************************************************************************)
NeverFromTheBoard(index, r) ==
  {e \in Events : index[e] # None /\ Pair[e] = Pair[r.event] /\ ~index[e].live}
Candidates(index, r) ==
  {e \in Events : /\ index[e] # None /\ Pair[e] = Pair[r.event]
                  /\ r.definitive \/ ~index[e].live}
\* Those without an official result first, then the most recently seen one.
Preferred(x, y) ==
  \/ ~x.official /\ y.official
  \/ x.official = y.official /\ x.seen >= y.seen
Found(index, r) ==
  {e \in Candidates(index, r) : \A d \in Candidates(index, r) : Preferred(index[e], index[d])}

\* A definitive result is not replaced by one with fewer sets.
NeverWeaker(r, official) == FALSE
Weaker(r, official) == official # None /\ r.strength < official.strength

WithResult(r, m) ==
  [m EXCEPT !.official = r, !.history = @ \cup {r}, !.pending = FALSE, !.sets = 1]
LeftOnTheBoard(r, x) ==
  [x EXCEPT !.status = r.status, !.finishedAt = TRUE, !.meta = WithResult(r, x.meta)]
Completed(r, x) ==
  [x EXCEPT !.status = r.status, !.live = FALSE, !.finishedAt = TRUE,
            !.meta = WithResult(r, x.meta)]
\* What a settler makes of the row it has loaded; settle_event_bets adds the
\* set winners of the result, also when a stronger result was kept.
Matched(r, x) ==
  IF ~r.definitive THEN [x EXCEPT !.meta.pending = TRUE]
  ELSE IF Weaker(r, x.meta.official)
  THEN IF x.status \in Terminal THEN [x EXCEPT !.meta.sets = 1] ELSE x
  ELSE Completed(r, x)

\* The feed's rows, and the index of all events, built once for the round.
\* The lock that admits one sync at a time is the sync being idle.
BeginSync ==
  /\ "sync" \in Settlers
  /\ settler["sync"].at = "idle"
  /\ \E e \in Events : feed[e] # None
  /\ settler' = [settler EXCEPT !["sync"].at = "next", !["sync"].index = Index(row),
                                !["sync"].todo = {feed[e] : e \in Events} \ {None}]
  /\ UNCHANGED <<row, backlog, outside, ingest, note>>

Strongest(S) == {r \in S : \A q \in S : q.event = r.event => q.strength <= r.strength}

\* The script applies the strongest definitive results (rounds 1 and 4) and
\* repairs rows in between (2 and 3).
BeginScript ==
  /\ "script" \in Settlers
  /\ settler["script"].at = "idle" /\ settler["script"].round = 0
  /\ \E r \in archive : r.definitive
  /\ settler' = [settler EXCEPT !["script"].at = "next", !["script"].round = 1,
                   !["script"].results = Strongest({r \in archive : r.definitive}),
                   !["script"].todo = Strongest({r \in archive : r.definitive})]
  /\ UNCHANGED <<row, backlog, outside, ingest, note>>

\* What a settler sees: the committed rows, and those of its own transaction.
Seen(s) ==
  [e \in Events |-> IF settler[s].table[e] = None THEN row[e] ELSE settler[s].table[e].new]

\* The row is read now, whatever the index knew of it.
LoadForResult(s, r) ==
  LET index == IF s = "sync" THEN settler[s].index ELSE Index(Seen(s)) IN
  /\ s \in Settlers
  /\ settler[s].at = "next" /\ r \in settler[s].todo
  /\ IF Found(index, r) = {}
     THEN settler' = [settler EXCEPT ![s].todo = @ \ {r}]
     ELSE \E e \in Found(index, r) :
            settler' = [settler EXCEPT ![s].at = "loaded", ![s].todo = @ \ {r},
                          ![s].result = r, ![s].event = e, ![s].loaded = Seen(s)[e]]
  /\ UNCHANGED <<row, backlog, outside, ingest, note>>

\* The sync commits; the script writes and keeps the row (old is what it had
\* loaded, new what the row has become).
SaveResult(s) ==
  LET e == settler[s].event
      x == settler[s].loaded
      y == Matched(settler[s].result, x)
      done == [settler[s] EXCEPT !.at = "next", !.result = None, !.event = None, !.loaded = None]
      mine == settler[s].table[e]
  IN
  /\ s \in Settlers
  /\ settler[s].at = "loaded"
  /\ IF s = "sync" THEN Write(e, x, y) /\ settler' = [settler EXCEPT ![s] = done]
     ELSE /\ UNCHANGED row
          /\ settler' = [settler EXCEPT ![s] = [done EXCEPT !.table[e] =
               IF mine # None THEN [mine EXCEPT !.new = y]
               ELSE IF y = x THEN None
               ELSE [old |-> x, new |-> ChangedColumns(e, x, y)]]]
  /\ UNCHANGED <<backlog, outside, ingest, note>>

EndSync ==
  /\ "sync" \in Settlers
  /\ settler["sync"].at = "next" /\ settler["sync"].todo = {}
  /\ settler' = [settler EXCEPT !["sync"].at = "idle", !["sync"].index = NoIndex]
  /\ UNCHANGED <<row, backlog, outside, ingest, note>>

\* The backend stops, or a result raises, in the middle of a round.
StopSync ==
  /\ "sync" \in Settlers
  /\ settler["sync"].at = "loaded" \/ settler["sync"].todo # {}
  /\ settler' = [settler EXCEPT !["sync"] = [@ EXCEPT !.at = "idle", !.todo = {},
                   !.index = NoIndex, !.result = None, !.event = None, !.loaded = None]]
  /\ UNCHANGED <<row, backlog, outside, ingest, note>>

\* clear_premature_official_on_live: flags of a result not definitive are dropped.
Cleared(x) ==
  IF x.status \in {"live", "interrupted"} /\ ~HasDefinitive(x) /\ x.meta.pending
  THEN [x EXCEPT !.meta.pending = FALSE, !.finishedAt = @ /\ x.status # "live"]
  ELSE x

\* demote_unverified_finished: finished without a definitive result is not finished.
Demoted(x) ==
  IF x.status = "finished" /\ ~HasDefinitive(x)
  THEN [x EXCEPT !.status = "interrupted", !.live = FALSE, !.finishedAt = FALSE,
                 !.meta.notes = @ \cup {"demoted"}]
  ELSE x

CommitResults ==
  /\ "script" \in Settlers
  /\ settler["script"].at = "next" /\ settler["script"].todo = {}
  /\ row' = Seen("script")
  /\ settler' = [settler EXCEPT !["script"].at = "idle", !["script"].round = @ + 1,
                                !["script"].table = NoRows]
  /\ UNCHANGED <<backlog, outside, ingest, note>>

\* The two repairs read rows, and write those they change in one transaction.
Changing(Repaired(_), rows) ==
  [e \in Events |-> IF rows[e] # None /\ Repaired(rows[e]) # rows[e]
                    THEN [old |-> rows[e], new |-> Repaired(rows[e])] ELSE None]

LoadForRepair ==
  LET script == settler["script"] IN
  /\ "script" \in Settlers
  /\ script.at = "idle" /\ script.round \in {2, 3}
  /\ settler' = [settler EXCEPT !["script"].at = "repair", !["script"].table =
                   IF script.round = 2 THEN Changing(Cleared, row) ELSE Changing(Demoted, row)]
  /\ UNCHANGED <<row, backlog, outside, ingest, note>>

\* After the second one the results are applied again.
SaveRepair ==
  LET script == settler["script"] IN
  /\ "script" \in Settlers
  /\ script.at = "repair"
  /\ row' = [e \in Events |-> IF script.table[e] = None THEN row[e]
                              ELSE ChangedColumns(e, script.table[e].old, script.table[e].new)]
  /\ settler' = [settler EXCEPT !["script"] = [script EXCEPT
                   !.at = IF script.round = 2 THEN "idle" ELSE "next",
                   !.round = @ + 1, !.table = NoRows,
                   !.todo = IF script.round = 2 THEN {} ELSE script.results]]
  /\ UNCHANGED <<backlog, outside, ingest, note>>

-------------------------------------------------------------------------------
(***************************************************************************)
(* Programs that add a field to metadata_json: the model service freezes   *)
(* its context on a finished match, a catalog of another provider tells    *)
(* the format of a match.  Both write back the whole column.               *)
(***************************************************************************)
LoadNote(a, e) ==
  /\ note[a].event = None
  /\ row[e] # None /\ a \notin row[e].meta.notes
  /\ a = "context" => row[e].status = "finished" /\ row[e].finishedAt
  /\ note' = [note EXCEPT ![a] = [event |-> e, loaded |-> row[e]]]
  /\ UNCHANGED <<row, backlog, outside, ingest, settler>>

SaveNote(a) ==
  LET x == note[a].loaded IN
  /\ note[a].event # None
  /\ Write(note[a].event, x, [x EXCEPT !.meta.notes = @ \cup {a}])
  /\ note' = [note EXCEPT ![a] = [event |-> None, loaded |-> None]]
  /\ UNCHANGED <<backlog, outside, ingest, settler>>

-------------------------------------------------------------------------------
IngestStep ==
  \/ \E t \in backlog : BeginSnapshot(t)
  \/ \E e \in Events : LoadEvent(e)
  \/ SaveEvent \/ FailEvent \/ Reconcile \/ StopWorker

SyncStep ==
  \/ BeginSync \/ EndSync \/ SaveResult("sync")
  \/ \E r \in Results : LoadForResult("sync", r)
ScriptStep ==
  \/ BeginScript \/ SaveResult("script") \/ CommitResults \/ LoadForRepair \/ SaveRepair
  \/ \E r \in Results : LoadForResult("script", r)
NoteStep == \E a \in Annotators : SaveNote(a) \/ \E e \in Events : LoadNote(a, e)

Outside ==
  \/ \E page \in {"live", "prematch"}, shown \in SUBSET Events :
       \E sets \in [shown -> 0..1] : Poll(page, shown, sets)
  \/ \E r \in Results : Publish(r)

Next == IngestStep \/ SyncStep \/ StopSync \/ ScriptStep \/ NoteStep \/ Outside
Spec == Init /\ [][Next]_vars

\* The worker asks for a settlement round every 30 seconds, and a round goes
\* on; processes do not stop for ever and ever.
Fairness == WF_vars(SyncStep) /\ <>[][~StopSync /\ ~StopWorker]_vars
FairSpec == Spec /\ Fairness

-------------------------------------------------------------------------------
(***************************************************************************)
(* Properties.                                                             *)
(***************************************************************************)
Rows == EventRow \cup {None}
Changes == [old: EventRow, new: EventRow] \cup {None}
TypeOK ==
  /\ row \in [Events -> Rows]
  /\ now \in 0..MaxTime /\ backlog \subseteq 1..now
  /\ feed \in [Events -> Results \cup {None}] /\ archive \subseteq Results
  /\ ingest \in [at: {"idle", "next", "loaded"}, snap: 0..now, current: BOOLEAN,
                  todo: SUBSET Events, seen: SUBSET Events,
                  event: Events \cup {None}, loaded: Rows]
  /\ settler \in [Settlers -> [at: {"idle", "next", "loaded", "repair"}, round: 0..5,
                  results: SUBSET Results, todo: SUBSET Results,
                  index: [Events -> Known \cup {None}], table: [Events -> Changes],
                  result: Results \cup {None}, event: Events \cup {None}, loaded: Rows]]
  /\ note \in [Annotators -> [event: Events \cup {None}, loaded: Rows]]

\* What the row tells of the official result gets worse: it is no longer closed
\* by one, the result is replaced by a weaker one, or one is dropped from the
\* history of results.
Worse(x, y) ==
  \/ Sealed(x) /\ ~Sealed(y)
  \/ HasDefinitive(x) /\ (~HasDefinitive(y) \/ y.meta.official.strength < x.meta.official.strength)
  \/ ~(x.meta.history \subseteq y.meta.history)

\* Somebody writes a row he has loaded before another program changed it.
Overlap(e) ==
  \/ ingest.event = e /\ ingest'.event # e /\ ingest.loaded # row[e]
  \/ \E s \in Settlers : \/ s = "sync" /\ settler[s].event = e /\ settler'[s].event # e
                              /\ settler[s].loaded # row[e]
                         \/ settler'[s].round # settler[s].round /\ settler[s].table[e] # None
                              /\ settler[s].table[e].old # row[e]
  \/ \E a \in Annotators : note[a].event = e /\ note'[a].event # e /\ note[a].loaded # row[e]

\* process_and_persist: rows closed with a definitive official result are never
\* resurrected; match_and_complete_event never overwrites a stronger result --
\* kept by every program whose row has not changed between its SELECT and its
\* commit, whatever snapshots and results come late or again.
ResultLostOnlyByOverlap ==
  [][\A e \in Events : row[e] # None /\ Worse(row[e], row'[e]) => Overlap(e)]_vars

\* An event that has left the catalog is not taken back to it, by a late catalog
\* item or by a column a program writes back, overlap or not -- but for one row:
\* overlapping writers may leave it with the status live and is_live false, and
\* to the test of process_and_persist such an event has never been live.
HalfLive(x) == x.status = "live" /\ ~x.live
NeverPrematchAgain ==
  [][\A e \in Events : row[e] # None /\ row[e].status # "prematch" /\ row'[e].status = "prematch"
                       => ingest.event = e /\ HalfLive(ingest.loaded)]_vars

\* A match whose strongest definitive result stays in the feed ends up closed by
\* a result, off the board, and stays so: rounds of the sync repair whatever
\* overlapping writers did to the row.
Closed(x) == HasDefinitive(x) /\ x.finishedAt /\ x.status \in Terminal /\ ~x.live
EventuallyClosed ==
  \A e \in Events :
    <>[](row[e] # None /\ feed[e] \in Strongest(archive) /\ feed[e].definitive
         => Closed(row[e]))

\* status, is_live and finished_at agree, except after a commit that mixed the
\* columns of two writers (the row can then be live and finished, or neither).
Consistent(x) == /\ x.live <=> x.status = "live"
                 /\ x.finishedAt <=> x.status \in Terminal
MixedRowOnlyByOverlap ==
  [][\A e \in Events : row'[e] # None /\ ~Consistent(row'[e])
                       => Overlap(e) \/ (row[e] # None /\ ~Consistent(row[e]))]_vars
===============================================================================
