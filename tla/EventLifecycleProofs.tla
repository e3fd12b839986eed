------------------------- MODULE EventLifecycleProofs -------------------------
(***************************************************************************)
(* Theorems about EventLifecycle, for every set of events, notes and       *)
(* writers, every number of snapshots and every feed of results: what the  *)
(* columns of an event's row may hold, and which of its changes need two   *)
(* writers that overlap.                                                   *)
(*                                                                         *)
(* None of the properties is inductive, since a writer commits what it     *)
(* read earlier.  EventInv says what each writer's copy is: where ingest   *)
(* has found no row there still is none, and nobody but ingest inserts;    *)
(* the sync and the annotators have rows that exist; what the script has   *)
(* written and not committed is what match_and_complete_event or one of    *)
(* the repairs made of the row it holds the lock of.                       *)
(***************************************************************************)
EXTENDS EventLifecycle, SequenceTheorems, TLAPS

Columns == {"status", "live", "finishedAt", "lastSeen", "meta"}

LEMMA RowDomain ==
  ASSUME NEW x \in EventRow
  PROVE  /\ DOMAIN x = Columns
         /\ x.status \in Statuses /\ x.live \in BOOLEAN /\ x.finishedAt \in BOOLEAN
         /\ x.lastSeen \in 1..MaxTime /\ x.meta \in Metadata
  BY DEF EventRow, Columns

LEMMA ChangedOfSame ==
  ASSUME NEW e \in Events, NEW x \in EventRow, NEW y \in EventRow, row[e] = x
  PROVE  ChangedColumns(e, x, y) = y
  BY DEF ChangedColumns, EventRow

LEMMA ChangedType ==
  ASSUME NEW e \in Events, NEW x \in EventRow, NEW y \in EventRow, row[e] \in EventRow
  PROVE  /\ ChangedColumns(e, x, y) \in EventRow
         /\ ChangedColumns(e, x, y).status = IF y.status # x.status THEN y.status ELSE row[e].status
  <1> DEFINE z == ChangedColumns(e, x, y)
  <1>1. DOMAIN z = Columns /\ \A c \in Columns : z[c] = IF y[c] # x[c] THEN y[c] ELSE row[e][c]
    BY RowDomain DEF ChangedColumns
  <1>2. z = [status |-> z.status, live |-> z.live, finishedAt |-> z.finishedAt,
             lastSeen |-> z.lastSeen, meta |-> z.meta]
    BY <1>1 DEF ChangedColumns, Columns
  <1>3. /\ z.status \in Statuses /\ z.live \in BOOLEAN /\ z.finishedAt \in BOOLEAN
        /\ z.lastSeen \in 1..MaxTime /\ z.meta \in Metadata
    BY <1>1, RowDomain DEF Columns
  <1>4. z.status = IF y.status # x.status THEN y.status ELSE row[e].status
    BY <1>1 DEF Columns
  <1> HIDE DEF z
  <1>5. z \in EventRow
    BY <1>2, <1>3 DEF EventRow
  <1> QED BY <1>4, <1>5 DEF z

Better(x, y) == ~Worse(x, y) /\ (Consistent(x) => Consistent(y))

LEMMA SameResult ==
  ASSUME NEW x \in EventRow, NEW y \in EventRow,
         y.status = x.status, y.live = x.live, y.finishedAt = x.finishedAt,
         y.meta.official = x.meta.official, y.meta.history = x.meta.history
  PROVE  Better(x, y)
  <1>1. x.meta.official # None => x.meta.official \in Results /\ x.meta.official.strength \in Nat
    BY ResultRecords DEF EventRow, Metadata
  <1> QED BY <1>1 DEF Better, Worse, Consistent, Sealed, IsTerminal, HasDefinitive

LEMMA MatchedIs ==
  ASSUME NEW r \in Results, NEW x \in EventRow
  PROVE  /\ Matched(r, x) \in EventRow /\ Better(x, Matched(r, x))
         /\ Matched(r, x).status \in {x.status} \cup Terminal
  <1> DEFINE y == Matched(r, x)
  <1>1. CASE ~r.definitive
    <2>1. y = [x EXCEPT !.meta.pending = TRUE]
      BY <1>1 DEF Matched
    <2>2. y \in EventRow
      BY <2>1, ZenonT(60) DEF EventRow, Metadata
    <2>3. /\ y.status = x.status /\ y.live = x.live /\ y.finishedAt = x.finishedAt
          /\ y.meta.official = x.meta.official /\ y.meta.history = x.meta.history
      BY <2>1 DEF EventRow, Metadata
    <2> QED BY <2>2, <2>3, SameResult
  <1>2. CASE r.definitive /\ Weaker(r, x.meta.official)
    <2>1. y = IF x.status \in Terminal THEN [x EXCEPT !.meta.sets = 1] ELSE x
      BY <1>2 DEF Matched
    <2>2. y \in EventRow
      BY <2>1 DEF EventRow, Metadata
    <2>3. /\ y.status = x.status /\ y.live = x.live /\ y.finishedAt = x.finishedAt
          /\ y.meta.official = x.meta.official /\ y.meta.history = x.meta.history
      BY <2>1 DEF EventRow, Metadata
    <2> QED BY <2>2, <2>3, SameResult
  <1>3. CASE r.definitive /\ ~Weaker(r, x.meta.official)
    <2>1. y = Completed(r, x)
      BY <1>3 DEF Matched
    <2> DEFINE m == WithResult(r, x.meta)
    <2>2. m \in Metadata /\ m.official = r /\ m.history = x.meta.history \cup {r}
      <3> DEFINE D == {q \in Results : q.definitive} \cup {None}
                 old == x.meta
      <3>1. r \in D /\ x.meta \in Metadata
        BY <1>3, RowDomain
      <3> HIDE DEF D
      <3>2. Metadata = [official: D, history: SUBSET Results, pending: BOOLEAN, sets: 0..1,
                        notes: SUBSET (Annotators \cup {"demoted"})]
        BY DEF Metadata, D
      <3>3. old \in Metadata /\ m = [old EXCEPT !.official = r, !.history = old.history \cup {r},
                                                !.pending = FALSE, !.sets = 1]
        BY <3>1 DEF WithResult
      <3> HIDE DEF old, m
      <3>4. /\ m.official = r /\ m.history = old.history \cup {r} /\ m.pending = FALSE /\ m.sets = 1
            /\ m.notes = old.notes
            /\ m = [official |-> m.official, history |-> m.history, pending |-> m.pending,
                    sets |-> m.sets, notes |-> m.notes]
        BY <3>2, <3>3
      <3>5. old.history \in SUBSET Results /\ old.notes \in SUBSET (Annotators \cup {"demoted"})
        BY <3>2, <3>3
      <3>7. /\ m.official \in D /\ m.history \in SUBSET Results /\ m.pending \in BOOLEAN
            /\ m.sets \in 0..1 /\ m.notes \in SUBSET (Annotators \cup {"demoted"})
        <4>1. m.history \in SUBSET Results
          BY <3>4, <3>5
        <4>2. m.pending \in BOOLEAN
          BY <3>4
        <4>3. m.sets \in 0..1
          BY <3>4
        <4>4. m.official \in D /\ m.notes \in SUBSET (Annotators \cup {"demoted"})
          BY <3>1, <3>4, <3>5, Zenon
        <4> QED BY <4>1, <4>2, <4>3, <4>4
      <3>6. m \in Metadata
        BY <3>2, <3>4, <3>7
      <3> QED BY <3>4, <3>6 DEF old
    <2> HIDE DEF m
    <2>6. y = [x EXCEPT !.status = r.status, !.live = FALSE, !.finishedAt = TRUE, !.meta = m]
      BY <2>1 DEF Completed, m
    <2>7. y \in EventRow
      BY <2>2, <2>6, ResultRecords DEF EventRow, Statuses, Terminal
    <2>3. /\ y.status = r.status /\ y.live = FALSE /\ y.finishedAt = TRUE
          /\ y.meta.official = r /\ y.meta.history = x.meta.history \cup {r}
      BY <2>2, <2>6 DEF EventRow
    <2>4. Consistent(y) /\ Sealed(y) /\ HasDefinitive(y)
      BY <2>3, ResultRecords, NoneIsNone DEF Consistent, Sealed, HasDefinitive, IsTerminal, Terminal
    <2>5. HasDefinitive(x) => ~(r.strength < x.meta.official.strength)
      BY <1>3 DEF Weaker, HasDefinitive
    <2> QED BY <2>3, <2>4, <2>5, <2>7, ResultRecords DEF Better, Worse, Terminal
  <1> QED BY <1>1, <1>2, <1>3, ResultRecords DEF Terminal

\* The repairs of the script.
LEMMA ClearedIs ==
  ASSUME NEW x \in EventRow
  PROVE  /\ Cleared(x) \in EventRow /\ Better(x, Cleared(x))
         /\ Cleared(x).status = x.status
  <1> DEFINE y == Cleared(x)
  <1>1. CASE x.status \in {"live", "interrupted"} /\ ~HasDefinitive(x) /\ x.meta.pending
    <2>1. y = [x EXCEPT !.meta.pending = FALSE, !.finishedAt = x.finishedAt /\ x.status # "live"]
      BY <1>1 DEF Cleared
    <2>2. y \in EventRow
      BY <2>1, ZenonT(60) DEF EventRow, Metadata
    <2>3. /\ y.status = x.status /\ y.live = x.live /\ y.finishedAt = (x.finishedAt /\ x.status # "live")
          /\ y.meta.official = x.meta.official /\ y.meta.history = x.meta.history
      BY <2>1 DEF EventRow, Metadata
    <2>4. ~Worse(x, y)
      BY <1>1, <2>3 DEF Worse, Sealed, HasDefinitive
    <2>5. Consistent(x) => Consistent(y)
      BY <1>1, <2>3 DEF Consistent, Terminal
    <2> QED BY <2>2, <2>3, <2>4, <2>5 DEF Better
  <1>2. CASE ~(x.status \in {"live", "interrupted"} /\ ~HasDefinitive(x) /\ x.meta.pending)
    <2>1. y = x
      BY <1>2 DEF Cleared
    <2> QED BY <2>1, SameResult
  <1> QED BY <1>1, <1>2

LEMMA DemotedIs ==
  ASSUME NEW x \in EventRow
  PROVE  /\ Demoted(x) \in EventRow /\ Better(x, Demoted(x))
         /\ Demoted(x).status \in {x.status, "interrupted"}
  <1> DEFINE y == Demoted(x)
  <1>1. CASE x.status = "finished" /\ ~HasDefinitive(x)
    <2>1. y = [x EXCEPT !.status = "interrupted", !.live = FALSE, !.finishedAt = FALSE,
                        !.meta.notes = x.meta.notes \cup {"demoted"}]
      BY <1>1 DEF Demoted
    <2>2. y \in EventRow
      <3>1. y.meta = [x.meta EXCEPT !.notes = x.meta.notes \cup {"demoted"}]
        BY <2>1 DEF EventRow
      <3>2. y.meta \in Metadata
        BY <3>1, RowDomain DEF Metadata
      <3>3. y = [x EXCEPT !.status = "interrupted", !.live = FALSE, !.finishedAt = FALSE,
                          !.meta = y.meta]
        BY <2>1 DEF EventRow
      <3> HIDE DEF y
      <3> QED BY <3>2, <3>3 DEF EventRow, Statuses
    <2>3. /\ y.status = "interrupted" /\ y.live = FALSE /\ y.finishedAt = FALSE
          /\ y.meta.official = x.meta.official /\ y.meta.history = x.meta.history
      BY <2>1 DEF EventRow, Metadata
    <2>4. ~Worse(x, y)
      BY <1>1, <2>3 DEF Worse, Sealed, HasDefinitive
    <2>5. Consistent(y)
      BY <2>3 DEF Consistent, Terminal
    <2> QED BY <2>2, <2>3, <2>4, <2>5 DEF Better
  <1>2. CASE ~(x.status = "finished" /\ ~HasDefinitive(x))
    <2>1. y = x
      BY <1>2 DEF Demoted
    <2> QED BY <2>1, SameResult
  <1> QED BY <1>1, <1>2

\* What ingest makes of the row it has loaded.
LEMMA KeepSealedIs ==
  ASSUME NEW x \in EventRow, Sealed(x), NEW t \in 1..MaxTime
  PROVE  /\ KeepSealed(t, x) \in EventRow /\ Better(x, KeepSealed(t, x))
         /\ KeepSealed(t, x).status = x.status
  <1> DEFINE y == KeepSealed(t, x)
  <1>1. y \in EventRow /\ y.status = x.status /\ y.live = FALSE /\ y.finishedAt = x.finishedAt
        /\ y.meta = x.meta
    BY DEF KeepSealed, EventRow
  <1>2. x.meta.official \in Results /\ x.meta.official.strength \in Nat
    BY ResultRecords DEF EventRow, Metadata, Sealed, HasDefinitive
  <1>3. ~Worse(x, y)
    BY <1>1, <1>2 DEF Worse, Sealed, HasDefinitive, IsTerminal
  <1>4. Consistent(x) => Consistent(y)
    BY <1>1 DEF Consistent, Sealed, IsTerminal, Terminal
  <1> QED BY <1>1, <1>3, <1>4 DEF Better

Pages == UNION {[page: {"live", "prematch"}, sets: [S -> 0..1]] : S \in SUBSET Events}

\* Ingest has an event of a snapshot on the board, and inserts no row twice.
IngestOK ==
  /\ ingest.at # "idle" =>
       /\ ingest.snap \in 1..now
       /\ ingest.todo \subseteq DOMAIN board[ingest.snap].sets
  /\ ingest.at = "loaded" =>
       /\ ingest.event \in DOMAIN board[ingest.snap].sets
       /\ ingest.loaded = None <=> row[ingest.event] = None

\* A settler that has matched a result has loaded the row of the event.
MatchOK(s) ==
  /\ settler[s].at = "loaded" =>
       /\ settler[s].result \in Results /\ settler[s].event \in Events
       /\ settler[s].loaded # None /\ row[settler[s].event] # None

SyncOK ==
  /\ settler["sync"].table = NoRows /\ settler["sync"].round = 0
  /\ settler["sync"].at # "repair"
  /\ \A e \in Events : settler["sync"].index[e] # None => row[e] # None

\* What the script has written and not committed.  The rows are held, so a row
\* that had not changed when the script wrote it has not changed since.
Written(e, old, new) ==
  /\ row[e] # None
  /\ row[e] = old => Better(old, new)
  /\ row[e].status # "prematch" => new.status # "prematch"

ScriptOK ==
  LET script == settler["script"] IN
  /\ script.at = "idle" => script.table = NoRows /\ script.round \in {0, 2, 3, 5}
  /\ script.at \in {"next", "loaded"} =>
       /\ script.round \in {1, 4}
       /\ \A e \in Events : script.table[e] # None =>
            Written(e, script.table[e].old, script.table[e].new)
  /\ script.at = "loaded" /\ script.table[script.event] # None =>
       script.loaded = script.table[script.event].new
  /\ script.at = "repair" =>
       /\ script.round \in {2, 3}
       /\ \A e \in Events : script.table[e] # None =>
            /\ row[e] # None
            /\ Better(script.table[e].old, script.table[e].new)
            /\ script.table[e].new.status \in {script.table[e].old.status, "interrupted"}

NotesOK ==
  \A a \in Annotators : note[a].event # None =>
    note[a].loaded # None /\ row[note[a].event] # None

EventInv ==
  /\ TypeOK /\ board \in Seq(Pages)
  /\ IngestOK
  /\ \A s \in Settlers : MatchOK(s)
  /\ "sync" \in Settlers => SyncOK
  /\ "script" \in Settlers => ScriptOK
  /\ NotesOK

-------------------------------------------------------------------------------
\* What ingest makes of a row that is not sealed, and of none.
LEMMA PageIs ==
  ASSUME board \in Seq(Pages), NEW t \in 1..now
  PROVE  /\ board[t].page \in {"live", "prematch"}
         /\ DOMAIN board[t].sets \subseteq Events
         /\ \A e \in DOMAIN board[t].sets : board[t].sets[e] \in 0..1
  <1>1. board[t] \in Pages
    BY ElementOfSeq DEF now
  <1>2. PICK S \in SUBSET Events : board[t] \in [page: {"live", "prematch"}, sets: [S -> 0..1]]
    BY <1>1 DEF Pages
  <1> QED BY <1>2

LEMMA NotedIs ==
  ASSUME board \in Seq(Pages), NEW t \in 1..now, NEW e \in DOMAIN board[t].sets, NEW m \in Metadata
  PROVE  /\ NotedSets(t, e, m) \in Metadata
         /\ NotedSets(t, e, m).official = m.official /\ NotedSets(t, e, m).history = m.history
  <1> DEFINE k == IF board[t].sets[e] > m.sets THEN board[t].sets[e] ELSE m.sets
  <1>1. k \in 0..1
    BY PageIs DEF Metadata
  <1>2. NotedSets(t, e, m) = [m EXCEPT !.sets = k]
    BY DEF NotedSets
  <1> HIDE DEF k
  <1> QED BY <1>1, <1>2 DEF Metadata

LEMMA OverwrittenIs ==
  ASSUME board \in Seq(Pages), NEW t \in 1..now, now <= MaxTime, NEW e \in DOMAIN board[t].sets,
         NEW x \in EventRow, ~Sealed(x), ~LatePrematch(t, x)
  PROVE  /\ Overwritten(t, e, x) \in EventRow /\ Better(x, Overwritten(t, e, x))
         /\ Overwritten(t, e, x).status = "prematch" /\ x.status # "prematch" => HalfLive(x)
  <1> DEFINE y == Overwritten(t, e, x)
             m == ClearedMarkers(t, x)
             n == NotedSets(t, e, m)
  <1>1. m \in Metadata /\ m.official = x.meta.official /\ m.history = x.meta.history
    <2>1. m = x.meta \/ m = [x.meta EXCEPT !.pending = FALSE]
      BY DEF ClearedMarkers
    <2> HIDE DEF m
    <2> QED BY <2>1, RowDomain DEF Metadata
  <1> HIDE DEF m
  <1>2. n \in Metadata /\ n.official = x.meta.official /\ n.history = x.meta.history
    BY <1>1, NotedIs
  <1> HIDE DEF n
  <1>3. y = [status |-> IF Live(t) THEN "live" ELSE "prematch", live |-> Live(t),
             finishedAt |-> x.finishedAt /\ ~Live(t), lastSeen |-> t, meta |-> n]
    BY DEF Overwritten, n, m
  <1>4. Live(t) \in BOOLEAN /\ t \in 1..MaxTime
    <2>1. now \in Nat
      BY LenProperties DEF now
    <2> QED BY <2>1, Bounds DEF Live
  <1>5. (x.finishedAt /\ ~Live(t)) \in BOOLEAN
    OBVIOUS
  <1>6. y \in EventRow
    BY <1>2, <1>3, <1>4, <1>5 DEF EventRow, Statuses
  <1>11. /\ y.status = (IF Live(t) THEN "live" ELSE "prematch")
         /\ y.live = Live(t)
         /\ y.finishedAt = (x.finishedAt /\ ~Live(t))
         /\ y.meta = n
    BY <1>3
  <1>7. /\ y.status = (IF Live(t) THEN "live" ELSE "prematch")
        /\ y.live <=> Live(t)
        /\ y.finishedAt <=> x.finishedAt /\ ~Live(t)
        /\ y.meta.official = x.meta.official /\ y.meta.history = x.meta.history
    BY <1>2, <1>11
  <1> HIDE DEF y
  <1>8. ~Worse(x, y)
    <2>1. x.meta.official # None => x.meta.official.strength \in Nat
      BY ResultRecords DEF EventRow, Metadata
    <2> QED BY <1>7, <2>1 DEF Worse, HasDefinitive
  <1>9. Consistent(x) => Consistent(y)
    BY <1>7, RowDomain DEF Consistent, LatePrematch, IsTerminal, Terminal
  <1>10. y.status = "prematch" /\ x.status # "prematch" => HalfLive(x)
    BY <1>7, RowDomain DEF HalfLive, LatePrematch, IsTerminal, Terminal, Statuses
  <1> QED BY <1>6, <1>8, <1>9, <1>10 DEF Better, y

LEMMA InsertedIs ==
  ASSUME board \in Seq(Pages), NEW t \in 1..now, now <= MaxTime, NEW e \in DOMAIN board[t].sets
  PROVE  Inserted(t, e) \in EventRow /\ Consistent(Inserted(t, e))
  <1> DEFINE y == Inserted(t, e)
             n == NotedSets(t, e, NoMetadata)
  <1>1. NoMetadata \in Metadata
    BY DEF NoMetadata, Metadata
  <1>2. n \in Metadata
    BY <1>1, NotedIs
  <1> HIDE DEF n
  <1>3. y = [status |-> IF Live(t) THEN "live" ELSE "prematch", live |-> Live(t),
             finishedAt |-> FALSE, lastSeen |-> t, meta |-> n]
    BY DEF Inserted, n
  <1>4. Live(t) \in BOOLEAN /\ t \in 1..MaxTime
    <2>1. now \in Nat
      BY LenProperties DEF now
    <2> QED BY <2>1, Bounds DEF Live
  <1>5. y \in EventRow
    BY <1>2, <1>3, <1>4 DEF EventRow, Statuses
  <1>6. /\ y.status = IF Live(t) THEN "live" ELSE "prematch"
        /\ y.live <=> Live(t)
        /\ y.finishedAt = FALSE
    BY <1>3
  <1> HIDE DEF y
  <1>7. Consistent(y)
    BY <1>6 DEF Consistent, Terminal
  <1> QED BY <1>5, <1>7 DEF y

LEMMA BetterThrough ==
  ASSUME NEW x \in EventRow, NEW y \in EventRow, NEW z \in EventRow, Better(x, y), Better(y, z)
  PROVE  Better(x, z)
  <1>1. \A w \in EventRow : w.meta.official # None => w.meta.official.strength \in Nat
    BY ResultRecords DEF EventRow, Metadata
  <1>2. HasDefinitive(x) =>
          HasDefinitive(y) /\ HasDefinitive(z) /\ z.meta.official.strength >= x.meta.official.strength
    BY <1>1 DEF Better, Worse, HasDefinitive
  <1>3. z.meta.official # None => z.meta.official.strength \in Nat
    BY <1>1
  <1>4. x.meta.official # None => x.meta.official.strength \in Nat
    BY <1>1
  <1>5. x.meta.history \subseteq z.meta.history /\ (Sealed(x) => Sealed(z)) /\ (Consistent(x) => Consistent(z))
    BY DEF Better, Worse
  <1>6. HasDefinitive(x) => ~(z.meta.official.strength < x.meta.official.strength)
    BY <1>2, <1>3, <1>4 DEF HasDefinitive
  <1> QED BY <1>2, <1>5, <1>6 DEF Better, Worse

-------------------------------------------------------------------------------
\* What a step may do to a row.
RowStep(e) ==
  /\ row[e] # None => row'[e] # None
  /\ row[e] # None /\ row'[e] # row[e] => Overlap(e) \/ Better(row[e], row'[e])
  /\ row[e] = None /\ row'[e] # None => Consistent(row'[e])
  /\ row[e] # None /\ row[e].status # "prematch" /\ row'[e].status = "prematch" =>
       ingest.event = e /\ HalfLive(ingest.loaded)

Kept == \A e \in Events : row'[e] = None <=> row[e] = None
Unlocked == \A e \in Events : row'[e] # row[e] => ~Locked(e)
RowsStep == row' \in [Events -> Rows] /\ \A e \in Events : RowStep(e)

LEMMA SameRows ==
  ASSUME TypeOK, UNCHANGED row
  PROVE  RowsStep /\ Kept /\ Unlocked
  BY DEF TypeOK, RowsStep, RowStep, Kept, Unlocked

LEMMA WriteIs ==
  ASSUME TypeOK, NEW e \in Events, NEW x \in EventRow, NEW y \in EventRow, row[e] # None,
         Write(e, x, y), Better(x, y), x # row[e] => Overlap(e),
         y.status = "prematch" /\ x.status # "prematch" => ingest.event = e /\ HalfLive(ingest.loaded)
  PROVE  RowsStep /\ Kept /\ Unlocked
  <1> DEFINE z == ChangedColumns(e, x, y)
  <1>1. row[e] \in EventRow /\ row \in [Events -> Rows]
    BY DEF TypeOK, Rows
  <1>2. z \in EventRow /\ z.status = IF y.status # x.status THEN y.status ELSE row[e].status
    BY <1>1, ChangedType
  <1>3. row[e] = x => z = y
    BY <1>1, ChangedOfSame
  <1>4. ~Locked(e) /\ row' = [row EXCEPT ![e] = z]
    BY DEF Write
  <1> HIDE DEF z
  <1>5. row' \in [Events -> Rows] /\ row'[e] = z /\ \A d \in Events \ {e} : row'[d] = row[d]
    BY <1>1, <1>2, <1>4 DEF Rows
  <1>6. RowStep(e)
    BY <1>1, <1>2, <1>3, <1>5, NoneIsNoRow DEF RowStep
  <1>7. \A d \in Events \ {e} : RowStep(d)
    BY <1>5 DEF RowStep
  <1>8. Kept /\ Unlocked
    BY <1>1, <1>2, <1>4, <1>5, NoneIsNoRow DEF Kept, Unlocked
  <1> QED BY <1>5, <1>6, <1>7, <1>8 DEF RowsStep

\* What stays true of those that take no part in a step.
LEMMA IngestFrame ==
  ASSUME IngestOK, UNCHANGED <<ingest, board>>, Kept, \A t \in 1..now : DOMAIN board[t].sets \subseteq Events
  PROVE  IngestOK'
  BY DEF IngestOK, Kept, now

LEMMA SettlerFrame ==
  ASSUME EventInv, NEW s \in Settlers, settler'[s] = settler[s],
         \A e \in Events : row[e] # None => row'[e] # None, s = "script" => Unlocked
  PROVE  MatchOK(s)' /\ (s = "sync" => SyncOK') /\ (s = "script" => ScriptOK')
  <1>1. MatchOK(s)'
    BY DEF EventInv, MatchOK
  <1>2. CASE s = "sync"
    BY <1>1, <1>2 DEF EventInv, SyncOK
  <1>3. CASE s = "script"
    <2>1. ScriptOK /\ settler'["script"] = settler["script"]
      BY <1>3 DEF EventInv
    <2>2. \A e \in Events :
            settler["script"].table[e] # None /\ settler["script"].at \in {"next", "loaded"}
              => row'[e] = row[e]
      BY <1>3 DEF Unlocked, Locked
    <2>3. \A e \in Events : settler["script"].table[e] # None /\ settler["script"].at \in {"next", "loaded"}
            => Written(e, settler["script"].table[e].old, settler["script"].table[e].new)'
      <3> SUFFICES ASSUME NEW e \in Events, settler["script"].table[e] # None,
                          settler["script"].at \in {"next", "loaded"}
                   PROVE  Written(e, settler["script"].table[e].old, settler["script"].table[e].new)'
        OBVIOUS
      <3>1. Written(e, settler["script"].table[e].old, settler["script"].table[e].new)
        BY <2>1 DEF ScriptOK
      <3>2. row'[e] = row[e]
        BY <2>2
      <3> QED BY <2>1, <3>1, <3>2 DEF Written
    <2> QED BY <1>1, <1>3, <2>1, <2>3 DEF ScriptOK
  <1> QED BY <1>1, <1>2, <1>3

LEMMA NotesFrame ==
  ASSUME EventInv, UNCHANGED note, \A e \in Events : row[e] # None => row'[e] # None
  PROVE  NotesOK'
  BY DEF EventInv, TypeOK, NotesOK

-------------------------------------------------------------------------------
IngestStates ==
  [at: {"idle", "next", "loaded"}, snap: 0..now, current: BOOLEAN, todo: SUBSET Events,
   seen: SUBSET Events, event: Events \cup {None}, loaded: Rows]
SettlerStates ==
  [at: {"idle", "next", "loaded", "repair"}, round: 0..5,
   results: SUBSET Results, todo: SUBSET Results,
   index: [Events -> Known \cup {None}], table: [Events -> Changes],
   result: Results \cup {None}, event: Events \cup {None}, loaded: Rows]
NoteStates == [event: Events \cup {None}, loaded: Rows]

StepOK == EventInv' /\ \A e \in Events : RowStep(e)

\* Ingest writes rows nobody else has touched, or none.
LEMMA IngestKeeps ==
  ASSUME EventInv, UNCHANGED <<outside, settler, note>>, backlog' \subseteq backlog,
         ingest' \in IngestStates, IngestOK', RowsStep, Unlocked
  PROVE  StepOK
  <1>1. TypeOK' /\ UNCHANGED board
    BY DEF EventInv, TypeOK, outside, now, RowsStep, IngestStates
  <1>2. \A e \in Events : row[e] # None => row'[e] # None
    BY DEF RowsStep, RowStep
  <1>3. \A s \in Settlers : MatchOK(s)' /\ (s = "sync" => SyncOK') /\ (s = "script" => ScriptOK')
    BY <1>2, SettlerFrame
  <1>4. NotesOK'
    BY <1>2, NotesFrame
  <1> QED BY <1>1, <1>3, <1>4 DEF StepOK, EventInv, RowsStep

LEMMA SaveEventStep == ASSUME EventInv, SaveEvent PROVE StepOK
  <1> DEFINE t == ingest.snap
             e == ingest.event
             x == ingest.loaded
  <1>1. /\ TypeOK /\ board \in Seq(Pages) /\ ingest \in IngestStates /\ now \in 0..MaxTime
        /\ \A d \in Events : row[d] \in Rows
    BY DEF EventInv, TypeOK, IngestStates
  <1>2. /\ t \in 1..now /\ e \in DOMAIN board[t].sets /\ ingest.todo \subseteq DOMAIN board[t].sets
        /\ x = None <=> row[e] = None
        /\ x \in Rows
    BY <1>1 DEF SaveEvent, EventInv, IngestOK, IngestStates
  <1>3. e \in Events /\ now <= MaxTime /\ t \in 1..MaxTime
    BY <1>1, <1>2, PageIs, Bounds
  <1>4. /\ ingest' = [ingest EXCEPT !.at = "next", !.event = None, !.loaded = None,
                                    !.seen = ingest.seen \cup {e}]
        /\ UNCHANGED <<backlog, outside, settler, note>> /\ UNCHANGED board
    BY DEF SaveEvent, outside
  <1>5. ingest' \in IngestStates
    BY <1>1, <1>3, <1>4 DEF IngestStates, Rows
  <1>6. IngestOK'
    BY <1>1, <1>2, <1>4 DEF IngestOK, IngestStates, now
  <1>7. ingest'.event # e /\ (x # row[e] => Overlap(e))
    <2>1. ingest'.event = None
      BY <1>1, <1>4 DEF IngestStates
    <2> QED BY <1>3, <2>1, NoneIsNone DEF Overlap
  <1>8. RowsStep /\ Unlocked
    <2>1. CASE x = None
      <3>1. row' = [row EXCEPT ![e] = Inserted(t, e)] /\ row[e] = None
        BY <1>2, <2>1 DEF SaveEvent
      <3>2. Inserted(t, e) \in EventRow /\ Consistent(Inserted(t, e))
        BY <1>1, <1>2, <1>3, InsertedIs
      <3>3. row' \in [Events -> Rows] /\ row'[e] = Inserted(t, e) /\ \A d \in Events \ {e} : row'[d] = row[d]
        BY <1>1, <1>3, <3>1, <3>2 DEF TypeOK, Rows
      <3>4. \A d \in Events : RowStep(d)
        BY <3>1, <3>2, <3>3, NoneIsNoRow DEF RowStep
      <3>5. ~Locked(e)
        <4>1. ASSUME NEW s \in Settlers, settler[s].at \in {"next", "loaded"} PROVE settler[s].table[e] = None
          <5>1. CASE s = "sync"
            BY <1>3, <5>1 DEF EventInv, SyncOK, NoRows
          <5>2. CASE s = "script"
            BY <1>3, <3>1, <4>1, <5>2 DEF EventInv, ScriptOK, Written
          <5> QED BY <5>1, <5>2, KnownPrograms
        <4> QED BY <4>1 DEF Locked
      <3> QED BY <3>3, <3>4, <3>5 DEF RowsStep, Unlocked
    <2>2. CASE x # None /\ LatePrematch(t, x)
      BY <1>1, <2>2, SameRows DEF SaveEvent
    <2>3. CASE x # None /\ ~LatePrematch(t, x) /\ IsSealed(x)
      <3>1. Write(e, x, KeepSealed(t, x)) /\ Sealed(x) /\ x \in EventRow
        BY <1>2, <2>3 DEF SaveEvent, IsSealed, Rows
      <3>2. /\ KeepSealed(t, x) \in EventRow /\ Better(x, KeepSealed(t, x))
            /\ KeepSealed(t, x).status = x.status
        BY <1>3, <3>1, KeepSealedIs
      <3> QED BY <1>1, <1>2, <1>3, <1>7, <2>3, <3>1, <3>2, WriteIs
    <2>4. CASE x # None /\ ~LatePrematch(t, x) /\ ~IsSealed(x) /\ Stale(t, x)
      BY <1>1, <2>4, SameRows DEF SaveEvent
    <2>5. CASE x # None /\ ~LatePrematch(t, x) /\ ~IsSealed(x) /\ ~Stale(t, x)
      <3>1. Write(e, x, Overwritten(t, e, x)) /\ ~Sealed(x) /\ x \in EventRow
        BY <1>2, <2>5 DEF SaveEvent, IsSealed, Rows
      <3>2. /\ Overwritten(t, e, x) \in EventRow /\ Better(x, Overwritten(t, e, x))
            /\ Overwritten(t, e, x).status = "prematch" /\ x.status # "prematch" => HalfLive(x)
        BY <1>1, <1>2, <1>3, <2>5, <3>1, OverwrittenIs
      <3> QED BY <1>1, <1>2, <1>3, <1>7, <2>5, <3>1, <3>2, WriteIs
    <2> QED BY <2>1, <2>2, <2>3, <2>4, <2>5
  <1> QED BY <1>4, <1>5, <1>6, <1>8, IngestKeeps

LEMMA ReconcileStep == ASSUME EventInv, Reconcile PROVE StepOK
  <1>1. /\ TypeOK /\ ingest \in IngestStates /\ \A d \in Events : row[d] \in Rows
        /\ row \in [Events -> Rows]
    BY DEF EventInv, TypeOK, IngestStates
  <1>2. /\ ingest' = [ingest EXCEPT !.at = "idle", !.snap = 0, !.current = FALSE, !.seen = {}]
        /\ UNCHANGED <<outside, settler, note>> /\ UNCHANGED board /\ backlog' \subseteq backlog
    BY DEF Reconcile, outside
  <1>3. ingest' \in IngestStates
    <2>1. ingest \in IngestStates /\ 0 \in 0..now
      BY <1>1 DEF TypeOK
    <2>2. /\ ingest'.at = "idle" /\ ingest'.snap = 0 /\ ingest'.current = FALSE /\ ingest'.seen = {}
          /\ ingest'.todo = ingest.todo /\ ingest'.event = ingest.event /\ ingest'.loaded = ingest.loaded
          /\ ingest' = [at |-> ingest'.at, snap |-> ingest'.snap, current |-> ingest'.current,
                        todo |-> ingest'.todo, seen |-> ingest'.seen, event |-> ingest'.event,
                        loaded |-> ingest'.loaded]
      BY <1>2, <2>1 DEF IngestStates
    <2>3. ingest'.current \in BOOLEAN
      BY <2>2
    <2>4. /\ ingest'.at \in {"idle", "next", "loaded"} /\ ingest'.todo \in SUBSET Events
          /\ ingest'.seen \in SUBSET Events /\ ingest'.event \in Events \cup {None}
          /\ ingest'.loaded \in Rows /\ ingest'.snap \in 0..now
      BY <2>1, <2>2 DEF IngestStates
    <2> QED BY <2>2, <2>3, <2>4 DEF IngestStates
  <1>4. IngestOK'
    BY <1>1, <1>2 DEF IngestOK, IngestStates
  <1>5. RowsStep /\ Unlocked
    <2>1. CASE UNCHANGED row
      BY <1>1, <2>1, SameRows
    <2>2. CASE ~UNCHANGED row
      <3> DEFINE off(e) == [row[e] EXCEPT !.live = FALSE, !.status = "interrupted"]
      <3>1. /\ row' = [e \in Events |-> IF Missing(e) THEN off(e) ELSE row[e]]
            /\ \A e \in Events : Missing(e) => ~Locked(e)
        BY <2>2 DEF Reconcile
      <3>2. ASSUME NEW e \in Events, Missing(e)
            PROVE  /\ row[e] \in EventRow /\ off(e) \in EventRow /\ off(e).status = "interrupted"
                   /\ Better(row[e], off(e))
        <4> DEFINE x == row[e]
                   y == off(e)
        <4>1. x \in EventRow /\ x.status = "live"
          BY <1>1, <3>2 DEF Missing, Rows
        <4> HIDE DEF x
        <4>2. /\ y \in EventRow /\ y.status = "interrupted" /\ y.live = FALSE
              /\ y.finishedAt = x.finishedAt /\ y.meta = x.meta
          BY <4>1 DEF EventRow, Statuses, x
        <4> HIDE DEF y
        <4>3. x.meta.official # None => x.meta.official.strength \in Nat
          BY <4>1, ResultRecords DEF EventRow, Metadata
        <4>4. ~Worse(x, y)
          BY <4>1, <4>2, <4>3 DEF Worse, Sealed, IsTerminal, HasDefinitive, Terminal
        <4>5. Consistent(x) => Consistent(y)
          BY <4>1, <4>2 DEF Consistent, Terminal
        <4> QED BY <4>1, <4>2, <4>4, <4>5 DEF x, y, Better
      <3> HIDE DEF off
      <3>3. row' \in [Events -> Rows]
        BY <1>1, <3>1, <3>2 DEF Rows
      <3>4. \A e \in Events : RowStep(e)
        <4> SUFFICES ASSUME NEW e \in Events PROVE RowStep(e)
          OBVIOUS
        <4>1. CASE Missing(e)
          BY <3>1, <3>2, <4>1, NoneIsNoRow DEF RowStep
        <4>2. CASE ~Missing(e)
          BY <3>1, <4>2 DEF RowStep
        <4> QED BY <4>1, <4>2
      <3>5. Unlocked
        BY <3>1 DEF Unlocked
      <3> QED BY <3>3, <3>4, <3>5 DEF RowsStep
    <2> QED BY <2>1, <2>2
  <1> QED BY <1>2, <1>3, <1>4, <1>5, IngestKeeps

LEMMA IngestStepOK == ASSUME EventInv, IngestStep PROVE StepOK
  <1>1. /\ TypeOK /\ board \in Seq(Pages) /\ ingest \in IngestStates /\ IngestOK /\ now \in Nat
        /\ \A d \in Events : row[d] \in Rows
    BY DEF EventInv, TypeOK, IngestStates
  <1>2. ASSUME UNCHANGED row, UNCHANGED <<backlog, outside, settler, note>>,
               ingest' \in IngestStates, IngestOK'
        PROVE  StepOK
    BY <1>1, <1>2, SameRows, IngestKeeps
  <1>3. ASSUME NEW t \in backlog, BeginSnapshot(t) PROVE StepOK
    <2>1. t \in 1..now /\ DOMAIN board[t].sets \subseteq Events /\ t \in 0..now
      <3>1. t \in 1..now
        BY <1>1 DEF TypeOK
      <3> QED BY <1>1, <3>1, PageIs
    <2>2. ingest' = [ingest EXCEPT !.at = "next", !.snap = t, !.current = now - t <= Grace,
                                   !.todo = DOMAIN board[t].sets, !.seen = {}]
      BY <1>3 DEF BeginSnapshot
    <2>3. (now - t <= Grace) \in BOOLEAN
      OBVIOUS
    <2>4. ingest' \in IngestStates
      BY <1>1, <2>1, <2>2, <2>3 DEF IngestStates
    <2>5. /\ ingest'.at = "next" /\ ingest'.snap = t /\ ingest'.todo = DOMAIN board[t].sets
      BY <1>1, <2>2 DEF IngestStates
    <2>6. IngestOK'
      BY <1>3, <2>1, <2>5 DEF IngestOK, BeginSnapshot, outside, now
    <2> QED BY <1>2, <1>3, <2>4, <2>6 DEF BeginSnapshot
  <1>4. ASSUME NEW e \in Events, LoadEvent(e) PROVE StepOK
    <2>1. ingest' = [ingest EXCEPT !.at = "loaded", !.event = e, !.loaded = row[e],
                                   !.todo = ingest.todo \ {e}]
      BY <1>4 DEF LoadEvent
    <2>2. ingest' \in IngestStates
      BY <1>1, <2>1 DEF IngestStates
    <2>3. IngestOK'
      BY <1>1, <1>4, <2>1 DEF IngestOK, LoadEvent, outside, now, IngestStates
    <2> QED BY <1>2, <1>4, <2>2, <2>3 DEF LoadEvent
  <1>5. CASE FailEvent
    <2>1. ingest' = [ingest EXCEPT !.at = "next", !.event = None, !.loaded = None]
      BY <1>5 DEF FailEvent
    <2>2. ingest' \in IngestStates
      BY <1>1, <2>1 DEF IngestStates, Rows
    <2>3. IngestOK'
      BY <1>1, <1>5, <2>1 DEF IngestOK, FailEvent, outside, now, IngestStates
    <2> QED BY <1>2, <1>5, <2>2, <2>3 DEF FailEvent
  <1>6. CASE StopWorker
    <2>1. ingest' = [ingest EXCEPT !.at = "idle", !.snap = 0, !.current = FALSE, !.todo = {},
                              !.seen = {}, !.event = None, !.loaded = None]
      BY <1>6 DEF StopWorker
    <2>2. ingest' \in IngestStates
      <3>1. ingest \in IngestStates /\ 0 \in 0..now /\ None \in Rows
        BY <1>1 DEF Rows
      <3>2. /\ ingest'.at = "idle" /\ ingest'.snap = 0 /\ ingest'.current = FALSE /\ ingest'.seen = {}
            /\ ingest'.todo = {} /\ ingest'.event = None /\ ingest'.loaded = None
            /\ ingest' = [at |-> ingest'.at, snap |-> ingest'.snap, current |-> ingest'.current,
                          todo |-> ingest'.todo, seen |-> ingest'.seen, event |-> ingest'.event,
                          loaded |-> ingest'.loaded]
        BY <2>1, <3>1 DEF IngestStates
      <3>3. ingest'.current \in BOOLEAN
        BY <3>2
      <3>4. /\ ingest'.at \in {"idle", "next", "loaded"} /\ ingest'.todo \in SUBSET Events
            /\ ingest'.seen \in SUBSET Events /\ ingest'.event \in Events \cup {None}
            /\ ingest'.loaded \in Rows /\ ingest'.snap \in 0..now
        BY <3>1, <3>2
      <3> QED BY <3>2, <3>3, <3>4 DEF IngestStates
    <2>3. IngestOK'
      BY <1>1, <2>1 DEF IngestOK, IngestStates
    <2> QED BY <1>2, <1>6, <2>2, <2>3 DEF StopWorker
  <1> QED BY <1>3, <1>4, <1>5, <1>6, SaveEventStep, ReconcileStep DEF IngestStep

-------------------------------------------------------------------------------
\* A settler writes rows nobody else has touched, or the script commits.
LEMMA SettlerKeeps ==
  ASSUME EventInv, NEW s \in Settlers, UNCHANGED <<backlog, outside, ingest, note>>,
         settler' \in [Settlers -> SettlerStates],
         \A u \in Settlers \ {s} : settler'[u] = settler[u],
         MatchOK(s)', s = "sync" => SyncOK', s = "script" => ScriptOK',
         RowsStep, Kept, s = "sync" => Unlocked
  PROVE  StepOK
  <1>1. TypeOK' /\ UNCHANGED board
    BY DEF EventInv, TypeOK, outside, now, RowsStep, SettlerStates
  <1>2. \A e \in Events : row[e] # None => row'[e] # None
    BY DEF RowsStep, RowStep
  <1>3. \A u \in Settlers \ {s} : MatchOK(u)' /\ (u = "sync" => SyncOK') /\ (u = "script" => ScriptOK')
    BY <1>2, SettlerFrame, KnownPrograms
  <1>4. NotesOK'
    BY <1>2, NotesFrame
  <1>5. IngestOK'
    <2>1. \A t \in 1..now : DOMAIN board[t].sets \subseteq Events
      BY PageIs DEF EventInv
    <2> QED BY <1>1, <2>1, IngestFrame DEF EventInv
  <1> QED BY <1>1, <1>3, <1>4, <1>5 DEF StepOK, EventInv, RowsStep

LEMMA SeenIs ==
  ASSUME EventInv, NEW s \in Settlers, NEW e \in Events
  PROVE  /\ Seen(s) \in [Events -> Rows]
         /\ settler[s].table[e] = None => Seen(s)[e] = row[e]
         /\ settler[s].table[e] # None => Seen(s)[e] = settler[s].table[e].new
         /\ Seen(s)[e] # None => row[e] # None
  <1>1. /\ row \in [Events -> Rows] /\ settler[s] \in SettlerStates
        /\ settler[s].table \in [Events -> Changes]
    BY DEF EventInv, TypeOK, SettlerStates
  <1>2. \A d \in Events : settler[s].table[d] # None =>
          settler[s].table[d].new \in EventRow /\ settler[s].table[d].old \in EventRow
    BY <1>1 DEF Changes
  <1>3. settler[s].table[e] # None => row[e] # None
    <2>1. CASE s = "sync"
      BY <2>1 DEF EventInv, SyncOK, NoRows
    <2>2. CASE s = "script"
      <3>1. settler[s].at \in {"idle", "next", "loaded", "repair"}
        BY <1>1 DEF SettlerStates
      <3> QED BY <2>2, <3>1 DEF EventInv, ScriptOK, NoRows, Written
    <2> QED BY <2>1, <2>2, KnownPrograms
  <1> QED BY <1>1, <1>2, <1>3 DEF Seen, Rows

LEMMA IndexIs ==
  ASSUME NEW rows \in [Events -> Rows]
  PROVE  /\ Index(rows) \in [Events -> Known \cup {None}]
         /\ \A e \in Events : Index(rows)[e] # None => rows[e] # None
  <1>1. ASSUME NEW e \in Events, rows[e] # None
        PROVE  [official |-> HasDefinitive(rows[e]), seen |-> rows[e].lastSeen,
                live |-> rows[e].live \/ rows[e].status = "live"] \in Known
    <2>1. rows[e] \in EventRow
      BY <1>1 DEF Rows
    <2>2. /\ HasDefinitive(rows[e]) \in BOOLEAN /\ (rows[e].live \/ rows[e].status = "live") \in BOOLEAN
          /\ rows[e].lastSeen \in 1..MaxTime
      BY <2>1, RowDomain DEF HasDefinitive
    <2> QED BY <2>2 DEF Known
  <1>2. Index(rows) \in [Events -> Known \cup {None}]
    BY <1>1 DEF Index
  <1> QED BY <1>2 DEF Index

LEMMA LoadForResultStep ==
  ASSUME EventInv, NEW s \in Settlers, NEW r \in Results, LoadForResult(s, r)
  PROVE  StepOK
  <1> DEFINE index == IF s = "sync" THEN settler[s].index ELSE Index(Seen(s))
  <1>1. /\ TypeOK /\ settler \in [Settlers -> SettlerStates] /\ settler[s] \in SettlerStates
        /\ UNCHANGED row /\ UNCHANGED <<backlog, outside, ingest, note>>
    BY DEF EventInv, TypeOK, SettlerStates, LoadForResult
  <1>2. RowsStep /\ Kept /\ Unlocked
    BY <1>1, SameRows
  <1>3. Seen(s) \in [Events -> Rows]
    BY SeenIs DEF Seen
  <1>4. \A e \in Found(index, r) : e \in Events /\ row[e] # None /\ Seen(s)[e] # None
    <2> SUFFICES ASSUME NEW e \in Found(index, r)
                 PROVE  e \in Events /\ row[e] # None /\ Seen(s)[e] # None
      OBVIOUS
    <2>1. e \in Events /\ index[e] # None
      BY DEF Found, Candidates
    <2>2. CASE s = "sync"
      <3>1. row[e] # None
        BY <2>1, <2>2 DEF EventInv, SyncOK
      <3>2. settler[s].table[e] = None
        BY <2>1, <2>2 DEF EventInv, SyncOK, NoRows
      <3> QED BY <2>1, <3>1, <3>2, SeenIs
    <2>3. CASE s # "sync"
      <3>1. Seen(s)[e] # None
        BY <1>3, <2>1, <2>3, IndexIs
      <3> QED BY <2>1, <3>1, SeenIs
    <2> QED BY <2>2, <2>3
  <1>5. CASE Found(index, r) = {}
    <2>1. settler' = [settler EXCEPT ![s].todo = settler[s].todo \ {r}]
      BY <1>5 DEF LoadForResult
    <2>2. /\ settler' \in [Settlers -> SettlerStates]
          /\ \A u \in Settlers \ {s} : settler'[u] = settler[u]
          /\ settler'[s].at = settler[s].at /\ settler'[s].round = settler[s].round
          /\ settler'[s].index = settler[s].index /\ settler'[s].table = settler[s].table
      <3> DEFINE new == [settler[s] EXCEPT !.todo = settler[s].todo \ {r}]
      <3>1. /\ new \in SettlerStates /\ new.at = settler[s].at /\ new.round = settler[s].round
            /\ new.index = settler[s].index /\ new.table = settler[s].table
        BY <1>1 DEF SettlerStates
      <3>2. settler' = [settler EXCEPT ![s] = new]
        BY <2>1
      <3> HIDE DEF new
      <3> QED BY <1>1, <3>1, <3>2
    <2>3. settler[s].at = "next"
      BY DEF LoadForResult
    <2>4. MatchOK(s)' /\ (s = "sync" => SyncOK') /\ (s = "script" => ScriptOK')
      <3>1. MatchOK(s)'
        BY <2>2, <2>3 DEF MatchOK
      <3>2. s = "sync" => SyncOK'
        BY <1>1, <2>2, <2>3 DEF EventInv, SyncOK
      <3>3. s = "script" => ScriptOK'
        <4> SUFFICES ASSUME s = "script" PROVE ScriptOK'
          OBVIOUS
        <4>1. /\ settler[s].round \in {1, 4}
              /\ \A f \in Events : settler[s].table[f] # None =>
                   Written(f, settler[s].table[f].old, settler[s].table[f].new)
          BY <2>3 DEF EventInv, ScriptOK
        <4>2. \A f, old, new : Written(f, old, new)' <=> Written(f, old, new)
          BY <1>1 DEF Written
        <4> QED BY <2>2, <2>3, <4>1, <4>2 DEF ScriptOK
      <3> QED BY <3>1, <3>2, <3>3
    <2> QED BY <1>1, <1>2, <2>2, <2>4, SettlerKeeps
  <1>6. ASSUME NEW e \in Found(index, r),
               settler' = [settler EXCEPT ![s].at = "loaded", ![s].todo = settler[s].todo \ {r},
                             ![s].result = r, ![s].event = e, ![s].loaded = Seen(s)[e]]
        PROVE  StepOK
    <2> DEFINE x == Seen(s)[e]
    <2>1. e \in Events /\ row[e] # None /\ x # None /\ x \in Rows
      BY <1>3, <1>4
    <2>2. settler' = [settler EXCEPT ![s].at = "loaded", ![s].todo = settler[s].todo \ {r},
                             ![s].result = r, ![s].event = e, ![s].loaded = x]
      BY <1>6
    <2>3. settler[s].table[e] # None => x = settler[s].table[e].new
      BY <2>1, SeenIs
    <2> HIDE DEF x
    <2>4. /\ settler' \in [Settlers -> SettlerStates]
          /\ \A u \in Settlers \ {s} : settler'[u] = settler[u]
          /\ settler'[s].at = "loaded" /\ settler'[s].round = settler[s].round
          /\ settler'[s].index = settler[s].index /\ settler'[s].table = settler[s].table
          /\ settler'[s].result = r /\ settler'[s].event = e /\ settler'[s].loaded = x
      <3> DEFINE new == [settler[s] EXCEPT !.at = "loaded", !.todo = settler[s].todo \ {r},
                           !.result = r, !.event = e, !.loaded = x]
      <3>1. /\ new \in SettlerStates /\ new.at = "loaded" /\ new.round = settler[s].round
            /\ new.index = settler[s].index /\ new.table = settler[s].table
            /\ new.result = r /\ new.event = e /\ new.loaded = x
        BY <1>1, <2>1 DEF SettlerStates
      <3>2. settler' = [settler EXCEPT ![s] = new]
        BY <2>2
      <3> HIDE DEF new
      <3> QED BY <1>1, <3>1, <3>2
    <2>5. MatchOK(s)'
      BY <1>1, <2>1, <2>4 DEF MatchOK
    <2>6. settler[s].at = "next"
      BY DEF LoadForResult
    <2>7. s = "sync" => SyncOK'
      BY <1>1, <2>4 DEF EventInv, SyncOK
    <2>8. s = "script" => ScriptOK'
      <3> SUFFICES ASSUME s = "script" PROVE ScriptOK'
        OBVIOUS
      <3>1. /\ settler[s].round \in {1, 4}
            /\ \A f \in Events : settler[s].table[f] # None =>
                 Written(f, settler[s].table[f].old, settler[s].table[f].new)
        BY <2>6 DEF EventInv, ScriptOK
      <3>2. \A f, old, new : Written(f, old, new)' <=> Written(f, old, new)
        BY <1>1 DEF Written
      <3> QED BY <2>3, <2>4, <3>1, <3>2 DEF ScriptOK
    <2> QED BY <1>1, <1>2, <2>4, <2>5, <2>7, <2>8, SettlerKeeps
  <1> QED BY <1>5, <1>6 DEF LoadForResult

\* What a settler has loaded when it has matched a result.
LEMMA MatchedRow ==
  ASSUME EventInv, NEW s \in Settlers, settler[s].at = "loaded"
  PROVE  /\ settler[s].event \in Events /\ settler[s].result \in Results
         /\ settler[s].loaded \in EventRow /\ row[settler[s].event] \in EventRow
  <1>1. settler[s] \in SettlerStates /\ \A e \in Events : row[e] \in Rows
    BY DEF EventInv, TypeOK, SettlerStates
  <1>2. /\ settler[s].event \in Events /\ settler[s].result \in Results
        /\ settler[s].loaded # None /\ row[settler[s].event] # None
    BY DEF EventInv, MatchOK
  <1> QED BY <1>1, <1>2 DEF SettlerStates, Rows

LEMMA SaveResultSync ==
  ASSUME EventInv, "sync" \in Settlers, SaveResult("sync")
  PROVE  StepOK
  <1> DEFINE s == "sync"
             e == settler[s].event
             x == settler[s].loaded
             y == Matched(settler[s].result, x)
  <1>1. /\ TypeOK /\ settler \in [Settlers -> SettlerStates] /\ settler[s] \in SettlerStates
        /\ settler[s].at = "loaded" /\ UNCHANGED <<backlog, outside, ingest, note>>
    BY DEF EventInv, TypeOK, SettlerStates, SaveResult
  <1>2. /\ e \in Events /\ settler[s].result \in Results /\ x \in EventRow /\ row[e] \in EventRow
        /\ y \in EventRow /\ Better(x, y) /\ y.status \in {x.status} \cup Terminal
    BY <1>1, MatchedRow, MatchedIs
  <1>3. /\ Write(e, x, y)
        /\ settler' = [settler EXCEPT ![s] = [settler[s] EXCEPT !.at = "next", !.result = None,
                                                              !.event = None, !.loaded = None]]
    BY DEF SaveResult
  <1> HIDE DEF y
  <1>4. /\ settler'[s] = [settler[s] EXCEPT !.at = "next", !.result = None, !.event = None, !.loaded = None]
        /\ \A u \in Settlers \ {s} : settler'[u] = settler[u]
    BY <1>1, <1>3
  <1>5. /\ settler'[s] \in SettlerStates
        /\ settler'[s].at = "next" /\ settler'[s].round = settler[s].round /\ settler'[s].event = None
        /\ settler'[s].index = settler[s].index /\ settler'[s].table = settler[s].table
    BY <1>1, <1>4, ZenonT(60) DEF SettlerStates, Rows
  <1>6. settler' \in [Settlers -> SettlerStates]
    BY <1>1, <1>3, <1>4, <1>5
  <1>7. x # row[e] => Overlap(e)
    <2>1. settler'[s].event # e
      BY <1>2, <1>5, NoneIsNone
    <2> QED BY <2>1 DEF Overlap
  <1>8. RowsStep /\ Kept /\ Unlocked
    BY <1>1, <1>2, <1>3, <1>7, NoneIsNoRow, WriteIs DEF Terminal
  <1>9. MatchOK(s)' /\ SyncOK'
    BY <1>1, <1>5, <1>8 DEF MatchOK, SyncOK, EventInv, RowsStep, RowStep
  <1> QED BY <1>1, <1>4, <1>6, <1>8, <1>9, SettlerKeeps

LEMMA SaveResultScript ==
  ASSUME EventInv, "script" \in Settlers, SaveResult("script")
  PROVE  StepOK
  <1> DEFINE s == "script"
             e == settler[s].event
             x == settler[s].loaded
             y == Matched(settler[s].result, x)
             mine == settler[s].table[e]
             entry == IF mine # None THEN [mine EXCEPT !.new = y]
                      ELSE IF y = x THEN None
                      ELSE [old |-> x, new |-> ChangedColumns(e, x, y)]
  <1>1. /\ TypeOK /\ settler \in [Settlers -> SettlerStates] /\ settler[s] \in SettlerStates
        /\ settler[s].at = "loaded" /\ UNCHANGED <<backlog, outside, ingest, note>>
        /\ UNCHANGED row /\ ScriptOK
    BY DEF EventInv, TypeOK, SettlerStates, SaveResult
  <1>2. /\ e \in Events /\ settler[s].result \in Results /\ x \in EventRow /\ row[e] \in EventRow
        /\ y \in EventRow /\ Better(x, y) /\ y.status \in {x.status} \cup Terminal
    BY <1>1, MatchedRow, MatchedIs
  <1>3. settler' = [settler EXCEPT ![s] = [settler[s] EXCEPT !.at = "next", !.result = None,
                      !.event = None, !.loaded = None, !.table = [settler[s].table EXCEPT ![e] = entry]]]
    BY DEF SaveResult
  <1> HIDE DEF y
  <1>4. mine # None => /\ mine \in [old: EventRow, new: EventRow] /\ x = mine.new
                       /\ Written(e, mine.old, mine.new)
    BY <1>1, <1>2 DEF SettlerStates, Changes, ScriptOK
  <1>5. entry \in Changes /\ (entry # None => Written(e, entry.old, entry.new))
    <2>1. CASE mine # None
      <3>1. entry = [mine EXCEPT !.new = y]
        BY <2>1
      <3>2. entry \in [old: EventRow, new: EventRow] /\ entry.old = mine.old /\ entry.new = y
        BY <1>2, <1>4, <2>1, <3>1
      <3>3. row[e] = mine.old => Better(mine.old, y)
        <4>1. mine.old \in EventRow /\ mine.new \in EventRow
          BY <1>4, <2>1
        <4> QED BY <1>2, <1>4, <2>1, <4>1, BetterThrough DEF Written
      <3>4. row[e].status # "prematch" => y.status # "prematch"
        BY <1>2, <1>4, <2>1 DEF Written, Terminal
      <3> HIDE DEF entry
      <3> QED BY <1>2, <3>2, <3>3, <3>4, NoneIsNoRow DEF Written, Changes
    <2>2. CASE mine = None /\ y = x
      BY <2>2 DEF Changes
    <2>3. CASE mine = None /\ y # x
      <3> DEFINE z == ChangedColumns(e, x, y)
      <3>1. entry = [old |-> x, new |-> z]
        BY <2>3
      <3>2. /\ z \in EventRow /\ z.status = (IF y.status # x.status THEN y.status ELSE row[e].status)
            /\ row[e] = x => z = y
        <4>1. row[e] = x => z = y
          BY <1>2, ChangedOfSame
        <4> QED BY <1>2, <4>1, ChangedType
      <3> HIDE DEF z
      <3>3. entry \in [old: EventRow, new: EventRow] /\ entry.old = x /\ entry.new = z
        BY <1>2, <3>1, <3>2
      <3>4. row[e].status # "prematch" => z.status # "prematch"
        BY <1>2, <3>2 DEF Terminal
      <3>5. row[e] = x => Better(x, z)
        BY <1>2, <3>2
      <3> HIDE DEF entry
      <3> QED BY <1>2, <3>3, <3>4, <3>5, NoneIsNoRow DEF Written, Changes
    <2> QED BY <2>1, <2>2, <2>3
  <1> HIDE DEF entry
  <1> DEFINE new == settler'[s]
             table == [settler[s].table EXCEPT ![e] = entry]
  <1>6. /\ new = [settler[s] EXCEPT !.at = "next", !.result = None, !.event = None, !.loaded = None,
                                    !.table = table]
        /\ \A u \in Settlers \ {s} : settler'[u] = settler[u]
    BY <1>1, <1>3
  <1>7. /\ table \in [Events -> Changes] /\ table[e] = entry
        /\ \A d \in Events \ {e} : table[d] = settler[s].table[d]
    BY <1>1, <1>2, <1>5 DEF SettlerStates
  <1> HIDE DEF table
  <1>8. /\ new \in SettlerStates
        /\ new.at = "next" /\ new.round = settler[s].round /\ new.table = table
    BY <1>1, <1>6, <1>7, ZenonT(60) DEF SettlerStates, Rows
  <1>9. settler' \in [Settlers -> SettlerStates]
    BY <1>1, <1>3, <1>6, <1>8
  <1>10. RowsStep /\ Kept /\ Unlocked
    BY <1>1, SameRows
  <1>11. MatchOK(s)' /\ ScriptOK'
    <2>1. settler[s].round \in {1, 4}
      BY <1>1 DEF ScriptOK
    <2>2. \A d \in Events : table[d] # None => Written(d, table[d].old, table[d].new)
      BY <1>1, <1>5, <1>7 DEF ScriptOK
    <2>3. \A d \in Events : settler'[s].table[d] # None => Written(d, settler[s].table[d].old, settler[s].table[d].new)'
      BY <1>1, <1>8, <2>2 DEF Written
    <2> QED BY <1>8, <2>1, <2>3 DEF MatchOK, ScriptOK
  <1> QED BY <1>1, <1>6, <1>9, <1>10, <1>11, SettlerKeeps

LEMMA SyncStepOK ==
  ASSUME EventInv, SyncStep \/ StopSync, "sync" \in Settlers
  PROVE  StepOK
  <1> DEFINE s == "sync"
  <1>1. /\ TypeOK /\ settler \in [Settlers -> SettlerStates] /\ settler[s] \in SettlerStates
        /\ MatchOK(s) /\ SyncOK
    BY DEF EventInv, TypeOK, SettlerStates
  <1>2. ASSUME UNCHANGED row, UNCHANGED <<backlog, outside, ingest, note>>, NEW new \in SettlerStates,
               settler' = [settler EXCEPT ![s] = new],
               new.at \in {"idle", "next"}, new.round = settler[s].round, new.table = settler[s].table,
               \A e \in Events : new.index[e] # None => row[e] # None
        PROVE  StepOK
    <2>1. RowsStep /\ Kept /\ Unlocked
      BY <1>1, <1>2, SameRows
    <2>2. /\ settler' \in [Settlers -> SettlerStates] /\ settler'[s] = new
          /\ \A u \in Settlers \ {s} : settler'[u] = settler[u]
      BY <1>1, <1>2
    <2>3. MatchOK(s)' /\ SyncOK'
      BY <1>1, <1>2, <2>2 DEF MatchOK, SyncOK
    <2> QED BY <1>2, <2>1, <2>2, <2>3, SettlerKeeps
  <1>3. CASE BeginSync
    <2> DEFINE index == Index(row)
               todo == {feed[e] : e \in Events} \ {None}
               new == [settler[s] EXCEPT !.at = "next", !.index = index, !.todo = todo]
    <2>1. /\ index \in [Events -> Known \cup {None}] /\ \A e \in Events : index[e] # None => row[e] # None
          /\ todo \subseteq Results
      BY <1>1, IndexIs DEF TypeOK
    <2> HIDE DEF index, todo
    <2>2. /\ new \in SettlerStates /\ new.at = "next" /\ new.round = settler[s].round
          /\ new.table = settler[s].table /\ new.index = index
      BY <1>1, <2>1 DEF SettlerStates
    <2>3. settler' = [settler EXCEPT ![s] = new]
      BY <1>1, <1>3 DEF BeginSync, index, todo
    <2> HIDE DEF new
    <2> QED BY <1>2, <1>3, <2>1, <2>2, <2>3 DEF BeginSync
  <1>4. CASE EndSync
    <2> DEFINE new == [settler[s] EXCEPT !.at = "idle", !.index = NoIndex]
    <2>1. /\ new \in SettlerStates /\ new.at = "idle" /\ new.round = settler[s].round
          /\ new.table = settler[s].table /\ new.index = NoIndex
      BY <1>1 DEF SettlerStates, NoIndex
    <2>2. settler' = [settler EXCEPT ![s] = new]
      BY <1>1, <1>4 DEF EndSync
    <2> HIDE DEF new
    <2> QED BY <1>2, <1>4, <2>1, <2>2 DEF EndSync, NoIndex
  <1>5. CASE StopSync
    <2> DEFINE new == [settler[s] EXCEPT !.at = "idle", !.todo = {}, !.index = NoIndex,
                                         !.result = None, !.event = None, !.loaded = None]
    <2>1. /\ new \in SettlerStates /\ new.at = "idle" /\ new.round = settler[s].round
          /\ new.table = settler[s].table /\ new.index = NoIndex
      BY <1>1 DEF SettlerStates, NoIndex, Rows
    <2>2. settler' = [settler EXCEPT ![s] = new]
      BY <1>1, <1>5 DEF StopSync
    <2> HIDE DEF new
    <2> QED BY <1>2, <1>5, <2>1, <2>2 DEF StopSync, NoIndex
  <1> QED BY <1>3, <1>4, <1>5, SaveResultSync, LoadForResultStep DEF SyncStep

LEMMA ScriptStepOK ==
  ASSUME EventInv, ScriptStep, "script" \in Settlers
  PROVE  StepOK
  <1> DEFINE s == "script"
             script == settler[s]
  <1>1. /\ TypeOK /\ settler \in [Settlers -> SettlerStates] /\ script \in SettlerStates
        /\ MatchOK(s) /\ ScriptOK /\ row \in [Events -> Rows]
    BY DEF EventInv, TypeOK, SettlerStates
  <1>2. ASSUME NEW new \in SettlerStates, settler' = [settler EXCEPT ![s] = new]
        PROVE  /\ settler' \in [Settlers -> SettlerStates] /\ settler'[s] = new
               /\ \A u \in Settlers \ {s} : settler'[u] = settler[u]
    BY <1>1, <1>2
  <1>3. CASE BeginScript
    <2> DEFINE final == Strongest({r \in archive : r.definitive})
               new == [script EXCEPT !.at = "next", !.round = 1, !.results = final, !.todo = final]
    <2>1. final \subseteq Results
      BY <1>1 DEF TypeOK, Strongest
    <2> HIDE DEF final
    <2>7. 1 \in 0..5
      OBVIOUS
    <2>2. /\ new \in SettlerStates /\ new.at = "next" /\ new.round = 1 /\ new.table = script.table
      BY <1>1, <2>1, <2>7 DEF SettlerStates
    <2>3. settler' = [settler EXCEPT ![s] = new]
      BY <1>1, <1>3 DEF BeginScript, final
    <2>4. script.table = NoRows
      BY <1>1, <1>3 DEF BeginScript, ScriptOK
    <2> HIDE DEF new
    <2>5. settler' \in [Settlers -> SettlerStates] /\ settler'[s] = new
          /\ \A u \in Settlers \ {s} : settler'[u] = settler[u]
      BY <1>2, <2>2, <2>3
    <2>6. MatchOK(s)' /\ ScriptOK'
      BY <2>2, <2>4, <2>5 DEF MatchOK, ScriptOK, NoRows
    <2> QED BY <1>1, <1>3, <2>5, <2>6, SameRows, SettlerKeeps DEF BeginScript
  <1>4. CASE CommitResults
    <2> DEFINE new == [script EXCEPT !.at = "idle", !.round = script.round + 1, !.table = NoRows]
    <2>1. script.round \in {1, 4} /\ script.at = "next"
      BY <1>1, <1>4 DEF CommitResults, ScriptOK
    <2>2. script.round + 1 \in {2, 5} /\ script.round + 1 \in 0..5 /\ NoRows \in [Events -> Changes]
      BY <2>1 DEF NoRows, Changes
    <2>3. new \in SettlerStates /\ new.at = "idle" /\ new.round = script.round + 1 /\ new.table = NoRows
      BY <1>1, <2>2 DEF SettlerStates
    <2>4. settler' = [settler EXCEPT ![s] = new]
      BY <1>1, <1>4 DEF CommitResults
    <2> HIDE DEF new
    <2>5. settler' \in [Settlers -> SettlerStates] /\ settler'[s] = new
          /\ \A u \in Settlers \ {s} : settler'[u] = settler[u]
      BY <1>2, <2>3, <2>4
    <2>6. MatchOK(s)' /\ ScriptOK'
      BY <2>2, <2>3, <2>5 DEF MatchOK, ScriptOK
    <2>7. ASSUME NEW e \in Events PROVE RowStep(e) /\ (row'[e] = None <=> row[e] = None)
      <3>1. row'[e] = Seen(s)[e]
        BY <1>4 DEF CommitResults
      <3>2. CASE script.table[e] = None
        <4>1. row'[e] = row[e]
          BY <3>1, <3>2, SeenIs
        <4> QED BY <4>1 DEF RowStep
      <3>3. CASE script.table[e] # None
        <4>1. /\ script.table[e] \in [old: EventRow, new: EventRow]
              /\ Written(e, script.table[e].old, script.table[e].new)
          BY <1>1, <2>1, <3>3 DEF SettlerStates, Changes, ScriptOK
        <4>2. row'[e] = script.table[e].new /\ row'[e] \in EventRow /\ row[e] # None
          BY <3>1, <3>3, <4>1, SeenIs DEF Written
        <4>3. script.table[e].old # row[e] => Overlap(e)
          <5>1. settler'[s].round # settler[s].round
            BY <2>1, <2>3, <2>5
          <5> QED BY <3>3, <5>1 DEF Overlap
        <4> QED BY <4>1, <4>2, <4>3, NoneIsNoRow DEF RowStep, Written
      <3> QED BY <3>2, <3>3
    <2>8. row' \in [Events -> Rows]
      <3>1. Seen(s) \in [Events -> Rows]
        BY SeenIs DEF Seen
      <3> QED BY <1>4, <3>1 DEF CommitResults
    <2> QED BY <1>4, <2>5, <2>6, <2>7, <2>8, SettlerKeeps DEF CommitResults, RowsStep, Kept
  <1>5. CASE LoadForRepair
    <2> DEFINE table == IF script.round = 2 THEN Changing(Cleared, row) ELSE Changing(Demoted, row)
               new == [script EXCEPT !.at = "repair", !.table = table]
    <2>1. ASSUME NEW e \in Events
          PROVE  /\ table[e] \in Changes
                 /\ table[e] # None =>
                      /\ row[e] # None /\ Better(table[e].old, table[e].new)
                      /\ table[e].new.status \in {table[e].old.status, "interrupted"}
      <3>1. table[e] = None \/ /\ row[e] # None
                               /\ \/ table[e] = [old |-> row[e], new |-> Cleared(row[e])]
                                  \/ table[e] = [old |-> row[e], new |-> Demoted(row[e])]
        BY DEF Changing
      <3>2. CASE table[e] = None
        BY <3>2 DEF Changes
      <3>3. CASE row[e] # None /\ table[e] = [old |-> row[e], new |-> Cleared(row[e])]
        <4>1. row[e] \in EventRow
          BY <1>1, <3>3 DEF Rows
        <4> HIDE DEF table
        <4> QED BY <3>3, <4>1, ClearedIs DEF Changes
      <3>4. CASE row[e] # None /\ table[e] = [old |-> row[e], new |-> Demoted(row[e])]
        <4>1. row[e] \in EventRow
          BY <1>1, <3>4 DEF Rows
        <4> HIDE DEF table
        <4> QED BY <3>4, <4>1, DemotedIs DEF Changes
      <3> QED BY <3>1, <3>2, <3>3, <3>4
    <2>2. table \in [Events -> Changes]
      <3>1. table = [e \in Events |-> table[e]]
        BY DEF Changing
      <3> HIDE DEF table
      <3> QED BY <2>1, <3>1
    <2> HIDE DEF table
    <2>3. new \in SettlerStates /\ new.at = "repair" /\ new.round = script.round /\ new.table = table
      BY <1>1, <2>2 DEF SettlerStates
    <2>4. settler' = [settler EXCEPT ![s] = new]
      BY <1>1, <1>5 DEF LoadForRepair, table
    <2> HIDE DEF new
    <2>5. settler' \in [Settlers -> SettlerStates] /\ settler'[s] = new
          /\ \A u \in Settlers \ {s} : settler'[u] = settler[u]
      BY <1>2, <2>3, <2>4
    <2>6. script.round \in {2, 3} /\ UNCHANGED row
      BY <1>5 DEF LoadForRepair
    <2>7. MatchOK(s)' /\ ScriptOK'
      BY <2>1, <2>3, <2>5, <2>6 DEF MatchOK, ScriptOK
    <2> QED BY <1>1, <1>5, <2>5, <2>6, <2>7, SameRows, SettlerKeeps DEF LoadForRepair
  <1>6. CASE SaveRepair
    <2> DEFINE at == IF script.round = 2 THEN "idle" ELSE "next"
               todo == IF script.round = 2 THEN {} ELSE script.results
               new == [script EXCEPT !.at = at, !.round = script.round + 1, !.table = NoRows,
                                     !.todo = todo]
    <2>1. script.round \in {2, 3} /\ script.at = "repair"
      BY <1>1, <1>6 DEF SaveRepair, ScriptOK
    <2>2. /\ script.round + 1 \in {3, 4} /\ script.round + 1 \in 0..5 /\ NoRows \in [Events -> Changes]
          /\ at \in {"idle", "next"}
          /\ todo \in SUBSET Results
      <3>1. script.results \in SUBSET Results
        BY <1>1 DEF SettlerStates
      <3> QED BY <2>1, <3>1 DEF NoRows, Changes
    <2>7. at = "next" => script.round + 1 = 4
      BY <2>1
    <2>9. at = "idle" => script.round + 1 = 3
      BY <2>1
    <2> HIDE DEF at, todo
    <2>3. new \in SettlerStates /\ new.at = at /\ new.round = script.round + 1 /\ new.table = NoRows
      BY <1>1, <2>2 DEF SettlerStates
    <2>4. settler' = [settler EXCEPT ![s] = new]
      BY <1>1, <1>6 DEF SaveRepair, at, todo
    <2> HIDE DEF new
    <2>5. settler' \in [Settlers -> SettlerStates] /\ settler'[s] = new
          /\ \A u \in Settlers \ {s} : settler'[u] = settler[u]
      BY <1>2, <2>3, <2>4
    <2>6. MatchOK(s)' /\ ScriptOK'
      BY <2>2, <2>3, <2>5, <2>7, <2>9 DEF MatchOK, ScriptOK, NoRows
    <2>8. ASSUME NEW e \in Events
          PROVE  RowStep(e) /\ (row'[e] = None <=> row[e] = None) /\ row'[e] \in Rows
      <3> DEFINE old == script.table[e].old
                 change == script.table[e].new
                 z == ChangedColumns(e, old, change)
      <3>1. row'[e] = IF script.table[e] = None THEN row[e] ELSE z
        BY <1>6 DEF SaveRepair
      <3>2. CASE script.table[e] = None
        BY <1>1, <3>1, <3>2 DEF RowStep
      <3>3. CASE script.table[e] # None
        <4>1. /\ old \in EventRow /\ change \in EventRow /\ row[e] # None /\ Better(old, change)
              /\ change.status \in {old.status, "interrupted"}
          BY <1>1, <2>1, <3>3 DEF SettlerStates, Changes, ScriptOK
        <4>2. row[e] \in EventRow
          BY <1>1, <4>1 DEF Rows
        <4> HIDE DEF old, change
        <4>3. z \in EventRow /\ z.status = (IF change.status # old.status THEN change.status ELSE row[e].status)
          BY <4>1, <4>2, ChangedType
        <4>4. row[e] = old => z = change
          BY <4>1, ChangedOfSame
        <4> HIDE DEF z
        <4>5. old # row[e] => Overlap(e)
          <5>1. settler'[s].round # settler[s].round
            BY <2>1, <2>3, <2>5
          <5> QED BY <3>3, <5>1 DEF Overlap, old
        <4> QED BY <3>1, <3>3, <4>1, <4>2, <4>3, <4>4, <4>5, NoneIsNoRow DEF RowStep, Rows
      <3> QED BY <3>2, <3>3
    <2>10. row' \in [Events -> Rows]
      <3>1. row' = [e \in Events |-> row'[e]]
        BY <1>6 DEF SaveRepair
      <3> QED BY <2>8, <3>1
    <2> QED BY <1>6, <2>5, <2>6, <2>8, <2>10, SettlerKeeps DEF SaveRepair, RowsStep, Kept
  <1> QED BY <1>3, <1>4, <1>5, <1>6, SaveResultScript, LoadForResultStep DEF ScriptStep

LEMMA NoteStepOK ==
  ASSUME EventInv, NoteStep
  PROVE  StepOK
  <1>1. /\ TypeOK /\ note \in [Annotators -> NoteStates] /\ row \in [Events -> Rows] /\ NotesOK
    BY DEF EventInv, TypeOK, NoteStates
  <1>2. ASSUME UNCHANGED <<backlog, outside, ingest, settler>>, note' \in [Annotators -> NoteStates],
               RowsStep, Kept, Unlocked, NotesOK'
        PROVE  StepOK
    <2>1. TypeOK' /\ UNCHANGED board
      BY <1>2 DEF EventInv, TypeOK, outside, now, RowsStep, NoteStates
    <2>2. IngestOK'
      <3>1. \A t \in 1..now : DOMAIN board[t].sets \subseteq Events
        BY PageIs DEF EventInv
      <3> QED BY <1>2, <2>1, <3>1, IngestFrame DEF EventInv
    <2>3. \A e \in Events : row[e] # None => row'[e] # None
      BY <1>2 DEF RowsStep, RowStep
    <2>4. \A s \in Settlers : MatchOK(s)' /\ (s = "sync" => SyncOK') /\ (s = "script" => ScriptOK')
      BY <1>2, <2>3, SettlerFrame
    <2> QED BY <1>2, <2>1, <2>2, <2>4 DEF StepOK, EventInv, RowsStep
  <1>3. ASSUME NEW a \in Annotators, NEW e \in Events, LoadNote(a, e) PROVE StepOK
    <2>1. note' = [note EXCEPT ![a] = [event |-> e, loaded |-> row[e]]] /\ row[e] # None
      BY <1>3 DEF LoadNote
    <2>2. note' \in [Annotators -> NoteStates]
      BY <1>1, <2>1 DEF NoteStates
    <2>3. NotesOK'
      BY <1>1, <1>3, <2>1 DEF NotesOK, LoadNote
    <2> QED BY <1>1, <1>2, <1>3, <2>2, <2>3, SameRows DEF LoadNote
  <1>4. ASSUME NEW a \in Annotators, SaveNote(a) PROVE StepOK
    <2> DEFINE e == note[a].event
               x == note[a].loaded
               y == [x EXCEPT !.meta.notes = x.meta.notes \cup {a}]
    <2>1. note' = [note EXCEPT ![a] = [event |-> None, loaded |-> None]] /\ e # None
          /\ UNCHANGED <<backlog, outside, ingest, settler>>
      BY <1>4 DEF SaveNote
    <2>2. note' \in [Annotators -> NoteStates] /\ note'[a].event = None
      BY <1>1, <2>1 DEF NoteStates, Rows
    <2>3. e \in Events /\ x \in EventRow /\ row[e] # None
      BY <1>1, <2>1 DEF NoteStates, NotesOK, Rows
    <2>4. Write(e, x, y)
      BY <1>4 DEF SaveNote
    <2>5. y \in EventRow /\ Better(x, y) /\ y.status = x.status
      <3> DEFINE m == [x.meta EXCEPT !.notes = x.meta.notes \cup {a}]
      <3>1. m \in Metadata /\ m.official = x.meta.official /\ m.history = x.meta.history
        BY <2>3, RowDomain DEF Metadata
      <3>2. y = [x EXCEPT !.meta = m]
        BY <2>3 DEF EventRow
      <3> HIDE DEF m, y
      <3>3. /\ y \in EventRow /\ y.status = x.status /\ y.live = x.live /\ y.finishedAt = x.finishedAt
            /\ y.meta = m
        BY <2>3, <3>1, <3>2 DEF EventRow
      <3> QED BY <2>3, <3>1, <3>3, SameResult
    <2>6. x # row[e] => Overlap(e)
      <3>1. note'[a].event # e
        BY <2>2, <2>3, NoneIsNone
      <3> QED BY <3>1 DEF Overlap
    <2> HIDE DEF y
    <2>7. RowsStep /\ Kept /\ Unlocked
      BY <1>1, <2>3, <2>4, <2>5, <2>6, WriteIs
    <2>8. NotesOK'
      <3>1. \A b \in Annotators : b # a => note'[b] = note[b]
        BY <1>1, <2>1
      <3> QED BY <1>1, <2>2, <2>7, <3>1 DEF NotesOK, RowsStep, RowStep, NoteStates
    <2> QED BY <1>2, <2>1, <2>2, <2>7, <2>8
  <1> QED BY <1>3, <1>4 DEF NoteStep
-------------------------------------------------------------------------------
\* The world outside writes no row; a new snapshot leaves the earlier ones alone.
LEMMA OutsideStepOK ==
  ASSUME EventInv, Outside
  PROVE  StepOK
  <1>1. /\ TypeOK /\ board \in Seq(Pages) /\ ingest \in IngestStates /\ now \in Nat
        /\ now <= MaxTime /\ MaxTime \in Nat
    BY Bounds DEF EventInv, TypeOK, IngestStates
  <1>2. ASSUME UNCHANGED <<row, ingest, settler, note>>, IngestOK', TypeOK', board' \in Seq(Pages)
        PROVE  StepOK
    <2>1. RowsStep /\ Unlocked
      BY <1>1, <1>2, SameRows
    <2>2. \A e \in Events : row[e] # None => row'[e] # None
      BY <1>2
    <2>3. \A s \in Settlers : MatchOK(s)' /\ (s = "sync" => SyncOK') /\ (s = "script" => ScriptOK')
      BY <1>2, <2>1, <2>2, SettlerFrame
    <2>4. NotesOK'
      BY <1>2, <2>2, NotesFrame
    <2> QED BY <1>2, <2>1, <2>3, <2>4 DEF StepOK, EventInv, RowsStep
  <1>3. ASSUME NEW page \in {"live", "prematch"}, NEW shown \in SUBSET Events,
               NEW sets \in [shown -> 0..1], Poll(page, shown, sets)
        PROVE  StepOK
    <2> DEFINE new == [page |-> page, sets |-> sets]
    <2>1. /\ board' = Append(board, new) /\ now < MaxTime /\ backlog' = backlog \cup {now + 1}
          /\ UNCHANGED <<row, feed, archive, ingest, settler, note>>
      BY <1>3 DEF Poll
    <2>2. new \in Pages
      BY DEF Pages
    <2> HIDE DEF new
    <2>3. /\ board' \in Seq(Pages) /\ Len(board') = Len(board) + 1
          /\ \A t \in 1..Len(board) : board'[t] = board[t]
      BY <1>1, <2>1, <2>2, AppendProperties
    <2>4. now' = now + 1
      BY <2>3 DEF now
    <2>5. IngestOK'
      <3>1. ingest.at # "idle" => ingest.snap \in 1..now /\ board'[ingest.snap] = board[ingest.snap]
        BY <2>3 DEF EventInv, IngestOK, now
      <3>2. ingest.at # "idle" => ingest.snap \in 1..now'
        BY <1>1, <2>4, <3>1
      <3>3. IngestOK /\ ingest.at \in {"idle", "next", "loaded"}
        BY <1>1 DEF EventInv, IngestStates
      <3> QED BY <2>1, <3>1, <3>2, <3>3 DEF IngestOK
    <2>6. TypeOK'
      <3>1. now' \in 0..MaxTime /\ backlog' \subseteq 1..now'
        BY <1>1, <2>1, <2>4 DEF TypeOK
      <3>2. ingest' \in IngestStates'
        <4>1. 0..now \subseteq 0..now'
          BY <1>1, <2>4
        <4> HIDE DEF now
        <4> QED BY <1>1, <2>1, <4>1 DEF IngestStates
      <3> QED BY <1>1, <2>1, <3>1, <3>2 DEF TypeOK, IngestStates
    <2> QED BY <1>2, <2>1, <2>3, <2>5, <2>6
  <1>4. ASSUME NEW r \in Results, Publish(r) PROVE StepOK
    <2>1. /\ UNCHANGED <<row, board, backlog, ingest, settler, note>>
          /\ feed' = [feed EXCEPT ![r.event] = r] /\ archive' = archive \cup {r}
      BY <1>4 DEF Publish
    <2>2. TypeOK'
      BY <1>1, <2>1, ResultRecords DEF TypeOK, now
    <2>3. IngestOK'
      BY <2>1 DEF EventInv, IngestOK, now
    <2> QED BY <1>1, <1>2, <2>1, <2>2, <2>3
  <1> QED BY <1>3, <1>4 DEF Outside

LEMMA StopSyncOK ==
  ASSUME EventInv, StopSync
  PROVE  StepOK
  <1>1. /\ TypeOK /\ "sync" \in Settlers /\ settler \in [Settlers -> SettlerStates]
        /\ settler["sync"] \in SettlerStates /\ SyncOK
    BY DEF StopSync, EventInv, TypeOK, SettlerStates
  <1> DEFINE new == [settler["sync"] EXCEPT !.at = "idle", !.todo = {}, !.index = NoIndex,
                                            !.result = None, !.event = None, !.loaded = None]
  <1>2. /\ new \in SettlerStates /\ new.at = "idle" /\ new.round = settler["sync"].round
        /\ new.table = settler["sync"].table /\ new.index = NoIndex
    BY <1>1 DEF SettlerStates, NoIndex, Rows
  <1>3. settler' = [settler EXCEPT !["sync"] = new]
    BY DEF StopSync
  <1> HIDE DEF new
  <1>4. settler' \in [Settlers -> SettlerStates] /\ settler'["sync"] = new
        /\ \A u \in Settlers \ {"sync"} : settler'[u] = settler[u]
    BY <1>1, <1>2, <1>3
  <1>5. MatchOK("sync")' /\ SyncOK'
    BY <1>1, <1>2, <1>4 DEF MatchOK, SyncOK, NoIndex
  <1> QED BY <1>1, <1>4, <1>5, SameRows, SettlerKeeps DEF StopSync

LEMMA EventInvStep ==
  ASSUME EventInv, [Next]_vars
  PROVE  StepOK
  <1>1. CASE UNCHANGED vars
    <2>1. UNCHANGED <<row, board, backlog, feed, archive, ingest, settler, note>>
      BY <1>1 DEF vars
    <2>2. EventInv'
      <3>1. TypeOK' /\ board' \in Seq(Pages)
        BY <2>1 DEF EventInv, TypeOK, now
      <3>2. IngestOK' /\ NotesOK'
        BY <2>1 DEF EventInv, IngestOK, NotesOK, now
      <3>3. (\A s \in Settlers : MatchOK(s)') /\ ("sync" \in Settlers => SyncOK')
        BY <2>1 DEF EventInv, MatchOK, SyncOK
      <3>4. "script" \in Settlers => ScriptOK'
        BY <2>1 DEF EventInv, ScriptOK, Written
      <3> QED BY <3>1, <3>2, <3>3, <3>4 DEF EventInv
    <2> QED BY <2>1, <2>2 DEF StepOK, RowStep
  <1>2. CASE SyncStep
    <2>1. "sync" \in Settlers
      BY <1>2 DEF SyncStep, BeginSync, EndSync, SaveResult, LoadForResult
    <2> QED BY <1>2, <2>1, SyncStepOK
  <1>3. CASE ScriptStep
    <2>1. "script" \in Settlers
      BY <1>3 DEF ScriptStep, BeginScript, SaveResult, CommitResults, LoadForRepair, SaveRepair,
                  LoadForResult
    <2> QED BY <1>3, <2>1, ScriptStepOK
  <1> QED BY <1>1, <1>2, <1>3, IngestStepOK, StopSyncOK, NoteStepOK, OutsideStepOK DEF Next

LEMMA EventInvInit == Init => EventInv
  <1> SUFFICES ASSUME Init PROVE EventInv
    OBVIOUS
  <1>1. board = <<>> /\ now = 0 /\ MaxTime \in Nat
    BY Bounds DEF Init, now
  <1>2. row \in [Events -> Rows] /\ \A e \in Events : row[e] = None
    BY DEF Init, NoRows, Rows
  <1>3. ingest \in IngestStates /\ ingest.at = "idle"
    <2>1. /\ ingest = [at |-> "idle", snap |-> 0, current |-> FALSE, todo |-> {}, seen |-> {},
                       event |-> None, loaded |-> None]
      BY DEF Init
    <2>2. 0 \in 0..now /\ None \in Rows
      BY <1>1 DEF Rows
    <2>3. FALSE \in BOOLEAN
      OBVIOUS
    <2> QED BY <2>1, <2>2, <2>3 DEF IngestStates
  <1>4. ASSUME NEW s \in Settlers
        PROVE  /\ settler[s] \in SettlerStates /\ settler[s].at = "idle" /\ settler[s].round = 0
               /\ settler[s].table = NoRows /\ settler[s].index = NoIndex
    <2>1. settler[s] = [at |-> "idle", round |-> 0, results |-> {}, todo |-> {},
                        index |-> NoIndex, table |-> NoRows, result |-> None, event |-> None,
                        loaded |-> None]
      BY DEF Init
    <2>2. 0 \in 0..5 /\ NoIndex \in [Events -> Known \cup {None}] /\ NoRows \in [Events -> Changes]
          /\ None \in Rows
      BY DEF NoIndex, NoRows, Changes, Rows
    <2> QED BY <2>1, <2>2 DEF SettlerStates
  <1>5. settler \in [Settlers -> SettlerStates]
    BY <1>4 DEF Init
  <1>6. note \in [Annotators -> NoteStates] /\ \A a \in Annotators : note[a].event = None
    BY DEF Init, NoteStates, Rows
  <1>7. TypeOK
    <2>1. now \in 0..MaxTime /\ backlog \subseteq 1..now
      BY <1>1 DEF Init
    <2>2. feed \in [Events -> Results \cup {None}] /\ archive \subseteq Results
      BY DEF Init
    <2> QED BY <1>2, <1>3, <1>5, <1>6, <2>1, <2>2 DEF TypeOK, IngestStates, SettlerStates, NoteStates
  <1>8. board \in Seq(Pages)
    BY <1>1
  <1>9. IngestOK
    BY <1>3 DEF IngestOK
  <1>10. \A s \in Settlers : MatchOK(s)
    BY <1>4 DEF MatchOK
  <1>11. "sync" \in Settlers => SyncOK
    BY <1>4 DEF SyncOK, NoIndex
  <1>12. "script" \in Settlers => ScriptOK
    BY <1>4 DEF ScriptOK
  <1> QED BY <1>6, <1>7, <1>8, <1>9, <1>10, <1>11, <1>12 DEF EventInv, NotesOK

-------------------------------------------------------------------------------
(***************************************************************************)
(* Theorems.                                                               *)
-------------------------------------------------------------------------------
\* What the writers of an event hold agrees with the rows: ingest inserts a row
\* only where there is none, the sync and the annotators hold rows that exist,
\* and what the script has written and not committed is what a commit may leave.
THEOREM EventInvariant == Spec => []EventInv
  <1>1. EventInv /\ [Next]_vars => EventInv'
    BY EventInvStep DEF StepOK
  <1> QED BY EventInvInit, <1>1, PTL DEF Spec

\* Every column of an event keeps its domain, whatever mixture of columns
\* overlapping writers leave.
THEOREM EventTypes == Spec => []TypeOK
  <1>1. EventInv => TypeOK
    BY DEF EventInv
  <1> QED BY EventInvariant, <1>1, PTL

\* process_and_persist, match_and_complete_event and the repairs of the script
\* lose an official result, or replace it by a weaker one, only when a writer
\* commits over a row that changed after he had loaded it.
THEOREM ResultKept == Spec => ResultLostOnlyByOverlap
  <1> DEFINE Kind == \A e \in Events : row[e] # None /\ Worse(row[e], row'[e]) => Overlap(e)
  <1>1. EventInv /\ [Next]_vars => [Kind]_vars
    <2> SUFFICES ASSUME EventInv, [Next]_vars, NEW e \in Events, row[e] # None,
                        Worse(row[e], row'[e])
                 PROVE  Overlap(e)
      OBVIOUS
    <2>1. RowStep(e)
      BY EventInvStep DEF StepOK
    <2>2. row[e] \in EventRow
      BY DEF EventInv, TypeOK, Rows
    <2>3. row'[e] # row[e]
      BY <2>2, SameResult DEF Better
    <2> QED BY <2>1, <2>3 DEF RowStep, Better
  <1> QED BY EventInvariant, <1>1, PTL DEF ResultLostOnlyByOverlap, Spec

\* status, is_live and finished_at come to disagree only through such a commit,
\* and a new row never starts that way.
THEOREM MixedOnlyByOverlap == Spec => MixedRowOnlyByOverlap
  <1> DEFINE Kind == \A e \in Events : row'[e] # None /\ ~Consistent(row'[e])
                       => Overlap(e) \/ (row[e] # None /\ ~Consistent(row[e]))
  <1>1. EventInv /\ [Next]_vars => [Kind]_vars
    <2> SUFFICES ASSUME EventInv, [Next]_vars, NEW e \in Events, row'[e] # None,
                        ~Consistent(row'[e])
                 PROVE  Overlap(e) \/ (row[e] # None /\ ~Consistent(row[e]))
      OBVIOUS
    <2>1. RowStep(e)
      BY EventInvStep DEF StepOK
    <2>2. CASE row'[e] = row[e]
      BY <2>2 DEF Consistent
    <2>3. CASE row'[e] # row[e]
      BY <2>1, <2>3 DEF RowStep, Better
    <2> QED BY <2>2, <2>3
  <1> QED BY EventInvariant, <1>1, PTL DEF MixedRowOnlyByOverlap, Spec

\* Nobody takes an event back to the catalog, overlap or not: only ingest does,
\* and only when it has loaded a row that is live by its status and not by is_live.
THEOREM NeverBackToCatalog == Spec => NeverPrematchAgain
  <1> DEFINE Kind == \A e \in Events :
                       row[e] # None /\ row[e].status # "prematch" /\ row'[e].status = "prematch"
                         => ingest.event = e /\ HalfLive(ingest.loaded)
  <1>1. EventInv /\ [Next]_vars => [Kind]_vars
    BY EventInvStep DEF StepOK, RowStep
  <1> QED BY EventInvariant, <1>1, PTL DEF NeverPrematchAgain, Spec
===============================================================================
