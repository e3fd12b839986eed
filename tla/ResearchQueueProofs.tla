-------------------------- MODULE ResearchQueueProofs --------------------------
(***************************************************************************)
(* Theorems about ResearchQueue, for every set of events and calls, every  *)
(* limit and every number of troubles: what a search leaves in the tables, *)
(* and, while it is calm, that an event is searched once, within the limit,*)
(* for the queue alone, and that it waits again in two ways only.          *)
(*                                                                         *)
(* None of these says who works on a run.  Quiet does: an event has one    *)
(* open run at most; while a thread waits for its event the run of the     *)
(* queue is running, or the event is searched already; and a second call   *)
(* for an event, or one that nobody waits for any more, belongs to an event*)
(* whose run a thread has closed.                                          *)
(***************************************************************************)
EXTENDS ResearchQueue, SequenceTheorems, FiniteSetTheorems, WellFoundedInduction, TLAPS

Statuses == {"queued", "running", "completed"}
Rows == 1..Len(runs)
RowsWith(status) == {i \in Rows : runs[i].status = status}

CallStates ==
  [event: Events \cup {None}, by: {None, "thread", "decision"},
   client: {"none", "waiting", "closing"},
   server: {"none", "check", "begin", "search", "persist", "answered", "failed"}]
CallsOK ==
  /\ call \in [Calls -> CallStates]
  /\ \A c \in Calls : call[c] # NoCall => call[c].event \in Events
\* An event in flight has its thread.
ThreadsOK ==
  \A e \in inflight : \E c \in Calls : call[c].event = e /\ call[c].by = "thread" /\ call[c].client # "none"
RunsOK == runs \in Seq(Runs) /\ sync \in [at: {"idle", "requeuing", "queuing", "claiming"}, rows: SUBSET Rows]
SetsOK ==
  /\ board \subseteq Events /\ evidence \subseteq Events /\ inflight \subseteq Events
  /\ cache \subseteq Events /\ searches \in [Events -> Nat] /\ troubles \in 0..MaxTroubles
Types == CallsOK /\ ThreadsOK /\ RunsOK /\ SetsOK

\* An event has one open run at most, and a queued one has no thread.
OneOpenRun ==
  \A i, j \in Rows :
    runs[i].event = runs[j].event /\ runs[i].status # "completed" /\ runs[j].status # "completed" => i = j
QueuedRest == \A i \in RowsWith("queued") : runs[i].event \notin inflight

AtWork(c) == call[c].server \in {"begin", "search", "persist"}
InWork(e) == \E i \in RowsWith("running") : runs[i].event = e
Listened(c) == call[c].client # "none"
CallKnown(c) ==
  LET e == call[c].event IN
  /\ call[c].by = "thread" /\ call[c].server # "failed"
  /\ Listened(c) => e \in inflight /\ (Stored(e) \/ InWork(e))
  /\ ~Listened(c) \/ call[c].server \in {"answered", "none"} => Stored(e)
  /\ AtWork(c) /\ Listened(c) => ~Stored(e)
  /\ call[c].server = "begin" => searches[e] = 0
  /\ call[c].server = "begin" /\ ~Listened(c) => OpenRuns(e) = {} /\ e \notin inflight
\* Two calls of an event.
ApartCalls(c, d) ==
  /\ Stored(call[c].event)
  /\ ~Listened(c) \/ ~Listened(d)
  /\ ~AtWork(c) \/ ~AtWork(d)
CallsKnown ==
  /\ \A c \in Calls : call[c] # NoCall => CallKnown(c)
  /\ \A c, d \in Calls :
       call[c] # NoCall /\ call[d] # NoCall /\ call[c].event = call[d].event /\ c # d => ApartCalls(c, d)

AtServer(e, steps) == \E c \in Calls : call[c].event = e /\ call[c].server \in steps
SearchesKnown ==
  /\ \A e \in evidence : Stored(e)
  /\ \A e \in cache : Stored(e) \/ AtServer(e, {"persist"})
  /\ \A e \in Events : searches[e] # 0 => searches[e] = 1 /\ (Stored(e) \/ AtServer(e, {"search", "persist"}))

\* A slot is taken by a claimed row and by a running one that has its thread; a
\* claimed row may have been completed since.
Claimed == IF sync.at = "claiming" THEN sync.rows ELSE {}
Taken == {i \in RowsWith("running") : runs[i].event \in inflight}
SlotsKept ==
  /\ \A i \in Claimed : runs[i].status # "running"
  /\ Cardinality(Taken) + Cardinality(Claimed) <= Limit

Quiet == OneOpenRun /\ QueuedRest /\ CallsKnown /\ SearchesKnown /\ SlotsKept
QueueInv == Types /\ (Calm => Quiet)

-------------------------------------------------------------------------------
(***************************************************************************)
(* What the writes of web_research_runs do to the rows.                    *)
(***************************************************************************)
LEMMA TypesAre == Types => TypeOK
  BY DEF Types, CallsOK, ThreadsOK, RunsOK, SetsOK, TypeOK, CallStates, Rows

\* The row of an event with a status.
Run(e, status) == [event |-> e, status |-> status]
LEMMA RunIs == \A e, s : Run(e, s).event = e /\ Run(e, s).status = s
  BY DEF Run

LEMMA RowTypes ==
  ASSUME runs \in Seq(Runs), NEW i \in Rows
  PROVE  /\ runs[i].event \in Events /\ runs[i].status \in Statuses
         /\ runs[i] = Run(runs[i].event, runs[i].status)
  <1>1. runs[i] \in Runs
    BY DEF Rows
  <1> QED BY <1>1 DEF Runs, Statuses, Run

LEMMA MarkedAll ==
  ASSUME runs \in Seq(Runs), NEW S \in SUBSET Rows, NEW s \in Statuses
  PROVE  /\ WithAll(S, s) \in Seq(Runs) /\ Len(WithAll(S, s)) = Len(runs)
         /\ \A i \in S : WithAll(S, s)[i] = Run(runs[i].event, s)
         /\ \A i \in Rows \ S : WithAll(S, s)[i] = runs[i]
  <1> DEFINE marked == [i \in 1..Len(runs) |-> IF i \in S THEN Run(runs[i].event, s)
                                                          ELSE runs[i]]
  <1>1. Len(runs) \in Nat /\ \A i \in 1..Len(runs) : runs[i] \in Runs
    OBVIOUS
  <1>2. \A i \in 1..Len(runs) : [runs[i] EXCEPT !.status = s] = Run(runs[i].event, s)
    BY <1>1 DEF Runs, Run
  <1>3. WithAll(S, s) = marked
    BY <1>1, <1>2 DEF WithAll
  <1>4. \A i \in 1..Len(runs) : marked[i] \in Runs
    BY <1>1 DEF Runs, Statuses, Run
  <1>5. marked \in Seq(Runs) /\ Len(marked) = Len(runs)
    BY <1>1, <1>4
  <1> QED BY <1>3, <1>5 DEF Rows

LEMMA MarkedOne ==
  ASSUME runs \in Seq(Runs), NEW k, NEW s \in Statuses
  PROVE  /\ With(k, s) \in Seq(Runs) /\ Len(With(k, s)) = Len(runs)
         /\ \A i \in Rows : With(k, s)[i] = IF i = k THEN Run(runs[i].event, s)
                                                     ELSE runs[i]
  <1>1. Len(runs) \in Nat /\ DOMAIN runs = 1..Len(runs) /\ \A i \in 1..Len(runs) : runs[i] \in Runs
    OBVIOUS
  <1>2. \A i \in 1..Len(runs) : [runs[i] EXCEPT !.status = s] = Run(runs[i].event, s)
    BY <1>1 DEF Runs, Run
  <1> DEFINE marked == [i \in 1..Len(runs) |-> IF i = k THEN Run(runs[i].event, s)
                                                     ELSE runs[i]]
  <1>3. With(k, s) = marked
    BY <1>1, <1>2 DEF With
  <1>4. \A i \in 1..Len(runs) : marked[i] \in Runs
    BY <1>1 DEF Runs, Statuses, Run
  <1>5. marked \in Seq(Runs) /\ Len(marked) = Len(runs)
    BY <1>1, <1>4
  <1> QED BY <1>3, <1>5 DEF Rows

\* _open_run, as begin_research_run and persist_research_packet use it.
LEMMA NotedRuns ==
  ASSUME runs \in Seq(Runs), NEW e \in Events, NEW s \in Statuses
  PROVE  /\ Noted(e, s) \in Seq(Runs)
         /\ Len(Noted(e, s)) = IF OpenRuns(e) = {} THEN Len(runs) + 1 ELSE Len(runs)
         /\ \A i \in Rows : Noted(e, s)[i] = IF OpenRuns(e) # {} /\ i = Newest(OpenRuns(e))
                                              THEN Run(runs[i].event, s) ELSE runs[i]
         /\ OpenRuns(e) = {} => Noted(e, s)[Len(runs) + 1] = Run(e, s)
  <1>1. CASE OpenRuns(e) # {}
    BY <1>1, MarkedOne DEF Noted
  <1>2. CASE OpenRuns(e) = {}
    <2>1. Noted(e, s) = Append(runs, Run(e, s))
      BY <1>2 DEF Noted, Run
    <2>2. Run(e, s) \in Runs
      BY DEF Runs, Statuses, Run
    <2> QED BY <1>2, <2>1, <2>2 DEF Rows
  <1> QED BY <1>1, <1>2

-------------------------------------------------------------------------------
(***************************************************************************)
(* Types.                                                                  *)
(***************************************************************************)
LEMMA TypesInit == Init => Types
  <1> SUFFICES ASSUME Init PROVE Types
    OBVIOUS
  <1>1. NoCall \in CallStates
    BY DEF NoCall, CallStates
  <1>2. CallsOK /\ ThreadsOK
    BY <1>1 DEF Init, CallsOK, ThreadsOK
  <1>3. RunsOK /\ SetsOK
    BY QueueBounds DEF Init, RunsOK, SetsOK, NoSync, NoSearches
  <1> QED BY <1>2, <1>3 DEF Types

LEMMA RowsGrow ==
  ASSUME RunsOK, runs' \in Seq(Runs), Len(runs) <= Len(runs'), UNCHANGED sync
  PROVE  RunsOK'
  <1>1. Len(runs) \in Nat /\ Len(runs') \in Nat
    BY DEF RunsOK
  <1>2. Rows \subseteq Rows'
    BY <1>1 DEF Rows
  <1> QED BY <1>2 DEF RunsOK

\* A reply leaves what the caller is and waits for.
LEMMA ReplyTypes ==
  ASSUME CallsOK, ThreadsOK, UNCHANGED inflight, NEW c \in Calls, call[c] # NoCall,
         NEW how \in {"answered", "failed"}, Replies(c, how)
  PROVE  CallsOK' /\ ThreadsOK'
  <1> DEFINE new == IF call[c].client = "waiting" THEN [call[c] EXCEPT !.server = how]
                    ELSE IF call[c].client = "closing" THEN [call[c] EXCEPT !.server = "none"]
                    ELSE NoCall
  <1>1. call[c] \in CallStates /\ NoCall \in CallStates
    BY DEF CallsOK, CallStates, NoCall
  <1>2. new \in CallStates
    BY <1>1 DEF CallStates
  <1>3. call' = [call EXCEPT ![c] = new]
    BY DEF Replies
  <1>4. /\ new # NoCall => new.event \in Events
        /\ call[c].client # "none" =>
             new.event = call[c].event /\ new.by = call[c].by /\ new.client = call[c].client
    BY <1>1 DEF CallsOK, CallStates
  <1> HIDE DEF new
  <1>5. CallsOK'
    BY <1>2, <1>3, <1>4 DEF CallsOK
  <1>6. ThreadsOK'
    BY <1>3, <1>4 DEF CallsOK, ThreadsOK
  <1> QED BY <1>5, <1>6

\* A call that changes at one end, or begins.
LEMMA CallTypes ==
  ASSUME CallsOK, ThreadsOK, UNCHANGED inflight, NEW c \in Calls, NEW new \in CallStates,
         call' = [call EXCEPT ![c] = new], new # NoCall => new.event \in Events,
         call[c].client # "none" =>
           new.event = call[c].event /\ new.by = call[c].by /\ new.client # "none"
  PROVE  CallsOK' /\ ThreadsOK'
  <1>1. CallsOK'
    BY DEF CallsOK
  <1>2. ThreadsOK'
    BY DEF CallsOK, ThreadsOK
  <1> QED BY <1>1, <1>2

LEMMA CountersTyped ==
  ASSUME SetsOK, NoTrouble \/ Trouble
  PROVE  searches' \in [Events -> Nat] /\ troubles' \in 0..MaxTroubles
  BY QueueBounds DEF SetsOK, NoTrouble, Trouble, NoSearches

\* The rows that the sync appends: one for each event without a run.
LEMMA MissingQueued ==
  ASSUME RunsOK, SetsOK, NEW new \in SetToSeqs({e \in board \ evidence : RunsOf(e) = {}}),
         runs' = runs \o [k \in 1..Len(new) |-> [event |-> new[k], status |-> "queued"]]
  PROVE  /\ runs' \in Seq(Runs) /\ Len(runs) <= Len(runs')
         /\ \A i \in Rows : runs'[i] = runs[i]
         /\ \A i \in Rows' \ Rows : /\ runs'[i].event \in Events /\ RunsOf(runs'[i].event) = {}
                                    /\ runs'[i].status = "queued"
         /\ \A i, j \in Rows' \ Rows : runs'[i].event = runs'[j].event => i = j
  <1> DEFINE missing == {e \in board \ evidence : RunsOf(e) = {}}
             n == Cardinality(missing)
             added == [k \in 1..Len(new) |-> [event |-> new[k], status |-> "queued"]]
  <1>1. n \in Nat
    <2>1. missing \subseteq Events
      BY DEF SetsOK
    <2> QED BY <2>1, QueueBounds, FS_Subset, FS_CardinalityType
  <1>2. new \in [1..n -> missing] /\ \A i, j \in 1..n : i # j => new[i] # new[j]
    BY DEF SetToSeqs
  <1> HIDE DEF n
  <1>3. Len(new) = n /\ \A k \in 1..n : new[k] \in Events /\ RunsOf(new[k]) = {}
    <2>1. new \in Seq(missing) /\ Len(new) = n
      <3> HIDE DEF missing
      <3> QED BY <1>1, <1>2
    <2> QED BY <1>2, <2>1 DEF SetsOK
  <1>4. added \in Seq(Runs) /\ Len(added) = n
    <2>1. \A k \in 1..n : [event |-> new[k], status |-> "queued"] \in Runs
      BY <1>3 DEF Runs
    <2> QED BY <1>1, <1>3, <2>1
  <1>5. \A k \in 1..n : added[k] = [event |-> new[k], status |-> "queued"]
    BY <1>3
  <1> HIDE DEF added
  <1>6. /\ runs' = runs \o added /\ runs \in Seq(Runs) /\ Len(runs) \in Nat
        /\ runs' \in Seq(Runs) /\ Len(runs') = Len(runs) + n
    BY <1>1, <1>4 DEF added, RunsOK
  <1>7. \A i \in Rows : runs'[i] = runs[i]
    BY <1>1, <1>4, <1>6 DEF Rows
  <1>8. \A i \in Rows' \ Rows : i - Len(runs) \in 1..n /\ runs'[i] = added[i - Len(runs)]
    BY <1>1, <1>4, <1>6 DEF Rows
  <1>9. ASSUME NEW i \in Rows' \ Rows
        PROVE  /\ runs'[i].event \in Events /\ RunsOf(runs'[i].event) = {}
               /\ runs'[i].status = "queued" /\ runs'[i].event = new[i - Len(runs)]
    <2> DEFINE m == i - Len(runs)
    <2>1. m \in 1..n /\ runs'[i] = added[m]
      BY <1>8
    <2> HIDE DEF m
    <2>2. runs'[i] = [event |-> new[m], status |-> "queued"]
      BY <1>5, <2>1
    <2>3. new[m] \in Events /\ RunsOf(new[m]) = {}
      BY <1>3, <2>1, Zenon
    <2>4. runs'[i].event = new[m] /\ runs'[i].status = "queued"
      <3> DEFINE x == runs'[i]
      <3> x = [event |-> new[m], status |-> "queued"]
        BY <2>2
      <3> HIDE DEF x
      <3>1. x.event = new[m] /\ x.status = "queued"
        OBVIOUS
      <3> QED BY <3>1 DEF x
    <2> QED BY <2>3, <2>4 DEF m, RunsOf
  <1>10. ASSUME NEW i \in Rows' \ Rows, NEW j \in Rows' \ Rows, runs'[i].event = runs'[j].event
         PROVE  i = j
    <2> DEFINE k == i - Len(runs)
               l == j - Len(runs)
    <2>1. k \in 1..n /\ l \in 1..n
      BY <1>8
    <2>2. new[k] = new[l]
      BY <1>9, <1>10
    <2> HIDE DEF k, l
    <2>3. k = l
      BY <1>2, <2>1, <2>2
    <2>4. i \in Int /\ j \in Int
      BY DEF Rows
    <2> QED BY <1>6, <2>3, <2>4 DEF k, l
  <1>11. Len(runs) <= Len(runs')
    BY <1>1, <1>6
  <1> QED BY <1>6, <1>7, <1>9, <1>10, <1>11, Zenon

LEMMA OneOfIs == \A S : OneOf(S) \subseteq S
  BY DEF OneOf

\* The calls of the threads that the sync starts.
Started(rows, start) ==
  [c \in Calls |-> IF \E i \in rows : start[i] = c
                   THEN Asked(runs[CHOOSE i \in rows : start[i] = c].event)
                   ELSE call[c]]
LEMMA ClaimedCalls ==
  ASSUME RunsOK, NEW rows \in SUBSET Rows, NEW start \in Injection(rows, Free),
         call' = Started(rows, start)
  PROVE  /\ \A c \in Calls : \A i \in rows : start[i] = c =>
              call[c] = NoCall /\ call'[c] = Asked(runs[i].event) /\ runs[i].event \in Events
         /\ \A c \in Calls : (\A i \in rows : start[i] # c) => call'[c] = call[c]
         /\ \A i \in rows : start[i] \in Calls
         /\ \A i, j \in rows : start[i] = start[j] => i = j
         /\ call' = [c \in Calls |-> call'[c]]
  <1>1. start \in [rows -> Free] /\ \A a, b \in rows : start[a] = start[b] => a = b
    BY DEF Injection, IsInjective
  <1>2. ASSUME NEW c \in Calls, NEW i \in rows, start[i] = c
        PROVE  call[c] = NoCall /\ call'[c] = Asked(runs[i].event) /\ runs[i].event \in Events
    <2>1. (CHOOSE k \in rows : start[k] = c) = i
      BY <1>1, <1>2
    <2>2. call'[c] = Asked(runs[i].event)
      BY <1>2, <2>1 DEF Started
    <2>3. runs[i].event \in Events
      BY RowTypes DEF RunsOK
    <2> QED BY <1>1, <1>2, <2>2, <2>3 DEF Free
  <1>3. \A c \in Calls : (\A i \in rows : start[i] # c) => call'[c] = call[c]
    BY DEF Started
  <1>4. \A i \in rows : start[i] \in Calls
    BY <1>1 DEF Free
  <1>5. call' = [c \in Calls |-> call'[c]]
    BY DEF Started
  <1> QED BY <1>1, <1>2, <1>3, <1>4, <1>5

LEMMA SyncTypes ==
  ASSUME Types, Sync \/ SyncFails
  PROVE  Types'
  <1>1. Len(runs) \in Nat /\ runs \in Seq(Runs) /\ sync.rows \subseteq Rows
    BY DEF Types, RunsOK
  <1>2. CASE ReadRunning \/ SyncFails
    <2>1. UNCHANGED <<tables, inflight, call, cache>> /\ (NoTrouble \/ Trouble)
      BY <1>2 DEF ReadRunning, SyncFails
    <2>2. RunsOK'
      BY <1>1, <1>2, <2>1 DEF ReadRunning, SyncFails, RunsOK, Types, NoSync, tables, Rows
    <2>3. SetsOK'
      BY <2>1, CountersTyped DEF SetsOK, Types, tables
    <2> QED BY <2>1, <2>2, <2>3 DEF Types, CallsOK, ThreadsOK
  <1>3. CASE Requeue
    <2>1. PICK lost \in {Abandoned(sync.rows), Abandoned(sync.rows) \ Ended(sync.rows)} :
            runs' = WithAll(lost, "queued") /\ Overwritten(lost)
      BY <1>3 DEF Requeue
    <2>2. lost \subseteq Rows /\ "queued" \in Statuses
      BY <1>1 DEF Abandoned, Statuses
    <2>3. runs' \in Seq(Runs) /\ Len(runs') = Len(runs)
      BY <1>1, <2>1, <2>2, MarkedAll
    <2>4. RunsOK'
      BY <1>3, <2>3 DEF Requeue, RunsOK, NoSync, Rows
    <2>5. SetsOK'
      BY <1>3, <2>1, CountersTyped DEF Requeue, Overwritten, SetsOK, Types
    <2> QED BY <1>3, <2>4, <2>5 DEF Requeue, Types, CallsOK, ThreadsOK
  <1>4. CASE QueueMissing
    <2> DEFINE missing == {e \in board \ evidence : RunsOf(e) = {}}
    <2>1. PICK new \in SetToSeqs(missing) :
            /\ runs' = runs \o [k \in 1..Len(new) |-> [event |-> new[k], status |-> "queued"]]
            /\ sync' = IF Pending(runs') = {} THEN NoSync ELSE [at |-> "claiming", rows |-> Pending(runs')]
      BY <1>4 DEF QueueMissing
    <2>2. runs' \in Seq(Runs) /\ Len(runs) <= Len(runs')
      BY <1>1, <2>1, MissingQueued DEF Types
    <2>3. RunsOK'
      <3>1. DOMAIN runs' = Rows'
        BY <2>2 DEF Rows
      <3>2. Pending(runs') \subseteq Rows'
        BY <3>1 DEF Pending
      <3> QED BY <2>1, <2>2, <3>2 DEF RunsOK, NoSync
    <2>4. SetsOK'
      BY <1>4, CountersTyped DEF QueueMissing, SetsOK, Types
    <2> QED BY <1>4, <2>3, <2>4 DEF QueueMissing, Types, CallsOK, ThreadsOK
  <1>5. CASE Claim
    <2>1. /\ sync' = NoSync /\ UNCHANGED <<board, evidence, cache>> /\ (NoTrouble \/ Trouble)
          /\ \E rows \in SUBSET Rows : runs' = WithAll(rows, "running")
      <3>1. sync.rows \ Ended(sync.rows) \subseteq Rows
        BY <1>1
      <3> QED BY <1>1, <1>5, <3>1 DEF Claim, Overwritten
    <2>2. runs' \in Seq(Runs)
      BY <1>1, <2>1, MarkedAll DEF Statuses
    <2>3. RunsOK'
      BY <2>1, <2>2 DEF RunsOK, NoSync
    <2>4. ASSUME UNCHANGED <<call, inflight>> PROVE CallsOK' /\ ThreadsOK' /\ inflight' \subseteq Events
      BY <2>4 DEF Types, CallsOK, ThreadsOK, SetsOK
    <2>5. ASSUME NEW rows \in SUBSET Rows, NEW start \in Injection(rows, Free),
                 call' = Started(rows, start), inflight' = inflight \cup {runs[i].event : i \in rows}
          PROVE  CallsOK' /\ ThreadsOK' /\ inflight' \subseteq Events
      <3>1. /\ \A c \in Calls : \A i \in rows : start[i] = c =>
                  call[c] = NoCall /\ call'[c] = Asked(runs[i].event) /\ runs[i].event \in Events
            /\ \A i \in rows : start[i] \in Calls
            /\ call' = [c \in Calls |-> call'[c]]
        BY <2>5, ClaimedCalls DEF Types
      <3>2. \A c \in Calls : (\A i \in rows : start[i] # c) => call'[c] = call[c]
        BY <2>5, ClaimedCalls DEF Types
      <3>3. \A i \in rows : start[i] \in Calls
        BY <3>1
      <3>4. CallsOK'
        <4>1. \A c \in Calls : call'[c] \in CallStates /\ (call'[c] # NoCall => call'[c].event \in Events)
          <5>1. \A e \in Events : Asked(e) \in CallStates /\ Asked(e).event = e
            BY DEF CallStates, Asked
          <5> SUFFICES ASSUME NEW c \in Calls
                       PROVE  call'[c] \in CallStates /\ (call'[c] # NoCall => call'[c].event \in Events)
            OBVIOUS
          <5>2. CASE \E i \in rows : start[i] = c
            BY <3>1, <5>1, <5>2
          <5>3. CASE \A i \in rows : start[i] # c
            BY <3>2, <5>3 DEF Types, CallsOK
          <5> QED BY <5>2, <5>3
        <4> QED BY <3>1, <4>1 DEF CallsOK
      <3>5. inflight' \subseteq Events
        <4>1. \A i \in rows : runs[i].event \in Events
          BY <3>1, <3>3
        <4> QED BY <2>5, <4>1 DEF Types, SetsOK
      <3>6. ASSUME NEW e \in inflight'
            PROVE  \E c \in Calls : call'[c].event = e /\ call'[c].by = "thread" /\ call'[c].client # "none"
        <4>1. CASE e \in inflight
          <5>1. PICK c \in Calls : call[c].event = e /\ call[c].by = "thread" /\ call[c].client # "none"
            BY <4>1 DEF Types, ThreadsOK
          <5>2. call[c] # NoCall
            BY <5>1 DEF NoCall
          <5> QED BY <3>1, <3>2, <5>1, <5>2
        <4>2. CASE \E i \in rows : runs[i].event = e
          <5>1. PICK i \in rows : runs[i].event = e
            BY <4>2
          <5>2. start[i] \in Calls /\ call'[start[i]] = Asked(e)
            BY <3>1, <3>3, <5>1
          <5> QED BY <5>2 DEF Asked
        <4> QED BY <2>5, <4>1, <4>2
      <3> QED BY <3>4, <3>5, <3>6 DEF ThreadsOK
    <2>6. CallsOK' /\ ThreadsOK' /\ inflight' \subseteq Events
      <3>1. CASE UNCHANGED <<call, inflight>>
        BY <2>4, <3>1
      <3>2. CASE ~UNCHANGED <<call, inflight>>
        <4>1. PICK rows \in {sync.rows, sync.rows \ Ended(sync.rows)} :
                /\ \E start \in OneOf(Injection(rows, Free)) : call' = Started(rows, start)
                /\ inflight' = inflight \cup {runs[i].event : i \in rows}
          BY <1>5, <3>2, Zenon DEF Claim, Started
        <4>2. rows \in SUBSET Rows
          BY <1>1
        <4> QED BY <2>5, <4>1, <4>2, OneOfIs
      <3> QED BY <3>1, <3>2
    <2>7. SetsOK'
      BY <2>1, <2>6, CountersTyped DEF SetsOK, Types
    <2> QED BY <2>3, <2>6, <2>7 DEF Types
  <1> QED BY <1>2, <1>3, <1>4, <1>5 DEF Sync

LEMMA ServeTypes ==
  ASSUME Types, NEW c \in Calls, Serve(c)
  PROVE  Types'
  <1>1. CallsOK /\ ThreadsOK /\ RunsOK /\ SetsOK /\ call[c] \in CallStates
    BY DEF Types, CallsOK
  <1>2. call[c].server \in {"check", "begin", "search", "persist"}
    BY DEF Serve, Check, Begin, Search, Persist
  <1>3. call[c] # NoCall /\ call[c].event \in Events
    BY <1>1, <1>2 DEF NoCall, CallsOK
  <1>8. ASSUME NEW step \in {"begin", "search", "persist"}, Goes(c, step), UNCHANGED inflight
        PROVE  CallsOK' /\ ThreadsOK'
    <2> DEFINE new == [call[c] EXCEPT !.server = step]
    <2>1. /\ new \in CallStates /\ new.event \in Events /\ call' = [call EXCEPT ![c] = new]
          /\ new.event = call[c].event /\ new.by = call[c].by /\ new.client = call[c].client
      BY <1>1, <1>3, <1>8 DEF Goes, CallStates
    <2> HIDE DEF new
    <2> QED BY <1>1, <1>8, <2>1, CallTypes
  <1>4. CASE Check(c)
    <2>1. UNCHANGED <<board, runs, evidence, inflight, sync, cache>> /\ (NoTrouble \/ Trouble)
          /\ (Replies(c, "answered") \/ Goes(c, "begin"))
      BY <1>4 DEF Check, SeemsNew, backend, tables
    <2>2. CallsOK' /\ ThreadsOK'
      BY <1>1, <1>3, <1>8, <2>1, ReplyTypes
    <2> QED BY <1>1, <2>1, <2>2, CountersTyped DEF Types, RunsOK, SetsOK, Rows
  <1>7. CASE Begin(c)
    <2>1. /\ UNCHANGED <<board, evidence, inflight, sync, cache>> /\ Goes(c, "search")
          /\ runs' = runs \/ runs' = Noted(call[c].event, "running")
      BY <1>7 DEF Begin, backend
    <2>2. RunsOK'
      <3> DEFINE e == call[c].event
      <3> e \in Events /\ "running" \in Statuses /\ runs \in Seq(Runs) /\ Len(runs) \in Nat
        BY <1>1, <1>3 DEF RunsOK, Statuses
      <3> HIDE DEF e
      <3>1. /\ Noted(e, "running") \in Seq(Runs)
            /\ Len(Noted(e, "running")) = IF OpenRuns(e) = {} THEN Len(runs) + 1 ELSE Len(runs)
        BY NotedRuns
      <3>2. runs' \in Seq(Runs) /\ Len(runs) <= Len(runs')
        BY <2>1, <3>1 DEF e
      <3> QED BY <1>1, <2>1, <3>2, RowsGrow
    <2>3. searches' \in [Events -> Nat] /\ troubles' \in 0..MaxTroubles
      BY <1>1, <1>3, <1>7, QueueBounds DEF Begin, Trouble, NoSearches, SetsOK, Calm
    <2> QED BY <1>1, <1>8, <2>1, <2>2, <2>3 DEF Types, SetsOK
  <1>5. CASE Search(c)
    <2>1. UNCHANGED <<board, runs, evidence, inflight, sync>> /\ (NoTrouble \/ Trouble)
          /\ cache' \subseteq Events
      BY <1>1, <1>3, <1>5 DEF Search, backend, tables, SetsOK
    <2>2. CallsOK' /\ ThreadsOK'
      <3>1. CASE Replies(c, "failed")
        BY <1>1, <1>3, <2>1, <3>1, ReplyTypes
      <3>2. CASE Goes(c, "persist")
        BY <1>8, <2>1, <3>2
      <3> QED BY <1>5, <3>1, <3>2 DEF Search
    <2> QED BY <1>1, <2>1, <2>2, CountersTyped DEF Types, RunsOK, SetsOK, Rows
  <1>6. CASE Persist(c)
    <2> DEFINE e == call[c].event
    <2>1. UNCHANGED <<board, inflight, sync, cache>> /\ (NoTrouble \/ Trouble) /\ evidence' \subseteq Events
          /\ Replies(c, "answered") /\ (runs' = Noted(e, "completed") \/ runs' = runs)
      BY <1>1, <1>3, <1>6 DEF Persist, backend, SetsOK
    <2>2. RunsOK'
      <3> e \in Events /\ "completed" \in Statuses /\ runs \in Seq(Runs) /\ Len(runs) \in Nat
        BY <1>1, <1>3 DEF RunsOK, Statuses
      <3> HIDE DEF e
      <3>1. /\ Noted(e, "completed") \in Seq(Runs)
            /\ Len(Noted(e, "completed")) = IF OpenRuns(e) = {} THEN Len(runs) + 1 ELSE Len(runs)
        BY NotedRuns
      <3>2. runs' \in Seq(Runs) /\ Len(runs) <= Len(runs')
        BY <2>1, <3>1
      <3> QED BY <1>1, <2>1, <3>2, RowsGrow
    <2>3. CallsOK' /\ ThreadsOK'
      BY <1>1, <1>3, <2>1, ReplyTypes
    <2> QED BY <1>1, <2>1, <2>2, <2>3, CountersTyped DEF Types, SetsOK
  <1> QED BY <1>4, <1>5, <1>6, <1>7 DEF Serve

LEMMA ListenTypes ==
  ASSUME Types, NEW c \in Calls, Listen(c)
  PROVE  Types'
  <1>1. CallsOK /\ ThreadsOK /\ RunsOK /\ SetsOK /\ call[c] \in CallStates
    BY DEF Types, CallsOK
  <1>2. call[c].client \in {"waiting", "closing"}
    BY DEF Listen, Hear, GiveUp, CompleteEmpty
  <1>3. call[c] # NoCall /\ call[c].event \in Events
    BY <1>1, <1>2 DEF NoCall, CallsOK
  <1>4. NoCall \in CallStates
    BY DEF NoCall, CallStates
  <1>5. CASE GiveUp(c)
    <2> DEFINE server == IF call[c].server = "failed" THEN "none" ELSE call[c].server
               new == [call[c] EXCEPT !.client = "closing", !.server = server]
    <2>1. /\ new \in CallStates /\ new.event \in Events /\ new.client # "none"
          /\ new.event = call[c].event /\ new.by = call[c].by
      <3>1. server \in {"none", "check", "begin", "search", "persist", "answered"}
        BY <1>1 DEF CallStates
      <3> HIDE DEF server
      <3> QED BY <1>1, <1>3, <3>1 DEF CallStates
    <2>2. UNCHANGED <<tables, backend, cache>> /\ NoTrouble
      BY <1>5 DEF GiveUp
    <2>3. call' = [call EXCEPT ![c] = new]
      BY <1>1, <1>5 DEF GiveUp, CallsOK
    <2> HIDE DEF new
    <2>4. CallsOK' /\ ThreadsOK'
      BY <1>1, <2>1, <2>2, <2>3, CallTypes DEF backend
    <2> QED BY <1>1, <2>2, <2>4 DEF Types, RunsOK, SetsOK, Rows, tables, backend, NoTrouble
  <1>6. CASE Hear(c)
    <2>1. /\ UNCHANGED <<board, runs, evidence, sync, cache>> /\ NoTrouble
          /\ call' = [call EXCEPT ![c] = NoCall] /\ inflight' = inflight \ {call[c].event}
      BY <1>6 DEF Hear, tables, Discarded
    <2>2. CallsOK'
      BY <1>1, <1>4, <2>1 DEF CallsOK
    <2>3. ThreadsOK'
      BY <1>1, <2>1 DEF CallsOK, ThreadsOK
    <2> QED BY <1>1, <2>1, <2>2, <2>3 DEF Types, RunsOK, SetsOK, Rows, NoTrouble
  <1>7. CASE CompleteEmpty(c)
    <2> DEFINE new == IF call[c].server = "none" THEN NoCall ELSE [call[c] EXCEPT !.client = "none"]
               e == call[c].event
    <2>1. new \in CallStates /\ (new # NoCall => new.event \in Events)
      BY <1>1, <1>3, <1>4 DEF CallStates
    <2>2. /\ UNCHANGED <<board, evidence, sync, cache>> /\ (NoTrouble \/ Trouble)
          /\ call' = [call EXCEPT ![c] = new] /\ inflight' = inflight \ {e}
          /\ runs' = ClosedEmpty(e) \/ runs' = runs
      BY <1>7 DEF CompleteEmpty, Discarded
    <2> HIDE DEF new
    <2>3. CallsOK'
      BY <1>1, <2>1, <2>2 DEF CallsOK
    <2>4. ThreadsOK'
      BY <1>1, <2>2 DEF CallsOK, ThreadsOK
    <2>5. RunsOK'
      <3> HIDE DEF e
      <3>1. runs \in Seq(Runs) /\ Len(runs) \in Nat
        BY <1>1 DEF RunsOK
      <3>2. runs' \in Seq(Runs) /\ Len(runs) = Len(runs')
        BY <2>2, <3>1, MarkedOne DEF ClosedEmpty, Statuses
      <3> QED BY <1>1, <2>2, <3>1, <3>2, RowsGrow
    <2> QED BY <1>1, <2>2, <2>3, <2>4, <2>5, CountersTyped DEF Types, SetsOK
  <1> QED BY <1>5, <1>6, <1>7 DEF Listen

LEMMA AskTypes ==
  ASSUME Types, NEW c \in Calls, NEW e \in Events, Ask(c, e)
  PROVE  Types'
  <1>1. CallsOK /\ ThreadsOK /\ RunsOK /\ SetsOK
    BY DEF Types
  <1>2. UNCHANGED <<board, runs, evidence, inflight, sync, cache>> /\ (NoTrouble \/ Trouble)
    BY DEF Ask, SeemsNew, tables, backend
  <1>3. call[c] = NoCall
    BY OneOfIs DEF Ask, Free
  <1> DEFINE new == [event |-> e, by |-> "decision", client |-> "none", server |-> "begin"]
  <1>4. UNCHANGED call \/ call' = [call EXCEPT ![c] = new]
    BY DEF Ask
  <1>5. new \in CallStates /\ new.event \in Events
    BY DEF CallStates
  <1>6. call[c].client = "none"
    BY <1>3 DEF NoCall
  <1> HIDE DEF new
  <1>7. CallsOK' /\ ThreadsOK'
    <2>1. CASE UNCHANGED call
      BY <1>1, <1>2, <2>1 DEF CallsOK, ThreadsOK
    <2>2. CASE call' = [call EXCEPT ![c] = new]
      BY <1>1, <1>2, <1>5, <1>6, <2>2, CallTypes
    <2> QED BY <1>4, <2>1, <2>2
  <1> QED BY <1>1, <1>2, <1>7, CountersTyped DEF Types, RunsOK, SetsOK, Rows

LEMMA RestartTypes ==
  ASSUME Types, BackendRestarts \/ ResearchRestarts
  PROVE  Types'
  <1>1. CallsOK /\ ThreadsOK /\ RunsOK /\ SetsOK /\ Trouble
    BY DEF Types, BackendRestarts, ResearchRestarts
  <1>2. NoCall \in CallStates
    BY DEF NoCall, CallStates
  <1>3. UNCHANGED tables /\ cache' \subseteq cache /\ inflight' \subseteq inflight
    BY DEF BackendRestarts, ResearchRestarts, backend
  <1>4. sync' = sync \/ sync' = NoSync
    BY DEF BackendRestarts, ResearchRestarts, backend
  <1>5. RunsOK' /\ SetsOK'
    BY <1>1, <1>3, <1>4, CountersTyped DEF RunsOK, SetsOK, tables, Rows, NoSync
  <1>6. CASE BackendRestarts
    <2>1. \A c \in Calls : call'[c] \in {NoCall, [call[c] EXCEPT !.client = "none"]}
      BY <1>6 DEF BackendRestarts
    <2>2. call' = [c \in Calls |-> call'[c]]
      BY <1>6 DEF BackendRestarts
    <2>3. ASSUME NEW c \in Calls
          PROVE  call'[c] \in CallStates /\ (call'[c] # NoCall => call'[c].event \in Events)
      <3>1. CASE call[c].server \in {"none", "answered", "failed"}
        BY <1>2, <1>6, <3>1 DEF BackendRestarts
      <3>2. CASE call[c].server \notin {"none", "answered", "failed"}
        <4>1. call[c] # NoCall
          BY <3>2 DEF NoCall
        <4>2. call'[c] = [call[c] EXCEPT !.client = "none"]
          BY <1>6, <3>2 DEF BackendRestarts
        <4> QED BY <1>1, <4>1, <4>2 DEF CallsOK, CallStates
      <3> QED BY <3>1, <3>2
    <2>4. CallsOK'
      BY <2>2, <2>3 DEF CallsOK
    <2>5. ThreadsOK'
      BY <1>6 DEF BackendRestarts, ThreadsOK
    <2> QED BY <1>5, <2>4, <2>5 DEF Types
  <1>7. CASE ResearchRestarts
    <2>1. call' = [c \in Calls |-> call'[c]]
      BY <1>7 DEF ResearchRestarts
    <2>2. ASSUME NEW c \in Calls
          PROVE  /\ call'[c] \in CallStates /\ (call'[c] # NoCall => call'[c].event \in Events)
                 /\ call[c].client # "none" =>
                      call'[c].event = call[c].event /\ call'[c].by = call[c].by
                      /\ call'[c].client = call[c].client
      <3>1. call[c] \in CallStates /\ (call[c] # NoCall => call[c].event \in Events)
        BY <1>1 DEF CallsOK
      <3>2. CASE call[c].client = "none"
        <4>1. call'[c] = NoCall
          BY <1>7, <3>2 DEF ResearchRestarts
        <4> QED BY <1>2, <3>2, <4>1
      <3>3. CASE call[c].client # "none"
        <4>1. call[c] # NoCall
          BY <3>3 DEF NoCall
        <4>2. \E step \in {"failed", "none", call[c].server} : call'[c] = [call[c] EXCEPT !.server = step]
          <5>1. call[c] = [call[c] EXCEPT !.server = call[c].server]
            BY <3>1 DEF CallStates
          <5> QED BY <1>7, <3>3, <5>1 DEF ResearchRestarts
        <4> QED BY <3>1, <4>1, <4>2 DEF CallStates
      <3> QED BY <3>2, <3>3
    <2>3. CallsOK'
      BY <2>1, <2>2 DEF CallsOK
    <2>4. ThreadsOK'
      BY <1>1, <1>7, <2>2 DEF ResearchRestarts, ThreadsOK, backend
    <2> QED BY <1>5, <2>3, <2>4 DEF Types
  <1> QED BY <1>6, <1>7

LEMMA TypesStep == Types /\ [Next]_vars => Types'
  <1> SUFFICES ASSUME Types, [Next]_vars PROVE Types'
    OBVIOUS
  <1>1. CallsOK /\ ThreadsOK /\ RunsOK /\ SetsOK
    BY DEF Types
  <1>2. CASE Sync \/ SyncFails
    BY <1>2, SyncTypes
  <1>3. ASSUME NEW c \in Calls, Serve(c) \/ Listen(c) PROVE Types'
    BY <1>3, ServeTypes, ListenTypes
  <1>4. ASSUME NEW e \in Events, Expire(e) \/ Leave(e) PROVE Types'
    BY <1>1, <1>4 DEF Expire, Leave, Types, CallsOK, ThreadsOK, RunsOK, SetsOK, Rows, tables, backend,
                      NoTrouble
  <1>5. ASSUME NEW e \in Events, RunByHand(e) PROVE Types'
    <2>1. [event |-> e, status |-> "completed"] \in Runs
      BY DEF Runs
    <2>2. runs' \in Seq(Runs) /\ Len(runs) <= Len(runs')
      BY <1>1, <1>5, <2>1 DEF RunByHand, RunsOK
    <2>3. RunsOK'
      BY <1>1, <1>5, <2>2, RowsGrow DEF RunByHand, backend
    <2> QED BY <1>1, <1>5, <2>3, CountersTyped
            DEF RunByHand, Types, CallsOK, ThreadsOK, SetsOK, backend
  <1>6. ASSUME NEW e \in Events, NEW c \in Calls, Ask(c, e) PROVE Types'
    BY <1>6, AskTypes
  <1>7. CASE BackendRestarts \/ ResearchRestarts
    BY <1>7, RestartTypes
  <1>8. CASE UNCHANGED vars
    BY <1>1, <1>8 DEF vars, Types, CallsOK, ThreadsOK, RunsOK, SetsOK, Rows, tables, backend
  <1> QED BY <1>2, <1>3, <1>4, <1>5, <1>6, <1>7, <1>8 DEF Next

-------------------------------------------------------------------------------
(***************************************************************************)
(* While it is calm.                                                       *)
(***************************************************************************)
LEMMA StoredIs ==
  ASSUME NEW e
  PROVE  /\ Stored(e) <=> \E i \in Rows : runs[i].event = e /\ runs[i].status = "completed"
         /\ Stored(e)' <=> \E i \in Rows' : runs'[i].event = e /\ runs'[i].status = "completed"
         /\ OpenRuns(e) = {i \in Rows : runs[i].event = e /\ runs[i].status # "completed"}
  BY DEF Stored, Completed, OpenRuns, RunsOf, Rows

LEMMA Largest ==
  ASSUME NEW n \in Nat, NEW S \in SUBSET (1..n), S # {}
  PROVE  \E k \in S : \A l \in S : l <= k
  <1> DEFINE down == {d \in 0..n : n - d \in S}
  <1>1. down \in SUBSET Nat /\ down # {}
    <2>1. PICK i \in S : TRUE
      OBVIOUS
    <2>2. i \in 1..n /\ n - (n - i) = i /\ n - i \in 0..n
      OBVIOUS
    <2>3. n - i \in down
      BY <2>2
    <2>4. down \subseteq 0..n
      OBVIOUS
    <2> HIDE DEF down
    <2> QED BY <2>3, <2>4
  <1>2. PICK m \in down : \A l \in down : ~ (<<l, m>> \in OpToRel(<, Nat))
    BY <1>1, NatLessThanWellFounded, WFMin, Zenon
  <1>3. \A l \in down : ~ (l < m)
    BY <1>1, <1>2 DEF OpToRel
  <1>4. n - m \in S
    BY <1>2
  <1>5. ASSUME NEW l \in S PROVE l <= n - m
    <2>0. m \in 0..n
      BY <1>2
    <2>1. l \in 1..n /\ n - l \in 0..n /\ n - (n - l) = l /\ m \in 0..n
      BY <2>0
    <2>2. n - l \in down
      BY <2>1
    <2> QED BY <1>3, <2>1, <2>2
  <1> QED BY <1>4, <1>5

LEMMA NewestIn ==
  ASSUME NEW n \in Nat, NEW S \in SUBSET (1..n), S # {}
  PROVE  Newest(S) \in S /\ \A i \in S : i <= Newest(S)
  BY Largest DEF Newest

LEMMA NewestIs ==
  ASSUME RunsOK, NEW S \in SUBSET Rows, S # {}
  PROVE  Newest(S) \in S
  <1>1. Len(runs) \in Nat
    BY DEF RunsOK
  <1> QED BY <1>1, NewestIn DEF Rows

LEMMA RowsFinite ==
  ASSUME RunsOK, NEW S \in SUBSET Rows
  PROVE  IsFiniteSet(S) /\ Cardinality(S) \in Nat
  <1>1. Len(runs) \in Nat
    BY DEF RunsOK
  <1>2. IsFiniteSet(1..Len(runs))
    BY <1>1, FS_Interval
  <1>3. IsFiniteSet(S)
    BY <1>2, FS_Subset DEF Rows
  <1> QED BY <1>3, FS_CardinalityType

\* Another call that works on an event means that the event is searched.
LEMMA OnlyCall ==
  ASSUME CallsKnown, NEW c \in Calls, call[c] # NoCall, NEW steps, "none" \notin steps,
         AtServer(call[c].event, steps)
  PROVE  call[c].server \in steps \/ Stored(call[c].event)
  <1>1. PICK d \in Calls : call[d].event = call[c].event /\ call[d].server \in steps
    BY DEF AtServer
  <1>2. call[d] # NoCall
    BY <1>1 DEF NoCall
  <1> QED BY <1>1, <1>2 DEF CallsKnown, ApartCalls

\* The run of the event is closed, or a closed one is recorded.
Closes(e) ==
  /\ Rows \subseteq Rows'
  /\ \A i \in Rows : IF runs[i].event = e THEN runs'[i] = Run(e, "completed")
                                          ELSE runs'[i] = runs[i]
  /\ \A i \in Rows' \ Rows : runs'[i] = Run(e, "completed")
  /\ Stored(e)'

\* A run of the event begins, for which no thread waits.
Opens(e) ==
  /\ OpenRuns(e) = {} /\ e \notin inflight
  /\ Rows \subseteq Rows'
  /\ \A i \in Rows : runs'[i] = runs[i]
  /\ \A i \in Rows' \ Rows : runs'[i] = Run(e, "running")
  /\ \A i, j \in Rows' \ Rows : i = j

LEMMA RunsStep ==
  ASSUME RunsOK, RunsOK', NEW e, runs' = runs \/ Closes(e) \/ Opens(e)
  PROVE  /\ \A x : Stored(x) => Stored(x)'
         /\ Rows \subseteq Rows'
         /\ \A i \in Rows : runs'[i].event = runs[i].event /\ (runs[i].event # e => runs'[i] = runs[i])
         /\ \A i \in Rows' : runs'[i].event # e => i \in Rows
         /\ \A i \in Rows' : runs'[i].status # "completed" =>
              \/ i \in Rows /\ runs'[i] = runs[i]
              \/ i \notin Rows /\ Opens(e) /\ runs'[i] = Run(e, "running")
  <1>1. CASE runs' = runs
    BY <1>1, StoredIs DEF Rows
  <1>2. CASE Closes(e)
    <2>1. \A i \in Rows : runs'[i].event = runs[i].event /\ (runs[i].event # e => runs'[i] = runs[i])
                          /\ (runs'[i].status = "completed" \/ runs'[i] = runs[i])
      BY <1>2, RunIs DEF Closes
    <2>2. \A i \in Rows' \ Rows : runs'[i].event = e /\ runs'[i].status = "completed"
      BY <1>2, RunIs DEF Closes
    <2>3. Rows \subseteq Rows'
      BY <1>2, RunIs DEF Closes
    <2>4. \A x : Stored(x) => Stored(x)'
      BY <2>1, <2>3, StoredIs
    <2> QED BY <2>1, <2>2, <2>3, <2>4
  <1>3. CASE Opens(e)
    <2>1. \A i \in Rows : runs'[i] = runs[i]
      BY <1>3 DEF Opens
    <2>2. \A i \in Rows' \ Rows : runs'[i] = Run(e, "running") /\ runs'[i].event = e
      BY <1>3, RunIs DEF Opens
    <2>3. Rows \subseteq Rows'
      BY <1>3 DEF Opens
    <2>4. \A x : Stored(x) => Stored(x)'
      BY <2>1, <2>3, StoredIs
    <2> QED BY <1>3, <2>1, <2>2, <2>3, <2>4
  <1> QED BY <1>1, <1>2, <1>3

LEMMA OtherEvents ==
  ASSUME RunsOK, RunsOK', NEW e, runs' = runs \/ Closes(e) \/ Opens(e), NEW x, x # e
  PROVE  /\ Stored(x)' = Stored(x) /\ OpenRuns(x)' = OpenRuns(x)
         /\ InWork(x) => InWork(x)'
  <1>1. /\ Rows \subseteq Rows'
        /\ \A i \in Rows : runs'[i].event = runs[i].event /\ (runs[i].event # e => runs'[i] = runs[i])
        /\ \A i \in Rows' : runs'[i].event # e => i \in Rows
    BY RunsStep
  <1>2. \A i : i \in Rows' /\ runs'[i].event = x <=> i \in Rows /\ runs[i].event = x
    BY <1>1
  <1>3. \A i \in Rows : runs[i].event = x => runs'[i] = runs[i]
    BY <1>1
  <1>4. /\ Stored(x) <=> \E i \in Rows : runs[i].event = x /\ runs[i].status = "completed"
        /\ Stored(x)' <=> \E i \in Rows' : runs'[i].event = x /\ runs'[i].status = "completed"
    BY StoredIs
  <1>5. Stored(x)' <=> Stored(x)
    BY <1>2, <1>3, <1>4
  <1>6. OpenRuns(x)' = OpenRuns(x)
    <2>1. OpenRuns(x)' = {i \in Rows' : runs'[i].event = x /\ runs'[i].status # "completed"}
      BY DEF OpenRuns, RunsOf, Rows
    <2> QED BY <1>2, <1>3, <2>1, StoredIs
  <1>7. InWork(x) => InWork(x)'
    BY <1>1 DEF InWork, RowsWith
  <1>8. Stored(x) \in BOOLEAN /\ Stored(x)' \in BOOLEAN
    BY DEF Stored
  <1> QED BY <1>5, <1>6, <1>7, <1>8

\* What a search of e, now at that step, leaves behind: nothing for other events.
Found(e, step) ==
  /\ \A x \in evidence' : x \in evidence \/ (x = e /\ Stored(e)')
  /\ \A x \in cache' : (x # e /\ x \in cache) \/ (x = e /\ (Stored(e)' \/ step = "persist"))
  /\ \A x \in Events : searches'[x] # 0 =>
       \/ x # e /\ searches'[x] = searches[x]
       \/ x = e /\ searches'[x] = 1 /\ (Stored(e)' \/ step \in {"search", "persist"})

\* What becomes of the call: only a new search is work that was not there before.
Follows(c, new, e) ==
  new # NoCall => /\ new.event = e /\ CallKnown(c)'
                  /\ Listened(c)' => Listened(c)
                  /\ AtWork(c)' => AtWork(c) \/ ~Stored(e)

\* A step of a call, at either end, that may close the run of its event.
LEMMA CallStep ==
  ASSUME RunsOK, RunsOK', CallsOK, SetsOK, SetsOK', Quiet, NEW c \in Calls, call[c] # NoCall, NEW new, NEW e,
         e = call[c].event, call' = [call EXCEPT ![c] = new], UNCHANGED sync,
         runs' = runs \/ Closes(e) \/ (Opens(e) /\ call[c].server = "begin"),
         inflight' = inflight \/ (inflight' = inflight \ {e} /\ Listened(c) /\ Stored(e)'),
         Follows(c, new, e), AtWork(c) \/ UNCHANGED searches, Found(e, new.server)
  PROVE  Quiet'
  <1>1. OneOpenRun /\ QueuedRest /\ CallsKnown /\ SearchesKnown /\ SlotsKept
    BY DEF Quiet
  <1>2. /\ \A x : Stored(x) => Stored(x)'
        /\ Rows \subseteq Rows'
        /\ \A i \in Rows : runs'[i].event = runs[i].event /\ (runs[i].event # e => runs'[i] = runs[i])
        /\ \A i \in Rows' : runs'[i].event # e => i \in Rows
        /\ \A i \in Rows' : runs'[i].status # "completed" =>
             \/ i \in Rows /\ runs'[i] = runs[i]
             \/ i \notin Rows /\ Opens(e) /\ runs'[i] = Run(e, "running")
    BY RunsStep
  <1>3. OneOpenRun'
    <2> SUFFICES ASSUME NEW i \in Rows', NEW j \in Rows', runs'[i].event = runs'[j].event,
                        runs'[i].status # "completed", runs'[j].status # "completed"
                 PROVE  i = j
      BY DEF OneOpenRun
    <2>1. CASE i \in Rows /\ j \in Rows
      BY <1>1, <1>2, <2>1 DEF OneOpenRun
    <2>2. CASE i \notin Rows /\ j \notin Rows
      BY <1>2, <2>2 DEF Opens
    <2>3. CASE i \in Rows /\ j \notin Rows
      <3>1. OpenRuns(e) = {} /\ runs'[j].event = e /\ runs'[i] = runs[i]
        BY <1>2, <2>3, RunIs DEF Opens
      <3>2. runs[i].event = e /\ runs[i].status # "completed"
        BY <3>1
      <3> QED BY <2>3, <3>1, <3>2, StoredIs
    <2>4. CASE i \notin Rows /\ j \in Rows
      <3>1. OpenRuns(e) = {} /\ runs'[i].event = e /\ runs'[j] = runs[j]
        BY <1>2, <2>4, RunIs DEF Opens
      <3>2. runs[j].event = e /\ runs[j].status # "completed"
        BY <3>1
      <3> QED BY <2>4, <3>1, <3>2, StoredIs
    <2> QED BY <2>1, <2>2, <2>3, <2>4
  <1>4. inflight' \subseteq inflight
    OBVIOUS
  <1>5. QueuedRest'
    <2> SUFFICES ASSUME NEW i \in Rows', runs'[i].status = "queued"
                 PROVE  runs'[i].event \notin inflight'
      BY DEF QueuedRest, RowsWith
    <2>1. i \in Rows /\ runs'[i] = runs[i]
      BY <1>2, RunIs
    <2> QED BY <1>1, <1>4, <2>1 DEF QueuedRest, RowsWith
  <1>6. call'[c] = new
    BY DEF CallsOK
  <1>7. ASSUME NEW d \in Calls, d # c, call'[d] # NoCall
        PROVE  call'[d] = call[d] /\ call[d] # NoCall /\ CallKnown(d)'
    <2>1. call'[d] = call[d] /\ call[d] # NoCall /\ CallKnown(d)
      BY <1>1, <1>7 DEF CallsKnown, CallsOK
    <2>2. PICK f : f = call[d].event
      OBVIOUS
    <2>3. CASE f = e
      <3>1. ApartCalls(c, d) /\ Stored(e)
        BY <1>1, <1>7, <2>1, <2>2, <2>3 DEF CallsKnown, ApartCalls
      <3>2. Stored(e)'
        BY <1>2, <3>1
      <3>3. Listened(d) => e \in inflight' /\ ~AtWork(d)
        BY <2>1, <2>2, <2>3, <3>1 DEF ApartCalls, CallKnown
      <3>4. call[d].server = "begin" => searches'[e] = 0
        BY <2>1, <2>2, <2>3, <3>1 DEF ApartCalls, CallKnown, AtWork
      <3>5. call[d].server = "begin" /\ ~Listened(d) => OpenRuns(e)' = {} /\ e \notin inflight'
        <4> SUFFICES ASSUME call[d].server = "begin", ~Listened(d) PROVE OpenRuns(e)' = {} /\ e \notin inflight'
          OBVIOUS
        <4>1. OpenRuns(e) = {} /\ e \notin inflight /\ ~AtWork(c)
          BY <2>1, <2>2, <2>3, <3>1 DEF ApartCalls, CallKnown, AtWork
        <4>2. runs' = runs \/ Closes(e)
          BY <4>1 DEF AtWork
        <4>3. \A i \in Rows' : runs'[i].event = e => runs'[i].status = "completed"
          <5>1. CASE runs' = runs
            BY <4>1, <5>1, StoredIs DEF Rows
          <5>2. CASE Closes(e)
            BY <5>2, RunIs DEF Closes
          <5> QED BY <4>2, <5>1, <5>2
        <4>4. OpenRuns(e)' = {}
          BY <4>3 DEF OpenRuns, RunsOf, Rows
        <4> QED BY <1>4, <4>1, <4>4
      <3> QED BY <2>1, <2>2, <2>3, <3>2, <3>3, <3>4, <3>5 DEF CallKnown, Listened, AtWork
    <2>4. CASE f # e
      <3>1. Stored(f)' = Stored(f) /\ OpenRuns(f)' = OpenRuns(f) /\ (InWork(f) => InWork(f)')
        BY <2>4, OtherEvents
      <3>2. f \in inflight <=> f \in inflight'
        BY <2>4
      <3>3. f \in Events
        BY <2>1, <2>2 DEF CallsOK
      <3>4. searches[f] = 0 => searches'[f] = 0
        BY <2>4, <3>3 DEF Found
      <3> QED BY <2>1, <2>2, <3>1, <3>2, <3>4 DEF CallKnown, Listened, AtWork
    <2> QED BY <2>1, <2>3, <2>4
  <1>8. CallsKnown'
    <2>1. \A d \in Calls : call'[d] # NoCall => CallKnown(d)'
      BY <1>6, <1>7 DEF Follows
    <2>2. ASSUME NEW d \in Calls, d # c, call'[c] # NoCall, call'[d] # NoCall, call'[c].event = call'[d].event
          PROVE  ApartCalls(c, d)' /\ ApartCalls(d, c)'
      <3>1. call'[d] = call[d] /\ call[d] # NoCall /\ call'[c].event = e /\ call[d].event = e
        BY <1>6, <1>7, <2>2 DEF Follows
      <3>2. ApartCalls(c, d)
        BY <1>1, <2>2, <3>1 DEF CallsKnown
      <3>3. Stored(e)' /\ (Listened(c)' => Listened(c)) /\ (AtWork(c)' => AtWork(c))
        BY <1>2, <1>6, <2>2, <3>2 DEF ApartCalls, Follows
      <3>4. Listened(d)' = Listened(d) /\ AtWork(d)' = AtWork(d)
        BY <3>1 DEF Listened, AtWork
      <3> QED BY <3>1, <3>2, <3>3, <3>4 DEF ApartCalls
    <2>3. ASSUME NEW a \in Calls, NEW d \in Calls, a # c, d # c, a # d, call'[a] # NoCall, call'[d] # NoCall,
                 call'[a].event = call'[d].event
          PROVE  ApartCalls(a, d)'
      <3>1. call'[a] = call[a] /\ call'[d] = call[d] /\ call[a] # NoCall /\ call[d] # NoCall
        BY <1>7, <2>3
      <3>2. ApartCalls(a, d)
        BY <1>1, <2>3, <3>1 DEF CallsKnown
      <3>3. Stored(call[a].event)'
        <4>1. PICK x : x = call[a].event
          OBVIOUS
        <4>2. Stored(x)'
          BY <1>2, <3>2, <4>1 DEF ApartCalls
        <4> QED BY <3>1, <4>1, <4>2
      <3> QED BY <3>1, <3>2, <3>3 DEF ApartCalls, Listened, AtWork
    <2> QED BY <2>1, <2>2, <2>3 DEF CallsKnown
  <1>9. ASSUME NEW x, x # e, NEW steps, AtServer(x, steps) PROVE AtServer(x, steps)'
    BY <1>9 DEF AtServer, CallsOK
  <1>10. ASSUME NEW steps, "none" \notin steps, new.server \in steps PROVE AtServer(e, steps)'
    <2>1. new # NoCall
      BY <1>10 DEF NoCall
    <2> QED BY <1>6, <1>10, <2>1 DEF AtServer, Follows
  <1>11. SearchesKnown'
    <2>1. \A x \in evidence' : Stored(x)'
      BY <1>1, <1>2 DEF SearchesKnown, Found
    <2>2. \A x \in cache' : Stored(x)' \/ AtServer(x, {"persist"})'
      <3> SUFFICES ASSUME NEW x \in cache' PROVE Stored(x)' \/ AtServer(x, {"persist"})'
        OBVIOUS
      <3>1. CASE x = e
        BY <1>10, <3>1 DEF Found
      <3>2. CASE x # e
        BY <1>1, <1>2, <1>9, <3>2 DEF SearchesKnown, Found
      <3> QED BY <3>1, <3>2
    <2>3. ASSUME NEW x \in Events, searches'[x] # 0
          PROVE  searches'[x] = 1 /\ (Stored(x)' \/ AtServer(x, {"search", "persist"})')
      <3>1. CASE x = e
        BY <1>10, <2>3, <3>1 DEF Found
      <3>2. CASE x # e
        BY <1>1, <1>2, <1>9, <2>3, <3>2 DEF SearchesKnown, Found
      <3> QED BY <3>1, <3>2
    <2> QED BY <2>1, <2>2, <2>3 DEF SearchesKnown
  <1>12. SlotsKept'
    <2>1. Claimed' = Claimed /\ Claimed \subseteq Rows
      BY DEF Claimed, RunsOK
    <2>2. \A i \in Claimed' : runs'[i].status # "running"
      BY <1>1, <1>2, <2>1 DEF SlotsKept
    <2>3. Taken' \subseteq Taken
      <3> SUFFICES ASSUME NEW i \in Rows', runs'[i].status = "running", runs'[i].event \in inflight'
                   PROVE  i \in Taken
        BY DEF Taken, RowsWith
      <3>1. CASE i \in Rows /\ runs'[i] = runs[i]
        BY <1>4, <3>1 DEF Taken, RowsWith
      <3>2. CASE Opens(e) /\ runs'[i] = Run(e, "running")
        BY <1>4, <3>2, RunIs DEF Opens
      <3> QED BY <1>2, <3>1, <3>2
    <2>4. Taken \in SUBSET Rows
      BY DEF Taken, RowsWith
    <2>5. IsFiniteSet(Taken) /\ Cardinality(Taken) \in Nat /\ Cardinality(Claimed) \in Nat
      BY <2>1, <2>4, RowsFinite
    <2>6. Cardinality(Taken') <= Cardinality(Taken) /\ Cardinality(Taken') \in Nat
      BY <2>3, <2>5, FS_Subset, FS_CardinalityType
    <2>7. Cardinality(Taken)' + Cardinality(Claimed)' <= Limit
      BY <1>1, <2>1, <2>5, <2>6, QueueBounds DEF SlotsKept
    <2> QED BY <2>2, <2>7 DEF SlotsKept
  <1> QED BY <1>3, <1>5, <1>8, <1>11, <1>12 DEF Quiet

\* persist_research_packet closes the run of the event, or records a closed one.
LEMMA NotedCloses ==
  ASSUME RunsOK, OneOpenRun, NEW e \in Events, runs' = Noted(e, "completed")
  PROVE  Closes(e)
  <1>1. /\ runs \in Seq(Runs) /\ Len(runs) \in Nat /\ "completed" \in Statuses
        /\ \A i \in Rows : runs[i] = Run(runs[i].event, runs[i].status)
    BY RowTypes DEF RunsOK, Statuses
  <1>2. /\ Len(runs') = IF OpenRuns(e) = {} THEN Len(runs) + 1 ELSE Len(runs)
        /\ \A i \in Rows : runs'[i] = IF OpenRuns(e) # {} /\ i = Newest(OpenRuns(e))
                                      THEN Run(runs[i].event, "completed") ELSE runs[i]
        /\ OpenRuns(e) = {} => runs'[Len(runs) + 1] = Run(e, "completed")
    BY <1>1, NotedRuns
  <1>3. CASE OpenRuns(e) = {}
    <2>1. Rows' = Rows \cup {Len(runs) + 1} /\ Len(runs) + 1 \notin Rows
      BY <1>1, <1>2, <1>3 DEF Rows
    <2>2. \A i \in Rows : runs'[i] = runs[i] /\ (runs[i].event = e => runs[i].status = "completed")
      BY <1>2, <1>3, StoredIs
    <2>3. runs'[Len(runs) + 1] = Run(e, "completed")
      BY <1>2, <1>3
    <2>4. Stored(e)'
      BY <2>1, <2>3, StoredIs, RunIs
    <2> QED BY <1>1, <2>1, <2>2, <2>3, <2>4 DEF Closes
  <1>4. CASE OpenRuns(e) # {}
    <2>1. Rows' = Rows
      BY <1>2, <1>4 DEF Rows
    <2> DEFINE k == Newest(OpenRuns(e))
    <2>2. k \in Rows /\ runs[k].event = e /\ runs[k].status # "completed"
      <3>1. OpenRuns(e) \in SUBSET Rows
        BY StoredIs
      <3>2. k \in OpenRuns(e)
        BY <1>4, <3>1, NewestIs
      <3> QED BY <3>2, StoredIs
    <2> HIDE DEF k
    <2>3. \A i \in Rows : runs[i].event = e => i = k \/ runs[i].status = "completed"
      BY <2>2 DEF OneOpenRun
    <2>4. \A i \in Rows : runs'[i] = IF i = k THEN Run(runs[i].event, "completed") ELSE runs[i]
      BY <1>2, <1>4 DEF k
    <2>5. \A i \in Rows : IF runs[i].event = e THEN runs'[i] = Run(e, "completed")
                                               ELSE runs'[i] = runs[i]
      BY <1>1, <2>2, <2>3, <2>4
    <2>6. Stored(e)'
      BY <2>1, <2>2, <2>5, StoredIs, RunIs
    <2> QED BY <2>1, <2>5, <2>6 DEF Closes
  <1> QED BY <1>3, <1>4

\* So does _complete_empty, and leaves nothing open when the run is closed already.
LEMMA EmptyCloses ==
  ASSUME RunsOK, OneOpenRun, NEW e \in Events, runs' = ClosedEmpty(e), RunsOf(e) # {}
  PROVE  Closes(e)
  <1>1. \A i \in Rows : runs[i] = Run(runs[i].event, runs[i].status)
    BY RowTypes DEF RunsOK
  <1>2. CASE OpenRuns(e) # {}
    <2>1. runs' = Noted(e, "completed")
      BY <1>2 DEF ClosedEmpty, Noted
    <2> QED BY <2>1, NotedCloses
  <1>3. CASE OpenRuns(e) = {}
    <2>1. runs' = runs
      BY <1>3 DEF ClosedEmpty
    <2>2. \A i \in Rows : runs[i].event = e => runs[i].status = "completed"
      BY <1>3, StoredIs
    <2>3. \E i \in Rows : runs[i].event = e
      BY DEF RunsOf, Rows
    <2>4. Stored(e)'
      BY <2>1, <2>2, <2>3, StoredIs DEF Rows
    <2> QED BY <1>1, <2>1, <2>2, <2>4 DEF Closes, Rows
  <1> QED BY <1>2, <1>3

LEMMA NothingFails == Calm /\ Calm' => ~Trouble
  BY DEF Calm, Trouble

\* The caller that hears of it, or not, has its event searched.
LEMMA AnsweredKnown ==
  ASSUME CallsOK, NEW c \in Calls, call[c] # NoCall, CallKnown(c), UNCHANGED inflight, NEW e,
         e = call[c].event, Stored(e)', Replies(c, "answered")
  PROVE  \E new : call' = [call EXCEPT ![c] = new] /\ Follows(c, new, e)
  <1> DEFINE new == IF call[c].client = "waiting" THEN [call[c] EXCEPT !.server = "answered"]
                    ELSE IF call[c].client = "closing" THEN [call[c] EXCEPT !.server = "none"]
                    ELSE NoCall
  <1>1. call' = [call EXCEPT ![c] = new]
    BY DEF Replies
  <1>2. call[c] \in CallStates /\ call'[c] = new
    BY <1>1 DEF CallsOK
  <1>3. new # NoCall => /\ new.event = e /\ new.by = "thread" /\ new.server \in {"answered", "none"}
                        /\ new.client # "none" => call[c].client # "none"
    BY <1>2 DEF CallStates, CallKnown
  <1> HIDE DEF new
  <1>4. new # NoCall => ~AtWork(c)' /\ (Listened(c)' => Listened(c))
    BY <1>2, <1>3 DEF AtWork, Listened
  <1>5. new # NoCall => new.event = e /\ CallKnown(c)'
    BY <1>2, <1>3, <1>4 DEF CallKnown, AtWork
  <1> QED BY <1>1, <1>4, <1>5 DEF Follows

LEMMA QuietCheck ==
  ASSUME Types, Types', Quiet, Calm, Calm', NEW c \in Calls, NEW e, e = call[c].event, Check(c)
  PROVE  Quiet'
  <1>1. /\ CallsOK /\ RunsOK /\ RunsOK' /\ SetsOK /\ SetsOK' /\ CallsKnown /\ SearchesKnown /\ OneOpenRun
        /\ call[c] \in CallStates /\ ~Trouble
    BY NothingFails DEF Types, CallsOK, Quiet
  <1>2. call[c].server = "check" /\ UNCHANGED <<runs, board, evidence, inflight, sync, cache>>
    BY DEF Check, tables, backend
  <1>3. call[c] # NoCall /\ e \in Events
    BY <1>1, <1>2 DEF NoCall, CallsOK
  <1>4. CallKnown(c)
    BY <1>1, <1>3 DEF CallsKnown
  <1>5. /\ AtServer(e, {"persist"}) => Stored(e)
        /\ AtServer(e, {"search", "persist"}) => Stored(e)
    BY <1>1, <1>2, <1>3, OnlyCall
  <1>6. UNCHANGED searches
    BY <1>1 DEF Check, SeemsNew, NoTrouble
  <1>7. CASE Known(e) /\ Replies(c, "answered")
    <2>1. Stored(e)
      BY <1>1, <1>5, <1>7 DEF Known, SearchesKnown
    <2>2. Stored(e)'
      BY <1>1, <1>2, <2>1, RunsStep
    <2>3. PICK new : call' = [call EXCEPT ![c] = new] /\ Follows(c, new, e)
      BY <1>1, <1>2, <1>3, <1>4, <1>7, <2>2, AnsweredKnown
    <2>4. Found(e, new.server)
      BY <1>1, <1>2, <1>6, <2>2 DEF SearchesKnown, Found
    <2> QED BY <1>1, <1>2, <1>3, <1>6, <2>3, <2>4, CallStep
  <1>8. CASE e \notin cache /\ ~Stored(e) /\ Goes(c, "begin")
    <2> DEFINE new == [call[c] EXCEPT !.server = "begin"]
    <2>1. call' = [call EXCEPT ![c] = new]
      BY <1>1, <1>8 DEF Goes
    <2>2. Listened(c) /\ searches[e] = 0
      BY <1>1, <1>3, <1>4, <1>5, <1>8 DEF CallKnown, SearchesKnown
    <2>3. new # NoCall /\ new.event = e /\ new.by = call[c].by /\ new.client = call[c].client
          /\ new.server = "begin"
      BY <1>1 DEF CallStates, NoCall
    <2>4. call'[c] = new
      BY <1>1, <2>1 DEF CallsOK
    <2> HIDE DEF new
    <2>5. Stored(e)' = Stored(e) /\ InWork(e)' = InWork(e)
      BY <1>2 DEF Stored, Completed, OpenRuns, RunsOf, InWork, RowsWith, Rows
    <2>6. Listened(c)' /\ CallKnown(c)'
      BY <1>2, <1>4, <1>6, <1>8, <2>2, <2>3, <2>4, <2>5 DEF CallKnown, Listened, AtWork
    <2>7. Follows(c, new, e)
      BY <1>8, <2>2, <2>3, <2>6 DEF Follows
    <2>8. Found(e, new.server)
      BY <1>1, <1>2, <1>6, <1>8, <2>2, <2>5 DEF Found, SearchesKnown
    <2> QED BY <1>1, <1>2, <1>3, <1>6, <2>1, <2>7, <2>8, CallStep
  <1> QED BY <1>1, <1>7, <1>8 DEF Check, SeemsNew

\* The run of an event that its thread waits for is running already.
LEMMA AlreadyRunning ==
  ASSUME RunsOK, OneOpenRun, NEW e \in Events, ~Stored(e), InWork(e)
  PROVE  Noted(e, "running") = runs
  <1>1. PICK i \in RowsWith("running") : runs[i].event = e
    BY DEF InWork
  <1>2. OpenRuns(e) = {i} /\ i \in Rows /\ runs[i].status = "running"
    BY <1>1, StoredIs DEF OneOpenRun, RowsWith
  <1>3. Newest(OpenRuns(e)) = i
    BY <1>2, NewestIs
  <1>4. runs \in Seq(Runs) /\ runs[i] = Run(runs[i].event, "running")
        /\ "running" \in Statuses /\ Len(runs) \in Nat
    BY <1>2, RowTypes DEF RunsOK, Statuses
  <1> DEFINE noted == Noted(e, "running")
  <1>5. /\ noted \in Seq(Runs)
        /\ Len(noted) = IF OpenRuns(e) = {} THEN Len(runs) + 1 ELSE Len(runs)
        /\ \A k \in Rows : noted[k] = IF OpenRuns(e) # {} /\ k = Newest(OpenRuns(e))
                                      THEN Run(runs[k].event, "running") ELSE runs[k]
    BY <1>4, NotedRuns
  <1> HIDE DEF noted
  <1>6. \A k \in Rows : noted[k] = runs[k]
    BY <1>2, <1>3, <1>4, <1>5
  <1>7. Len(noted) = Len(runs)
    BY <1>2, <1>5
  <1>8. noted = runs
    BY <1>4, <1>5, <1>6, <1>7 DEF Rows
  <1> QED BY <1>8 DEF noted

\* begin_research_run adds a run when there is no open one.
LEMMA NotedOpens ==
  ASSUME RunsOK, NEW e \in Events, OpenRuns(e) = {}, e \notin inflight, runs' = Noted(e, "running")
  PROVE  Opens(e)
  <1>1. runs \in Seq(Runs) /\ Len(runs) \in Nat /\ "running" \in Statuses
    BY DEF RunsOK, Statuses
  <1>2. /\ Len(runs') = Len(runs) + 1
        /\ \A i \in Rows : runs'[i] = runs[i]
        /\ runs'[Len(runs) + 1] = Run(e, "running")
    BY <1>1, NotedRuns
  <1>3. Rows' = Rows \cup {Len(runs) + 1}
    BY <1>1, <1>2 DEF Rows
  <1> QED BY <1>2, <1>3 DEF Opens

LEMMA QuietBegin ==
  ASSUME Types, Types', Quiet, Calm, Calm', NEW c \in Calls, NEW e, e = call[c].event, Begin(c)
  PROVE  Quiet'
  <1>1. /\ CallsOK /\ RunsOK /\ RunsOK' /\ SetsOK /\ SetsOK' /\ CallsKnown /\ SearchesKnown /\ OneOpenRun
        /\ call[c] \in CallStates /\ ~Trouble
    BY NothingFails DEF Types, CallsOK, Quiet
  <1> DEFINE new == [call[c] EXCEPT !.server = "search"]
  <1>2. /\ call[c].server = "begin" /\ UNCHANGED <<board, evidence, inflight, sync, cache>>
        /\ call' = [call EXCEPT ![c] = new]
        /\ runs' = Noted(e, "running") /\ searches' = [searches EXCEPT ![e] = @ + 1]
    BY <1>1 DEF Begin, backend, Goes
  <1>3. call[c] # NoCall /\ e \in Events
    BY <1>1, <1>2 DEF NoCall, CallsOK
  <1>4. CallKnown(c) /\ AtWork(c) /\ searches[e] = 0
    BY <1>1, <1>2, <1>3 DEF CallsKnown, CallKnown, AtWork
  <1>5. new # NoCall /\ new.event = e /\ new.by = call[c].by /\ new.client = call[c].client
        /\ new.server = "search"
    BY <1>1 DEF CallStates, NoCall
  <1>6. call'[c] = new
    BY <1>1, <1>2 DEF CallsOK
  <1> HIDE DEF new
  <1>7. \A x \in Events : searches'[x] = IF x = e THEN 1 ELSE searches[x]
    BY <1>1, <1>2, <1>3, <1>4 DEF SetsOK
  <1>8. Listened(c)' = Listened(c)
    BY <1>5, <1>6 DEF Listened
  <1>9. AtServer(e, {"persist"}) => Stored(e)
    BY <1>1, <1>2, <1>3, OnlyCall
  <1>10. CASE Listened(c)
    <2>1. ~Stored(e) /\ InWork(e) /\ e \in inflight
      BY <1>4, <1>10 DEF CallKnown
    <2>2. runs' = runs
      BY <1>1, <1>2, <1>3, <2>1, AlreadyRunning
    <2>3. Stored(e)' = Stored(e) /\ InWork(e)' = InWork(e)
      BY <2>2 DEF Stored, Completed, OpenRuns, RunsOf, InWork, RowsWith, Rows
    <2>4. CallKnown(c)'
      <3>1. /\ call'[c].event = e /\ call'[c].by = "thread" /\ call'[c].server = "search"
            /\ Listened(c)' /\ e \in inflight' /\ InWork(e)' /\ ~Stored(e)'
        BY <1>2, <1>4, <1>5, <1>6, <1>8, <1>10, <2>1, <2>3 DEF CallKnown
      <3> QED BY <3>1 DEF CallKnown, AtWork
    <2>5. Follows(c, new, e)
      BY <1>4, <1>5, <1>8, <2>4 DEF Follows
    <2>6. Found(e, new.server)
      BY <1>1, <1>2, <1>5, <1>7, <1>9, <2>1 DEF Found, SearchesKnown
    <2> QED BY <1>1, <1>2, <1>3, <1>4, <2>2, <2>5, <2>6, CallStep
  <1>11. CASE ~Listened(c)
    <2>1. OpenRuns(e) = {} /\ e \notin inflight /\ Stored(e)
      BY <1>2, <1>4, <1>11 DEF CallKnown
    <2>2. Opens(e)
      BY <1>1, <1>2, <1>3, <2>1, NotedOpens
    <2>3. Stored(e)'
      BY <1>1, <2>1, <2>2, RunsStep
    <2>4. CallKnown(c)'
      BY <1>4, <1>5, <1>6, <1>8, <1>11, <2>3 DEF CallKnown, AtWork
    <2>5. Follows(c, new, e)
      BY <1>4, <1>5, <1>8, <2>4 DEF Follows
    <2>6. Found(e, new.server)
      BY <1>1, <1>2, <1>5, <1>7, <2>3 DEF Found, SearchesKnown
    <2> QED BY <1>1, <1>2, <1>3, <1>4, <2>2, <2>5, <2>6, CallStep
  <1> QED BY <1>10, <1>11

LEMMA QuietServe ==
  ASSUME Types, Types', Quiet, Calm, Calm', NEW c \in Calls, NEW e, e = call[c].event,
         Search(c) \/ Persist(c)
  PROVE  Quiet'
  <1>1. /\ CallsOK /\ RunsOK /\ RunsOK' /\ SetsOK /\ SetsOK' /\ CallsKnown /\ SearchesKnown /\ OneOpenRun
        /\ call[c] \in CallStates /\ ~Trouble
    BY NothingFails DEF Types, CallsOK, Quiet
  <1>2. call[c].server \in {"search", "persist"} /\ UNCHANGED <<board, inflight, sync>>
    BY DEF Search, Persist, tables, backend
  <1>3. call[c] # NoCall /\ e \in Events
    BY <1>1, <1>2 DEF NoCall, CallsOK
  <1>4. CallKnown(c) /\ AtWork(c)
    BY <1>1, <1>2, <1>3 DEF CallsKnown, AtWork
  <1>5. searches[e] # 0 => searches[e] = 1
    BY <1>1, <1>3 DEF SearchesKnown
  <1>6. CASE Search(c)
    <2> DEFINE new == [call[c] EXCEPT !.server = "persist"]
    <2>1. /\ call' = [call EXCEPT ![c] = new] /\ cache' = cache \cup {e}
          /\ UNCHANGED <<runs, evidence, searches>> /\ call[c].server = "search"
      BY <1>1, <1>6 DEF Search, Goes, NoTrouble, tables
    <2>2. new # NoCall /\ new.event = e /\ new.by = call[c].by /\ new.client = call[c].client
          /\ new.server = "persist"
      BY <1>1 DEF CallStates, NoCall
    <2>3. call'[c] = new
      BY <1>1, <2>1 DEF CallsOK
    <2> HIDE DEF new
    <2>4. Stored(e)' = Stored(e) /\ InWork(e)' = InWork(e) /\ Listened(c)' = Listened(c)
      BY <2>1, <2>2, <2>3 DEF Stored, Completed, OpenRuns, RunsOf, InWork, RowsWith, Rows, Listened
    <2>5. CallKnown(c)'
      BY <1>2, <1>4, <2>1, <2>2, <2>3, <2>4 DEF CallKnown, AtWork
    <2>6. Follows(c, new, e)
      BY <1>4, <2>2, <2>4, <2>5 DEF Follows
    <2>7. Found(e, new.server)
      BY <1>5, <2>1, <2>2 DEF Found
    <2> QED BY <1>1, <1>2, <1>3, <1>4, <2>1, <2>6, <2>7, CallStep
  <1>7. CASE Persist(c)
    <2>1. /\ Replies(c, "answered") /\ runs' = Noted(e, "completed") /\ evidence' \subseteq evidence \cup {e}
          /\ UNCHANGED <<cache, searches>> /\ call[c].server = "persist"
      BY <1>1, <1>7 DEF Persist, NoTrouble, backend
    <2>2. Closes(e)
      BY <1>1, <1>3, <2>1, NotedCloses
    <2>3. Stored(e)'
      BY <2>2 DEF Closes
    <2>4. PICK new : call' = [call EXCEPT ![c] = new] /\ Follows(c, new, e)
      BY <1>1, <1>2, <1>3, <1>4, <2>1, <2>3, AnsweredKnown
    <2>5. Found(e, new.server)
      BY <1>5, <2>1, <2>3 DEF Found
    <2> QED BY <1>1, <1>2, <1>3, <1>4, <2>2, <2>4, <2>5, CallStep
  <1> QED BY <1>6, <1>7

LEMMA QuietListen ==
  ASSUME Types, Types', Quiet, Calm, Calm', NEW c \in Calls, NEW e, e = call[c].event, Listen(c)
  PROVE  Quiet'
  <1>1. /\ CallsOK /\ RunsOK /\ RunsOK' /\ SetsOK /\ SetsOK' /\ CallsKnown /\ SearchesKnown /\ OneOpenRun
        /\ call[c] \in CallStates /\ ~Trouble
    BY NothingFails DEF Types, CallsOK, Quiet
  <1>2. call[c].client \in {"waiting", "closing"} /\ UNCHANGED <<evidence, sync, cache, searches>>
    BY <1>1 DEF Listen, Hear, GiveUp, CompleteEmpty, tables, backend, NoTrouble
  <1>3. call[c] # NoCall /\ e \in Events /\ Listened(c)
    BY <1>1, <1>2 DEF NoCall, CallsOK, Listened
  <1>4. CallKnown(c) /\ call[c].by = "thread" /\ (Stored(e) \/ InWork(e))
    BY <1>1, <1>2, <1>3 DEF CallsKnown, CallKnown
  <1>5. CASE GiveUp(c)
    <2> DEFINE new == [call[c] EXCEPT !.client = "closing"]
    <2>1. call[c].server # "failed"
      BY <1>4 DEF CallKnown
    <2>2. new = [call[c] EXCEPT !.client = "closing", !.server = call[c].server]
      BY <1>1 DEF CallStates
    <2>3. call' = [call EXCEPT ![c] = new] /\ UNCHANGED <<runs, inflight>>
      BY <1>4, <1>5, <2>1, <2>2 DEF GiveUp, tables, backend
    <2>4. new # NoCall /\ new.event = e /\ new.by = "thread" /\ new.client = "closing"
          /\ new.server = call[c].server
      BY <1>1, <1>4 DEF CallStates, NoCall
    <2>5. call'[c] = new
      BY <1>1, <2>3 DEF CallsOK
    <2> HIDE DEF new
    <2>6. Stored(e)' = Stored(e) /\ InWork(e)' = InWork(e) /\ Listened(c)'
      BY <2>3, <2>4, <2>5 DEF Stored, Completed, OpenRuns, RunsOf, InWork, RowsWith, Rows, Listened
    <2>7. CallKnown(c)'
      BY <1>2, <1>3, <1>4, <2>3, <2>4, <2>5, <2>6 DEF CallKnown, AtWork
    <2>8. Follows(c, new, e)
      BY <1>3, <2>4, <2>5, <2>6, <2>7 DEF Follows, AtWork
    <2>9. AtServer(e, {"persist"}) => new.server = "persist" \/ Stored(e)
      BY <1>1, <1>3, <2>4, OnlyCall
    <2>10. AtServer(e, {"search", "persist"}) => new.server \in {"search", "persist"} \/ Stored(e)
      BY <1>1, <1>3, <2>4, OnlyCall
    <2>11. Found(e, new.server)
      BY <1>1, <1>2, <2>6, <2>9, <2>10 DEF Found, SearchesKnown
    <2> QED BY <1>1, <1>2, <1>3, <2>3, <2>8, <2>11, CallStep
  <1>6. CASE Hear(c)
    <2>1. /\ call' = [call EXCEPT ![c] = NoCall] /\ runs' = runs /\ inflight' = inflight \ {e}
          /\ call[c].server = "answered"
      BY <1>6 DEF Hear, Discarded, tables
    <2>2. Stored(e)
      BY <1>4, <2>1 DEF CallKnown
    <2>3. Stored(e)'
      BY <2>1, <2>2 DEF Stored, Completed, OpenRuns, RunsOf
    <2>4. Found(e, NoCall.server)
      BY <1>1, <1>2, <2>3 DEF Found, SearchesKnown
    <2>5. Follows(c, NoCall, e)
      BY DEF Follows
    <2> QED BY <1>1, <1>2, <1>3, <2>1, <2>3, <2>4, <2>5, CallStep
  <1>7. CASE CompleteEmpty(c)
    <2> DEFINE new == IF call[c].server = "none" THEN NoCall ELSE [call[c] EXCEPT !.client = "none"]
    <2>1. /\ call' = [call EXCEPT ![c] = new] /\ inflight' = inflight \ {e} /\ runs' = ClosedEmpty(e)
      BY <1>1, <1>7 DEF CompleteEmpty, Discarded
    <2>2. RunsOf(e) # {}
      BY <1>4, StoredIs DEF InWork, RowsWith, RunsOf, Rows
    <2>3. Closes(e)
      BY <1>1, <1>3, <2>1, <2>2, EmptyCloses
    <2>4. Stored(e)' /\ e \notin inflight' /\ OpenRuns(e)' = {}
      <3>1. \A i \in Rows' : runs'[i].event = e => runs'[i].status = "completed"
        BY <2>3, RunIs DEF Closes
      <3>2. OpenRuns(e)' = {}
        BY <3>1 DEF OpenRuns, RunsOf, Rows
      <3> QED BY <2>1, <2>3, <3>2 DEF Closes
    <2>5. new # NoCall => new.event = e /\ new.by = "thread" /\ new.client = "none" /\ new.server # "failed"
                          /\ new.server = call[c].server
      BY <1>1, <1>4 DEF CallStates, CallKnown
    <2>6. call'[c] = new
      BY <1>1, <2>1 DEF CallsOK
    <2> HIDE DEF new
    <2>7. new # NoCall => new.event = e /\ CallKnown(c)' /\ ~Listened(c)'
      BY <1>2, <1>4, <2>4, <2>5, <2>6 DEF CallKnown, Listened
    <2>8. Follows(c, new, e)
      BY <2>5, <2>6, <2>7 DEF Follows, AtWork
    <2>9. Found(e, new.server)
      BY <1>1, <1>2, <2>4 DEF Found, SearchesKnown
    <2> QED BY <1>1, <1>2, <1>3, <2>1, <2>3, <2>4, <2>8, <2>9, CallStep
  <1> QED BY <1>5, <1>6, <1>7 DEF Listen

LEMMA QuietStutter ==
  ASSUME Quiet, UNCHANGED <<call, runs, evidence, inflight, sync, searches>>, cache' \subseteq cache
  PROVE  Quiet'
  BY DEF Quiet, OneOpenRun, QueuedRest, CallsKnown, SearchesKnown, SlotsKept, CallKnown, ApartCalls, AtWork,
         InWork, Listened, Claimed, Taken, AtServer, RowsWith, Rows, Stored, Completed, OpenRuns, RunsOf

LEMMA QuietAsk ==
  ASSUME Types, Types', Quiet, Calm, Calm', NEW c \in Calls, NEW e \in Events, Ask(c, e)
  PROVE  Quiet'
  <1>1. RunsOK /\ ~Trouble /\ SearchesKnown
    BY NothingFails DEF Types, Quiet
  <1>2. Stored(e)
    <2>1. CASE ~Waiting(e)
      <3>1. CASE e \in evidence
        BY <1>1, <3>1 DEF SearchesKnown
      <3>2. CASE ~NotSearched(e)
        <4>1. RunsOf(e) \in SUBSET Rows
          BY DEF RunsOf, Rows
        <4>2. Newest(RunsOf(e)) \in RunsOf(e)
          BY <1>1, <3>2, <4>1, NewestIs DEF NotSearched
        <4> QED BY <3>2, <4>2, StoredIs DEF NotSearched, RunsOf, Rows
      <3> QED BY <2>1, <3>1, <3>2 DEF Waiting
    <2> QED BY <2>1 DEF Ask, Stored
  <1>3. UNCHANGED <<call, runs, evidence, inflight, sync, cache, searches>>
    BY <1>1, <1>2 DEF Ask, SeemsNew, NoTrouble, tables, backend
  <1> QED BY <1>3, QuietStutter

LEMMA QuietOther ==
  ASSUME Types, Types', Quiet, Calm, Calm', NEW e \in Events, Expire(e) \/ Leave(e) \/ RunByHand(e)
  PROVE  Quiet'
  <1>1. ~Trouble
    BY NothingFails
  <1>2. UNCHANGED <<call, runs, evidence, inflight, sync, searches>> /\ cache' \subseteq cache
    BY <1>1 DEF Expire, Leave, RunByHand, NoTrouble, tables, backend
  <1> QED BY <1>2, QuietStutter

\* Rows that are requeued or claimed stay open.
LEMMA StayOpen ==
  ASSUME Rows' = Rows, \A i \in Rows : /\ runs'[i].event = runs[i].event
                                       /\ runs'[i].status = "completed" <=> runs[i].status = "completed"
  PROVE  /\ OneOpenRun => OneOpenRun'
         /\ \A x : (Stored(x) <=> Stored(x)') /\ OpenRuns(x)' = OpenRuns(x)
  <1>1. OneOpenRun => OneOpenRun'
    BY DEF OneOpenRun
  <1>2. ASSUME NEW x PROVE (Stored(x) <=> Stored(x)') /\ OpenRuns(x)' = OpenRuns(x)
    <2>1. Stored(x) <=> Stored(x)'
      BY StoredIs
    <2>2. OpenRuns(x)' = {i \in Rows' : runs'[i].event = x /\ runs'[i].status # "completed"}
      BY DEF OpenRuns, RunsOf, Rows
    <2>3. OpenRuns(x)' = OpenRuns(x)
      BY <2>2, StoredIs
    <2> QED BY <2>1, <2>3
  <1> QED BY <1>1, <1>2

\* A row that is requeued has no thread, and takes no slot.
LEMMA QuietRequeue ==
  ASSUME Types, Types', Quiet, Calm, Calm', ReadRunning \/ Requeue
  PROVE  Quiet'
  <1>1. /\ RunsOK /\ RunsOK' /\ ~Trouble /\ OneOpenRun /\ QueuedRest /\ CallsKnown /\ SearchesKnown /\ SlotsKept
        /\ runs \in Seq(Runs) /\ "queued" \in Statuses
    BY NothingFails DEF Types, Quiet, RunsOK, Statuses
  <1>2. UNCHANGED <<call, evidence, inflight, cache, searches>> /\ sync'.at # "claiming"
    BY <1>1 DEF ReadRunning, Requeue, tables, NoTrouble, Overwritten, NoSync
  <1>3. PICK lost \in SUBSET Rows :
          /\ Rows' = Rows
          /\ \A i \in lost : /\ runs'[i].event = runs[i].event /\ runs'[i].status = "queued"
                             /\ runs[i].event \notin inflight /\ runs[i].status # "completed"
          /\ \A i \in Rows \ lost : runs'[i] = runs[i]
    <2>1. CASE ReadRunning
      <3>1. runs' = runs
        BY <2>1 DEF ReadRunning, tables
      <3>2. Rows' = Rows /\ {} \in SUBSET Rows
        BY <3>1 DEF Rows
      <3> QED BY <3>1, <3>2
    <2>2. CASE Requeue
      <3>1. PICK lost \in {Abandoned(sync.rows), Abandoned(sync.rows) \ Ended(sync.rows)} :
              runs' = WithAll(lost, "queued") /\ Overwritten(lost)
        BY <2>2 DEF Requeue
      <3>2. lost \in SUBSET Rows /\ \A i \in lost : runs[i].event \notin inflight /\ runs[i].status # "completed"
        BY <1>1, <3>1 DEF Abandoned, RunsOK, Overwritten, Ended
      <3>3. /\ Len(runs') = Len(runs)
            /\ \A i \in lost : runs'[i] = Run(runs[i].event, "queued")
            /\ \A i \in Rows \ lost : runs'[i] = runs[i]
        BY <1>1, <3>1, <3>2, MarkedAll
      <3>4. Rows' = Rows
        BY <3>3 DEF Rows
      <3>5. \A i \in lost : runs'[i].event = runs[i].event /\ runs'[i].status = "queued"
        BY <3>3, RunIs
      <3> QED BY <3>2, <3>3, <3>4, <3>5
    <2> QED BY <2>1, <2>2
  <1>4. /\ OneOpenRun'
        /\ \A x : (Stored(x) <=> Stored(x)') /\ OpenRuns(x)' = OpenRuns(x)
    <2>1. \A i \in Rows : /\ runs'[i].event = runs[i].event
                          /\ runs'[i].status = "completed" <=> runs[i].status = "completed"
      BY <1>3
    <2> QED BY <1>1, <1>3, <2>1, StayOpen
  <1>5. QueuedRest'
    BY <1>1, <1>2, <1>3 DEF QueuedRest, RowsWith
  <1>6. ASSUME NEW e \in inflight, InWork(e) PROVE InWork(e)'
    BY <1>3, <1>6 DEF InWork, RowsWith
  <1>7. CallsKnown'
    <2>1. ASSUME NEW c \in Calls, CallKnown(c) PROVE CallKnown(c)'
      <3>1. PICK e : e = call[c].event
        OBVIOUS
      <3>2. (Stored(e) <=> Stored(e)') /\ OpenRuns(e)' = OpenRuns(e)
        BY <1>4
      <3>3. e \in inflight /\ InWork(e) => InWork(e)'
        BY <1>6
      <3> QED BY <1>2, <2>1, <3>1, <3>2, <3>3 DEF CallKnown, Listened, AtWork
    <2>2. ASSUME NEW c \in Calls, NEW d \in Calls, ApartCalls(c, d) PROVE ApartCalls(c, d)'
      <3>1. PICK e : e = call[c].event
        OBVIOUS
      <3>2. Stored(e) <=> Stored(e)'
        BY <1>4
      <3> QED BY <1>2, <2>2, <3>1, <3>2 DEF ApartCalls, Listened, AtWork
    <2> QED BY <1>1, <1>2, <2>1, <2>2 DEF CallsKnown
  <1>8. SearchesKnown'
    BY <1>1, <1>2, <1>4 DEF SearchesKnown, AtServer
  <1>9. SlotsKept'
    <2>1. Taken' \subseteq Taken
      BY <1>2, <1>3 DEF Taken, RowsWith
    <2>2. Taken \in SUBSET Rows /\ Claimed \in SUBSET Rows
      BY <1>1 DEF Taken, RowsWith, Claimed, RunsOK
    <2>3. IsFiniteSet(Taken) /\ Cardinality(Taken) \in Nat /\ Cardinality(Claimed) \in Nat
      BY <1>1, <2>2, RowsFinite
    <2>4. Cardinality(Taken') <= Cardinality(Taken) /\ Cardinality(Taken') \in Nat
      BY <2>1, <2>3, FS_Subset, FS_CardinalityType
    <2>5. Claimed' = {} /\ Cardinality(Claimed') = 0
      BY <1>2, FS_EmptySet DEF Claimed
    <2>6. Cardinality(Taken)' + Cardinality(Claimed)' <= Limit
      BY <1>1, <2>3, <2>4, <2>5, QueueBounds DEF SlotsKept
    <2> QED BY <2>5, <2>6 DEF SlotsKept
  <1> QED BY <1>4, <1>5, <1>7, <1>8, <1>9 DEF Quiet

\* What is pending fits into the slots.
LEMMA PendingFits ==
  ASSUME NEW table \in Seq(Runs), Pending(table) # {}
  PROVE  Cardinality(Pending(table)) <= Slots(table)
  <1>1. Len(table) \in Nat /\ DOMAIN table = 1..Len(table)
    OBVIOUS
  <1>2. Pending(table) \in SUBSET (1..Len(table))
    BY <1>1 DEF Pending
  <1>3. PICK i \in Pending(table) : \A j \in Pending(table) : j <= i
    BY <1>1, <1>2, Largest
  <1> DEFINE older == {j \in {k \in DOMAIN table : table[k].status = "queued"} : j <= i}
             busy == {k \in DOMAIN table : table[k].status = "running"}
  <1>4. Cardinality(older) <= Limit - Cardinality(busy)
    BY <1>3 DEF Pending, Slots
  <1>5. Pending(table) \subseteq older
    BY <1>3 DEF Pending
  <1>6. older \subseteq 1..Len(table) /\ busy \subseteq 1..Len(table)
    BY <1>1
  <1>7. Slots(table) = Limit - Cardinality(busy)
    BY DEF Slots
  <1> HIDE DEF older, busy
  <1>8. IsFiniteSet(older) /\ IsFiniteSet(busy)
    <2>1. IsFiniteSet(1..Len(table))
      BY <1>1, FS_Interval
    <2> QED BY <1>6, <2>1, FS_Subset
  <1>9. Cardinality(Pending(table)) <= Cardinality(older) /\ IsFiniteSet(Pending(table))
    BY <1>5, <1>8, FS_Subset
  <1>10. Cardinality(Pending(table)) \in Nat /\ Cardinality(older) \in Nat /\ Cardinality(busy) \in Nat
    BY <1>8, <1>9, FS_CardinalityType
  <1> QED BY <1>4, <1>7, <1>9, <1>10, QueueBounds

LEMMA QuietQueueMissing ==
  ASSUME Types, Types', Quiet, Calm, Calm', QueueMissing
  PROVE  Quiet'
  <1>1. /\ RunsOK /\ RunsOK' /\ SetsOK /\ CallsOK /\ ThreadsOK /\ ~Trouble /\ OneOpenRun /\ QueuedRest
        /\ CallsKnown /\ SearchesKnown /\ SlotsKept
    BY NothingFails DEF Types, Quiet
  <1>2. UNCHANGED <<call, evidence, inflight, cache, searches>>
    BY DEF QueueMissing, NoTrouble
  <1>3. PICK new \in SetToSeqs({e \in board \ evidence : RunsOf(e) = {}}) :
          /\ runs' = runs \o [k \in 1..Len(new) |-> [event |-> new[k], status |-> "queued"]]
          /\ sync' = IF Pending(runs') = {} THEN NoSync ELSE [at |-> "claiming", rows |-> Pending(runs')]
    BY DEF QueueMissing
  <1>4. /\ runs' \in Seq(Runs) /\ Len(runs) <= Len(runs')
        /\ \A i \in Rows : runs'[i] = runs[i]
        /\ \A i \in Rows' \ Rows : /\ runs'[i].event \in Events /\ RunsOf(runs'[i].event) = {}
                                   /\ runs'[i].status = "queued"
        /\ \A i, j \in Rows' \ Rows : runs'[i].event = runs'[j].event => i = j
    BY <1>1, <1>3, MissingQueued
  <1>5. Rows \subseteq Rows'
    BY <1>1, <1>4 DEF Rows, RunsOK
  <1>6. \A i \in Rows' \ Rows : \A j \in Rows : runs'[i].event # runs[j].event
    BY <1>4 DEF RunsOf, Rows
  <1>7. OneOpenRun'
    <2> SUFFICES ASSUME NEW i \in Rows', NEW j \in Rows', runs'[i].event = runs'[j].event,
                        runs'[i].status # "completed", runs'[j].status # "completed"
                 PROVE  i = j
      BY DEF OneOpenRun
    <2>1. CASE i \in Rows /\ j \in Rows
      BY <1>1, <1>4, <2>1 DEF OneOpenRun
    <2>2. CASE i \notin Rows /\ j \notin Rows
      BY <1>4, <2>2
    <2>3. CASE i \in Rows /\ j \notin Rows
      BY <1>4, <1>6, <2>3
    <2>4. CASE i \notin Rows /\ j \in Rows
      BY <1>4, <1>6, <2>4
    <2> QED BY <2>1, <2>2, <2>3, <2>4
  <1>8. RowsWith("running")' = RowsWith("running")
    <2>1. \A i \in Rows' \ Rows : runs'[i].status # "running"
      BY <1>4
    <2> QED BY <1>4, <1>5, <2>1 DEF RowsWith
  <1>9. \A e \in inflight : RunsOf(e) # {}
    <2> SUFFICES ASSUME NEW e \in inflight PROVE RunsOf(e) # {}
      OBVIOUS
    <2>1. PICK c \in Calls : call[c].event = e /\ call[c].client # "none"
      BY <1>1 DEF ThreadsOK
    <2>2. call[c] # NoCall
      BY <2>1 DEF NoCall
    <2>3. Stored(e) \/ InWork(e)
      BY <1>1, <2>1, <2>2 DEF CallsKnown, CallKnown, Listened
    <2> QED BY <2>3, StoredIs DEF InWork, RowsWith, RunsOf, Rows
  <1>10. QueuedRest'
    <2> SUFFICES ASSUME NEW i \in Rows', runs'[i].status = "queued"
                 PROVE  runs'[i].event \notin inflight
      BY <1>2 DEF QueuedRest, RowsWith
    <2>1. CASE i \in Rows
      BY <1>1, <1>4, <2>1 DEF QueuedRest, RowsWith
    <2>2. CASE i \notin Rows
      BY <1>4, <1>9, <2>2
    <2> QED BY <2>1, <2>2
  <1>11. ASSUME NEW x PROVE (Stored(x) <=> Stored(x)') /\ (InWork(x) => InWork(x)')
    <2>1. Stored(x) => Stored(x)'
      BY <1>4, <1>5, StoredIs
    <2>2. Stored(x)' => Stored(x)
      <3> SUFFICES ASSUME NEW i \in Rows', runs'[i].event = x, runs'[i].status = "completed" PROVE Stored(x)
        BY StoredIs
      <3>1. i \in Rows
        BY <1>4
      <3> QED BY <1>4, <3>1, StoredIs
    <2>3. InWork(x) => InWork(x)'
      BY <1>4, <1>5, <1>8 DEF InWork, RowsWith
    <2> QED BY <2>1, <2>2, <2>3
  <1>12. ASSUME NEW x, Stored(x), OpenRuns(x) = {} PROVE OpenRuns(x)' = {}
    <2>1. \A i \in Rows : runs'[i].event = x => runs'[i].status = "completed"
      BY <1>4, <1>12, StoredIs
    <2>2. \E j \in Rows : runs[j].event = x
      BY <1>12, StoredIs
    <2>3. \A i \in Rows' \ Rows : runs'[i].event # x
      BY <1>6, <2>2
    <2>4. \A i \in Rows' : runs'[i].event = x => runs'[i].status = "completed"
      BY <2>1, <2>3
    <2> QED BY <2>4 DEF OpenRuns, RunsOf, Rows
  <1>13. CallsKnown'
    <2>1. ASSUME NEW c \in Calls, CallKnown(c) PROVE CallKnown(c)'
      <3>1. PICK e : e = call[c].event
        OBVIOUS
      <3>2. (Stored(e) <=> Stored(e)') /\ (InWork(e) => InWork(e)')
        BY <1>11
      <3>3. Stored(e) /\ OpenRuns(e) = {} => OpenRuns(e)' = {}
        BY <1>12
      <3> QED BY <1>2, <2>1, <3>1, <3>2, <3>3 DEF CallKnown, Listened, AtWork
    <2>2. ASSUME NEW c \in Calls, NEW d \in Calls, ApartCalls(c, d) PROVE ApartCalls(c, d)'
      <3>1. PICK e : e = call[c].event
        OBVIOUS
      <3>2. Stored(e) <=> Stored(e)'
        BY <1>11
      <3> QED BY <1>2, <2>2, <3>1, <3>2 DEF ApartCalls, Listened, AtWork
    <2> QED BY <1>1, <1>2, <2>1, <2>2 DEF CallsKnown
  <1>14. SearchesKnown'
    BY <1>1, <1>2, <1>11 DEF SearchesKnown, AtServer
  <1>15. SlotsKept'
    <2> DEFINE busy == RowsWith("running")
    <2>1. busy \in SUBSET Rows /\ Taken' \subseteq busy
      BY <1>8 DEF RowsWith, Taken
    <2>2. IsFiniteSet(busy) /\ Cardinality(busy) \in Nat
      BY <1>1, <2>1, RowsFinite
    <2>3. Cardinality(Taken') <= Cardinality(busy) /\ Cardinality(Taken') \in Nat
      <3> HIDE DEF busy
      <3> QED BY <2>1, <2>2, FS_Subset, FS_CardinalityType
    <2>4. CASE Pending(runs') = {}
      <3>1. Claimed' = {} /\ Cardinality(Claimed') = 0
        BY <1>3, <2>4, FS_EmptySet DEF Claimed, NoSync
      <3>2. Taken' = Taken
        BY <1>2, <1>4, <1>8 DEF Taken, RowsWith
      <3>3. Taken \in SUBSET Rows /\ Claimed \in SUBSET Rows
        BY <1>1 DEF Taken, RowsWith, Claimed, RunsOK
      <3>4. Cardinality(Taken) \in Nat /\ Cardinality(Claimed) \in Nat
        BY <1>1, <3>3, RowsFinite
      <3>5. Cardinality(Taken)' + Cardinality(Claimed)' <= Limit
        BY <1>1, <3>1, <3>2, <3>4, QueueBounds DEF SlotsKept
      <3> QED BY <3>1, <3>5 DEF SlotsKept
    <2>5. CASE Pending(runs') # {}
      <3>1. Claimed' = Pending(runs')
        BY <1>3, <2>5 DEF Claimed
      <3>2. DOMAIN runs' = Rows'
        BY <1>4 DEF Rows
      <3>3. Claimed' \subseteq RowsWith("queued")'
        BY <3>1, <3>2 DEF Pending, RowsWith
      <3>4. Slots(runs') = Limit - Cardinality(busy)
        <4>1. Slots(runs') = Limit - Cardinality(RowsWith("running")')
          BY <3>2 DEF Slots, RowsWith
        <4> QED BY <1>8, <4>1
      <3>5. Cardinality(Claimed') <= Limit - Cardinality(busy)
        BY <1>4, <2>5, <3>1, <3>4, PendingFits
      <3>6. Cardinality(Claimed') \in Nat
        <4>1. Claimed' \in SUBSET (1..Len(runs')) /\ Len(runs') \in Nat
          BY <1>4, <3>3 DEF RowsWith, Rows
        <4>2. IsFiniteSet(1..Len(runs'))
          BY <4>1, FS_Interval
        <4>3. IsFiniteSet(Claimed')
          BY <4>1, <4>2, FS_Subset
        <4> QED BY <4>3, FS_CardinalityType
      <3>7. Cardinality(Taken)' + Cardinality(Claimed)' <= Limit
        <4> HIDE DEF busy
        <4> QED BY <2>2, <2>3, <3>5, <3>6, QueueBounds
      <3>8. \A i \in Claimed' : runs'[i].status # "running"
        BY <3>3 DEF RowsWith
      <3> QED BY <3>7, <3>8 DEF SlotsKept
    <2> QED BY <2>4, <2>5
  <1> QED BY <1>7, <1>10, <1>13, <1>14, <1>15 DEF Quiet

LEMMA QuietClaim ==
  ASSUME Types, Types', Quiet, Calm, Calm', Claim
  PROVE  Quiet'
  <1>1. /\ RunsOK /\ RunsOK' /\ CallsOK /\ SetsOK /\ ~Trouble /\ OneOpenRun /\ QueuedRest /\ CallsKnown
        /\ SearchesKnown /\ SlotsKept /\ runs \in Seq(Runs) /\ "running" \in Statuses
    BY NothingFails DEF Types, Quiet, RunsOK, Statuses
  <1>2. UNCHANGED <<evidence, cache>> /\ sync' = NoSync /\ sync.at = "claiming"
    BY DEF Claim
  <1>3. PICK rows \in SUBSET Rows :
          /\ rows \subseteq Claimed /\ UNCHANGED searches
          /\ \A i \in rows : runs[i].status = "queued"
          /\ runs' = WithAll(rows, "running")
          /\ \E start \in Injection(rows, Free) : call' = Started(rows, start)
          /\ inflight' = inflight \cup {runs[i].event : i \in rows}
    <2>1. PICK rows \in {sync.rows, sync.rows \ Ended(sync.rows)} :
            /\ runs' = WithAll(rows, "running") /\ Overwritten(rows)
            /\ \E start \in OneOf(Injection(rows, Free)) : call' = Started(rows, start)
            /\ inflight' = inflight \cup {runs[i].event : i \in rows}
      BY <1>1, Zenon DEF Claim, Started
    <2>2. sync.rows = Claimed /\ Claimed \in SUBSET Rows
      BY <1>1, <1>2 DEF Claimed, RunsOK
    <2>3. rows \subseteq Claimed /\ rows \in SUBSET Rows
      BY <2>1, <2>2
    <2>4. Ended(rows) = {} /\ UNCHANGED searches
      BY <1>1, <2>1 DEF Overwritten, NoTrouble
    <2>5. \A i \in rows : runs[i].status = "queued"
      <3>1. \A i \in rows : runs[i].status \in Statuses
        BY <1>1, <2>3, RowTypes
      <3>2. \A i \in rows : runs[i].status # "completed"
        BY <2>4 DEF Ended
      <3>3. \A i \in rows : runs[i].status # "running"
        BY <1>1, <2>3 DEF SlotsKept
      <3> QED BY <3>1, <3>2, <3>3 DEF Statuses
    <2>6. \E start \in Injection(rows, Free) : call' = Started(rows, start)
      BY <2>1, OneOfIs
    <2> QED BY <2>1, <2>3, <2>4, <2>5, <2>6
  <1>4. PICK start \in Injection(rows, Free) : call' = Started(rows, start)
    BY <1>3
  <1>6. /\ Rows' = Rows
        /\ \A i \in rows : runs'[i].event = runs[i].event /\ runs'[i].status = "running"
        /\ \A i \in Rows \ rows : runs'[i] = runs[i]
    <2>1. /\ Len(runs') = Len(runs)
          /\ \A i \in rows : runs'[i] = Run(runs[i].event, "running")
          /\ \A i \in Rows \ rows : runs'[i] = runs[i]
      BY <1>1, <1>3, MarkedAll
    <2>2. Rows' = Rows
      BY <2>1 DEF Rows
    <2>3. \A i \in rows : runs'[i].event = runs[i].event /\ runs'[i].status = "running"
      BY <2>1, RunIs
    <2> QED BY <2>1, <2>2, <2>3
  <1>7. /\ \A c \in Calls : \A i \in rows : start[i] = c =>
              call[c] = NoCall /\ call'[c] = Asked(runs[i].event) /\ runs[i].event \in Events
        /\ \A c \in Calls : (\A i \in rows : start[i] # c) => call'[c] = call[c]
        /\ \A i, j \in rows : start[i] = start[j] => i = j
    BY <1>1, <1>4, ClaimedCalls
  <1>8. /\ OneOpenRun'
        /\ \A x : (Stored(x) <=> Stored(x)') /\ OpenRuns(x)' = OpenRuns(x)
    <2>1. \A i \in Rows : /\ runs'[i].event = runs[i].event
                          /\ runs'[i].status = "completed" <=> runs[i].status = "completed"
      BY <1>3, <1>6
    <2> QED BY <1>1, <1>6, <2>1, StayOpen
  <1>9. \A i \in rows, j \in Rows : runs[j].status # "completed" /\ runs[i].event = runs[j].event => i = j
    BY <1>1, <1>3 DEF OneOpenRun
  <1>10. QueuedRest'
    <2> SUFFICES ASSUME NEW i \in Rows, runs'[i].status = "queued"
                 PROVE  runs'[i].event \notin inflight'
      BY <1>6 DEF QueuedRest, RowsWith
    <2>1. i \notin rows /\ runs'[i] = runs[i]
      BY <1>6
    <2>2. runs[i].event \notin inflight
      BY <1>1, <2>1 DEF QueuedRest, RowsWith
    <2>3. \A j \in rows : runs[j].event # runs[i].event
      BY <1>9, <2>1
    <2> QED BY <1>3, <2>1, <2>2, <2>3
  <1>11. ASSUME NEW x, InWork(x) PROVE InWork(x)'
    BY <1>3, <1>6, <1>11 DEF InWork, RowsWith
  <1>12. ASSUME NEW c \in Calls, call[c] # NoCall
         PROVE  call'[c] = call[c] /\ CallKnown(c)'
    <2>1. call'[c] = call[c]
      BY <1>7, <1>12
    <2>2. CallKnown(c)
      BY <1>1, <1>12 DEF CallsKnown
    <2>3. PICK e : e = call[c].event
      OBVIOUS
    <2>4. (Stored(e) <=> Stored(e)') /\ OpenRuns(e)' = OpenRuns(e) /\ (InWork(e) => InWork(e)')
      BY <1>8, <1>11
    <2>5. OpenRuns(e) = {} => \A i \in rows : runs[i].event # e
      BY <1>3, StoredIs
    <2>6. /\ e \in inflight => e \in inflight'
          /\ OpenRuns(e) = {} /\ e \notin inflight => e \notin inflight'
      BY <1>3, <2>5
    <2> QED BY <1>3, <2>1, <2>2, <2>3, <2>4, <2>6 DEF CallKnown, Listened, AtWork
  <1>13. ASSUME NEW c \in Calls, NEW i \in rows, start[i] = c
         PROVE  CallKnown(c)' /\ ~AtWork(c)' /\ call[c] = NoCall /\ call'[c].event = runs[i].event
    <2>0. PICK e : e = runs[i].event
      OBVIOUS
    <2>1. call'[c] = Asked(e) /\ call[c] = NoCall
      BY <1>7, <1>13, <2>0
    <2>2. call'[c].event = e /\ call'[c].by = "thread" /\ call'[c].client = "waiting" /\ call'[c].server = "check"
      BY <2>1 DEF Asked
    <2>3. e \in inflight' /\ i \in RowsWith("running")' /\ runs'[i].event = e
      BY <1>3, <1>6, <2>0 DEF RowsWith
    <2>4. InWork(e)'
      BY <2>3 DEF InWork
    <2>5. CallKnown(c)' /\ ~AtWork(c)'
      BY <2>2, <2>3, <2>4 DEF CallKnown, Listened, AtWork
    <2> QED BY <2>0, <2>1, <2>2, <2>5
  \* An old call for an event that is claimed is a late one.
  <1>14. ASSUME NEW c \in Calls, NEW i \in rows, start[i] = c, NEW d \in Calls, call[d] # NoCall,
                call[d].event = runs[i].event
         PROVE  ApartCalls(c, d)' /\ ApartCalls(d, c)'
    <2>1. PICK e : e = call[d].event
      OBVIOUS
    <2>2. e \notin inflight
      BY <1>1, <1>3, <1>14, <2>1 DEF QueuedRest, RowsWith
    <2>3. ~Listened(d) /\ Stored(e)
      BY <1>1, <1>14, <2>1, <2>2 DEF CallsKnown, CallKnown
    <2>4. Stored(e)'
      BY <1>8, <2>3
    <2>5. call'[d] = call[d] /\ call'[c].event = e /\ ~AtWork(c)'
      BY <1>12, <1>13, <1>14, <2>1
    <2>6. ~Listened(d)'
      BY <2>3, <2>5 DEF Listened
    <2> QED BY <2>1, <2>4, <2>5, <2>6 DEF ApartCalls
  <1>15. CallsKnown'
    <2>1. ASSUME NEW c \in Calls, call'[c] # NoCall, call[c] = NoCall
          PROVE  \E i \in rows : start[i] = c
      BY <1>7, <2>1
    <2>2. ASSUME NEW c \in Calls, call'[c] # NoCall
          PROVE  CallKnown(c)'
      <3>1. CASE call[c] # NoCall
        BY <1>12, <3>1
      <3>2. CASE call[c] = NoCall
        <4>1. PICK i \in rows : start[i] = c
          BY <2>1, <2>2, <3>2
        <4> QED BY <1>13, <4>1
      <3> QED BY <3>1, <3>2
    <2>3. ASSUME NEW c \in Calls, NEW d \in Calls, call'[c] # NoCall, call'[d] # NoCall,
                 call'[c].event = call'[d].event, c # d
          PROVE  ApartCalls(c, d)'
      <3>1. CASE call[c] # NoCall /\ call[d] # NoCall
        <4>1. call'[c] = call[c] /\ call'[d] = call[d]
          BY <1>12, <3>1
        <4>2. PICK e : e = call[c].event
          OBVIOUS
        <4>3. ApartCalls(c, d)
          BY <1>1, <2>3, <3>1, <4>1 DEF CallsKnown
        <4>4. Stored(e)'
          BY <1>8, <4>2, <4>3 DEF ApartCalls
        <4> QED BY <4>1, <4>2, <4>3, <4>4 DEF ApartCalls, Listened, AtWork
      <3>2. CASE call[c] = NoCall /\ call[d] # NoCall
        <4>1. PICK i \in rows : start[i] = c
          BY <2>1, <2>3, <3>2
        <4> QED BY <1>12, <1>13, <1>14, <2>3, <3>2, <4>1
      <3>3. CASE call[c] # NoCall /\ call[d] = NoCall
        <4>1. PICK j \in rows : start[j] = d
          BY <2>1, <2>3, <3>3
        <4> QED BY <1>12, <1>13, <1>14, <2>3, <3>3, <4>1
      <3>4. CASE call[c] = NoCall /\ call[d] = NoCall
        <4>1. PICK i \in rows : start[i] = c
          BY <2>1, <2>3, <3>4
        <4>2. PICK j \in rows : start[j] = d
          BY <2>1, <2>3, <3>4
        <4>3. runs[i].event = runs[j].event
          BY <1>13, <2>3, <4>1, <4>2
        <4>4. i = j
          BY <1>3, <1>9, <4>3
        <4> QED BY <2>3, <4>1, <4>2, <4>4
      <3> QED BY <3>1, <3>2, <3>3, <3>4
    <2> QED BY <2>2, <2>3 DEF CallsKnown
  <1>16. SearchesKnown'
    <2>1. ASSUME NEW x, NEW steps, "none" \notin steps, AtServer(x, steps) PROVE AtServer(x, steps)'
      <3>1. PICK c \in Calls : call[c].event = x /\ call[c].server \in steps
        BY <2>1 DEF AtServer
      <3>2. call[c] # NoCall
        BY <2>1, <3>1 DEF NoCall
      <3> QED BY <1>12, <3>1, <3>2 DEF AtServer
    <2> QED BY <1>1, <1>2, <1>3, <1>8, <2>1 DEF SearchesKnown
  <1>17. SlotsKept'
    <2>1. Taken \in SUBSET Rows /\ Claimed \in SUBSET Rows
      BY <1>1 DEF Taken, RowsWith, Claimed, RunsOK
    <2>2. IsFiniteSet(Taken) /\ IsFiniteSet(Claimed) /\ Cardinality(Taken) \in Nat /\ Cardinality(Claimed) \in Nat
      BY <1>1, <2>1, RowsFinite
    <2>3. Taken' \subseteq Taken \cup Claimed
      <3> SUFFICES ASSUME NEW i \in Rows, runs'[i].status = "running", runs'[i].event \in inflight', i \notin rows
                   PROVE  i \in Taken
        BY <1>3, <1>6 DEF Taken, RowsWith
      <3>1. runs'[i] = runs[i]
        BY <1>6
      <3>2. \A j \in rows : runs[j].event # runs[i].event
        BY <1>9, <3>1
      <3> QED BY <1>3, <3>1, <3>2 DEF Taken, RowsWith
    <2>4. /\ IsFiniteSet(Taken \cap Claimed) /\ Cardinality(Taken \cap Claimed) \in Nat
          /\ IsFiniteSet(Taken \cup Claimed) /\ Cardinality(Taken \cup Claimed) \in Nat
          /\ Cardinality(Taken \cup Claimed) = Cardinality(Taken) + Cardinality(Claimed) - Cardinality(Taken \cap Claimed)
      <3>1. IsFiniteSet(Taken \cap Claimed)
        BY <2>2, FS_Intersection
      <3> QED BY <2>2, <3>1, FS_Union, FS_CardinalityType
    <2>5. Cardinality(Taken') <= Cardinality(Taken \cup Claimed) /\ Cardinality(Taken') \in Nat
      BY <2>3, <2>4, FS_Subset, FS_CardinalityType
    <2>6. Claimed' = {} /\ Cardinality(Claimed') = 0
      BY <1>2, FS_EmptySet DEF Claimed, NoSync
    <2>7. Cardinality(Taken) + Cardinality(Claimed) <= Limit
      BY <1>1 DEF SlotsKept
    <2>8. Cardinality(Taken)' + Cardinality(Claimed)' <= Limit
      BY <2>2, <2>4, <2>5, <2>6, <2>7, QueueBounds
    <2> QED BY <2>6, <2>8 DEF SlotsKept
  <1> QED BY <1>8, <1>10, <1>15, <1>16, <1>17 DEF Quiet

LEMMA QuietInit == Init => Quiet
  <1> SUFFICES ASSUME Init PROVE Quiet
    OBVIOUS
  <1>1. Rows = {} /\ \A status : RowsWith(status) = {}
    BY DEF Init, Rows, RowsWith
  <1>2. Claimed = {} /\ Taken = {} /\ Cardinality({}) = 0
    BY <1>1, FS_EmptySet DEF Init, Claimed, NoSync, Taken
  <1>3. OneOpenRun /\ QueuedRest /\ CallsKnown /\ SearchesKnown
    BY <1>1 DEF Init, OneOpenRun, QueuedRest, CallsKnown, SearchesKnown, NoSearches
  <1>4. SlotsKept
    BY <1>2, QueueBounds DEF SlotsKept
  <1> QED BY <1>3, <1>4 DEF Quiet

\* What has failed once has failed for ever.
LEMMA TroublesGrow == [Next]_vars => troubles' = troubles \/ Trouble
  <1> SUFFICES ASSUME [Next]_vars PROVE troubles' = troubles \/ Trouble
    OBVIOUS
  <1>1. CASE Sync \/ SyncFails
    BY <1>1 DEF Sync, SyncFails, ReadRunning, Requeue, QueueMissing, Claim, Overwritten, NoTrouble
  <1>2. ASSUME NEW c \in Calls, Serve(c) \/ Listen(c) PROVE troubles' = troubles \/ Trouble
    BY <1>2 DEF Serve, Check, Begin, Search, Persist, SeemsNew, Listen, Hear, GiveUp, CompleteEmpty, NoTrouble
  <1>3. ASSUME NEW e \in Events, Expire(e) \/ Leave(e) \/ RunByHand(e) PROVE troubles' = troubles \/ Trouble
    BY <1>3 DEF Expire, Leave, RunByHand, NoTrouble
  <1>4. ASSUME NEW e \in Events, NEW c \in Calls, Ask(c, e) PROVE troubles' = troubles \/ Trouble
    BY <1>4 DEF Ask, SeemsNew, NoTrouble
  <1>5. CASE BackendRestarts \/ ResearchRestarts
    BY <1>5 DEF BackendRestarts, ResearchRestarts
  <1>6. CASE UNCHANGED vars
    BY <1>6 DEF vars
  <1> QED BY <1>1, <1>2, <1>3, <1>4, <1>5, <1>6 DEF Next

LEMMA CalmBefore == Types /\ [Next]_vars /\ Calm' => Calm
  BY TroublesGrow DEF Types, SetsOK, Trouble, Calm

LEMMA QuietStep == Types /\ Types' /\ (Calm => Quiet) /\ [Next]_vars => (Calm' => Quiet')
  <1> SUFFICES ASSUME Types, Types', Calm => Quiet, [Next]_vars, Calm' PROVE Quiet'
    OBVIOUS
  <1>1. Calm /\ Quiet /\ ~Trouble
    BY CalmBefore, NothingFails
  <1>2. CASE Sync
    BY <1>1, <1>2, QuietRequeue, QuietQueueMissing, QuietClaim DEF Sync
  <1>3. CASE SyncFails \/ BackendRestarts \/ ResearchRestarts
    BY <1>1, <1>3 DEF SyncFails, BackendRestarts, ResearchRestarts
  <1>4. ASSUME NEW c \in Calls, Serve(c) PROVE Quiet'
    <2>1. PICK e : e = call[c].event
      OBVIOUS
    <2> QED BY <1>1, <1>4, <2>1, QuietCheck, QuietBegin, QuietServe DEF Serve
  <1>5. ASSUME NEW c \in Calls, Listen(c) PROVE Quiet'
    <2>1. PICK e : e = call[c].event
      OBVIOUS
    <2> QED BY <1>1, <1>5, <2>1, QuietListen
  <1>6. ASSUME NEW e \in Events, Expire(e) \/ Leave(e) \/ RunByHand(e) PROVE Quiet'
    BY <1>1, <1>6, QuietOther
  <1>7. ASSUME NEW e \in Events, NEW c \in Calls, Ask(c, e) PROVE Quiet'
    BY <1>1, <1>7, QuietAsk
  <1>8. CASE UNCHANGED vars
    <2>1. UNCHANGED <<call, runs, evidence, inflight, sync, searches>> /\ cache' \subseteq cache
      BY <1>8 DEF vars, tables, backend
    <2> QED BY <1>1, <2>1, QuietStutter
  <1> QED BY <1>2, <1>3, <1>4, <1>5, <1>6, <1>7, <1>8 DEF Next

\* QueueInv holds for every set of events and calls and every limit.
THEOREM QueueInvariant == Spec => []QueueInv
  <1>1. Init => QueueInv
    BY TypesInit, QuietInit DEF QueueInv
  <1>2. QueueInv /\ [Next]_vars => QueueInv'
    BY TypesStep, QuietStep DEF QueueInv
  <1> QED BY <1>1, <1>2, PTL DEF Spec

\* Every variable of the queue keeps its type, and only a thread that waits is in flight.
THEOREM QueueTypes == Spec => []TypeOK
  <1>1. QueueInv => TypeOK
    BY TypesAre DEF QueueInv
  <1> QED BY <1>1, QueueInvariant, PTL

\* A live or prematch match is searched once, however late the service answers and
\* whoever asks meanwhile, while it is calm: nothing has failed, no run has been
\* recorded by hand and no sync has written back a run completed since it read it.
THEOREM MatchSearchedOnce == Spec => []SearchedOnce
  <1>1. QueueInv => SearchedOnce
    BY DEF QueueInv, Quiet, SearchesKnown, SearchedOnce, Types, SetsOK
  <1> QED BY <1>1, QueueInvariant, PTL

\* A decision never sends the service to search while it is calm.
THEOREM DecisionsOnlyAsk == Spec => []DecisionsNeverSearch
  <1>1. QueueInv => DecisionsNeverSearch
    <2> SUFFICES ASSUME QueueInv, Calm, NEW c \in Calls, call[c].by = "decision" PROVE call[c].server = "none"
      BY DEF DecisionsNeverSearch
    <2>1. CASE call[c] = NoCall
      BY <2>1 DEF NoCall
    <2>2. CASE call[c] # NoCall
      BY <2>2 DEF QueueInv, Quiet, CallsKnown, CallKnown
    <2> QED BY <2>1, <2>2
  <1> QED BY <1>1, QueueInvariant, PTL

\* The searches that the threads of the queue wait for each have their own running
\* row of an event in flight, and while it is calm the sync leaves no more of those
\* than its limit.
THEOREM QueueLimitKept == Spec => []LimitKept
  <1>1. QueueInv => LimitKept
    <2> SUFFICES ASSUME QueueInv, Calm PROVE Cardinality(Running) <= Limit
      BY DEF LimitKept
    <2>1. CallsKnown /\ SlotsKept /\ RunsOK
      BY DEF QueueInv, Types, Quiet
    <2> DEFINE own == [c \in Running |-> CHOOSE i \in Taken : runs[i].event = call[c].event]
    <2>2. \A c \in Running : c \in Calls /\ call[c] # NoCall /\ AtWork(c) /\ Listened(c)
      BY DEF Running, AtWork, Listened, NoCall
    <2>3. \A c \in Running : \E i \in Taken : runs[i].event = call[c].event
      <3> SUFFICES ASSUME NEW c \in Running PROVE \E i \in Taken : runs[i].event = call[c].event
        OBVIOUS
      <3>1. PICK e : e = call[c].event
        OBVIOUS
      <3>2. InWork(e) /\ e \in inflight
        BY <2>1, <2>2, <3>1 DEF CallsKnown, CallKnown
      <3> QED BY <3>1, <3>2 DEF InWork, Taken
    <2>4. \A c \in Running : own[c] \in Taken /\ runs[own[c]].event = call[c].event
      BY <2>3
    <2>5. \A c, d \in Running : own[c] = own[d] => c = d
      BY <2>1, <2>2, <2>4 DEF CallsKnown, ApartCalls
    <2>6. own \in Injection(Running, Taken)
      BY <2>4, <2>5 DEF Injection, IsInjective
    <2>7. Taken \in SUBSET Rows /\ Claimed \in SUBSET Rows
      BY <2>1 DEF Taken, RowsWith, Claimed, RunsOK
    <2>8. IsFiniteSet(Taken) /\ Cardinality(Taken) \in Nat /\ Cardinality(Claimed) \in Nat
      BY <2>1, <2>7, RowsFinite
    <2>9. Cardinality(Taken) + Cardinality(Claimed) <= Limit
      BY <2>1 DEF SlotsKept
    <2> HIDE DEF own
    <2>10. IsFiniteSet(Running) /\ Cardinality(Running) <= Cardinality(Taken)
      BY <2>6, <2>8, FS_Injection
    <2>11. Cardinality(Running) \in Nat
      BY <2>10, FS_CardinalityType
    <2> QED BY <2>8, <2>9, <2>10, <2>11, QueueBounds
  <1> QED BY <1>1, QueueInvariant, PTL

-------------------------------------------------------------------------------
(***************************************************************************)
(* Who makes a searched event wait again.                                  *)
(***************************************************************************)
\* A write that opens no completed run of the event leaves its newest run completed.
KeptOver(e) ==
  /\ Rows \subseteq Rows'
  /\ \A i \in Rows : runs'[i].event = runs[i].event
  /\ \A i \in Rows : runs[i].event = e /\ runs[i].status = "completed" => runs'[i].status = "completed"
  /\ \A i \in Rows' \ Rows : runs'[i].event = e => runs'[i].status = "completed"
LEMMA StaysSearched ==
  ASSUME RunsOK, RunsOK', NEW e, ~NotSearched(e), KeptOver(e)
  PROVE  ~NotSearched(e)'
  <1>1. /\ Len(runs) \in Nat /\ Len(runs') \in Nat
        /\ RunsOf(e) \in SUBSET (1..Len(runs)) /\ RunsOf(e) # {}
        /\ RunsOf(e) = {i \in Rows : runs[i].event = e}
        /\ runs[Newest(RunsOf(e))].status = "completed"
    BY DEF RunsOK, NotSearched, RunsOf, Rows
  <1> DEFINE later == RunsOf(e)'
             old == Newest(RunsOf(e))
             new == Newest(later)
  <1>2. later \in SUBSET (1..Len(runs')) /\ later = {i \in Rows' : runs'[i].event = e}
    BY DEF RunsOf, Rows
  <1>3. RunsOf(e) \subseteq later
    BY <1>1, <1>2 DEF KeptOver
  <1>4. old \in RunsOf(e) /\ \A i \in RunsOf(e) : i <= old
    BY <1>1, NewestIn
  <1> HIDE DEF later
  <1>5. new \in later /\ \A i \in later : i <= new
    BY <1>1, <1>2, <1>3, NewestIn
  <1> HIDE DEF old, new
  <1>6. new \in Rows => new = old
    <2> SUFFICES ASSUME new \in Rows PROVE new = old
      OBVIOUS
    <2>1. new \in RunsOf(e)
      BY <1>1, <1>2, <1>5 DEF KeptOver
    <2>2. new <= old /\ old <= new
      BY <1>3, <1>4, <1>5, <2>1
    <2>3. new \in Int /\ old \in Int
      BY <1>1, <1>4, <2>1
    <2> QED BY <2>2, <2>3
  <1>7. runs'[new].status = "completed"
    <2>1. CASE new \in Rows
      BY <1>1, <1>4, <1>6, <2>1 DEF KeptOver, old
    <2>2. CASE new \notin Rows
      BY <1>2, <1>5, <2>2 DEF KeptOver
    <2> QED BY <2>1, <2>2
  <1>8. later # {}
    BY <1>5
  <1> QED BY <1>7, <1>8 DEF NotSearched, new, later

\* A run is noted: the rows of other events keep their status, and so does a completed one.
LEMMA NotedKeeps ==
  ASSUME RunsOK, NEW f \in Events, NEW s \in Statuses, runs' = Noted(f, s), NEW e, e # f \/ s = "completed"
  PROVE  KeptOver(e)
  <1>1. runs \in Seq(Runs) /\ Len(runs) \in Nat
    BY DEF RunsOK
  <1>2. /\ Len(runs') = IF OpenRuns(f) = {} THEN Len(runs) + 1 ELSE Len(runs)
        /\ \A i \in Rows : runs'[i] = IF OpenRuns(f) # {} /\ i = Newest(OpenRuns(f))
                                      THEN Run(runs[i].event, s) ELSE runs[i]
        /\ OpenRuns(f) = {} => runs'[Len(runs) + 1] = Run(f, s)
    BY <1>1, NotedRuns
  <1>3. OpenRuns(f) # {} => runs[Newest(OpenRuns(f))].event = f
    <2>1. OpenRuns(f) \in SUBSET Rows
      BY StoredIs
    <2> QED BY <2>1, NewestIs, StoredIs
  <1>4. Rows \subseteq Rows' /\ \A i \in Rows' \ Rows : OpenRuns(f) = {} /\ i = Len(runs) + 1
    BY <1>1, <1>2 DEF Rows
  <1>5. \A i \in Rows : runs'[i].event = runs[i].event
    BY <1>2, RunIs
  <1>6. \A i \in Rows : runs[i].event = e /\ runs[i].status = "completed" => runs'[i].status = "completed"
    BY <1>2, <1>3, RunIs
  <1>7. \A i \in Rows' \ Rows : runs'[i].event = e => runs'[i].status = "completed"
    BY <1>2, <1>4, RunIs
  <1> QED BY <1>4, <1>5, <1>6, <1>7 DEF KeptOver

\* The sync makes it wait when it writes back a completed run.
LEMMA WaitsBySync ==
  ASSUME Types, Types', Sync, NEW e \in Events, ~NotSearched(e)
  PROVE  KeptOver(e) \/ WrittenBack(e)
  <1>1. RunsOK /\ SetsOK /\ runs \in Seq(Runs) /\ Len(runs) \in Nat /\ sync.rows \in SUBSET Rows
    BY DEF Types, RunsOK
  <1>2. CASE ReadRunning
    BY <1>2 DEF ReadRunning, tables, KeptOver, Rows
  <1>3. ASSUME NEW S \in SUBSET sync.rows, NEW s \in Statuses, runs' = WithAll(S, s)
        PROVE  KeptOver(e) \/ WrittenBack(e)
    <2>0. S \in SUBSET Rows
      BY <1>1
    <2>1. /\ Len(runs') = Len(runs)
          /\ \A i \in S : runs'[i] = Run(runs[i].event, s)
          /\ \A i \in Rows \ S : runs'[i] = runs[i]
      BY <1>1, <1>3, <2>0, MarkedAll
    <2>2. Rows' = Rows
      BY <2>1 DEF Rows
    <2>3. \A i \in Rows : runs'[i].event = runs[i].event
      BY <2>1, RunIs
    <2>4. ~WrittenBack(e) => \A i \in S : runs[i].event = e => runs[i].status # "completed"
      BY DEF WrittenBack
    <2> QED BY <2>1, <2>2, <2>3, <2>4 DEF KeptOver
  <1>4. CASE Requeue
    <2>1. PICK lost \in {Abandoned(sync.rows), Abandoned(sync.rows) \ Ended(sync.rows)} :
            runs' = WithAll(lost, "queued")
      BY <1>4 DEF Requeue
    <2>2. lost \in SUBSET sync.rows
      BY <2>1 DEF Abandoned
    <2> QED BY <1>3, <2>1, <2>2 DEF Statuses
  <1>5. CASE QueueMissing
    <2>1. PICK new \in SetToSeqs({x \in board \ evidence : RunsOf(x) = {}}) :
            runs' = runs \o [k \in 1..Len(new) |-> [event |-> new[k], status |-> "queued"]]
      BY <1>5 DEF QueueMissing
    <2>2. /\ runs' \in Seq(Runs) /\ Len(runs) <= Len(runs')
          /\ \A i \in Rows : runs'[i] = runs[i]
          /\ \A i \in Rows' \ Rows : RunsOf(runs'[i].event) = {}
      BY <1>1, <2>1, MissingQueued
    <2>3. Rows \subseteq Rows'
      BY <1>1, <2>2 DEF Rows
    <2>4. RunsOf(e) # {}
      BY DEF NotSearched
    <2> QED BY <2>2, <2>3, <2>4 DEF KeptOver
  <1>6. CASE Claim
    <2>1. PICK rows \in SUBSET sync.rows : runs' = WithAll(rows, "running")
      BY <1>6 DEF Claim
    <2> QED BY <1>3, <2>1 DEF Statuses
  <1> QED BY <1>2, <1>3, <1>4, <1>5, <1>6 DEF Sync

\* A request of the service makes it wait when the thread has closed the run
\* before the request begins one.
LEMMA WaitsByCall ==
  ASSUME Types, Quiet, NEW c \in Calls, Serve(c) \/ Listen(c), NEW e \in Events, ~NotSearched(e)
  PROVE  KeptOver(e) \/ BegunLate(e)
  <1>1. RunsOK /\ CallsOK /\ CallsKnown
    BY DEF Types, Quiet
  <1>2. ASSUME UNCHANGED runs PROVE KeptOver(e)
    BY <1>2 DEF KeptOver, Rows
  <1>3. CASE Check(c) \/ Search(c) \/ Hear(c) \/ GiveUp(c)
    BY <1>2, <1>3 DEF Check, Search, Hear, GiveUp, tables
  <1>4. PICK f : f = call[c].event
    OBVIOUS
  <1>5. CASE Begin(c)
    <2>1. call[c].server = "begin" /\ (runs' = runs \/ runs' = Noted(f, "running"))
      BY <1>4, <1>5 DEF Begin
    <2>2. call[c] # NoCall
      BY <2>1 DEF NoCall
    <2>3. f \in Events /\ CallKnown(c) /\ AtWork(c)
      BY <1>1, <1>4, <2>1, <2>2 DEF CallsOK, CallsKnown, AtWork
    <2>4. CASE f = e
      <3>1. Stored(e)
        <4>1. RunsOf(e) \in SUBSET Rows /\ RunsOf(e) # {}
          BY DEF RunsOf, Rows, NotSearched
        <4>2. Newest(RunsOf(e)) \in RunsOf(e)
          BY <1>1, <4>1, NewestIs
        <4> QED BY <4>2, StoredIs DEF NotSearched, RunsOf, Rows
      <3>2. ~Listened(c) /\ call[c].by = "thread"
        BY <1>4, <2>3, <2>4, <3>1 DEF CallKnown
      <3> QED BY <1>4, <2>1, <2>4, <3>2 DEF BegunLate, Listened
    <2>5. CASE f # e
      BY <1>1, <1>2, <2>1, <2>3, <2>5, NotedKeeps DEF Statuses
    <2> QED BY <2>4, <2>5
  <1>6. CASE Persist(c) \/ CompleteEmpty(c)
    <2>1. runs' = runs \/ runs' = Noted(f, "completed")
      BY <1>4, <1>6 DEF Persist, CompleteEmpty, ClosedEmpty, Noted
    <2>2. call[c] # NoCall
      BY <1>6 DEF Persist, CompleteEmpty, NoCall
    <2>3. f \in Events
      BY <1>1, <1>4, <2>2 DEF CallsOK
    <2> QED BY <1>1, <1>2, <2>1, <2>3, NotedKeeps DEF Statuses
  <1> QED BY <1>3, <1>5, <1>6 DEF Serve, Listen

LEMMA WaitsByOther ==
  ASSUME Types, NEW e \in Events, ~(Sync \/ \E c \in Calls : Serve(c) \/ Listen(c)), [Next]_vars
  PROVE  KeptOver(e)
  <1>1. runs \in Seq(Runs) /\ Len(runs) \in Nat
    BY DEF Types, RunsOK
  <1>2. ASSUME UNCHANGED runs PROVE KeptOver(e)
    BY <1>2 DEF KeptOver, Rows
  <1>3. CASE SyncFails \/ BackendRestarts \/ ResearchRestarts \/ UNCHANGED vars
    BY <1>2, <1>3 DEF SyncFails, BackendRestarts, ResearchRestarts, vars, tables
  <1>4. ASSUME NEW f \in Events, Expire(f) \/ Leave(f) \/ \E c \in Calls : Ask(c, f) PROVE KeptOver(e)
    BY <1>2, <1>4 DEF Expire, Leave, Ask, tables
  <1>5. ASSUME NEW f \in Events, RunByHand(f) PROVE KeptOver(e)
    <2>1. runs' = Append(runs, Run(f, "completed")) /\ Run(f, "completed") \in Runs
      BY <1>5 DEF RunByHand, Run, Runs
    <2>2. /\ Len(runs') = Len(runs) + 1 /\ runs'[Len(runs) + 1] = Run(f, "completed")
          /\ \A i \in Rows : runs'[i] = runs[i]
      BY <1>1, <2>1 DEF Rows
    <2>3. Rows' = Rows \cup {Len(runs) + 1}
      BY <1>1, <2>2 DEF Rows
    <2>4. runs'[Len(runs) + 1].status = "completed"
      BY <2>2, RunIs
    <2> QED BY <2>2, <2>3, <2>4 DEF KeptOver
  <1> QED BY <1>3, <1>4, <1>5 DEF Next

LEMMA EvidenceGrows == [Next]_vars => evidence \subseteq evidence'
  <1> SUFFICES ASSUME [Next]_vars PROVE evidence \subseteq evidence'
    OBVIOUS
  <1>1. CASE Sync \/ SyncFails
    BY <1>1 DEF Sync, SyncFails, ReadRunning, Requeue, QueueMissing, Claim, tables
  <1>2. ASSUME NEW c \in Calls, Serve(c) \/ Listen(c) PROVE evidence \subseteq evidence'
    BY <1>2 DEF Serve, Check, Begin, Search, Persist, Listen, Hear, GiveUp, CompleteEmpty, tables
  <1>3. ASSUME NEW e \in Events, Expire(e) \/ Leave(e) \/ RunByHand(e) \/ \E c \in Calls : Ask(c, e)
        PROVE  evidence \subseteq evidence'
    BY <1>3 DEF Expire, Leave, RunByHand, Ask, tables
  <1>4. CASE BackendRestarts \/ ResearchRestarts \/ UNCHANGED vars
    BY <1>4 DEF BackendRestarts, ResearchRestarts, vars, tables
  <1> QED BY <1>1, <1>2, <1>3, <1>4 DEF Next

\* While it is calm, an event that neural was told is searched waits again only
\* when a sync writes back its completed run, or when the service begins a run
\* after the thread has given up and closed the one of the queue.
THEOREM ToldForGood == Spec => WaitsAgainByRaceOnly
  <1>1. QueueInv /\ QueueInv' /\ [Next]_vars
        => [\A e \in Events : Calm /\ ~Waiting(e) /\ Waiting(e)' => WrittenBack(e) \/ BegunLate(e)]_vars
    <2> SUFFICES ASSUME QueueInv, QueueInv', [Next]_vars, NEW e \in Events, Calm, ~Waiting(e), Waiting(e)'
                 PROVE  WrittenBack(e) \/ BegunLate(e)
      OBVIOUS
    <2>1. Types /\ Types' /\ Quiet /\ RunsOK /\ RunsOK'
      BY DEF QueueInv, Types
    <2>2. ~NotSearched(e) /\ NotSearched(e)'
      BY EvidenceGrows DEF Waiting
    <2>3. ~KeptOver(e)
      BY <2>1, <2>2, StaysSearched
    <2>4. CASE Sync
      BY <2>1, <2>2, <2>3, <2>4, WaitsBySync
    <2>5. ASSUME NEW c \in Calls, Serve(c) \/ Listen(c) PROVE WrittenBack(e) \/ BegunLate(e)
      BY <2>1, <2>2, <2>3, <2>5, WaitsByCall
    <2> QED BY <2>1, <2>3, <2>4, <2>5, WaitsByOther
  <1> QED BY <1>1, QueueInvariant, PTL DEF Spec, WaitsAgainByRaceOnly

===============================================================================
