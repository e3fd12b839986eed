--------------------------- MODULE FlashscoreSource ---------------------------
(***************************************************************************)
(* The queue every request to Flashscore goes through                      *)
(* (_flashscore_source_access): a row per request in                       *)
(* flashscore_source_requests, and the row flashscore_source_control with  *)
(* the number of slots, the cooldown and the earliest next start.          *)
(*                                                                         *)
(* A client waits in the queue, is in the source, or is out.  Its row is   *)
(* kept alive by a thread of its own; a row not refreshed for 15 seconds   *)
(* (not "fresh") is deleted by whoever looks at the queue next, and its    *)
(* client is not told.  The control row is locked while a slot is given,   *)
(* so that giving one is a single step.  No time is kept: what ends after  *)
(* some time may end at any time.                                          *)
(***************************************************************************)
EXTENDS Integers, Sequences, FiniteSets

CONSTANTS
  Clients,     \* threads and processes that call Flashscore
  Priority,    \* Priority[c]: "live", "participant", "archive" or "background_profile"
  MaxSlots,    \* 2
  Enough,      \* 20: successes that give the second slot back
  MaxFaults,   \* bound: failed requests, deaths, lapses
  None

Rank == [live |-> 0, participant |-> 10, archive |-> 20, background_profile |-> 30]
AgedRank == 5      \* of an archive request that has waited 10 seconds

ASSUME Priorities == Priority \in [Clients -> DOMAIN Rank]
ASSUME SlotNumbers == MaxSlots \in Nat \ {0} /\ Enough \in Nat \ {0} /\ MaxFaults \in Nat
ASSUME NoneIsNoClient == None \notin Clients

VARIABLES
  rows,        \* the requests, in the order of enqueued_at
  control,     \* limit of slots, successes, cooldown, interval between starts
  gate,        \* gate[c]: "out", "waiting" or "in"
  faults

sourceVars == <<rows, control, gate>>

Row == [client: Clients \cup {None}, rank: {0, 5, 10, 20, 30},
        acquired: BOOLEAN, fresh: BOOLEAN]
Control == [limit: 1..MaxSlots, successes: 0..Enough, paused: BOOLEAN, spacing: BOOLEAN]

SourceInit ==
  /\ rows = <<>>
  /\ control = [limit |-> MaxSlots, successes |-> 0, paused |-> FALSE, spacing |-> FALSE]
  /\ gate = [c \in Clients |-> "out"]
  /\ faults = 0

Fault == faults < MaxFaults /\ faults' = faults + 1

-------------------------------------------------------------------------------
Index(q) == 1..Len(q)
Own(q, c) == {i \in Index(q) : q[i].client = c}
\* The rows of q at the places S, in their order.
Only(q, S) ==
  IF S = Index(q) THEN q
  ELSE [k \in 1..Cardinality(S) |-> q[CHOOSE i \in S : Cardinality(S \cap 1..i) = k]]
Fresh(q) == Only(q, {i \in Index(q) : q[i].fresh})
Unswept(q) == q                       \* mutant: rows that lapsed are kept
Swept(q) == Fresh(q)
Without(q, c) == Only(q, Index(q) \ Own(q, c))
Set(q, c, field, value) ==
  [i \in Index(q) |-> IF q[i].client = c THEN [q[i] EXCEPT ![field] = value] ELSE q[i]]

\* Requests that wait, ordered by rank and then by age.
Better(q, i, j) == q[i].rank < q[j].rank \/ (q[i].rank = q[j].rank /\ i < j)
\* No other request that waits is better; so it is, too, when the client's own
\* row has been deleted: the query joins it.
HasPriority(q, c) ==
  \A j \in Own(q, c) : ~\E i \in Index(q) \ {j} :
    ~q[i].acquired /\ q[i].fresh /\ Better(q, i, j)
Active(q) == Cardinality({i \in Index(q) : q[i].acquired /\ q[i].fresh})

\* A new request; refused while the source is paused.
Enter(c) ==
  /\ gate[c] = "out" /\ ~control.paused
  /\ rows' = Append(Swept(rows), [client |-> c, rank |-> Rank[Priority[c]],
                                  acquired |-> FALSE, fresh |-> TRUE])
  /\ gate' = [gate EXCEPT ![c] = "waiting"]
  /\ UNCHANGED control

Grant(c) ==
  LET q == Swept(rows) IN
  /\ gate[c] = "waiting"
  /\ ~control.paused /\ ~control.spacing
  /\ HasPriority(q, c) /\ Active(q) < control.limit
  /\ rows' = Set(q, c, "acquired", TRUE)
  /\ control' = [control EXCEPT !.spacing = TRUE]
  /\ gate' = [gate EXCEPT ![c] = "in"]

\* A look at the queue that gives no slot deletes rows all the same.
Sweep(c) ==
  /\ gate[c] = "waiting"
  /\ Swept(rows) # rows
  /\ rows' = Swept(rows)
  /\ UNCHANGED <<control, gate>>

Out(c) ==
  /\ rows' = Without(rows, c)
  /\ gate' = [gate EXCEPT ![c] = "out"]

\* The client has waited too long.
GiveUp(c) == gate[c] = "waiting" /\ Out(c) /\ UNCHANGED control

\* A throttle within the last 15 minutes, which a pause outlasts, resets the count.
Leave(c) ==
  /\ gate[c] = "in" /\ Out(c)
  /\ control' =
       IF control.paused THEN [control EXCEPT !.successes = 0]
       ELSE [control EXCEPT
               !.successes = IF @ < Enough THEN @ + 1 ELSE @,
               !.limit = IF control.successes + 1 >= Enough THEN MaxSlots ELSE @]

\* _record_flashscore_throttle
Throttled == [control EXCEPT !.paused = TRUE, !.successes = 0, !.limit = 1]
LeaveThrottled(c) == gate[c] = "in" /\ Out(c) /\ control' = Throttled
LeaveFailed(c) == gate[c] = "in" /\ Out(c) /\ UNCHANGED control

\* The client's process is gone, its row is not.
Gone(c) ==
  /\ gate[c] # "out"
  /\ rows' = Set(rows, c, "client", None)
  /\ gate' = [gate EXCEPT ![c] = "out"]
  /\ UNCHANGED control

\* The thread that refreshes the row has stopped, or stands still for 15 seconds
\* and then goes on, with a row that may or may not be there.
Lapse(c) ==
  /\ \E i \in Own(rows, c) : rows[i].fresh
  /\ rows' = Set(rows, c, "fresh", FALSE)
  /\ UNCHANGED <<control, gate>>
Refresh(c) ==
  /\ \E i \in Own(rows, c) : ~rows[i].fresh
  /\ rows' = Set(rows, c, "fresh", TRUE)
  /\ UNCHANGED <<control, gate>>

\* What passes with time.
RowsOfTheGoneLapse ==
  /\ \E i \in Own(rows, None) : rows[i].fresh
  /\ rows' = Set(rows, None, "fresh", FALSE)
  /\ UNCHANGED <<control, gate>>
NeverAges(c) == FALSE                 \* mutant: an archive request keeps its rank
ArchiveAges(c) ==
  \E i \in Own(rows, c) :
    /\ rows[i].rank = Rank.archive /\ ~rows[i].acquired
    /\ rows' = [rows EXCEPT ![i].rank = AgedRank]
    /\ UNCHANGED <<control, gate>>
PauseEnds == control.paused /\ control' = [control EXCEPT !.paused = FALSE]
             /\ UNCHANGED <<rows, gate>>
SpacingEnds == control.spacing /\ control' = [control EXCEPT !.spacing = FALSE]
               /\ UNCHANGED <<rows, gate>>
SourceClock ==
  \/ RowsOfTheGoneLapse \/ PauseEnds \/ SpacingEnds
  \/ \E c \in Clients \cup {None} : ArchiveAges(c)

\* What a client does, and what befalls its row.
Access(c) == Enter(c) \/ Grant(c) \/ Sweep(c) \/ GiveUp(c) \/ Leave(c) \/ Refresh(c)
FaultyAccess(c) == LeaveThrottled(c) \/ LeaveFailed(c) \/ Gone(c) \/ Lapse(c)

-------------------------------------------------------------------------------
\* Every variable has its type (the tables of _flashscore_source_access).
SourceTypeOK ==
  /\ rows \in Seq(Row) /\ control \in Control
  /\ gate \in [Clients -> {"out", "waiting", "in"}]
  /\ faults \in 0..MaxFaults

\* Clients in the source whose request is still in the queue are never more
\* than the slots, whoever joins, lapses and comes back: a row that was not counted when
\* a slot was given has been deleted and does not come back to life.
Holders == {c \in Clients : gate[c] = "in" /\ Own(rows, c) # {}}
SlotLimit == Cardinality(Holders) <= MaxSlots
===============================================================================
