---------------------------- MODULE StreamDelivery ----------------------------
(***************************************************************************)
(* One Redis stream, its consumer group and the consumers of               *)
(* packages/streams: publish, read with reclaim of abandoned deliveries,   *)
(* the idempotency mark, retry by republication and the dead letters.      *)
(* StreamConsumerGroup and AsyncStreamConsumerGroup are twins; the worker  *)
(* runs the asynchronous one on fonbet.raw and bet.validated.              *)
(*                                                                         *)
(* A step is one Redis command, or the handler.  A message is its          *)
(* idempotency key, its id the position in the stream.                     *)
(***************************************************************************)
EXTENDS Integers, Sequences, FiniteSets

CONSTANTS
  Keys,         \* idempotency keys
  Consumers,    \* processes reading with the group, each under its own name
  NoOne,        \* the holder of an entry that is not pending
  MaxRetries,   \* envelope.max_retries
  BatchSize,    \* count
  MaxLen,       \* maxlen of the publisher's XADD
  MaxPublish,   \* bound: messages published
  MaxFaults     \* bound: process stops, command errors, overruns, expired marks

ASSUME Bounds ==
  /\ MaxRetries \in Nat /\ BatchSize \in Nat \ {0} /\ MaxLen \in Nat \ {0}
  /\ MaxPublish \in Nat /\ MaxFaults \in Nat
  /\ IsFiniteSet(Consumers) /\ NoOne \notin Consumers

VARIABLES
  stream,       \* every entry ever added: [key, retry]
  first,        \* id of the oldest entry not trimmed
  group,        \* last delivered id, -1 before XGROUP CREATE
  holder,       \* [id -> consumer the pending entry is assigned to, or NoOne]
  idle,         \* pending ids whose last delivery is pending_idle_ms old
  done,         \* keys with an unexpired idempotency mark
  deadLetters,  \* streams.dead_letter, [key, retry]
  consumer,     \* [Consumers -> where the process is and its unfinished batch]
  faults,       \* faults so far
  \* history
  published,    \* keys published
  lost,         \* keys the group never sees: older than it, or trimmed unhandled
  effects,      \* [Keys -> handler runs that took effect]
  failures,     \* [Keys -> attempts that raised]
  excused       \* [Keys -> repeated effects the faults account for]

redis == <<stream, first, group, holder, idle, done, deadLetters>>
history == <<published, lost, effects, failures, excused>>
vars == <<redis, consumer, faults, history>>

Ids == 1 .. Len(stream)
Pending == {i \in DOMAIN holder : holder[i] # NoOne}
Down == [at |-> "down", batch |-> <<>>]
Ready == [at |-> "ready", batch |-> <<>>]

Init ==
  /\ stream = <<>> /\ first = 1 /\ group = -1
  /\ holder = <<>> /\ idle = {}
  /\ done = {} /\ deadLetters = <<>>
  /\ consumer = [c \in Consumers |-> Down]
  /\ faults = 0
  /\ published = {} /\ lost = {}
  /\ effects = [k \in Keys |-> 0]
  /\ failures = [k \in Keys |-> 0]
  /\ excused = [k \in Keys |-> 0]

-------------------------------------------------------------------------------
(***************************************************************************)
(* The publisher, and time.                                                *)
(***************************************************************************)

\* Not yet delivered to the group, or delivered and not acknowledged.
Unfinished(i) == i > group \/ holder[i] # NoOne

\* XADD maxlen ~: the server may leave more than MaxLen entries.
Publish(k) ==
  /\ Len(stream) < MaxPublish
  /\ \A i \in Ids : stream[i].retry = 0     \* bound: no publication after a retry
  /\ stream' = Append(stream, [key |-> k, retry |-> 0])
  /\ holder' = Append(holder, NoOne)
  /\ \E kept \in {first, Len(stream) + 2 - MaxLen} :
       /\ kept >= first
       /\ first' = kept
       /\ lost' = lost \cup (IF group = -1 THEN {k} ELSE {})
                       \cup {stream[i].key : i \in {j \in first .. kept - 1 : Unfinished(j)}}
  /\ published' = published \cup {k}
  /\ UNCHANGED <<group, idle, done, deadLetters, consumer, faults, effects, failures, excused>>

Fault == faults < MaxFaults /\ faults' = faults + 1

InHand(i) == \E c \in Consumers : \E n \in DOMAIN consumer[c].batch : consumer[c].batch[n] = i

\* 60 seconds after its delivery an entry may be reclaimed ...
Age(i) ==
  /\ i \in Pending \ idle /\ ~InHand(i)
  /\ idle' = idle \cup {i}
  /\ UNCHANGED <<stream, first, group, holder, done, deadLetters, consumer, faults, history>>

\* ... also from a consumer that still works on its batch.
Overrun(i) ==
  /\ Fault
  /\ i \in Pending \ idle /\ InHand(i)
  /\ idle' = idle \cup {i}
  /\ UNCHANGED <<stream, first, group, holder, done, deadLetters, consumer, history>>

\* The mark lives 24 hours; every consumer may then repeat the effect once.
ExpireMark(k) ==
  /\ Fault
  /\ k \in done
  /\ done' = done \ {k}
  /\ excused' = [excused EXCEPT ![k] = @ + Cardinality(Consumers)]
  /\ UNCHANGED <<stream, first, group, holder, idle, deadLetters, consumer,
                 published, lost, effects, failures>>

-------------------------------------------------------------------------------
(***************************************************************************)
(* A consumer: create_group, then process_one for ever.                    *)
(***************************************************************************)
At(c, place) == consumer[c].at = place
Goto(c, place) == consumer' = [consumer EXCEPT ![c].at = place]
Message(c) == stream[Head(consumer[c].batch)]

\* The rest of the batch, if any, is the next iteration of process_one's loop.
NextMessage(c) ==
  LET rest == Tail(consumer[c].batch) IN
  consumer' = [consumer EXCEPT ![c] = [at |-> IF rest = <<>> THEN "ready" ELSE "check",
                                       batch |-> rest]]

\* XGROUP CREATE ... $: a new group starts behind everything published so far.
Start(c) ==
  /\ At(c, "down")
  /\ group' = IF group = -1 THEN Len(stream) ELSE group
  /\ consumer' = [consumer EXCEPT ![c] = Ready]
  /\ UNCHANGED <<stream, first, holder, idle, done, deadLetters, faults, history>>

Rank(S, i) == Cardinality({j \in S : j < i})
FirstOf(S, n) == {i \in S : Rank(S, i) < n}
InOrder(S) == [k \in 1 .. Cardinality(S) |-> CHOOSE i \in S : Rank(S, i) = k - 1]

\* XAUTOCLAIM from 0-0: the oldest idle entries change hands; those trimmed
\* from the stream leave the pending list.
NothingReclaimable == {}
Reclaimable == {i \in idle : i >= first}

Reclaim(c) ==
  LET claimed == FirstOf(Reclaimable, BatchSize) IN
  /\ At(c, "ready")
  /\ consumer' = [consumer EXCEPT ![c] = [at |-> "read", batch |-> InOrder(claimed)]]
  /\ holder' = [i \in Ids |-> IF i \in claimed THEN c
                              ELSE IF i \in idle /\ i < first THEN NoOne ELSE holder[i]]
  /\ idle' = idle \ (claimed \cup {i \in idle : i < first})
  /\ UNCHANGED <<stream, first, group, done, deadLetters, faults, history>>

\* What a delivery leaves in the pending list.
WithoutPending(S, c) == holder
Delivered(S, c) == [i \in Ids |-> IF i \in S THEN c ELSE holder[i]]

\* XREADGROUP ... > fills the rest of the batch.
ReadNew(c) ==
  LET room == BatchSize - Len(consumer[c].batch)
      new == FirstOf({i \in Ids : i > group /\ i >= first}, room)
      batch == consumer[c].batch \o InOrder(new)
  IN
  /\ At(c, "read")
  /\ group' = IF new = {} THEN group ELSE CHOOSE i \in new : \A j \in new : j <= i
  /\ holder' = Delivered(new, c)
  /\ consumer' = [consumer EXCEPT ![c] = [at |-> IF batch = <<>> THEN "ready" ELSE "check",
                                          batch |-> batch]]
  /\ UNCHANGED <<stream, first, idle, done, deadLetters, faults, history>>

NeverCompleted(m) == FALSE
IsCompleted(m) == m.key \in done

CheckCompleted(c) ==
  /\ At(c, "check")
  /\ Goto(c, IF IsCompleted(Message(c)) THEN "ackDuplicate" ELSE "handle")
  /\ UNCHANGED <<redis, faults, history>>

Raised(c) ==
  /\ Goto(c, "failed")
  /\ failures' = [failures EXCEPT ![Message(c).key] = @ + 1]

HandlerSucceeds(c) ==
  /\ At(c, "handle")
  /\ effects' = [effects EXCEPT ![Message(c).key] = @ + 1]
  /\ Goto(c, "mark")
  /\ UNCHANGED <<redis, faults, published, lost, failures, excused>>

\* A handler may raise after it has committed (ingest.py commits per event).
HandlerRaises(c) ==
  /\ At(c, "handle")
  /\ Raised(c)
  /\ \E took \in {0, 1} :
       /\ effects' = [effects EXCEPT ![Message(c).key] = @ + took]
       /\ excused' = [excused EXCEPT ![Message(c).key] = @ + took]
  /\ UNCHANGED <<redis, faults, published, lost>>

MarkCompleted(c) ==
  /\ At(c, "mark")
  /\ done' = done \cup {Message(c).key}
  /\ Goto(c, "ack")
  /\ UNCHANGED <<stream, first, group, holder, idle, deadLetters, faults, history>>

\* XACK by id: also takes an entry away that was reclaimed by someone else.
RemovePending(i) ==
  /\ holder' = [holder EXCEPT ![i] = NoOne]
  /\ idle' = idle \ {i}

Ack(c) ==
  /\ consumer[c].at \in {"ack", "ackDuplicate", "ackFailed"}
  /\ RemovePending(Head(consumer[c].batch))
  /\ NextMessage(c)
  /\ UNCHANGED <<stream, first, group, done, deadLetters, faults, history>>

\* The except branch: a copy with one more retry, or the dead letter; the
\* original is acknowledged after it.
ExhaustedLate(m) == m.retry > MaxRetries
ExhaustedEarly(m) == m.retry + 1 >= MaxRetries
Exhausted(m) == m.retry >= MaxRetries
Copy(m) == [m EXCEPT !.retry = @ + 1]

RetryOrDeadLetter(c) ==
  /\ At(c, "failed")
  /\ IF Exhausted(Message(c))
     THEN /\ deadLetters' = Append(deadLetters, Copy(Message(c)))
          /\ UNCHANGED <<stream, holder>>
     ELSE /\ stream' = Append(stream, Copy(Message(c)))
          /\ holder' = Append(holder, NoOne)
          /\ UNCHANGED deadLetters
  /\ Goto(c, "ackFailed")
  /\ UNCHANGED <<first, group, idle, done, faults, history>>

-------------------------------------------------------------------------------
(***************************************************************************)
(* Faults.  A command that was executed although its reply is lost is the  *)
(* command followed by the error, except XACK, whose error is ErrorInAck.  *)
(***************************************************************************)
Excuse(c) == excused' = [excused EXCEPT ![Message(c).key] = @ + 1]

\* mark_completed raises inside the try: the message counts as failed.
ErrorInMark(c) ==
  /\ Fault
  /\ At(c, "mark")
  /\ Raised(c)
  /\ Excuse(c)
  /\ UNCHANGED <<redis, published, lost, effects>>

\* So does the acknowledgement of a message that was handled and marked.
ErrorInAck(c) ==
  /\ Fault
  /\ At(c, "ack")
  /\ RemovePending(Head(consumer[c].batch)) \/ UNCHANGED <<holder, idle>>
  /\ Raised(c)
  /\ UNCHANGED <<stream, first, group, done, deadLetters, published, lost, effects, excused>>

\* Any other error leaves process_one; the batch stays in the pending list.
ErrorOutside(c) ==
  /\ Fault
  /\ consumer[c].at \in {"read", "check", "ackDuplicate", "failed", "ackFailed"}
  /\ consumer' = [consumer EXCEPT ![c] = Ready]
  /\ \/ UNCHANGED <<holder, idle>>
     \/ consumer[c].at \in {"ackDuplicate", "ackFailed"} /\ RemovePending(Head(consumer[c].batch))
  /\ UNCHANGED <<stream, first, group, done, deadLetters, history>>

Stop(c) ==
  /\ Fault
  /\ ~At(c, "down")
  /\ consumer' = [consumer EXCEPT ![c] = Down]
  /\ IF At(c, "mark") THEN Excuse(c) ELSE UNCHANGED excused
  /\ UNCHANGED <<redis, published, lost, effects, failures>>

-------------------------------------------------------------------------------
Poll(c) ==
  \/ Reclaim(c) \/ ReadNew(c) \/ CheckCompleted(c)
  \/ HandlerSucceeds(c) \/ HandlerRaises(c) \/ MarkCompleted(c)
  \/ Ack(c) \/ RetryOrDeadLetter(c)

Next ==
  \/ \E k \in Keys : Publish(k) \/ ExpireMark(k)
  \/ \E i \in Ids : Age(i) \/ Overrun(i)
  \/ \E c \in Consumers : \/ Start(c) \/ Poll(c)
                          \/ ErrorInMark(c) \/ ErrorInAck(c) \/ ErrorOutside(c) \/ Stop(c)

Spec == Init /\ [][Next]_vars

\* The container is restarted (restart: unless-stopped), the worker polls in an
\* endless loop, and time passes.
Fairness ==
  /\ \A c \in Consumers : WF_vars(Start(c)) /\ WF_vars(Poll(c))
  /\ WF_vars(\E i \in Ids : Age(i))

FairSpec == Spec /\ Fairness
-------------------------------------------------------------------------------
(***************************************************************************)
(* Properties.                                                             *)
(***************************************************************************)
Messages == [key : Keys, retry : 0 .. MaxRetries]
Places == {"down", "ready", "read", "check", "handle", "mark", "ack", "ackDuplicate",
           "failed", "ackFailed"}

\* Shapes, and that what a consumer works on was delivered to the group.
TypeOK ==
  /\ stream \in Seq(Messages)
  /\ first \in 1 .. Len(stream) + 1
  /\ group \in -1 .. Len(stream)
  /\ holder \in [Ids -> Consumers \cup {NoOne}]
  /\ idle \subseteq Pending /\ Pending \subseteq 1 .. group
  /\ done \subseteq Keys
  /\ deadLetters \in Seq([key : Keys, retry : {MaxRetries + 1}])
  /\ \A c \in Consumers : /\ consumer[c].at \in Places
                          /\ consumer[c].batch \in Seq(1 .. group)
                          /\ Len(consumer[c].batch) <= BatchSize
                          /\ consumer[c].at \notin {"down", "ready", "read"} => consumer[c].batch # <<>>
  /\ faults \in 0 .. MaxFaults
  /\ published \subseteq Keys /\ lost \subseteq published
  /\ {effects, failures, excused} \subseteq [Keys -> Nat]

DeadLettered == {deadLetters[i].key : i \in DOMAIN deadLetters}

\* A worker's error does not lose a message (tests/streams/test_streams.py):
\* whatever stops or fails between two commands, a message of the group that has
\* not taken effect and is not a dead letter is still in the stream, undelivered
\* or pending.
NoMessageLost ==
  \A k \in published \ lost :
    \/ effects[k] > 0
    \/ k \in DeadLettered
    \/ \E i \in first .. Len(stream) : stream[i].key = k /\ Unfinished(i)

\* Beyond the faults that hit a message between its effect and its mark, no
\* number of redeliveries, reclaims and repeated publications of a key repeats
\* the effect more often than there are consumers working on it at once.
RepeatsAreAccountedFor ==
  \A k \in Keys : effects[k] <= excused[k] + Cardinality(Consumers)

\* A message becomes a dead letter after MaxRetries + 1 attempts have failed,
\* although copies of different attempts are in the stream at once.
DeadLetterAfterRetries ==
  \A k \in DeadLettered : failures[k] > MaxRetries

\* Every message of the group takes effect or becomes a dead letter, also when
\* the consumer that read it stops, loses its batch to an error, or has it
\* reclaimed by another one.
EventuallyHandled ==
  \A k \in Keys :
    k \in published ~> effects[k] > 0 \/ k \in DeadLettered \/ k \in lost

\* tests/streams/test_streams.py, test_idempotency_prevents_duplicate_actions:
\* a message delivered again does not create a second database action.
EffectOnce == \A k \in Keys : effects[k] <= 1
===============================================================================
